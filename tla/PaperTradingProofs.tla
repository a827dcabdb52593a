------------------------- MODULE PaperTradingProofs -------------------------
(***************************************************************************)
(* What holds of a paper account for any number of callers, intents and    *)
(* prices.  A fill that was flushed holds the ledger row, so that neither  *)
(* the position nor the keys of the orders change until it is committed;   *)
(* callers who take turns write on what they read.                         *)
(***************************************************************************)
EXTENDS PaperTrading, FiniteSetTheorems, WellFoundedInduction, TLAPS

ContextAt(held) == [CalmContext EXCEPT !.position = held]

(* What was decided is what the risk engine says of some price. *)
DecisionsInv ==
  /\ \A d \in decisions :
       /\ d.intent \in Intents /\ d.held \in Int
       /\ \E price \in Prices :
            d.decision = EvaluateOrderRisk(d.intent, ContextAt(d.held), Limits, price, price - 1)
  /\ \A d, e \in decisions : d.intent = e.intent => d = e

AsDecided(intent, quantity) ==
  \E d \in decisions : d.intent = intent /\ Approves(d.decision) /\ d.decision.quantity = quantity

OrdersInv ==
  /\ \A o \in orders : /\ o.intent \in Intents /\ o.quantity \in 1 .. o.intent.quantity
                       /\ AsDecided(o.intent, o.quantity)
  /\ \A o, p \in orders : o.intent.key = p.intent.key => o = p

AccountInv ==
  /\ overlap \in BOOLEAN /\ opened \in BOOLEAN
  /\ ledger \in [cash : Int, peak : Int]
  /\ position \in Positions

Fills ==
  [at : {"ledger read", "flushed"}, intent : Intents, quantity : Nat, price : Nat,
   cash : Int, position : Positions]

(* What an open transaction knows. *)
FillInv(w) ==
  txn[w].at \in {"ledger read", "flushed"} =>
    /\ txn[w] \in Fills
    /\ txn[w].quantity \in 1 .. txn[w].intent.quantity
    /\ AsDecided(txn[w].intent, txn[w].quantity)

FlushedInv(w) ==
  txn[w].at = "flushed" =>
    /\ OrdersWithKey(txn[w].intent.key) = {}
    /\ txn[w].position =
         UpdatePosition(position, txn[w].intent.side, txn[w].quantity, txn[w].price)

EvaluationInv(w) ==
  txn[w].at = "evaluating" => txn[w].intent \in Intents /\ txn[w].held \in Int

MarkInv(w) ==
  /\ txn[w].at = "marking" =>
       /\ txn[w].price \in Prices /\ txn[w].cash \in Int /\ txn[w].peak \in Int
       /\ overlap \/ (txn[w].cash = ledger.cash /\ txn[w].peak = ledger.peak)
  /\ txn[w].at = "marked" =>
       /\ txn[w].peak \in Int /\ txn[w].equity \in Int
       /\ overlap \/ /\ txn[w].peak = ledger.peak
                     /\ \E price \in Prices :
                          txn[w].equity = Equity(ledger.cash, position, price)

HolderInv ==
  /\ holder \in Workers \cup {NoWorker}
  /\ \A w \in Workers : (holder = w) <=> (txn[w].at = "flushed")

TurnsInv ==
  /\ txn = [w \in Workers |-> txn[w]]
  /\ overlap \/ \A v, w \in Workers : txn[v] # Closed /\ txn[w] # Closed => v = w

TxnInv(w) == FillInv(w) /\ FlushedInv(w) /\ EvaluationInv(w) /\ MarkInv(w)

IInv ==
  /\ DecisionsInv /\ OrdersInv /\ AccountInv /\ HolderInv /\ TurnsInv
  /\ \A w \in Workers : TxnInv(w)

-----------------------------------------------------------------------------
(* Arithmetic. *)

LEMMA DivNat ==
  ASSUME NEW x \in Nat, NEW y \in Nat \ {0}
  PROVE  x \div y \in Nat
OBVIOUS

LEMMA PartNat ==
  ASSUME NEW whole \in Nat, NEW part \in 1 .. whole
  PROVE  part \in Nat \ {0}
OBVIOUS

LEMMA ProductNat ==
  ASSUME NEW x \in Nat, NEW y \in Nat
  PROVE  x * y \in Nat
OBVIOUS

LEMMA UpdateFacts ==
  ASSUME NEW p \in Positions, NEW side \in {"BUY", "SELL"}, NEW quantity \in Nat \ {0},
         NEW price \in Nat
  PROVE  /\ UpdatePosition(p, side, quantity, price) \in Positions
         /\ UpdatePosition(p, side, quantity, price).quantity = p.quantity + Signed(side, quantity)
<1> DEFINE after == p.quantity + Signed(side, quantity)
           held == Size(p.quantity)
           closed == IF held < quantity THEN held ELSE quantity
           direction == IF p.quantity > 0 THEN 1 ELSE -1
           mean == (held * p.average + quantity * price) \div (held + quantity)
           gain == (price - p.average) * closed * direction
<1>1. /\ p.quantity \in Int /\ p.average \in Nat /\ p.realized \in Int /\ Charge \in Nat
      /\ after \in Int /\ held \in Nat /\ closed \in Int /\ direction \in Int
  BY PaperAssumption DEF Positions, Signed, Size
<1>2. mean \in Nat
  <2>1. held * p.average \in Nat /\ quantity * price \in Nat /\ held + quantity \in Nat \ {0}
    BY <1>1, ProductNat
  <2>2. held * p.average + quantity * price \in Nat
    BY <2>1
  <2> QED BY <2>1, <2>2, DivNat
<1>3. gain \in Int
  BY <1>1
<1> DEFINE average == IF after = 0 THEN 0
                      ELSE IF (after > 0) # (p.quantity > 0) THEN price ELSE p.average
<1>4. average \in Nat
  BY <1>1
<1>5. UpdatePosition(p, side, quantity, price) =
        IF SameDirection(p.quantity, Signed(side, quantity))
        THEN [quantity |-> after, average |-> mean, realized |-> p.realized - Charge]
        ELSE [quantity |-> after, average |-> average, realized |-> p.realized + gain - Charge]
  BY DEF UpdatePosition
<1> HIDE DEF after, mean, gain, average
<1>6. p.realized - Charge \in Int /\ p.realized + gain - Charge \in Int
  BY <1>1, <1>3
<1> QED BY <1>1, <1>2, <1>4, <1>5, <1>6 DEF Positions, after

(* An exit that is approved closes part or all of the position it was        *)
(* decided on.                                                               *)
LEMMA ExitFits ==
  ASSUME NEW i \in Intents, i.exit, NEW held \in Int, NEW price,
         Approves(EvaluateOrderRisk(i, ContextAt(held), Limits, price, price - 1))
  PROVE  LET q == EvaluateOrderRisk(i, ContextAt(held), Limits, price, price - 1).quantity
         IN /\ held # 0 /\ q <= Size(held)
            /\ i.side = IF held > 0 THEN "SELL" ELSE "BUY"
<1> DEFINE c == ContextAt(held)
<1>1. c.position = held
  BY PaperAssumption DEF ContextAt
<1> HIDE DEF c
<1>2. \A reasons : ~Approves(Rejected(reasons))
  BY DEF Approves, Rejected, Decision
<1>3. EvaluateOrderRisk(i, c, Limits, price, price - 1) = EvaluateExit(i, c)
      /\ Approves(EvaluateExit(i, c))
  BY <1>2 DEF EvaluateOrderRisk, c
<1>4. i.quantity \in Nat
  BY PaperAssumption
<1>5. /\ held # 0 /\ EvaluateExit(i, c).quantity <= Size(held)
      /\ i.side = IF held > 0 THEN "SELL" ELSE "BUY"
  BY <1>1, <1>2, <1>3, <1>4 DEF EvaluateExit, Decision, Absolute, Size
<1> QED BY <1>3, <1>5 DEF c

-----------------------------------------------------------------------------
(* Steps of one caller. *)

(* A step of w's transaction, of which t is left. *)
CallStep(w, t) == Begin(w, t) \/ (txn[w] # Closed /\ Continue(w, t))

LEMMA TurnFacts ==
  ASSUME TurnsInv, NEW w \in Workers, NEW t, CallStep(w, t), overlap' = overlap
  PROVE  /\ TurnsInv' /\ txn'[w] = t
         /\ \A v \in Workers \ {w} : txn'[v] = txn[v] /\ (overlap \/ txn[v].at = "closed")
<1>1. txn' = [txn EXCEPT ![w] = t]
  BY DEF CallStep, Begin, Continue
<1>2. txn' = [v \in Workers |-> IF v = w THEN t ELSE txn[v]]
  BY <1>1 DEF TurnsInv
<1>3. txn'[w] = t /\ \A v \in Workers \ {w} : txn'[v] = txn[v]
  BY <1>2
<1>4. ASSUME NEW v \in Workers \ {w}, ~overlap PROVE txn[v] = Closed
  BY <1>4 DEF CallStep, TurnsInv, Begin
<1>5. txn' = [v \in Workers |-> txn'[v]]
  BY <1>2
<1>6. overlap' \/ \A u, v \in Workers : txn'[u] # Closed /\ txn'[v] # Closed => u = v
  BY <1>3, <1>4
<1> QED BY <1>3, <1>4, <1>5, <1>6 DEF TurnsInv, Closed

(* A step that leaves the account alone keeps what the others know of it. *)
LEMMA AccountKept ==
  ASSUME IInv, NEW w \in Workers, NEW t, CallStep(w, t),
         UNCHANGED <<overlap, ledger, position, orders>>, opened' \in BOOLEAN,
         decisions \subseteq decisions', DecisionsInv',
         TxnInv(w)',
         holder' \in {holder, w, NoWorker},
         holder' = holder \/ holder \in {w, NoWorker},
         (holder' = w) <=> (t.at = "flushed")
  PROVE  IInv'
<1>1. /\ TurnsInv' /\ txn'[w] = t
      /\ \A v \in Workers \ {w} : txn'[v] = txn[v]
  BY TurnFacts DEF IInv
<1>2. \A i, q : AsDecided(i, q) => AsDecided(i, q)'
  BY DEF AsDecided
<1>3. OrdersInv' /\ AccountInv'
  BY <1>2 DEF IInv, OrdersInv, AccountInv
<1>4. HolderInv'
  BY <1>1, PaperAssumption DEF IInv, HolderInv
<1>5. ASSUME NEW v \in Workers \ {w} PROVE TxnInv(v)'
  <2>1. TxnInv(v) /\ txn'[v] = txn[v]
    BY <1>1 DEF IInv
  <2>2. FillInv(v)'
    BY <1>2, <2>1 DEF TxnInv, FillInv
  <2>3. FlushedInv(v)'
    BY <2>1 DEF TxnInv, FlushedInv, OrdersWithKey
  <2>4. EvaluationInv(v)' /\ MarkInv(v)'
    BY <2>1 DEF TxnInv, EvaluationInv, MarkInv
  <2> QED BY <2>2, <2>3, <2>4 DEF TxnInv
<1> QED BY <1>1, <1>3, <1>4, <1>5 DEF IInv

LEMMA DecisionsKept ==
  ASSUME DecisionsInv, UNCHANGED decisions
  PROVE  DecisionsInv'
BY DEF DecisionsInv, ContextAt

(* A transaction that ends knows nothing. *)
LEMMA EndKeeps ==
  ASSUME IInv, NEW w \in Workers, CallStep(w, Closed),
         UNCHANGED <<overlap, ledger, position, orders>>, opened' \in BOOLEAN,
         decisions \subseteq decisions', DecisionsInv',
         holder' = IF holder = w THEN NoWorker ELSE holder
  PROVE  IInv'
<1>1. txn'[w] = Closed /\ Closed.at = "closed" /\ w # NoWorker
  BY TurnFacts, PaperAssumption DEF IInv, Closed
<1>2. TxnInv(w)'
  BY <1>1 DEF TxnInv, FillInv, FlushedInv, EvaluationInv, MarkInv
<1> QED BY <1>1, <1>2, AccountKept

LEMMA EvaluationKeeps ==
  ASSUME IInv, NEW w \in Workers, NEW i \in Intents, BeginEvaluation(w, i)
  PROVE  IInv'
<1> DEFINE t == [at |-> "evaluating", intent |-> i,
                 held |-> IF i.exit THEN position.quantity ELSE 0]
<1>1. /\ CallStep(w, t) /\ txn[w] = Closed
      /\ UNCHANGED <<overlap, opened, ledger, position, orders, decisions, holder>>
  BY DEF BeginEvaluation, CallStep, Begin
<1>2. t.at = "evaluating" /\ t.intent \in Intents /\ t.held \in Int
  BY DEF IInv, AccountInv, Positions
<1> HIDE DEF t
<1>3. txn'[w] = t /\ holder # w
  BY <1>1, TurnFacts DEF IInv, HolderInv, Closed
<1>4. TxnInv(w)'
  BY <1>2, <1>3 DEF TxnInv, FillInv, FlushedInv, EvaluationInv, MarkInv
<1> QED BY <1>1, <1>2, <1>3, <1>4, AccountKept, DecisionsKept DEF IInv, AccountInv

LEMMA DecideKeeps ==
  ASSUME IInv, NEW w \in Workers, NEW price \in Prices, Decide(w, price)
  PROVE  IInv'
<1> DEFINE i == txn[w].intent
           h == txn[w].held
           d == EvaluateOrderRisk(i, ContextAt(h), Limits, price, price - 1)
           new == [intent |-> i, decision |-> d, held |-> h]
<1>1. /\ txn[w].at = "evaluating" /\ txn[w] # Closed /\ CallStep(w, Closed)
      /\ UNCHANGED <<overlap, opened, ledger, position, orders, holder>>
      /\ decisions' = IF DecisionsFor(i) # {} THEN decisions ELSE decisions \cup {new}
  BY DEF Decide, CallStep, End, Continue, Closed, ContextAt
<1>2. i \in Intents /\ h \in Int
  BY <1>1 DEF IInv, TxnInv, EvaluationInv
<1>3. new.intent = i /\ new.held = h /\ new.decision = d
  OBVIOUS
<1> HIDE DEF new
<1>4. DecisionsInv'
  <2>1. CASE DecisionsFor(i) # {}
    BY <1>1, <2>1, DecisionsKept DEF IInv
  <2>2. CASE DecisionsFor(i) = {}
    <3>1. \A e \in decisions : e.intent # i
      BY <2>2 DEF DecisionsFor
    <3>2. /\ \A e \in decisions' : e \in decisions \/ e = new
      BY <1>1
    <3>3. \A e, x \in decisions' : e.intent = x.intent => e = x
      BY <1>3, <3>1, <3>2 DEF IInv, DecisionsInv
    <3>4. ASSUME NEW e \in decisions'
          PROVE  /\ e.intent \in Intents /\ e.held \in Int
                 /\ \E p \in Prices :
                      e.decision = EvaluateOrderRisk(e.intent, ContextAt(e.held), Limits, p, p - 1)
      BY <1>2, <1>3, <3>2 DEF IInv, DecisionsInv
    <3> QED BY <3>3, <3>4 DEF DecisionsInv, ContextAt
  <2> QED BY <2>1, <2>2
<1>5. holder # w
  BY <1>1 DEF IInv, HolderInv
<1> QED BY <1>1, <1>4, <1>5, EndKeeps DEF IInv, AccountInv

LEMMA BeginFillKeeps ==
  ASSUME IInv, NEW w \in Workers, NEW d \in decisions, NEW price \in Prices, BeginFill(w, d, price)
  PROVE  IInv'
<1> DEFINE t == [at |-> "ledger read", intent |-> d.intent, quantity |-> d.decision.quantity,
                 price |-> FillPrice(d.intent.side, price), cash |-> ledger.cash,
                 position |-> NoPosition]
<1>1. /\ CallStep(w, t) /\ txn[w] = Closed /\ Approves(d.decision)
      /\ d.decision.quantity \in 1 .. d.intent.quantity
      /\ UNCHANGED <<overlap, opened, ledger, position, orders, decisions, holder>>
  BY DEF BeginFill, CallStep, Begin
<1>2. /\ d.intent \in Intents /\ ledger.cash \in Int /\ NoPosition \in Positions
      /\ d.intent.quantity \in Nat
  BY PaperAssumption DEF IInv, DecisionsInv, AccountInv, NoPosition, Positions
<1>3. FillPrice(d.intent.side, price) \in Nat
  BY PaperAssumption DEF FillPrice
<1>4. t \in Fills
  <2>1. d.decision.quantity \in Nat
    BY <1>1, <1>2, PartNat
  <2> QED BY <1>2, <1>3, <2>1 DEF Fills
<1>5. t.at = "ledger read" /\ t.quantity \in 1 .. t.intent.quantity
      /\ AsDecided(t.intent, t.quantity)
  BY <1>1 DEF AsDecided
<1> HIDE DEF t
<1>6. txn'[w] = t /\ holder # w
  BY <1>1, TurnFacts DEF IInv, HolderInv, Closed
<1>7. TxnInv(w)'
  BY <1>1, <1>4, <1>5, <1>6 DEF TxnInv, FillInv, FlushedInv, EvaluationInv, MarkInv, AsDecided
<1> QED BY <1>1, <1>5, <1>6, <1>7, AccountKept, DecisionsKept DEF IInv, AccountInv

LEMMA FlushKeeps ==
  ASSUME IInv, NEW w \in Workers, FlushFill(w)
  PROVE  IInv'
<1> DEFINE old == txn[w]
           after == UpdatePosition(position, old.intent.side, old.quantity, old.price)
           t == Flushed(old)
<1>1. /\ old.at = "ledger read" /\ holder = NoWorker
      /\ UNCHANGED <<overlap, opened, ledger, position, orders, decisions>>
  BY DEF FlushFill
<1>2. /\ old \in Fills /\ old.quantity \in 1 .. old.intent.quantity
      /\ AsDecided(old.intent, old.quantity)
  BY <1>1 DEF IInv, TxnInv, FillInv
<1>3. w # NoWorker /\ old # Closed
  <2>1. old # Closed
    <3>1. Closed.at = "closed"
      BY DEF Closed
    <3> QED BY <1>1, <3>1
  <2> QED BY <2>1, PaperAssumption
<1>4. CASE OrdersWithKey(old.intent.key) # {}
  <2>1. CallStep(w, Closed) /\ holder' = holder
    BY <1>1, <1>3, <1>4 DEF FlushFill, End, CallStep, Continue
  <2> QED BY <1>1, <1>3, <2>1, EndKeeps, DecisionsKept DEF IInv, AccountInv
<1>5. CASE OrdersWithKey(old.intent.key) = {}
  <2>1. CallStep(w, t) /\ holder' = w
    BY <1>1, <1>3, <1>5 DEF FlushFill, CallStep
  <2>2. /\ old.intent \in Intents /\ old.quantity \in Nat /\ old.price \in Nat
        /\ old.intent.quantity \in Nat
    BY <1>2, PaperAssumption DEF Fills
  <2>3. old.quantity \in Nat \ {0}
    BY <1>2, <2>2, PartNat
  <2>4. after \in Positions
    BY <2>2, <2>3, UpdateFacts, PaperAssumption DEF IInv, AccountInv
  <2>5. t = [at |-> "flushed", intent |-> old.intent, quantity |-> old.quantity,
             price |-> old.price, cash |-> old.cash, position |-> after]
    BY DEF Flushed
  <2> HIDE DEF after
  <2>6. old.cash \in Int
    BY <1>2 DEF Fills
  <2>7. t \in Fills
    BY <2>2, <2>4, <2>5, <2>6 DEF Fills
  <2>8. t.at = "flushed" /\ t.intent = old.intent /\ t.quantity = old.quantity
        /\ t.price = old.price /\ t.position = after
    BY <2>5
  <2> HIDE DEF t
  <2>9. txn'[w] = t
    BY <2>1, <1>1, TurnFacts DEF IInv
  <2>10. FillInv(w)'
    BY <1>1, <1>2, <2>7, <2>8, <2>9 DEF FillInv, AsDecided
  <2>11. FlushedInv(w)'
    BY <1>1, <1>5, <2>8, <2>9 DEF FlushedInv, OrdersWithKey, after
  <2>12. TxnInv(w)'
    BY <2>8, <2>9, <2>10, <2>11 DEF TxnInv, EvaluationInv, MarkInv
  <2> QED BY <1>1, <2>1, <2>8, <2>12, AccountKept, DecisionsKept DEF IInv, AccountInv
<1> QED BY <1>4, <1>5

(* What the commit of a fill does. *)
LEMMA CommitFacts ==
  ASSUME IInv, NEW w \in Workers, CommitFill(w)
  PROVE  LET intent == txn[w].intent
             quantity == txn[w].quantity
             price == txn[w].price
         IN /\ orders' = orders \cup {[intent |-> intent, quantity |-> quantity, price |-> price]}
            /\ OrdersWithKey(intent.key) = {}
            /\ intent \in Intents /\ quantity \in 1 .. intent.quantity
            /\ AsDecided(intent, quantity)
            /\ ledger' \in [cash : Int, peak : Int] /\ ledger'.peak = ledger.peak
            /\ position' \in Positions
            /\ position'.quantity = position.quantity + Signed(intent.side, quantity)
<1>1. txn[w].at = "flushed"
  BY DEF CommitFill
<1>2. /\ txn[w] \in Fills /\ txn[w].quantity \in 1 .. txn[w].intent.quantity
      /\ AsDecided(txn[w].intent, txn[w].quantity)
      /\ OrdersWithKey(txn[w].intent.key) = {}
      /\ txn[w].position =
           UpdatePosition(position, txn[w].intent.side, txn[w].quantity, txn[w].price)
  BY <1>1 DEF IInv, TxnInv, FillInv, FlushedInv
<1> DEFINE i == txn[w].intent
           q == txn[w].quantity
           p == txn[w].price
           cash == txn[w].cash + CashFlow(i.side, q, p)
<1>3. /\ i \in Intents /\ q \in Nat /\ p \in Nat /\ txn[w].cash \in Int
       /\ i.quantity \in Nat
  BY <1>2, PaperAssumption DEF Fills
<1>4. i \in Intents /\ q \in Nat \ {0} /\ p \in Nat /\ txn[w].cash \in Int
  BY <1>2, <1>3, PartNat
<1>5. i.side \in {"BUY", "SELL"} /\ position \in Positions
  BY <1>4, PaperAssumption DEF IInv, AccountInv
<1>6. Signed(i.side, q) \in Int /\ Charge \in Int
  BY <1>4, PaperAssumption DEF Signed
<1>7. cash \in Int
  BY <1>4, <1>6 DEF CashFlow
<1>8. ledger' = [ledger EXCEPT !.cash = cash] /\ position' = txn[w].position
      /\ orders' = orders \cup {[intent |-> i, quantity |-> q, price |-> p]}
  BY DEF CommitFill
<1> HIDE DEF cash
<1>9. ledger' \in [cash : Int, peak : Int] /\ ledger'.peak = ledger.peak
  BY <1>7, <1>8 DEF IInv, AccountInv
<1>10. position' = UpdatePosition(position, i.side, q, p)
  BY <1>2, <1>8
<1>11. /\ position' \in Positions
      /\ position'.quantity = position.quantity + Signed(i.side, q)
  <2> HIDE DEF i, q, p
  <2> QED BY <1>4, <1>5, <1>10, UpdateFacts
<1> QED BY <1>2, <1>4, <1>8, <1>9, <1>11

(* Whoever writes the account does so while the others, if callers take      *)
(* turns, have nothing open.                                                *)
LEMMA MarksKept ==
  ASSUME NEW v \in Workers, MarkInv(v), txn'[v] = txn[v], overlap' = overlap,
         overlap \/ txn[v].at = "closed"
  PROVE  MarkInv(v)'
<1>1. ASSUME overlap PROVE MarkInv(v)'
  <2>1. /\ txn[v].at = "marking" =>
             txn[v].price \in Prices /\ txn[v].cash \in Int /\ txn[v].peak \in Int
        /\ txn[v].at = "marked" => txn[v].peak \in Int /\ txn[v].equity \in Int
    BY DEF MarkInv
  <2>2. overlap'
    BY <1>1
  <2>3. ASSUME txn[v].at = "marking" PROVE MarkInv(v)'
    BY <2>1, <2>2, <2>3 DEF MarkInv
  <2>4. ASSUME txn[v].at # "marking" PROVE MarkInv(v)'
    BY <2>1, <2>2, <2>4 DEF MarkInv
  <2> QED BY <2>3, <2>4
<1>2. ASSUME txn[v].at = "closed" PROVE MarkInv(v)'
  BY <1>2 DEF MarkInv
<1> QED BY <1>1, <1>2

LEMMA CommitFillKeeps ==
  ASSUME IInv, NEW w \in Workers, CommitFill(w)
  PROVE  IInv'
<1> DEFINE i == txn[w].intent
           q == txn[w].quantity
           new == [intent |-> i, quantity |-> q, price |-> txn[w].price]
<1>1. /\ txn[w].at = "flushed" /\ End(w) /\ holder' = NoWorker
      /\ UNCHANGED <<overlap, opened, decisions>>
  BY DEF CommitFill
<1>2. /\ orders' = orders \cup {new} /\ OrdersWithKey(i.key) = {}
      /\ i \in Intents /\ q \in 1 .. i.quantity /\ AsDecided(i, q)
      /\ ledger' \in [cash : Int, peak : Int] /\ position' \in Positions
  BY CommitFacts
<1>3. new.intent = i /\ new.quantity = q
  OBVIOUS
<1> HIDE DEF new, i, q
<1>4. \A x, n : AsDecided(x, n) => AsDecided(x, n)'
  BY <1>1 DEF AsDecided
<1>5. OrdersInv'
  <2>1. \A o \in orders' : o \in orders \/ o = new
    BY <1>2
  <2>2. \A o \in orders : o.intent.key # i.key
    BY <1>2 DEF OrdersWithKey
  <2>3. \A o \in orders' : /\ o.intent \in Intents /\ o.quantity \in 1 .. o.intent.quantity
                           /\ AsDecided(o.intent, o.quantity)'
    BY <1>2, <1>3, <1>4, <2>1 DEF IInv, OrdersInv
  <2>4. \A o, x \in orders' : o.intent.key = x.intent.key => o = x
    BY <1>3, <2>1, <2>2 DEF IInv, OrdersInv
  <2> QED BY <2>3, <2>4 DEF OrdersInv
<1>6. AccountInv'
  BY <1>1, <1>2 DEF IInv, AccountInv
<1>7. Closed.at = "closed"
  BY DEF Closed
<1>8. CallStep(w, Closed)
  BY <1>1, <1>7 DEF CallStep, End, Continue
<1>9. /\ TurnsInv' /\ txn'[w] = Closed
      /\ \A v \in Workers \ {w} : txn'[v] = txn[v] /\ (overlap \/ txn[v].at = "closed")
  BY <1>1, <1>8, TurnFacts DEF IInv
<1>10. holder = w
  BY <1>1 DEF IInv, HolderInv
<1>11. HolderInv'
  BY <1>1, <1>7, <1>9, <1>10, PaperAssumption DEF IInv, HolderInv
<1>12. DecisionsInv'
  BY <1>1, DecisionsKept DEF IInv
<1>13. TxnInv(w)'
  BY <1>7, <1>9 DEF TxnInv, FillInv, FlushedInv, EvaluationInv, MarkInv
<1>14. ASSUME NEW v \in Workers \ {w} PROVE TxnInv(v)'
  <2>1. TxnInv(v) /\ txn'[v] = txn[v] /\ txn[v].at # "flushed"
        /\ (overlap \/ txn[v].at = "closed")
    BY <1>9, <1>10 DEF IInv, HolderInv
  <2>2. FillInv(v)'
    BY <1>4, <2>1 DEF TxnInv, FillInv
  <2>3. FlushedInv(v)' /\ EvaluationInv(v)'
    BY <2>1 DEF TxnInv, FlushedInv, EvaluationInv
  <2>4. MarkInv(v)'
    BY <1>1, <2>1, MarksKept DEF TxnInv
  <2> QED BY <2>2, <2>3, <2>4 DEF TxnInv
<1> QED BY <1>5, <1>6, <1>9, <1>11, <1>12, <1>13, <1>14 DEF IInv

LEMMA EquityInt ==
  ASSUME NEW cash \in Int, NEW p \in Positions, NEW price \in Int
  PROVE  Equity(cash, p, price) \in Int
BY DEF Equity, Positions

LEMMA BeginMarkKeeps ==
  ASSUME IInv, NEW w \in Workers, NEW price \in Prices, BeginMark(w, price)
  PROVE  IInv'
<1> DEFINE t == [at |-> "marking", price |-> price, cash |-> ledger.cash, peak |-> ledger.peak]
<1>1. /\ CallStep(w, t) /\ txn[w] = Closed
      /\ UNCHANGED <<overlap, opened, ledger, position, orders, decisions, holder>>
  BY DEF BeginMark, CallStep, Begin
<1>2. t.at = "marking" /\ t.price = price /\ t.cash = ledger.cash /\ t.peak = ledger.peak
  OBVIOUS
<1> HIDE DEF t
<1>3. txn'[w] = t /\ holder # w
  BY <1>1, TurnFacts DEF IInv, HolderInv, Closed
<1>4. ledger.cash \in Int /\ ledger.peak \in Int
  BY DEF IInv, AccountInv
<1>5. TxnInv(w)'
  BY <1>1, <1>2, <1>3, <1>4 DEF TxnInv, FillInv, FlushedInv, EvaluationInv, MarkInv
<1> QED BY <1>1, <1>2, <1>3, <1>5, AccountKept, DecisionsKept DEF IInv, AccountInv

LEMMA ReadPositionKeeps ==
  ASSUME IInv, NEW w \in Workers, ReadPosition(w)
  PROVE  IInv'
<1> DEFINE old == txn[w]
           equity == Equity(old.cash, position, old.price)
           t == [at |-> "marked", peak |-> old.peak, equity |-> equity]
<1>1. /\ old.at = "marking" /\ Continue(w, t)
      /\ UNCHANGED <<overlap, opened, ledger, position, orders, decisions, holder>>
  BY DEF ReadPosition
<1>2. /\ old.price \in Prices /\ old.cash \in Int /\ old.peak \in Int
      /\ overlap \/ (old.cash = ledger.cash /\ old.peak = ledger.peak)
  BY <1>1 DEF IInv, TxnInv, MarkInv
<1>3. equity \in Int
  <2>1. old.price \in Int
    BY <1>2, PaperAssumption
  <2>2. position \in Positions
    BY DEF IInv, AccountInv
  <2> QED BY <1>2, <2>1, <2>2, EquityInt
<1>4. overlap \/ \E price \in Prices : equity = Equity(ledger.cash, position, price)
  BY <1>2
<1>5. t.at = "marked" /\ t.peak = old.peak /\ t.equity = equity
  OBVIOUS
<1>6. CallStep(w, t)
  <2>1. Closed.at = "closed"
    BY DEF Closed
  <2> QED BY <1>1, <2>1 DEF CallStep
<1> HIDE DEF t, equity
<1>7. txn'[w] = t /\ holder # w
  BY <1>1, <1>6, TurnFacts DEF IInv, HolderInv
<1>8. MarkInv(w)'
  BY <1>1, <1>2, <1>3, <1>4, <1>5, <1>7 DEF MarkInv
<1>9. TxnInv(w)'
  BY <1>5, <1>7, <1>8 DEF TxnInv, FillInv, FlushedInv, EvaluationInv
<1> QED BY <1>1, <1>5, <1>6, <1>7, <1>9, AccountKept, DecisionsKept DEF IInv, AccountInv

LEMMA CommitMarkFacts ==
  ASSUME IInv, NEW w \in Workers, CommitMark(w)
  PROVE  /\ End(w) /\ txn[w].at = "marked"
         /\ UNCHANGED <<overlap, opened, position, orders, decisions, holder>>
         /\ ledger' \in [cash : Int, peak : Int]
         /\ snapshot'.equity = txn[w].equity
         /\ ~overlap =>
              /\ ledger'.cash = ledger.cash
              /\ ledger'.peak >= ledger.peak /\ ledger'.peak >= txn[w].equity
              /\ snapshot'.peak = ledger'.peak
<1> DEFINE peak == Larger(txn[w].peak, txn[w].equity)
<1>1. /\ txn[w].at = "marked" /\ End(w)
      /\ UNCHANGED <<overlap, opened, position, orders, decisions, holder>>
      /\ snapshot' = [equity |-> txn[w].equity, peak |-> peak]
      /\ ledger' = IF peak = txn[w].peak THEN ledger ELSE [ledger EXCEPT !.peak = peak]
  BY DEF CommitMark
<1>2. /\ txn[w].peak \in Int /\ txn[w].equity \in Int
      /\ overlap \/ txn[w].peak = ledger.peak
  BY <1>1 DEF IInv, TxnInv, MarkInv
<1>3. peak \in Int /\ peak >= txn[w].peak /\ peak >= txn[w].equity
  BY <1>2 DEF Larger
<1> HIDE DEF peak
<1>4. ledger \in [cash : Int, peak : Int]
  BY DEF IInv, AccountInv
<1>5. ledger' \in [cash : Int, peak : Int] /\ ledger'.cash = ledger.cash
      /\ ledger'.peak = IF peak = txn[w].peak THEN ledger.peak ELSE peak
  BY <1>1, <1>3, <1>4
<1>6. snapshot'.equity = txn[w].equity /\ snapshot'.peak = peak
  BY <1>1
<1>7. ~overlap => ledger'.peak = peak /\ ledger.peak = txn[w].peak
  BY <1>2, <1>5
<1> QED BY <1>1, <1>3, <1>5, <1>6, <1>7

LEMMA CommitMarkKeeps ==
  ASSUME IInv, NEW w \in Workers, CommitMark(w)
  PROVE  IInv'
<1>1. /\ End(w) /\ txn[w].at = "marked"
      /\ UNCHANGED <<overlap, opened, position, orders, decisions, holder>>
      /\ ledger' \in [cash : Int, peak : Int]
  BY CommitMarkFacts
<1>2. Closed.at = "closed"
  BY DEF Closed
<1>3. CallStep(w, Closed)
  BY <1>1, <1>2 DEF CallStep, End, Continue
<1>4. /\ TurnsInv' /\ txn'[w] = Closed
      /\ \A v \in Workers \ {w} : txn'[v] = txn[v] /\ (overlap \/ txn[v].at = "closed")
  BY <1>1, <1>3, TurnFacts DEF IInv
<1>5. \A x, n : AsDecided(x, n) => AsDecided(x, n)'
  BY <1>1 DEF AsDecided
<1>6. OrdersInv' /\ AccountInv' /\ DecisionsInv'
  BY <1>1, <1>5, DecisionsKept DEF IInv, OrdersInv, AccountInv
<1>7. HolderInv'
  BY <1>1, <1>2, <1>4 DEF IInv, HolderInv
<1>8. TxnInv(w)'
  BY <1>2, <1>4 DEF TxnInv, FillInv, FlushedInv, EvaluationInv, MarkInv
<1>9. ASSUME NEW v \in Workers \ {w} PROVE TxnInv(v)'
  <2>1. TxnInv(v) /\ txn'[v] = txn[v] /\ (overlap \/ txn[v].at = "closed")
    BY <1>4 DEF IInv
  <2>2. FillInv(v)'
    BY <1>5, <2>1 DEF TxnInv, FillInv
  <2>3. FlushedInv(v)' /\ EvaluationInv(v)'
    BY <1>1, <2>1 DEF TxnInv, FlushedInv, EvaluationInv, OrdersWithKey
  <2>4. MarkInv(v)'
    BY <1>1, <2>1, MarksKept DEF TxnInv
  <2> QED BY <2>2, <2>3, <2>4 DEF TxnInv
<1> QED BY <1>4, <1>6, <1>7, <1>8, <1>9 DEF IInv

LEMMA RollbackKeeps ==
  ASSUME IInv, NEW w \in Workers, Rollback(w)
  PROVE  IInv'
<1>1. /\ CallStep(w, Closed) /\ holder' = IF holder = w THEN NoWorker ELSE holder
      /\ UNCHANGED <<overlap, opened, ledger, position, orders, decisions>>
  BY DEF Rollback, CallStep, End, Continue
<1> QED BY <1>1, EndKeeps, DecisionsKept DEF IInv, AccountInv

LEMMA InitializeKeeps ==
  ASSUME IInv, NEW w \in Workers, InitializeAccount(w)
  PROVE  IInv'
<1>1. /\ CallStep(w, Closed) /\ txn[w] = Closed /\ opened' = TRUE
      /\ UNCHANGED <<overlap, ledger, position, orders, decisions, holder>>
  BY DEF InitializeAccount, CallStep, Begin
<1>2. holder # w
  BY <1>1 DEF IInv, HolderInv, Closed
<1> QED BY <1>1, <1>2, EndKeeps, DecisionsKept DEF IInv

LEMMA InitInv == Init => IInv
<1> SUFFICES ASSUME Init PROVE IInv
  OBVIOUS
<1>1. DecisionsInv /\ OrdersInv
  BY DEF Init, DecisionsInv, OrdersInv
<1>2. AccountInv
  <2>1. overlap \in BOOLEAN /\ opened \in BOOLEAN
    BY DEF Init
  <2>2. ledger \in [cash : Int, peak : Int]
    BY PaperAssumption DEF Init
  <2>3. position \in Positions
    BY DEF Init, Positions, NoPosition
  <2> QED BY <2>1, <2>2, <2>3 DEF AccountInv
<1>3. \A w \in Workers : txn[w] = Closed /\ txn[w].at = "closed"
  BY DEF Init, Closed
<1>4. HolderInv /\ TurnsInv
  BY <1>3, PaperAssumption DEF Init, HolderInv, TurnsInv
<1>5. \A w \in Workers : TxnInv(w)
  BY <1>3 DEF TxnInv, FillInv, FlushedInv, EvaluationInv, MarkInv
<1> QED BY <1>1, <1>2, <1>4, <1>5 DEF IInv

LEMMA StutterKeeps ==
  ASSUME IInv, UNCHANGED vars
  PROVE  IInv'
<1>1. /\ UNCHANGED overlap /\ UNCHANGED opened /\ UNCHANGED ledger /\ UNCHANGED position
      /\ UNCHANGED orders /\ UNCHANGED decisions /\ UNCHANGED holder /\ UNCHANGED txn
  BY DEF vars
<1>2. \A x, n : AsDecided(x, n) => AsDecided(x, n)'
  BY <1>1 DEF AsDecided
<1>3. DecisionsInv'
  BY <1>1, DecisionsKept DEF IInv
<1>4. OrdersInv' /\ AccountInv' /\ HolderInv' /\ TurnsInv'
  BY <1>1, <1>2 DEF IInv, OrdersInv, AccountInv, HolderInv, TurnsInv
<1>5. ASSUME NEW w \in Workers PROVE TxnInv(w)'
  <2>1. FillInv(w)'
    BY <1>1, <1>2 DEF IInv, TxnInv, FillInv
  <2>2. FlushedInv(w)' /\ EvaluationInv(w)' /\ MarkInv(w)'
    BY <1>1 DEF IInv, TxnInv, FlushedInv, EvaluationInv, MarkInv, OrdersWithKey
  <2> QED BY <2>1, <2>2 DEF TxnInv
<1> QED BY <1>3, <1>4, <1>5 DEF IInv

LEMMA StepKeeps ==
  ASSUME IInv, [Next]_vars
  PROVE  IInv'
<1>1. ASSUME NEW w \in Workers, CommitMark(w) PROVE IInv'
  BY <1>1, CommitMarkKeeps
<1>2. ASSUME NEW w \in Workers, InitializeAccount(w) PROVE IInv'
  BY <1>2, InitializeKeeps
<1>3. ASSUME NEW w \in Workers, NEW i \in Intents, BeginEvaluation(w, i) PROVE IInv'
  BY <1>3, EvaluationKeeps
<1>4. ASSUME NEW w \in Workers, NEW price \in Prices, Decide(w, price) PROVE IInv'
  BY <1>4, DecideKeeps
<1>5. ASSUME NEW w \in Workers, NEW d \in decisions, NEW price \in Prices,
             BeginFill(w, d, price)
      PROVE  IInv'
  BY <1>5, BeginFillKeeps
<1>6. ASSUME NEW w \in Workers, FlushFill(w) PROVE IInv'
  BY <1>6, FlushKeeps
<1>7. ASSUME NEW w \in Workers, CommitFill(w) PROVE IInv'
  BY <1>7, CommitFillKeeps
<1>8. ASSUME NEW w \in Workers, NEW price \in Prices, BeginMark(w, price) PROVE IInv'
  BY <1>8, BeginMarkKeeps
<1>9. ASSUME NEW w \in Workers, ReadPosition(w) PROVE IInv'
  BY <1>9, ReadPositionKeeps
<1>10. ASSUME NEW w \in Workers, Rollback(w) PROVE IInv'
  BY <1>10, RollbackKeeps
<1>11. ASSUME UNCHANGED vars PROVE IInv'
  BY <1>11, StutterKeeps
<1> QED BY <1>1, <1>2, <1>3, <1>4, <1>5, <1>6, <1>7, <1>8, <1>9, <1>10, <1>11 DEF Next

-----------------------------------------------------------------------------
(* The account stays in its types, whatever is rounded and however large the *)
(* losses, and whoever holds the ledger row has a flushed fill.              *)
THEOREM PaperTypeCorrect == Spec => []TypeOK
<1>1. IInv => TypeOK
  BY DEF IInv, DecisionsInv, OrdersInv, AccountInv, HolderInv, TypeOK
<1> QED BY <1>1, InitInv, StepKeeps, PTL DEF Spec

(* For any callers and intents: one key fills once, one intent is decided    *)
(* once, and what was filled is what was approved.                           *)
THEOREM FilledOnce == Spec => []FilledOnceAsDecided
<1>1. IInv => FilledOnceAsDecided
  BY DEF IInv, DecisionsInv, OrdersInv, AsDecided, FilledOnceAsDecided
<1> QED BY <1>1, InitInv, StepKeeps, PTL DEF Spec

(* A fill changes the position by what it trades. *)
LEMMA OnlyCommitsFill ==
  ASSUME IInv, Next, NEW o \in orders', o \notin orders
  PROVE  /\ o.intent \in Intents /\ o.quantity \in 1 .. o.intent.quantity
         /\ AsDecided(o.intent, o.quantity)
         /\ position.quantity \in Int
         /\ position'.quantity = position.quantity + Signed(o.intent.side, o.quantity)
<1>1. PICK w \in Workers : CommitFill(w)
  BY DEF Next, CommitMark, InitializeAccount, BeginEvaluation, Decide, BeginFill, FlushFill,
         BeginMark, ReadPosition, Rollback
<1> DEFINE i == txn[w].intent
           q == txn[w].quantity
           new == [intent |-> i, quantity |-> q, price |-> txn[w].price]
<1>2. /\ orders' = orders \cup {new}
      /\ i \in Intents /\ q \in 1 .. i.quantity /\ AsDecided(i, q)
      /\ position'.quantity = position.quantity + Signed(i.side, q)
  BY <1>1, CommitFacts
<1>3. new.intent = i /\ new.quantity = q
  OBVIOUS
<1> HIDE DEF new, i, q
<1>4. o = new
  BY <1>2
<1>5. position.quantity \in Int
  BY DEF IInv, AccountInv, Positions
<1> QED BY <1>2, <1>3, <1>4, <1>5

LEMMA ReductionArithmetic ==
  ASSUME NEW held \in Int, held # 0, NEW q \in Nat \ {0}, q <= Size(held), NEW side,
         side = IF held > 0 THEN "SELL" ELSE "BUY", NEW left, left = held + Signed(side, q)
  PROVE  /\ Size(left) = Size(held) - q
         /\ left = 0 \/ SameDirection(held, left)
<1>1. CASE held > 0
  BY <1>1 DEF Size, Signed, SameDirection
<1>2. CASE held < 0
  BY <1>2 DEF Size, Signed, SameDirection
<1> QED BY <1>1, <1>2

(* An exit filled against the position it was decided on closes part or all  *)
(* of it, whatever else was traded before and whoever races it.              *)
THEOREM FreshExitsReduce == Spec => FreshExitReduces
<1>1. ASSUME IInv, Next, NEW o \in orders', Exits(o),
             NEW d \in DecisionsFor(o.intent), d.held = position.quantity
      PROVE  ReducesPosition(o)
  <2>1. /\ o.intent.exit /\ o.intent \in Intents /\ o.quantity \in 1 .. o.intent.quantity
        /\ AsDecided(o.intent, o.quantity)
        /\ position.quantity \in Int
        /\ position'.quantity = position.quantity + Signed(o.intent.side, o.quantity)
    BY <1>1, OnlyCommitsFill DEF Exits
  <2>2. d \in decisions /\ d.intent = o.intent
    BY <1>1 DEF DecisionsFor
  <2>3. Approves(d.decision) /\ d.decision.quantity = o.quantity
    BY <1>1, <2>1, <2>2 DEF AsDecided, IInv, DecisionsInv
  <2>4. PICK price \in Prices :
          d.decision = EvaluateOrderRisk(o.intent, ContextAt(position.quantity), Limits,
                                         price, price - 1)
    BY <1>1, <2>2 DEF IInv, DecisionsInv
  <2>5. /\ position.quantity # 0 /\ o.quantity <= Size(position.quantity)
        /\ o.intent.side = IF position.quantity > 0 THEN "SELL" ELSE "BUY"
    BY <2>1, <2>3, <2>4, ExitFits
  <2>6. o.quantity \in Nat \ {0}
    BY <2>1, PartNat, PaperAssumption
  <2> QED BY <2>1, <2>5, <2>6, ReductionArithmetic DEF ReducesPosition
<1>2. IInv /\ Next => \A o \in orders' :
        /\ Exits(o)
        /\ \E d \in DecisionsFor(o.intent) : d.held = position.quantity
        => ReducesPosition(o)
  BY <1>1
<1> QED BY <1>2, InitInv, StepKeeps, PTL DEF Spec, FreshExitReduces

(* What a step may do to the peak and what it may report. *)
TrueMark ==
  ~overlap =>
    /\ ledger'.peak >= ledger.peak
    /\ snapshot' # NoSnapshot =>
         /\ snapshot'.peak = ledger'.peak /\ snapshot'.equity <= ledger'.peak
         /\ \E price \in Prices : snapshot'.equity = Equity(ledger'.cash, position, price)

(* Callers who take turns mark the account at an equity it has, and the peak *)
(* never falls and is never passed.                                          *)
THEOREM MarksAreTrue == Spec => MarksAreTrueInTurn
<1>1. ASSUME IInv, NEW w \in Workers, CommitMark(w) PROVE TrueMark
  <2>1. /\ snapshot'.equity = txn[w].equity /\ txn[w].at = "marked"
        /\ ~overlap =>
             /\ ledger'.cash = ledger.cash
             /\ ledger'.peak >= ledger.peak /\ ledger'.peak >= txn[w].equity
             /\ snapshot'.peak = ledger'.peak
    BY <1>1, CommitMarkFacts
  <2>2. /\ txn[w].equity \in Int
        /\ overlap \/ \E price \in Prices : txn[w].equity = Equity(ledger.cash, position, price)
    BY <1>1, <2>1 DEF IInv, TxnInv, MarkInv
  <2>3. ledger'.peak \in Int
    BY <1>1, CommitMarkFacts
  <2> QED BY <2>1, <2>2, <2>3 DEF TrueMark, Equity
<1>2. ASSUME IInv, Next, snapshot' = NoSnapshot PROVE TrueMark
  <2>1. ledger.peak \in Int
    BY <1>2 DEF IInv, AccountInv
  <2>2. ASSUME NEW w \in Workers, CommitFill(w) PROVE TrueMark
    BY <1>2, <2>1, <2>2, CommitFacts DEF TrueMark
  <2>3. ASSUME UNCHANGED ledger PROVE TrueMark
    BY <1>2, <2>1, <2>3 DEF TrueMark
  <2>4. ASSUME NEW w \in Workers, CommitMark(w) PROVE TrueMark
    BY <1>1, <1>2, <2>4
  <2>5. \/ UNCHANGED ledger
        \/ \E w \in Workers : CommitFill(w)
        \/ \E w \in Workers : CommitMark(w)
    BY <1>2 DEF Next, InitializeAccount, BeginEvaluation, Decide, BeginFill, FlushFill,
                BeginMark, ReadPosition, Rollback
  <2> QED BY <2>2, <2>3, <2>4, <2>5
<1>3. IInv /\ Next => TrueMark
  BY <1>1, <1>2 DEF Next
<1>4. TrueMark <=>
      (~overlap =>
        /\ ledger'.peak >= ledger.peak
        /\ snapshot' # NoSnapshot =>
             /\ snapshot'.peak = ledger'.peak /\ snapshot'.equity <= ledger'.peak
             /\ \E price \in Prices : snapshot'.equity = Equity(ledger'.cash, position, price))
  BY DEF TrueMark
<1> QED BY <1>3, <1>4, InitInv, StepKeeps, PTL DEF Spec, MarksAreTrueInTurn

-----------------------------------------------------------------------------
(* Sums over finite sets. *)

LEMMA LeastNumber ==
  ASSUME NEW S \in SUBSET Nat, S # {}
  PROVE  \E n \in S : \A m \in S : n <= m
<1>1. IsWellFoundedOn(OpToRel(<, Nat), Nat)
  BY NatLessThanWellFounded
<1>2. PICK n \in S : \A m \in S : ~(<<m, n>> \in OpToRel(<, Nat))
  BY <1>1, WFMin
<1>3. \A m \in S : ~(m < n)
  BY <1>2 DEF OpToRel
<1>4. n \in Nat /\ \A m \in S : m \in Nat /\ n <= m
  BY <1>3
<1> QED BY <1>4

(* A set of subsets that has each whose smaller ones it has, has them all.   *)
LEMMA SubsetInduction ==
  ASSUME NEW S, IsFiniteSet(S), NEW Good,
         \A s \in SUBSET S : (\A x \in s : s \ {x} \in Good) => s \in Good
  PROVE  SUBSET S \subseteq Good
<1> SUFFICES ASSUME NEW r \in SUBSET S, r \notin Good PROVE FALSE
  OBVIOUS
<1> DEFINE Sizes == {Cardinality(s) : s \in (SUBSET S) \ Good}
<1>1. \A s \in SUBSET S : IsFiniteSet(s) /\ Cardinality(s) \in Nat
  BY FS_Subset, FS_CardinalityType
<1>2. PICK n \in Sizes : \A m \in Sizes : n <= m
  <2>1. Cardinality(r) \in Sizes
    OBVIOUS
  <2>2. \A m \in Sizes : m \in Nat
    <3> SUFFICES ASSUME NEW s \in (SUBSET S) \ Good PROVE Cardinality(s) \in Nat
      OBVIOUS
    <3> QED BY <1>1
  <2> HIDE DEF Sizes
  <2> QED BY <2>1, <2>2, LeastNumber
<1>3. PICK s \in (SUBSET S) \ Good : n = Cardinality(s)
  OBVIOUS
<1>4. PICK x \in s : s \ {x} \notin Good
  <2>1. s \in SUBSET S /\ s \notin Good
    BY <1>3
  <2> QED BY <2>1
<1>5. s \ {x} \in (SUBSET S) \ Good /\ Cardinality(s \ {x}) = Cardinality(s) - 1
  BY <1>1, <1>3, <1>4, FS_RemoveElement
<1>6. Cardinality(s \ {x}) \in Sizes
  BY <1>5
<1> HIDE DEF Sizes
<1> QED BY <1>1, <1>2, <1>3, <1>5, <1>6

First(s) == CHOOSE x \in s : TRUE

(* f sums the values of v over each set of D. *)
Sums(f, D, v) ==
  f = [s \in D |-> IF s = {} THEN 0 ELSE v[First(s)] + f[s \ {First(s)}]]

LEMMA FirstIsMember ==
  ASSUME NEW s, s # {}
  PROVE  First(s) \in s
BY DEF First

LEMMA SumsExist ==
  ASSUME NEW S, IsFiniteSet(S), NEW v
  PROVE  \E f : Sums(f, SUBSET S, v)
<1> DEFINE D(n) == {s \in SUBSET S : Cardinality(s) <= n}
           Bad == {n \in Nat : ~\E f : Sums(f, D(n), v)}
<1>1. \A s \in SUBSET S : IsFiniteSet(s) /\ Cardinality(s) \in Nat
  BY FS_Subset, FS_CardinalityType
<1>2. SUFFICES Bad = {}
  <2>1. Cardinality(S) \in Nat /\ D(Cardinality(S)) = SUBSET S
    <3>1. Cardinality(S) \in Nat /\ \A s \in SUBSET S : Cardinality(s) <= Cardinality(S)
      BY FS_Subset, FS_CardinalityType
    <3> QED BY <3>1
  <2>2. ~(Cardinality(S) \in Bad)
    BY <1>2
  <2> HIDE DEF D
  <2>3. \E f : Sums(f, D(Cardinality(S)), v)
    BY <2>1, <2>2
  <2> QED BY <2>1, <2>3
<1>3. SUFFICES ASSUME Bad # {} PROVE FALSE
  OBVIOUS
<1>4. PICK n \in Bad : \A m \in Bad : n <= m
  <2>1. Bad \in SUBSET Nat
    OBVIOUS
  <2> HIDE DEF Bad
  <2> QED BY <1>3, <2>1, LeastNumber
<1>5. n \in Nat /\ ~\E f : Sums(f, D(n), v)
  OBVIOUS
<1>6. CASE n = 0
  <2>1. \A s \in D(n) : s = {}
    BY <1>1, <1>6, FS_EmptySet
  <2> HIDE DEF D
  <2>2. Sums([s \in D(n) |-> 0], D(n), v)
    BY <2>1 DEF Sums
  <2> QED BY <1>5, <2>2
<1>7. CASE n # 0
  <2>1. n - 1 \in Nat /\ n - 1 \notin Bad
    <3> HIDE DEF Bad
    <3>1. n - 1 \in Nat /\ ~(n <= n - 1)
      BY <1>5, <1>7
    <3> QED BY <1>4, <3>1
  <2>2. PICK f : Sums(f, D(n - 1), v)
    BY <2>1
  <2> DEFINE g == [s \in D(n) |-> IF s = {} THEN 0 ELSE v[First(s)] + f[s \ {First(s)}]]
  <2>3. ASSUME NEW s \in D(n), s # {}
        PROVE  f[s \ {First(s)}] = g[s \ {First(s)}]
    <3> DEFINE u == s \ {First(s)}
    <3>1. First(s) \in s /\ s \in SUBSET S /\ Cardinality(s) <= n
      BY <2>3, FirstIsMember
    <3>2. u \in SUBSET S /\ Cardinality(u) = Cardinality(s) - 1
      BY <1>1, <3>1, FS_RemoveElement
    <3>3. u \in D(n) /\ u \in D(n - 1)
      <4> HIDE DEF u
      <4>1. Cardinality(s) \in Nat /\ Cardinality(u) \in Nat
        BY <1>1, <3>1, <3>2
      <4>2. Cardinality(u) <= n - 1 /\ Cardinality(u) <= n
        BY <1>5, <3>1, <3>2, <4>1
      <4> QED BY <3>2, <4>2
    <3> HIDE DEF u, D
    <3>4. f[u] = IF u = {} THEN 0 ELSE v[First(u)] + f[u \ {First(u)}]
      BY <2>2, <3>3 DEF Sums
    <3>5. g[u] = IF u = {} THEN 0 ELSE v[First(u)] + f[u \ {First(u)}]
      BY <3>3
    <3> QED BY <3>4, <3>5 DEF u
  <2>4. g = [s \in D(n) |-> IF s = {} THEN 0 ELSE v[First(s)] + g[s \ {First(s)}]]
    <3> DEFINE r == g
    <3>1. \A s \in D(n) : s # {} => f[s \ {First(s)}] = r[s \ {First(s)}]
      BY <2>3
    <3>2. r = [s \in D(n) |-> IF s = {} THEN 0 ELSE v[First(s)] + f[s \ {First(s)}]]
      OBVIOUS
    <3> HIDE DEF g, r, D
    <3>3. r = [s \in D(n) |-> IF s = {} THEN 0 ELSE v[First(s)] + r[s \ {First(s)}]]
      BY <3>1, <3>2
    <3> QED BY <3>3 DEF r
  <2> HIDE DEF g, D
  <2>5. Sums(g, D(n), v)
    BY <2>4 DEF Sums
  <2> QED BY <1>5, <2>5
<1> QED BY <1>6, <1>7

(* Sums over one set agree on its subsets, are integers, and any member may  *)
(* be taken out first.                                                       *)
LEMMA SumsAreInt ==
  ASSUME NEW S, IsFiniteSet(S), NEW v, \A x \in S : v[x] \in Int,
         NEW f, Sums(f, SUBSET S, v)
  PROVE  \A s \in SUBSET S : f[s] \in Int
<1> DEFINE Good == {s \in SUBSET S : f[s] \in Int}
<1>1. ASSUME NEW s \in SUBSET S, \A x \in s : s \ {x} \in Good PROVE s \in Good
  <2>1. f[s] = IF s = {} THEN 0 ELSE v[First(s)] + f[s \ {First(s)}]
    BY DEF Sums
  <2>2. CASE s = {}
    BY <2>1, <2>2
  <2>3. CASE s # {}
    <3>1. First(s) \in s /\ First(s) \in S
      BY <2>3, FirstIsMember
    <3>2. f[s \ {First(s)}] \in Int /\ v[First(s)] \in Int
      BY <1>1, <3>1
    <3>3. f[s] \in Int
      BY <2>1, <2>3, <3>2
    <3> QED BY <3>3
  <2> QED BY <2>2, <2>3
<1>2. SUBSET S \subseteq Good
  <2> HIDE DEF Good
  <2> QED BY <1>1, SubsetInduction
<1> QED BY <1>2

SumsOfBoth(f, S, v, g, R, w) ==
  /\ IsFiniteSet(S) /\ Sums(f, SUBSET S, v)
  /\ S \subseteq R /\ Sums(g, SUBSET R, w)
  /\ \A x \in S : w[x] = v[x]

LEMMA SumsAgree ==
  ASSUME NEW f, NEW S, NEW v, NEW g, NEW R, NEW w, SumsOfBoth(f, S, v, g, R, w)
  PROVE  \A s \in SUBSET S : f[s] = g[s]
<1> USE DEF SumsOfBoth
<1> DEFINE Good == {s \in SUBSET S : f[s] = g[s]}
<1>1. ASSUME NEW s \in SUBSET S, \A x \in s : s \ {x} \in Good PROVE s \in Good
  <2>0. s \in SUBSET R
    OBVIOUS
  <2>1. /\ f[s] = IF s = {} THEN 0 ELSE v[First(s)] + f[s \ {First(s)}]
        /\ g[s] = IF s = {} THEN 0 ELSE w[First(s)] + g[s \ {First(s)}]
    BY <2>0 DEF Sums
  <2>2. CASE s = {}
    BY <2>1, <2>2
  <2>3. CASE s # {}
    <3>1. First(s) \in s /\ First(s) \in S
      BY <2>3, FirstIsMember
    <3>2. f[s \ {First(s)}] = g[s \ {First(s)}] /\ v[First(s)] = w[First(s)]
      BY <1>1, <3>1
    <3>3. f[s] = g[s]
      BY <2>1, <2>3, <3>2
    <3> QED BY <3>3
  <2> QED BY <2>2, <2>3
<1>2. SUBSET S \subseteq Good
  <2> HIDE DEF Good
  <2> QED BY <1>1, SubsetInduction
<1> QED BY <1>2

TakesOut(f, S, v) == \A s \in SUBSET S : \A x \in s : f[s] = v[x] + f[s \ {x}]

LEMMA SumsTakeOut ==
  ASSUME NEW S, IsFiniteSet(S), NEW v, \A x \in S : v[x] \in Int,
         NEW f, Sums(f, SUBSET S, v)
  PROVE  TakesOut(f, S, v)
<1> SUFFICES \A s \in SUBSET S : \A x \in s : f[s] = v[x] + f[s \ {x}]
  BY DEF TakesOut
<1> DEFINE Good == {s \in SUBSET S : \A x \in s : f[s] = v[x] + f[s \ {x}]}
<1>1. \A s \in SUBSET S : f[s] \in Int
  BY SumsAreInt
<1>2. ASSUME NEW s \in SUBSET S, \A x \in s : s \ {x} \in Good PROVE s \in Good
  <2> SUFFICES ASSUME NEW x \in s PROVE f[s] = v[x] + f[s \ {x}]
    OBVIOUS
  <2> DEFINE p == First(s)
             u == s \ {p}
             r == s \ {x}
  <2>1. p \in s /\ f[s] = v[p] + f[u]
    BY FirstIsMember DEF Sums
  <2>2. CASE x = p
    BY <2>1, <2>2
  <2>3. CASE x # p
    <3>1. f[u] = v[x] + f[u \ {x}]
      BY <1>2, <2>1, <2>3
    <3>2. f[r] = v[p] + f[r \ {p}]
      BY <1>2, <2>1, <2>3
    <3>3. u \ {x} = r \ {p} /\ u \ {x} \in SUBSET S
      OBVIOUS
    <3>4. v[x] \in Int /\ v[p] \in Int /\ f[u \ {x}] \in Int
      BY <1>1, <2>1, <3>3
    <3> HIDE DEF p, u, r
    <3>5. f[s] = v[x] + f[r]
      <4>1. \A a, b, c \in Int : a + (b + c) = b + (a + c)
        OBVIOUS
      <4>2. f[s] = v[p] + (v[x] + f[u \ {x}]) /\ f[r] = v[p] + f[u \ {x}]
        BY <2>1, <3>1, <3>2, <3>3
      <4> QED BY <3>4, <4>1, <4>2
    <3> QED BY <3>5 DEF r
  <2> QED BY <2>2, <2>3
<1>3. SUBSET S \subseteq Good
  <2> HIDE DEF Good
  <2> QED BY <1>2, SubsetInduction
<1> QED BY <1>3

(* The sum of v over S. *)
Total(S, v) == (CHOOSE f : Sums(f, SUBSET S, v))[S]

LEMMA TotalFacts ==
  ASSUME NEW S, IsFiniteSet(S), NEW v, \A x \in S : v[x] \in Int
  PROVE  /\ Total(S, v) \in Int
         /\ S = {} => Total(S, v) = 0
<1> DEFINE f == CHOOSE f : Sums(f, SUBSET S, v)
<1>1. Sums(f, SUBSET S, v)
  BY SumsExist
<1>2. Total(S, v) = f[S]
  BY DEF Total
<1> HIDE DEF f
<1>3. f[S] \in Int
  BY <1>1, SumsAreInt
<1>4. S = {} => f[S] = 0
  BY <1>1 DEF Sums
<1> QED BY <1>2, <1>3, <1>4

OneMore(S, o, R, v, w) ==
  /\ IsFiniteSet(S) /\ o \notin S /\ R = S \cup {o}
  /\ \A x \in S : w[x] = v[x]
  /\ \A x \in R : w[x] \in Int

LEMMA TotalAdds ==
  ASSUME NEW S, NEW o, NEW R, NEW v, NEW w, OneMore(S, o, R, v, w)
  PROVE  Total(R, w) = Total(S, v) + w[o]
<1> USE DEF OneMore
<1> DEFINE f == CHOOSE f : Sums(f, SUBSET S, v)
           g == CHOOSE g : Sums(g, SUBSET R, w)
<1>1. Sums(f, SUBSET S, v)
  BY SumsExist
<1>2. IsFiniteSet(R)
  BY FS_AddElement
<1>3. Sums(g, SUBSET R, w)
  BY <1>2, SumsExist
<1>4. Total(S, v) = f[S] /\ Total(R, w) = g[R]
  BY DEF Total
<1> HIDE DEF f, g
<1>5. g[R] = w[o] + g[S]
  <2>1. R \in SUBSET R /\ o \in R /\ R \ {o} = S
    OBVIOUS
  <2>2. \A x \in R : w[x] \in Int
    OBVIOUS
  <2> HIDE DEF OneMore
  <2>3. TakesOut(g, R, w)
    BY <1>2, <1>3, <2>2, SumsTakeOut
  <2> QED BY <2>1, <2>3 DEF TakesOut
<1>6. f[S] = g[S]
  <2>1. S \subseteq R /\ S \in SUBSET S
    OBVIOUS
  <2>2. \A s \in SUBSET S : f[s] = g[s]
    <3>1. SumsOfBoth(f, S, v, g, R, w)
      BY <1>1, <1>3, <2>1 DEF SumsOfBoth
    <3> QED BY <3>1, SumsAgree
  <2> QED BY <2>1, <2>2
<1>7. g[S] \in Int /\ w[o] \in Int
  <2>1. S \in SUBSET R /\ o \in R
    OBVIOUS
  <2>2. \A s \in SUBSET R : g[s] \in Int
    BY <1>2, <1>3, SumsAreInt
  <2> QED BY <2>1, <2>2
<1>8. \A a, b \in Int : a + b = b + a
  OBVIOUS
<1>9. Total(R, w) = w[o] + Total(S, v)
  BY <1>4, <1>5, <1>6
<1>10. Total(S, v) \in Int
  BY <1>4, <1>6, <1>7
<1> QED BY <1>7, <1>8, <1>9, <1>10

LEMMA TotalIsTheSum ==
  ASSUME NEW S, IsFiniteSet(S), NEW v, NEW f, Sums(f, SUBSET S, v)
  PROVE  f[S] = Total(S, v)
<1> DEFINE g == CHOOSE g : Sums(g, SUBSET S, v)
<1>1. Sums(g, SUBSET S, v) /\ Total(S, v) = g[S]
  BY SumsExist DEF Total
<1> HIDE DEF g
<1>2. SumsOfBoth(f, S, v, g, S, v)
  BY <1>1 DEF SumsOfBoth
<1>3. f[S] = g[S]
  BY <1>2, SumsAgree
<1> QED BY <1>1, <1>3

-----------------------------------------------------------------------------
(* The books. *)

Quantities(S) == [o \in S |-> Signed(o.intent.side, o.quantity)]
Flows(S) == [o \in S |-> CashFlow(o.intent.side, o.quantity, o.price)]

LEMMA QuantitySum ==
  LET Value(o) == Signed(o.intent.side, o.quantity)
  IN IsFiniteSet(orders) => SumOver(Value) = Total(orders, Quantities(orders))
<1> DEFINE Value(o) == Signed(o.intent.side, o.quantity)
           v == Quantities(orders)
           Step(f) == [s \in SUBSET orders |->
                         IF s = {} THEN 0 ELSE Value(First(s)) + f[s \ {First(s)}]]
           iter == CHOOSE f : f = Step(f)
<1> SUFFICES ASSUME IsFiniteSet(orders)
             PROVE  MapThenSumSet(Value, orders) = Total(orders, v)
  BY DEF SumOver
<1>1. ASSUME NEW f PROVE f = Step(f) <=> Sums(f, SUBSET orders, v)
  <2>1. \A s \in SUBSET orders : s # {} => v[First(s)] = Value(First(s))
    BY FirstIsMember DEF Quantities
  <2> HIDE DEF v, Value
  <2>2. Step(f) = [s \in SUBSET orders |->
                     IF s = {} THEN 0 ELSE v[First(s)] + f[s \ {First(s)}]]
    BY <2>1
  <2> HIDE DEF Step
  <2> QED BY <2>2 DEF Sums
<1>2. iter = Step(iter)
  <2>1. \E f : f = Step(f)
    BY <1>1, SumsExist
  <2> HIDE DEF Step
  <2> QED BY <2>1
<1>3. MapThenSumSet(Value, orders) = iter[orders]
  BY DEF MapThenSumSet, MapThenFoldSet, First
<1> DEFINE i == iter
<1> HIDE DEF iter, Step, v
<1>4. Sums(i, SUBSET orders, v)
  BY <1>1, <1>2
<1>5. i[orders] = Total(orders, v)
  BY <1>4, TotalIsTheSum
<1> QED BY <1>3, <1>5

LEMMA FlowSum ==
  LET Value(o) == CashFlow(o.intent.side, o.quantity, o.price)
  IN IsFiniteSet(orders) => SumOver(Value) = Total(orders, Flows(orders))
<1> DEFINE Value(o) == CashFlow(o.intent.side, o.quantity, o.price)
           v == Flows(orders)
           Step(f) == [s \in SUBSET orders |->
                         IF s = {} THEN 0 ELSE Value(First(s)) + f[s \ {First(s)}]]
           iter == CHOOSE f : f = Step(f)
<1> SUFFICES ASSUME IsFiniteSet(orders)
             PROVE  MapThenSumSet(Value, orders) = Total(orders, v)
  BY DEF SumOver
<1>1. ASSUME NEW f PROVE f = Step(f) <=> Sums(f, SUBSET orders, v)
  <2>1. \A s \in SUBSET orders : s # {} => v[First(s)] = Value(First(s))
    BY FirstIsMember DEF Flows
  <2> HIDE DEF v, Value
  <2>2. Step(f) = [s \in SUBSET orders |->
                     IF s = {} THEN 0 ELSE v[First(s)] + f[s \ {First(s)}]]
    BY <2>1
  <2> HIDE DEF Step
  <2> QED BY <2>2 DEF Sums
<1>2. iter = Step(iter)
  <2>1. \E f : f = Step(f)
    BY <1>1, SumsExist
  <2> HIDE DEF Step
  <2> QED BY <2>1
<1>3. MapThenSumSet(Value, orders) = iter[orders]
  BY DEF MapThenSumSet, MapThenFoldSet, First
<1> DEFINE i == iter
<1> HIDE DEF iter, Step, v
<1>4. Sums(i, SUBSET orders, v)
  BY <1>1, <1>2
<1>5. i[orders] = Total(orders, v)
  BY <1>4, TotalIsTheSum
<1> QED BY <1>3, <1>5

(* What the books are short of after a fill, compared with before.           *)
Gap(before, after, side, quantity, price) ==
  (after.quantity * after.average - after.realized) -
    (before.quantity * before.average - before.realized) - Signed(side, quantity) * price - Charge

IsExact(p, side, quantity, price) ==
  SameDirection(p.quantity, Signed(side, quantity)) =>
    (Size(p.quantity) * p.average + quantity * price) % (Size(p.quantity) + quantity) = 0

(* Whatever a fill does to a position, the books lose by it at most what the *)
(* rounding of the average takes: less than a unit for each unit held.       *)
LEMMA FillBalances ==
  ASSUME NEW p \in Positions, NEW side \in {"BUY", "SELL"}, NEW quantity \in Nat \ {0},
         NEW price \in Nat
  PROVE  LET gap == Gap(p, UpdatePosition(p, side, quantity, price), side, quantity, price)
         IN /\ gap \in Int
            /\ IsExact(p, side, quantity, price) => gap = 0
            /\ gap # 0 => Size(gap) < Size(p.quantity + Signed(side, quantity))
<1> DEFINE h == p.quantity
           a == p.average
           r == p.realized
           d == Signed(side, quantity)
           u == UpdatePosition(p, side, quantity, price)
           gap == Gap(p, u, side, quantity, price)
<1>1. h \in Int /\ a \in Nat /\ r \in Int /\ Charge \in Nat
  BY PaperAssumption DEF Positions
<1>2. d \in Int /\ (d = quantity \/ d = -quantity) /\ d # 0
  BY DEF Signed
<1>3. CASE SameDirection(h, d)
  <2> DEFINE D == Size(h) + quantity
             N == Size(h) * a + quantity * price
             m == N \div D
  <2>1. u.quantity = h + d /\ u.average = m /\ u.realized = r - Charge
    BY <1>3 DEF UpdatePosition
  <2>2. D \in Nat /\ D > 0 /\ Size(h) \in Nat
    BY <1>1 DEF Size
  <2>3. N \in Nat
    BY <1>1, <2>2, ProductNat
  <2> DEFINE q == D * m
  <2>4. m \in Int /\ q \in Int /\ q <= N /\ N < q + D /\ (N % D = 0 => N = q)
    <3> HIDE DEF D, N
    <3>1. m \in Int /\ D * m <= N /\ N < D * m + D /\ N % D = N - D * m
      BY <2>2, <2>3
    <3> HIDE DEF m
    <3> QED BY <2>2, <2>3, <3>1
  <2>5. gap = (h + d) * m - h * a - d * price
    <3> HIDE DEF m
    <3> QED BY <1>1, <1>2, <2>1, <2>4 DEF Gap
  <2>6. \/ h >= 0 /\ d = quantity /\ Size(h) = h
        \/ h <= 0 /\ d = -quantity /\ Size(h) = -h
    BY <1>1, <1>2, <1>3 DEF SameDirection, Size
  <2>7. CASE h >= 0 /\ d = quantity /\ Size(h) = h
    <3>1. h + d = D /\ N = h * a + d * price
      BY <1>1, <2>7
    <3>2. gap = q - N
      <4>1. (h + d) * m = q
        BY <3>1
      <4>2. h * a \in Int /\ d * price \in Int
        BY <1>1, <1>2
      <4> HIDE DEF q, m, N
      <4> QED BY <2>4, <2>5, <3>1, <4>1, <4>2
    <3>3. Size(h + d) = D
      BY <2>2, <3>1 DEF Size
    <3> HIDE DEF q, N, D, m, gap
    <3>4. gap \in Int /\ (N % D = 0 => gap = 0) /\ (gap # 0 => Size(gap) < D)
      BY <2>2, <2>3, <2>4, <3>2 DEF Size
    <3> QED BY <1>3, <3>3, <3>4 DEF IsExact, N, D, gap
  <2>8. CASE h <= 0 /\ d = -quantity /\ Size(h) = -h
    <3>1. h + d = -D /\ N = -(h * a) - d * price
      <4>1. (-h) * a = -(h * a) /\ quantity * price = -(d * price)
        BY <1>1, <2>8
      <4>2. h * a \in Int /\ d * price \in Int
        BY <1>1, <1>2
      <4> QED BY <1>1, <2>8, <4>1, <4>2
    <3>2. gap = N - q
      <4>1. (h + d) * m = -q
        <5> HIDE DEF D, m
        <5> QED BY <2>2, <2>4, <3>1
      <4>2. h * a \in Int /\ d * price \in Int
        BY <1>1, <1>2
      <4> HIDE DEF q, m, N
      <4> QED BY <2>4, <2>5, <3>1, <4>1, <4>2
    <3>3. Size(h + d) = D
      <4> HIDE DEF D
      <4> QED BY <2>2, <3>1 DEF Size
    <3> HIDE DEF q, N, D, m, gap
    <3>4. gap \in Int /\ (N % D = 0 => gap = 0) /\ (gap # 0 => Size(gap) < D)
      BY <2>2, <2>3, <2>4, <3>2 DEF Size
    <3> QED BY <1>3, <3>3, <3>4 DEF IsExact, N, D, gap
  <2> QED BY <2>6, <2>7, <2>8
<1>4. CASE ~SameDirection(h, d)
  <2> DEFINE after == h + d
             held == Size(h)
             closed == IF held < quantity THEN held ELSE quantity
             direction == IF h > 0 THEN 1 ELSE -1
             average == IF after = 0 THEN 0 ELSE IF (after > 0) # (h > 0) THEN price ELSE a
             gain == (price - a) * closed * direction
  <2>1. u.quantity = after /\ u.average = average /\ u.realized = r + gain - Charge
    BY <1>4 DEF UpdatePosition
  <2>2. \/ h > 0 /\ d = -quantity /\ held = h /\ direction = 1
        \/ h < 0 /\ d = quantity /\ held = -h /\ direction = -1
    BY <1>1, <1>2, <1>4 DEF SameDirection, Size
  <2>3. closed \in Int /\ direction \in Int /\ average \in Int
    BY <1>1, <2>2
  <2>4. gap = after * average - gain - h * a - d * price
    <3>1. gain \in Int /\ after * average \in Int
      <4> HIDE DEF closed, direction, average
      <4>1. (price - a) * closed \in Int
        BY <1>1, <2>3
      <4> QED BY <1>1, <1>2, <2>3, <4>1
    <3> HIDE DEF gain, average, after
    <3> QED BY <1>1, <1>2, <2>1, <3>1 DEF Gap
  <2>5. after * average - gain - h * a - d * price = 0
    <3>1. CASE after = 0
      <4>1. closed = quantity /\ average = 0 /\ closed * direction = h /\ d = -h
        BY <1>1, <1>2, <2>2, <3>1
      <4> HIDE DEF closed, direction, average, after
      <4>2. gain = (price - a) * h
        BY <1>1, <2>3, <4>1
      <4> HIDE DEF gain
      <4> QED BY <1>1, <1>2, <3>1, <4>1, <4>2
    <3>2. CASE after # 0 /\ (after > 0) # (h > 0)
      <4>1. closed * direction = h /\ average = price
        BY <1>1, <1>2, <2>2, <3>2
      <4> HIDE DEF closed, direction, average
      <4>2. gain = (price - a) * h
        BY <1>1, <2>3, <4>1
      <4> HIDE DEF gain
      <4> QED BY <1>1, <1>2, <4>1, <4>2
    <3>3. CASE after # 0 /\ (after > 0) = (h > 0)
      <4>1. closed * direction = -d /\ average = a
        BY <1>1, <1>2, <2>2, <3>3
      <4> HIDE DEF closed, direction, average
      <4>2. gain = (price - a) * (-d)
        BY <1>1, <1>2, <2>3, <4>1
      <4> HIDE DEF gain
      <4> QED BY <1>1, <1>2, <4>1, <4>2
    <3> QED BY <3>1, <3>2, <3>3
  <2> QED BY <2>4, <2>5
<1> QED BY <1>3, <1>4

(* The orders are finite and what is held is what they add up to.            *)
SumsInv ==
  /\ IsFiniteSet(orders)
  /\ \A o \in orders : o.price \in Nat
  /\ position.quantity = Total(orders, Quantities(orders))

(* The cash, as long as callers take turns: a fill knows the balance.        *)
Reading == {"ledger read", "flushed"}

CashInv ==
  ~overlap =>
    /\ ledger.cash = InitialCash + Total(orders, Flows(orders))
    /\ \A w \in Workers : txn[w].at \in Reading => txn[w].cash = ledger.cash

OrderFacts(o) ==
  /\ o.intent.side \in {"BUY", "SELL"} /\ o.quantity \in Nat \ {0} /\ o.price \in Nat

LEMMA OrdersAreTyped ==
  ASSUME OrdersInv, SumsInv, NEW o \in orders
  PROVE  OrderFacts(o)
<1>1. o.intent \in Intents /\ o.quantity \in 1 .. o.intent.quantity /\ o.price \in Nat
  BY DEF OrdersInv, SumsInv
<1>2. o.intent.quantity \in Nat
  BY <1>1, PaperAssumption
<1> QED BY <1>1, <1>2, PartNat, PaperAssumption DEF OrderFacts

LEMMA ValuesAreInt ==
  ASSUME NEW o, OrderFacts(o)
  PROVE  /\ Signed(o.intent.side, o.quantity) \in Int
         /\ CashFlow(o.intent.side, o.quantity, o.price) \in Int
<1>1. Signed(o.intent.side, o.quantity) \in Int /\ Charge \in Int
  BY PaperAssumption DEF OrderFacts, Signed
<1>2. o.price \in Int
  BY DEF OrderFacts
<1>3. \A d, p, c \in Int : -d * p - c \in Int
  OBVIOUS
<1>4. -Signed(o.intent.side, o.quantity) * o.price - Charge \in Int
  BY <1>1, <1>2, <1>3
<1> QED BY <1>1, <1>4 DEF CashFlow

(* The fill that is committed. *)
NewOrder(w) ==
  [intent |-> txn[w].intent, quantity |-> txn[w].quantity, price |-> txn[w].price]

LEMMA CommitOfFill ==
  ASSUME IInv, NEW w \in Workers, CommitFill(w)
  PROVE  LET o == NewOrder(w)
         IN /\ OrderFacts(o) /\ o \notin orders /\ orders' = orders \cup {o}
            /\ position \in Positions
            /\ position' = UpdatePosition(position, o.intent.side, o.quantity, o.price)
            /\ position'.quantity = position.quantity + Signed(o.intent.side, o.quantity)
            /\ ledger'.cash = txn[w].cash + CashFlow(o.intent.side, o.quantity, o.price)
            /\ txn[w].cash \in Int
<1> DEFINE o == NewOrder(w)
<1>1. o.intent = txn[w].intent /\ o.quantity = txn[w].quantity /\ o.price = txn[w].price
  BY DEF NewOrder
<1>2. txn[w].at = "flushed" /\ txn[w] \in Fills
  BY DEF CommitFill, IInv, TxnInv, FillInv
<1>3. /\ orders' = orders \cup {o} /\ OrdersWithKey(o.intent.key) = {}
      /\ o.intent \in Intents /\ o.quantity \in 1 .. o.intent.quantity
      /\ position'.quantity = position.quantity + Signed(o.intent.side, o.quantity)
  BY <1>1, CommitFacts DEF NewOrder
<1>4. o.intent.quantity \in Nat /\ o.intent.side \in {"BUY", "SELL"}
  BY <1>3, PaperAssumption
<1>5. OrderFacts(o)
  BY <1>1, <1>2, <1>3, <1>4, PartNat DEF OrderFacts, Fills
<1>6. o \notin orders
  BY <1>3 DEF OrdersWithKey
<1>7. position' = UpdatePosition(position, o.intent.side, o.quantity, o.price)
  BY <1>1, <1>2 DEF CommitFill, IInv, TxnInv, FlushedInv
<1>8. ledger'.cash = txn[w].cash + CashFlow(o.intent.side, o.quantity, o.price)
  BY <1>1 DEF CommitFill, IInv, AccountInv
<1> HIDE DEF o
<1> QED BY <1>2, <1>3, <1>5, <1>6, <1>7, <1>8 DEF IInv, AccountInv, Fills, o

(* Only a commit of a fill changes what was filled, what is held, or cash.   *)
LEMMA OnlyFillsMoveCash ==
  ASSUME IInv, [Next]_vars, ~\E w \in Workers : CommitFill(w)
  PROVE  UNCHANGED <<orders, position, overlap>> /\ ledger'.cash = ledger.cash
<1>1. ASSUME NEW w \in Workers, CommitMark(w)
      PROVE  UNCHANGED <<orders, position, overlap>> /\ ledger'.cash = ledger.cash
  BY <1>1 DEF CommitMark, IInv, AccountInv
<1> QED
  BY <1>1 DEF Next, vars, InitializeAccount, BeginEvaluation, Decide, BeginFill, FlushFill,
              BeginMark, ReadPosition, Rollback

LEMMA SumsStep ==
  ASSUME IInv, SumsInv, [Next]_vars
  PROVE  SumsInv'
<1>1. ASSUME NEW w \in Workers, CommitFill(w) PROVE SumsInv'
  <2> DEFINE o == NewOrder(w)
             v == Quantities(orders)
             u == Quantities(orders')
  <2>1. /\ OrderFacts(o) /\ o \notin orders /\ orders' = orders \cup {o}
        /\ position'.quantity = position.quantity + Signed(o.intent.side, o.quantity)
    BY <1>1, CommitOfFill
  <2> HIDE DEF o
  <2>2. IsFiniteSet(orders) /\ IsFiniteSet(orders')
    BY <2>1, FS_AddElement DEF SumsInv
  <2>3. \A x \in orders' : OrderFacts(x)
    BY <2>1, OrdersAreTyped DEF IInv
  <2>4. /\ \A x \in orders : u[x] = v[x]
        /\ \A x \in orders' : u[x] \in Int
        /\ u[o] = Signed(o.intent.side, o.quantity)
    BY <2>1, <2>3, ValuesAreInt DEF Quantities
  <2> HIDE DEF u, v
  <2>5. Total(orders', u) = Total(orders, v) + u[o]
    <3>1. OneMore(orders, o, orders', v, u)
      BY <2>1, <2>2, <2>4 DEF OneMore
    <3> QED BY <3>1, TotalAdds
  <2>6. position'.quantity = Total(orders', u)
    BY <2>1, <2>4, <2>5 DEF SumsInv, v
  <2> QED BY <2>2, <2>3, <2>6 DEF SumsInv, OrderFacts, u
<1>2. ASSUME ~\E w \in Workers : CommitFill(w) PROVE SumsInv'
  BY <1>2, OnlyFillsMoveCash DEF SumsInv
<1> QED BY <1>1, <1>2

LEMMA SumsHold == Spec => [](IInv /\ SumsInv)
<1>1. Init => SumsInv
  <2> SUFFICES ASSUME Init PROVE SumsInv
    OBVIOUS
  <2>1. orders = {} /\ position.quantity = 0 /\ IsFiniteSet({})
    BY FS_EmptySet DEF Init, NoPosition
  <2>2. Total({}, Quantities({})) = 0
    BY <2>1, TotalFacts
  <2> QED BY <2>1, <2>2 DEF SumsInv
<1> QED BY <1>1, InitInv, StepKeeps, SumsStep, PTL DEF Spec

(* The position is the sum of the fills, for any number of callers, orders   *)
(* and prices, whatever overlaps.                                            *)
THEOREM PositionAlwaysAddsUp == Spec => []PositionAddsUp
<1>1. SumsInv => PositionAddsUp
  BY QuantitySum DEF SumsInv, PositionAddsUp
<1> QED BY <1>1, SumsHold, PTL

LEMMA CashStep ==
  ASSUME IInv, SumsInv, CashInv, [Next]_vars
  PROVE  CashInv'
<1>0. overlap' = overlap
  BY DEF Next, vars, CommitMark, InitializeAccount, BeginEvaluation, Decide, BeginFill, FlushFill,
         CommitFill, BeginMark, ReadPosition, Rollback
<1> SUFFICES ASSUME ~overlap
             PROVE  /\ ledger'.cash = InitialCash + Total(orders', Flows(orders'))
                    /\ \A w \in Workers :
                         txn'[w].at \in Reading => txn'[w].cash = ledger'.cash
  BY <1>0 DEF CashInv
<1>1. ledger.cash \in Int /\ InitialCash \in Int
  BY PaperAssumption DEF IInv, AccountInv
<1>2. ASSUME NEW w \in Workers, CommitFill(w)
      PROVE  ledger'.cash = InitialCash + Total(orders', Flows(orders'))
  <2> DEFINE o == NewOrder(w)
             v == Flows(orders)
             u == Flows(orders')
  <2>1. /\ OrderFacts(o) /\ o \notin orders /\ orders' = orders \cup {o}
        /\ ledger'.cash = txn[w].cash + CashFlow(o.intent.side, o.quantity, o.price)
    BY <1>2, CommitOfFill
  <2> HIDE DEF o
  <2>2. IsFiniteSet(orders)
    BY DEF SumsInv
  <2>3. \A x \in orders' : OrderFacts(x)
    BY <2>1, OrdersAreTyped DEF IInv
  <2>4. /\ \A x \in orders : u[x] = v[x] /\ v[x] \in Int
        /\ \A x \in orders' : u[x] \in Int
        /\ u[o] = CashFlow(o.intent.side, o.quantity, o.price) /\ u[o] \in Int
    BY <2>1, <2>3, ValuesAreInt DEF Flows
  <2>5. txn[w].cash = ledger.cash
    BY <1>2 DEF CommitFill, CashInv, Reading
  <2> HIDE DEF u, v
  <2>6. Total(orders', u) = Total(orders, v) + u[o]
    <3>1. OneMore(orders, o, orders', v, u)
      BY <2>1, <2>2, <2>4 DEF OneMore
    <3> QED BY <3>1, TotalAdds
  <2>7. Total(orders, v) \in Int
    BY <2>2, <2>4, TotalFacts
  <2>8. ledger.cash = InitialCash + Total(orders, v)
    BY DEF CashInv, v
  <2>9. ledger'.cash = InitialCash + Total(orders', u)
    BY <1>1, <2>1, <2>4, <2>5, <2>6, <2>7, <2>8
  <2> QED BY <2>9 DEF u
<1>3. ASSUME ~\E w \in Workers : CommitFill(w)
      PROVE  ledger'.cash = InitialCash + Total(orders', Flows(orders')) /\ ledger'.cash = ledger.cash
  BY <1>3, OnlyFillsMoveCash DEF CashInv
<1>4. ASSUME NEW w \in Workers, txn'[w].at \in Reading
      PROVE  txn'[w].cash = ledger'.cash
  <2>1. ASSUME NEW v \in Workers, CommitFill(v) PROVE FALSE
    <3>1. txn[v] # Closed /\ Closed.at = "closed" /\ CallStep(v, Closed)
      BY <2>1 DEF CommitFill, Closed, CallStep, End, Continue
    <3>2. txn'[v] = Closed /\ \A x \in Workers \ {v} : txn'[x] = txn[x] /\ txn[x].at = "closed"
      BY <1>0, <3>1, TurnFacts DEF IInv
    <3> QED BY <1>4, <3>1, <3>2 DEF Reading
  <2>2. ledger'.cash = ledger.cash
    BY <1>3, <2>1
  <2>3. CASE txn'[w] = txn[w]
    BY <1>4, <2>2, <2>3 DEF CashInv
  <2>4. CASE txn'[w] # txn[w]
    <3> DEFINE Goes(t) == txn'[w] = t /\ (t.at \in Reading => t.cash = ledger.cash)
    <3>1. txn = [x \in Workers |-> txn[x]]
      BY DEF IInv, TurnsInv
    <3>2. ASSUME NEW t, \E v \in Workers : txn' = [txn EXCEPT ![v] = t]
          PROVE  txn'[w] = t
      BY <2>4, <3>1, <3>2
    <3>3. Closed.at \notin Reading
      BY DEF Closed, Reading
    <3>4. \E t : Goes(t)
      <4>1. ASSUME NEW v \in Workers, End(v) PROVE Goes(Closed)
        BY <3>2, <3>3, <4>1 DEF End
      <4>2. ASSUME NEW v \in Workers, Begin(v, Closed) PROVE Goes(Closed)
        BY <3>2, <3>3, <4>2 DEF Begin
      <4>3. ASSUME NEW v \in Workers, NEW i, BeginEvaluation(v, i) PROVE \E t : Goes(t)
        <5> DEFINE t == [at |-> "evaluating", intent |-> i,
                         held |-> IF i.exit THEN position.quantity ELSE 0]
        <5>1. txn' = [txn EXCEPT ![v] = t] /\ t.at \notin Reading
          BY <4>3 DEF BeginEvaluation, Begin, Reading
        <5> QED BY <3>2, <5>1
      <4>4. ASSUME NEW v \in Workers, NEW d, NEW price, BeginFill(v, d, price)
            PROVE  \E t : Goes(t)
        <5> DEFINE t == [at |-> "ledger read", intent |-> d.intent,
                         quantity |-> d.decision.quantity,
                         price |-> FillPrice(d.intent.side, price), cash |-> ledger.cash,
                         position |-> NoPosition]
        <5>1. txn' = [txn EXCEPT ![v] = t] /\ t.cash = ledger.cash
          BY <4>4 DEF BeginFill, Begin
        <5> QED BY <3>2, <5>1
      <4>5. ASSUME NEW v \in Workers, FlushFill(v) PROVE \E t : Goes(t)
        <5>1. CASE OrdersWithKey(txn[v].intent.key) # {}
          BY <4>1, <4>5, <5>1 DEF FlushFill
        <5>2. CASE OrdersWithKey(txn[v].intent.key) = {}
          <6>1. txn[v].at = "ledger read" /\ txn' = [txn EXCEPT ![v] = Flushed(txn[v])]
            BY <4>5, <5>2 DEF FlushFill, Continue
          <6>2. Flushed(txn[v]).cash = ledger.cash
            BY <6>1 DEF CashInv, Reading, Flushed
          <6> QED BY <3>2, <6>1, <6>2
        <5> QED BY <5>1, <5>2
      <4>6. ASSUME NEW v \in Workers, NEW price, BeginMark(v, price) PROVE \E t : Goes(t)
        <5> DEFINE t == [at |-> "marking", price |-> price, cash |-> ledger.cash,
                         peak |-> ledger.peak]
        <5>1. txn' = [txn EXCEPT ![v] = t] /\ t.at \notin Reading
          BY <4>6 DEF BeginMark, Begin, Reading
        <5> QED BY <3>2, <5>1
      <4>7. ASSUME NEW v \in Workers, ReadPosition(v) PROVE \E t : Goes(t)
        <5> DEFINE t == [at |-> "marked", peak |-> txn[v].peak,
                         equity |-> Equity(txn[v].cash, position, txn[v].price)]
        <5>1. txn' = [txn EXCEPT ![v] = t] /\ t.at \notin Reading
          BY <4>7 DEF ReadPosition, Continue, Reading
        <5> QED BY <3>2, <5>1
      <4> HIDE DEF Goes
      <4> QED
        BY <2>1, <2>4, <4>1, <4>2, <4>3, <4>4, <4>5, <4>6, <4>7
        DEF Next, vars, CommitMark, InitializeAccount, Decide, Rollback
    <3> QED BY <1>4, <2>2, <3>4
  <2> QED BY <2>3, <2>4
<1> QED BY <1>2, <1>3, <1>4

LEMMA CashHolds == Spec => []CashInv
<1>1. Init => CashInv
  <2> SUFFICES ASSUME Init PROVE CashInv
    OBVIOUS
  <2>1. orders = {} /\ ledger.cash = InitialCash /\ IsFiniteSet({})
    BY FS_EmptySet DEF Init
  <2>2. Total({}, Flows({})) = 0
    BY <2>1, TotalFacts
  <2>3. Closed.at \notin Reading /\ \A w \in Workers : txn[w] = Closed
    BY DEF Init, Closed, Reading
  <2>4. ledger.cash = InitialCash + Total(orders, Flows(orders))
    BY <2>1, <2>2, PaperAssumption
  <2> QED BY <2>3, <2>4 DEF CashInv
<1> QED BY <1>1, CashStep, SumsHold, PTL DEF Spec

(* As long as callers take turns, no fill is lost from the cash of an        *)
(* account: it is the opening capital and every order's cash flow.           *)
THEOREM CashAddsUpInTurn == Spec => [](~overlap => CashAddsUp)
<1>1. SumsInv /\ CashInv => (~overlap => CashAddsUp)
  BY FlowSum DEF SumsInv, CashInv, CashAddsUp
<1> QED BY <1>1, SumsHold, CashHolds, PTL

(* What the position's cost and realized profit tell of the cash is off by.  *)
Imbalance ==
  ledger.cash + position.quantity * position.average - InitialCash - position.realized

LEMMA FillImbalance ==
  ASSUME IInv, CashInv, ~overlap, NEW w \in Workers, CommitFill(w)
  PROVE  LET o == NewOrder(w)
             gap == Gap(position, position', o.intent.side, o.quantity, o.price)
         IN /\ gap \in Int /\ Imbalance \in Int /\ Imbalance' = Imbalance + gap
            /\ orders' \ orders = {o}
            /\ IsExact(position, o.intent.side, o.quantity, o.price) => gap = 0
            /\ gap # 0 => Size(gap) < Size(position'.quantity)
<1> DEFINE o == NewOrder(w)
           d == Signed(o.intent.side, o.quantity)
           gap == Gap(position, position', o.intent.side, o.quantity, o.price)
<1>1. /\ OrderFacts(o) /\ o \notin orders /\ orders' = orders \cup {o}
      /\ position \in Positions
      /\ position' = UpdatePosition(position, o.intent.side, o.quantity, o.price)
      /\ position'.quantity = position.quantity + d
      /\ ledger'.cash = txn[w].cash + CashFlow(o.intent.side, o.quantity, o.price)
  BY CommitOfFill
<1>2. txn[w].cash = ledger.cash
  BY DEF CommitFill, CashInv, Reading
<1> HIDE DEF o
<1>3. /\ gap \in Int
      /\ IsExact(position, o.intent.side, o.quantity, o.price) => gap = 0
      /\ gap # 0 => Size(gap) < Size(position'.quantity)
  BY <1>1, FillBalances DEF OrderFacts
<1>4. position' \in Positions
  BY <1>1, UpdateFacts DEF OrderFacts
<1>5. /\ position.quantity \in Int /\ position.average \in Int /\ position.realized \in Int
      /\ position'.quantity \in Int /\ position'.average \in Int /\ position'.realized \in Int
      /\ ledger.cash \in Int /\ InitialCash \in Int /\ Charge \in Int
  BY <1>1, <1>4, PaperAssumption DEF Positions, IInv, AccountInv
<1>6. d \in Int /\ o.price \in Int
  BY <1>1, ValuesAreInt DEF OrderFacts
<1> DEFINE x == position.quantity * position.average
           y == position'.quantity * position'.average
           z == d * o.price
<1>7. x \in Int /\ y \in Int /\ z \in Int
  BY <1>5, <1>6
<1>8. ledger'.cash = ledger.cash + (-z - Charge)
  BY <1>1, <1>2 DEF CashFlow
<1>9. gap = (y - position'.realized) - (x - position.realized) - z - Charge
  BY DEF Gap
<1>10. Imbalance = ledger.cash + x - InitialCash - position.realized
  BY DEF Imbalance
<1>11. Imbalance' = ledger'.cash + y - InitialCash - position'.realized
  BY DEF Imbalance
<1> HIDE DEF x, y, z, gap, d
<1>12. Imbalance \in Int /\ Imbalance' = Imbalance + gap
  BY <1>5, <1>7, <1>8, <1>9, <1>10, <1>11
<1> QED BY <1>1, <1>3, <1>12 DEF gap, o

(* As long as callers take turns, a fill takes from the books at most what   *)
(* rounding the average takes: less than a unit for each unit then held.     *)
THEOREM FillsRoundLittle ==
  Spec => [][ ~overlap => Imbalance' = Imbalance \/
                          Size(Imbalance' - Imbalance) < Size(position'.quantity) ]_vars
<1>1. ASSUME IInv, CashInv, [Next]_vars, ~overlap
      PROVE  Imbalance' = Imbalance \/ Size(Imbalance' - Imbalance) < Size(position'.quantity)
  <2>1. ASSUME NEW w \in Workers, CommitFill(w)
        PROVE  Imbalance' = Imbalance \/ Size(Imbalance' - Imbalance) < Size(position'.quantity)
    <3> DEFINE o == NewOrder(w)
               gap == Gap(position, position', o.intent.side, o.quantity, o.price)
    <3>1. /\ gap \in Int /\ Imbalance \in Int /\ Imbalance' = Imbalance + gap
          /\ gap # 0 => Size(gap) < Size(position'.quantity)
      BY <1>1, <2>1, FillImbalance
    <3> HIDE DEF gap
    <3>2. Imbalance' - Imbalance = gap /\ (gap = 0 => Imbalance' = Imbalance)
      BY <3>1
    <3> QED BY <3>1, <3>2
  <2>2. ASSUME ~\E w \in Workers : CommitFill(w) PROVE Imbalance' = Imbalance
    BY <1>1, <2>2, OnlyFillsMoveCash DEF Imbalance
  <2> QED BY <2>1, <2>2
<1>2. IInv /\ CashInv /\ [Next]_vars =>
        [ ~overlap => Imbalance' = Imbalance \/
                      Size(Imbalance' - Imbalance) < Size(position'.quantity) ]_vars
  BY <1>1
<1> QED BY <1>2, SumsHold, CashHolds, PTL DEF Spec

(* And where no average has to be rounded, nothing at all: cash and position *)
(* at cost are capital and realized profit, over openings, increases,        *)
(* partial closes and reversals.                                             *)
THEOREM BooksBalanceWhenExact == Spec /\ NothingRounded => []BooksBalanceInTurn
<1> DEFINE Exact == \A o \in orders' \ orders :
                      LET held == Size(position.quantity)
                      IN SameDirection(position.quantity, Signed(o.intent.side, o.quantity)) =>
                           (held * position.average + o.quantity * o.price) % (held + o.quantity) = 0
           Balanced == ~overlap => Imbalance = 0
<1>1. Init => Balanced
  BY PaperAssumption DEF Init, Imbalance, NoPosition
<1>2. ASSUME IInv, CashInv, [Next]_vars, [Exact]_vars, Balanced
      PROVE  Balanced'
  <2>1. ASSUME NEW w \in Workers, CommitFill(w), ~overlap PROVE Imbalance' = 0
    <3> DEFINE o == NewOrder(w)
               gap == Gap(position, position', o.intent.side, o.quantity, o.price)
    <3>1. /\ gap \in Int /\ Imbalance' = Imbalance + gap /\ orders' \ orders = {o}
          /\ IsExact(position, o.intent.side, o.quantity, o.price) => gap = 0
      BY <1>2, <2>1, FillImbalance
    <3>2. o \in orders' \ orders /\ ~UNCHANGED vars
      BY <3>1 DEF vars
    <3> HIDE DEF gap, o
    <3>3. IsExact(position, o.intent.side, o.quantity, o.price)
      BY <1>2, <3>2 DEF IsExact
    <3> QED BY <1>2, <2>1, <3>1, <3>3
  <2>2. overlap' = overlap
    BY <1>2 DEF Next, vars, CommitMark, InitializeAccount, BeginEvaluation, Decide, BeginFill,
                FlushFill, CommitFill, BeginMark, ReadPosition, Rollback
  <2>3. ASSUME ~\E w \in Workers : CommitFill(w) PROVE Imbalance' = Imbalance
    BY <1>2, <2>3, OnlyFillsMoveCash DEF Imbalance
  <2> QED BY <1>2, <2>1, <2>2, <2>3
<1>3. IInv /\ SumsInv /\ CashInv /\ Balanced => BooksBalanceInTurn
  <2> SUFFICES ASSUME IInv, SumsInv, CashInv, Balanced, ~overlap
               PROVE  /\ CashAddsUp
                      /\ ledger.cash + position.quantity * position.average =
                           InitialCash + position.realized
    BY DEF BooksBalanceInTurn
  <2>1. CashAddsUp
    BY FlowSum DEF SumsInv, CashInv, CashAddsUp
  <2> DEFINE x == position.quantity * position.average
  <2>2. ledger.cash \in Int /\ x \in Int /\ position.realized \in Int /\ InitialCash \in Int
    BY PaperAssumption DEF IInv, AccountInv, Positions
  <2>3. ledger.cash + x - InitialCash - position.realized = 0
    BY DEF Imbalance
  <2> HIDE DEF x
  <2>4. ledger.cash + x = InitialCash + position.realized
    BY <2>2, <2>3
  <2> QED BY <2>1, <2>4 DEF x
<1>4. NothingRounded => [][Exact]_vars
  BY PTL DEF NothingRounded
<1> QED BY <1>1, <1>2, <1>3, <1>4, SumsHold, CashHolds, PTL DEF Spec
=============================================================================
