-------------------------- MODULE PaperAccounting --------------------------
(***************************************************************************)
(* The arithmetic of packages/paper_trading/broker.py: what one market     *)
(* fill does to cash and position, and what a mark to market reports.      *)
(* Money and quantities are integers; an average price is rounded down to  *)
(* one unit, where the database rounds it to 10^-8.                        *)
(***************************************************************************)
EXTENDS Integers

CONSTANTS
  Slippage,   \* adverse slippage of a fill, in price units
  Charge      \* charges of a fill

Size(x) == IF x < 0 THEN -x ELSE x

Larger(x, y) == IF x > y THEN x ELSE y

FillPrice(side, price) == IF side = "BUY" THEN price + Slippage ELSE price - Slippage

Signed(side, quantity) == IF side = "BUY" THEN quantity ELSE -quantity

CashFlow(side, quantity, price) == -Signed(side, quantity) * price - Charge

NoPosition == [quantity |-> 0, average |-> 0, realized |-> 0]

SameDirection(x, y) == x = 0 \/ (x > 0) = (y > 0)

(* A slip the runs must notice: an increase takes the new price for average. *)
UpdatePositionAtLastPrice(p, side, quantity, price) ==
  LET delta == Signed(side, quantity)
      after == p.quantity + delta
      closed == IF Size(p.quantity) < quantity THEN Size(p.quantity) ELSE quantity
      direction == IF p.quantity > 0 THEN 1 ELSE -1
  IN IF SameDirection(p.quantity, delta)
     THEN [quantity |-> after, average |-> price, realized |-> p.realized - Charge]
     ELSE [quantity |-> after,
           average |-> IF after = 0 THEN 0
                       ELSE IF (after > 0) # (p.quantity > 0) THEN price ELSE p.average,
           realized |-> p.realized + (price - p.average) * closed * direction - Charge]

(* _update_position: add to a position, or close up to all of it and then   *)
(* open the other way.                                                      *)
UpdatePosition(p, side, quantity, price) ==
  LET delta == Signed(side, quantity)
      after == p.quantity + delta
      held == Size(p.quantity)
      closed == IF held < quantity THEN held ELSE quantity
      direction == IF p.quantity > 0 THEN 1 ELSE -1
  IN IF SameDirection(p.quantity, delta)
     THEN [quantity |-> after,
           average |-> (held * p.average + quantity * price) \div (held + quantity),
           realized |-> p.realized - Charge]
     ELSE [quantity |-> after,
           average |-> IF after = 0 THEN 0
                       ELSE IF (after > 0) # (p.quantity > 0) THEN price
                       ELSE p.average,
           realized |-> p.realized + (price - p.average) * closed * direction - Charge]

Equity(cash, p, price) == cash + p.quantity * price
=============================================================================
