--------------------------- MODULE MarketStructure ---------------------------
(***************************************************************************)
(* packages/smc_ict/engine.py: what is read off a sequence of closed candles.*)
(*                                                                         *)
(* A candle is [open, high, low, close]; the candles of an analysis have     *)
(* strictly increasing times, so that time is the number of a candle: it     *)
(* dates the candle and the instant it closes.  Percentages are hundredths   *)
(* of a percent.  A finding is a record with the candle at whose close it is *)
(* dated in "known"; evidence, wording and confidence are left out.          *)
(***************************************************************************)
EXTENDS Integers, Sequences, FiniteSetsExt

CONSTANTS
  SwingLeft, SwingRight,         \* candles beside an external pivot
  InternalLeft, InternalRight,   \* ... and beside an internal one
  MinimumGap,                    \* hundredths of a percent of the midpoint
  SweepTolerance,                \* hundredths of a percent of the swing
  EqualTolerance,                \* hundredths of a percent of the midpoint
  DisplacementLookback,
  BodyMultiple,                  \* hundredths of the prior mean body
  CloseLocation,                 \* hundredths of the candle's range
  OrderBlockLookback

ASSUME ConfigAssumption ==
  /\ {SwingLeft, SwingRight, InternalLeft, InternalRight} \subseteq Nat \ {0}
  /\ {DisplacementLookback, OrderBlockLookback, BodyMultiple} \subseteq Nat \ {0}
  /\ {MinimumGap, SweepTolerance, EqualTolerance} \subseteq Nat
  /\ CloseLocation \in 50 .. 100

Directions == {"BULLISH", "BEARISH"}
Opposite(direction) == IF direction = "BULLISH" THEN "BEARISH" ELSE "BULLISH"
Distance(a, b) == IF a < b THEN b - a ELSE a - b

(* The candles from i to j, as the code slices them. *)
Window(cs, i, j) == SubSeq(cs, i, j)

(* The first, or the last, of a set of candles: none if it is empty. *)
FirstOf(S) == {i \in S : \A j \in S : i <= j}
LastOf(S) == {i \in S : \A j \in S : j <= i}

-----------------------------------------------------------------------------
(* _swings: the pivot is strictly beyond every other candle of its window.   *)
IsPivot(window, p, direction) ==
  \A i \in DOMAIN window \ {p} :
    IF direction = "BEARISH" THEN window[p].high > window[i].high
    ELSE window[p].low < window[i].low

Extreme(c, direction) == IF direction = "BEARISH" THEN c.high ELSE c.low

Swing(cs, scope, direction, p, known) ==
  [type |-> "swing", scope |-> scope, direction |-> direction,
   price |-> Extreme(cs[p], direction), at |-> p, known |-> known]

(* A slip the runs must notice: the last candles are pivots of what there is *)
(* of their window.                                                          *)
UnconfirmedSwings(cs, scope, left, right) ==
  LET End(p) == Min({p + right, Len(cs)})
  IN UNION { {Swing(cs, scope, direction, p, End(p)) :
                p \in {p \in left + 1 .. Len(cs) :
                         IsPivot(Window(cs, p - left, End(p)), left + 1, direction)}}
             : direction \in Directions }

Swings(cs, scope, left, right) ==
  UNION { {Swing(cs, scope, direction, p, p + right) :
             p \in {p \in left + 1 .. Len(cs) - right :
                      IsPivot(Window(cs, p - left, p + right), left + 1, direction)}}
          : direction \in Directions }

ExternalSwings(cs) == Swings(cs, "external", SwingLeft, SwingRight)
InternalSwings(cs) == Swings(cs, "internal", InternalLeft, InternalRight)

-----------------------------------------------------------------------------
(* _displacements: the last candle of the window has a body some multiple of *)
(* the mean body before it, and closes near the extreme it went for.         *)
Body(c) == Distance(c.open, c.close)

IsLarge(window) ==
  LET n == Len(window)
      BodyAt(i) == Body(window[i])
      prior == MapThenSumSet(BodyAt, 1 .. n - 1)
  IN prior > 0 /\ Body(window[n]) * (n - 1) * 100 >= prior * BodyMultiple

ClosesNear(c, direction) ==
  LET range == c.high - c.low
  IN /\ range > 0
     /\ IF direction = "BULLISH"
        THEN c.close > c.open /\ (c.close - c.low) * 100 >= range * CloseLocation
        ELSE c.close < c.open /\ (c.close - c.low) * 100 <= range * (100 - CloseLocation)

IsDisplacement(window, direction) ==
  IsLarge(window) /\ ClosesNear(window[Len(window)], direction)

IsDisplaced(cs, direction, i) ==
  i > DisplacementLookback /\ IsDisplacement(Window(cs, i - DisplacementLookback, i), direction)

Displacement(cs, direction, i) ==
  [type |-> "displacement", direction |-> direction, low |-> cs[i].low, high |-> cs[i].high,
   known |-> i]

Displacements(cs) ==
  UNION { {Displacement(cs, direction, i) :
             i \in {i \in 1 .. Len(cs) : IsDisplaced(cs, direction, i)}}
          : direction \in Directions }

-----------------------------------------------------------------------------
(* _equal_levels: two swings of a side with none of that side in between,    *)
(* not further apart than the tolerance.                                     *)
Consecutive(swings, s, t) ==
  /\ s.direction = t.direction /\ s.at < t.at
  /\ \A u \in swings : u.direction = s.direction => u.at <= s.at \/ t.at <= u.at

AreEqual(a, b) == Distance(a, b) * 20000 <= (a + b) * EqualTolerance

EqualLevel(s, t) ==
  [type |-> "equal level", side |-> IF s.direction = "BEARISH" THEN "buy" ELSE "sell",
   lower |-> Min({s.price, t.price}), upper |-> Max({s.price, t.price}),
   first |-> s.at, second |-> t.at, known |-> Max({s.known, t.known})]

EqualLevels(swings) ==
  UNION { {EqualLevel(s, t) : t \in {t \in swings : /\ Consecutive(swings, s, t)
                                                    /\ AreEqual(s.price, t.price)}}
          : s \in swings }

-----------------------------------------------------------------------------
(* _fair_value_gaps: the range between the first and the third of three      *)
(* candles, when they leave one that is wide enough.                         *)
GapOf(window, direction) ==
  IF direction = "BULLISH" THEN [lower |-> window[1].high, upper |-> window[3].low]
  ELSE [lower |-> window[3].high, upper |-> window[1].low]

IsWide(r) == r.upper > r.lower /\ (r.upper - r.lower) * 20000 >= (r.lower + r.upper) * MinimumGap

Gap(type, direction, range, source, known) ==
  [type |-> type, direction |-> direction, lower |-> range.lower, upper |-> range.upper,
   source |-> source, known |-> known]

FairValueGaps(cs) ==
  UNION { {Gap("gap", direction, GapOf(Window(cs, i - 2, i), direction), i, i) :
             i \in {i \in 3 .. Len(cs) : IsWide(GapOf(Window(cs, i - 2, i), direction))}}
          : direction \in Directions }

(* _gap_lifecycle: what a later candle does to a gap. *)
Touches(c, g) == IF g.direction = "BULLISH" THEN c.low < g.upper ELSE c.high > g.lower
Fills(c, g) == IF g.direction = "BULLISH" THEN c.low <= g.lower ELSE c.high >= g.upper
ClosesThrough(c, g) == IF g.direction = "BULLISH" THEN c.close < g.lower ELSE c.close > g.upper

Later(cs, finding) == finding.known + 1 .. Len(cs)

(* The candle that mitigates a gap, and the one that invalidates it. *)
GapMitigated(cs, g) == FirstOf({i \in Later(cs, g) : Touches(cs[i], g)})

(* A slip the runs must notice: every later fill dates the end again.        *)
GapRefilled(cs, g) == LastOf({i \in Later(cs, g) : Fills(cs[i], g)})

GapInvalidated(cs, g) == FirstOf({i \in Later(cs, g) : Fills(cs[i], g)})

(* The dates of its end are what a gap's status is read from. *)
GapMitigations(cs) ==
  UNION { {Gap("gap mitigated", g.direction, g, g.known, i) : i \in GapMitigated(cs, g)} :
          g \in FairValueGaps(cs) }

GapInvalidations(cs) ==
  UNION { {Gap("gap invalidated", g.direction, g, g.known, i) : i \in GapInvalidated(cs, g)} :
          g \in FairValueGaps(cs) }

(* The candle that ends a gap inverts it if it closes on the other side. *)
InverseGaps(cs) ==
  UNION { {Gap("inverse gap", Opposite(g.direction), g, g.known, i) :
             i \in {i \in GapInvalidated(cs, g) : ClosesThrough(cs[i], g)}} :
          g \in FairValueGaps(cs) }
=============================================================================
