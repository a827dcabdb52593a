--------------------------- MODULE StructureBreaks ---------------------------
(***************************************************************************)
(* packages/smc_ict/engine.py: breaks of structure, liquidity sweeps and the *)
(* price blocks that breaks leave behind.  The code walks the candles once,  *)
(* keeping the trend and the swings it has consumed; here both are read off  *)
(* the breaks before.                                                        *)
(***************************************************************************)
EXTENDS MarketStructure

(* The swing the walk looks at: the last one of its side that was confirmed  *)
(* before the candle closed.                                                 *)
IsLatest(swings, s, i) ==
  /\ s \in swings /\ s.known < i
  /\ \A u \in swings : u.direction = s.direction /\ u.known < i => u.at <= s.at

ClosesBeyond(c, s) ==
  IF s.direction = "BEARISH" THEN c.close > s.price ELSE c.close < s.price

(* The candles that close beyond the swing the walk looks at. *)
ClosesBeyondLatest(cs, swings) ==
  {b \in [swing : swings, known : 1 .. Len(cs)] :
     ClosesBeyond(cs[b.known], b.swing) /\ IsLatest(swings, b.swing, b.known)}

(* A slip the runs must notice: a swing is not consumed when it is broken.   *)
BreaksAgain(cs, swings) == ClosesBeyondLatest(cs, swings)

(* Each swing is broken once, by the first of them. *)
Breaks(cs, swings) ==
  LET closes == ClosesBeyondLatest(cs, swings)
  IN {b \in closes : \A a \in closes : a.swing = b.swing => b.known <= a.known}

(* A low is looked at before a high of the same candle. *)
Precedes(a, b) ==
  \/ a.known < b.known
  \/ a.known = b.known /\ a.swing.direction = "BULLISH" /\ b.swing.direction = "BEARISH"

(* The break that set the trend was to the other side. *)
Turns(breaks, b) ==
  \E a \in breaks :
    /\ Precedes(a, b) /\ a.swing.direction # b.swing.direction
    /\ \A x \in breaks : Precedes(x, b) => x = a \/ Precedes(x, a)

KindsOf(cs, breaks, b) ==
  IF ~Turns(breaks, b) THEN {"BOS"}
  ELSE {"CHOCH"} \cup
       (IF IsDisplaced(cs, Opposite(b.swing.direction), b.known) THEN {"MSS"} ELSE {})

StructureEvent(scope, b, kind) ==
  [type |-> "structure", scope |-> scope, kind |-> kind, level |-> b.swing.price,
   direction |-> Opposite(b.swing.direction), at |-> b.swing.at, known |-> b.known]

Structure(cs, scope, swings) ==
  LET breaks == Breaks(cs, swings)
  IN UNION { {StructureEvent(scope, b, kind) : kind \in KindsOf(cs, breaks, b)} : b \in breaks }

(* Beyond the swing by more than the tolerance, and closed back inside. *)
Sweeps(c, s) ==
  IF s.direction = "BEARISH"
  THEN c.high * 10000 > s.price * (10000 + SweepTolerance) /\ c.close <= s.price
  ELSE c.low * 10000 < s.price * (10000 - SweepTolerance) /\ c.close >= s.price

LiquiditySweep(cs, b) ==
  [type |-> "sweep", direction |-> b.swing.direction, level |-> b.swing.price,
   extreme |-> Extreme(cs[b.known], b.swing.direction), at |-> b.swing.at, known |-> b.known]

LiquiditySweeps(cs, swings) ==
  {LiquiditySweep(cs, b) :
     b \in {b \in [swing : swings, known : 1 .. Len(cs)] :
              Sweeps(cs[b.known], b.swing) /\ IsLatest(swings, b.swing, b.known)}}

-----------------------------------------------------------------------------
(* _price_blocks: the last candle against a displaced break, within reach.   *)
IsOpposing(c, direction) ==
  IF direction = "BULLISH" THEN c.close < c.open ELSE c.close > c.open

Origin(cs, direction, i) ==
  LastOf({j \in 1 .. i - 1 : j >= i - OrderBlockLookback /\ IsOpposing(cs[j], direction)})

Block(type, direction, at, lower, upper, known) ==
  [type |-> type, direction |-> direction, at |-> at, lower |-> lower, upper |-> upper,
   known |-> known]

OrderBlocks(cs, structure) ==
  UNION { {Block("order block", e.direction, j, cs[j].low, cs[j].high, e.known) :
             j \in Origin(cs, e.direction, e.known)} :
          e \in {e \in structure : IsDisplaced(cs, e.direction, e.known)} }

(* The candle that closes through a block ends it: only candles up to that  *)
(* one can be its first retest.                                              *)
FailsBlock(c, b) ==
  IF b.direction = "BULLISH" THEN c.close < b.lower ELSE c.close > b.upper

Overlaps(c, b) == c.low <= b.upper /\ b.lower <= c.high

BlockFailed(cs, b) == FirstOf({i \in Later(cs, b) : FailsBlock(cs[i], b)})

BlockRetested(cs, b) ==
  {i \in FirstOf({i \in Later(cs, b) : Overlaps(cs[i], b)}) :
     \A j \in BlockFailed(cs, b) : i <= j}

MitigationBlocks(cs, blocks) ==
  UNION { {Block("mitigation block", b.direction, b.at, b.lower, b.upper, i) :
             i \in BlockRetested(cs, b)} : b \in blocks }

BreakerBlocks(cs, blocks) ==
  UNION { {Block("breaker block", Opposite(b.direction), b.at, b.lower, b.upper, i) :
             i \in BlockFailed(cs, b)} : b \in blocks }
=============================================================================
