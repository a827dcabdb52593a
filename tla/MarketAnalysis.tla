---------------------------- MODULE MarketAnalysis ----------------------------
(***************************************************************************)
(* packages/smc_ict/engine.py: analyze, called again after every candle that *)
(* closes on the whole sequence so far.                                      *)
(***************************************************************************)
EXTENDS StructureBreaks, PriceLevels

CONSTANTS
  Candles,      \* records [open, high, low, close]
  MaxCandles    \* bound: candles of an analysis

ASSUME CandlesAssumption ==
  /\ MaxCandles \in Nat
  /\ Candles \subseteq [open : Nat, high : Nat, low : Nat, close : Nat]
  /\ \A c \in Candles : c.low > 0 /\ {c.open, c.close} \subseteq c.low .. c.high

ASSUME CalendarAssumption ==
  \A PeriodOf \in {DayOf, WeekOf} :
    \A i, j \in 1 .. MaxCandles : PeriodOf[i] \in Nat /\ (i <= j => PeriodOf[i] <= PeriodOf[j])

VARIABLE candles

Init == candles = <<>>

(* What _validate lets pass: one more closed candle of the same instrument   *)
(* and timeframe, later than those before.                                   *)
CandleCloses(c) ==
  /\ Len(candles) < MaxCandles
  /\ candles' = Append(candles, c)

Next == \E c \in Candles : CandleCloses(c)

Spec == Init /\ [][Next]_candles

-----------------------------------------------------------------------------
(* What analyze finds. *)
ExternalStructure(cs) == Structure(cs, "external", ExternalSwings(cs))
InternalStructure(cs) == Structure(cs, "internal", InternalSwings(cs))

(* Only the external structure leaves blocks. *)
PriceBlocks(cs) ==
  LET blocks == OrderBlocks(cs, ExternalStructure(cs))
  IN blocks \cup MitigationBlocks(cs, blocks) \cup BreakerBlocks(cs, blocks)

Findings(cs) ==
  ExternalSwings(cs) \cup InternalSwings(cs) \cup Displacements(cs)
  \cup EqualLevels(ExternalSwings(cs))
  \cup FairValueGaps(cs) \cup GapMitigations(cs) \cup GapInvalidations(cs) \cup InverseGaps(cs)
  \cup ExternalStructure(cs) \cup InternalStructure(cs)
  \cup LiquiditySweeps(cs, ExternalSwings(cs)) \cup PriceBlocks(cs)

(* _overlays: what a chart shows of a finding, and until when. *)
Drawn(kind, from, to, lower, upper) ==
  [kind |-> kind, start |-> from, end |-> to, lower |-> lower, upper |-> upper]

(* ... until the candle that ended it, if there is one. *)
Until(cs, ends) == IF ends = {} THEN Len(cs) ELSE Min(ends)

BlockEnds(cs, b) == IF b.type = "order block" THEN BlockFailed(cs, b) ELSE {}

Overlays(cs) ==
  {Drawn("swing", s.at, s.known, s.price, s.price) :
     s \in ExternalSwings(cs) \cup InternalSwings(cs)}
  \cup {Drawn(b.type, b.at, Until(cs, BlockEnds(cs, b)), b.lower, b.upper) : b \in PriceBlocks(cs)}
  \cup {Drawn("displacement", d.known, d.known, d.low, d.high) : d \in Displacements(cs)}
  \cup {Drawn("equal levels", l.first, Len(cs), l.lower, l.upper) :
           l \in EqualLevels(ExternalSwings(cs))}
  \cup {Drawn(e.kind, e.at, e.known, e.level, e.level) :
           e \in ExternalStructure(cs) \cup InternalStructure(cs)}
  \cup {Drawn("gap", g.known - 2, Until(cs, GapInvalidated(cs, g)), g.lower, g.upper) :
           g \in FairValueGaps(cs)}
  \cup {Drawn("inverse gap", g.known, Len(cs), g.lower, g.upper) : g \in InverseGaps(cs)}
  \cup {Drawn("sweep", s.at, s.known, Min({s.level, s.extreme}), Max({s.level, s.extreme})) :
           s \in LiquiditySweeps(cs, ExternalSwings(cs))}

(* Levels and zones are drawn to the newest candle and replaced with it. *)
Currents(cs) ==
  {Drawn(l.kind, l.known, Len(cs), l.price, l.price) : l \in ReferenceLevels(cs)}
  \cup {Drawn(z.kind, z.known, Len(cs), z.lower, z.upper) : z \in PriceZones(ExternalSwings(cs))}

-----------------------------------------------------------------------------
Log == INSTANCE FindingsLog WITH clock <- Len(candles), log <- Findings(candles)

(* Nothing repaints: whoever analyses the candles as they close is never     *)
(* told later that something was otherwise, or was known before it was said. *)
NothingRepaints == Log!LogSpec

(* The latest high and the latest low of a scope are never both broken by    *)
(* one candle, so the trend a turn is measured against is never in doubt.    *)
OneBreakPerCandle ==
  \A events \in {ExternalStructure(candles), InternalStructure(candles)} :
    \A e, f \in events : e.known = f.known => e.direction = f.direction /\ e.at = f.at

(* The previous day's levels are those the session showed when it ended, and *)
(* stay put until the next one ends.                                         *)
PriceOf(cs, kind) == {l.price : l \in {l \in ReferenceLevels(cs) : l.kind = kind}}
LevelsFollowSessions ==
  [][LET n == Len(candles)
         Follows(previous, session) ==
           PriceOf(candles', previous) =
             IF n > 0 /\ DayOf[n] # DayOf[n + 1] THEN PriceOf(candles, session)
             ELSE PriceOf(candles, previous)
     IN /\ Follows("previous day high", "session high")
        /\ Follows("previous day low", "session low")]_candles

(* A chart only extends: a figure that ended before the newest candle stays  *)
(* as it was drawn, one that reached it stays or reaches the next, a new one *)
(* ends there, and none goes beyond.                                         *)
ChartsOnlyExtend ==
  [][LET before == Overlays(candles)
         after == Overlays(candles')
         now == Len(candles')
     IN /\ \A o \in before :
             \/ o \in after
             \/ o.end = now - 1 /\ [o EXCEPT !.end = now] \in after
        /\ \A o \in after \ before : o.end = now
        /\ \A o \in Currents(candles') : o.start <= o.end]_candles
=============================================================================
