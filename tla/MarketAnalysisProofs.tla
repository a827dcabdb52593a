------------------------- MODULE MarketAnalysisProofs -------------------------
(***************************************************************************)
(* For every configuration, calendar and set of candles: the analysis never  *)
(* repaints and never dates a finding back, and no candle breaks both the    *)
(* high and the low of a scope.                                              *)
(***************************************************************************)
EXTENDS MarketAnalysis, WellFoundedInduction, TLAPS

(* What one more candle may do to a set of findings: new ones come with it.  *)
GrowsAt(old, new, n) ==
  /\ old \subseteq new
  /\ \A f \in old : f.known \in Nat /\ f.known <= n
  /\ \A f \in new \ old : f.known = n + 1

(* The same of the numbers of the candles. *)
GrowsTo(old, new, n) ==
  /\ old \subseteq new
  /\ old \subseteq 1 .. n
  /\ new \subseteq old \cup {n + 1}

CandleSet == [open : Nat, high : Nat, low : Nat, close : Nat]

-----------------------------------------------------------------------------
(* A window of the candles there were is the same window when one more came. *)
LEMMA WindowStays ==
  ASSUME NEW S, NEW cs \in Seq(S), NEW c \in S, NEW i \in Int, NEW j \in Int,
         1 <= i, j <= Len(cs)
  PROVE  Window(Append(cs, c), i, j) = Window(cs, i, j)
  BY DEF Window

LEMMA CandleStays ==
  ASSUME NEW S, NEW cs \in Seq(S), NEW c \in S
  PROVE  /\ Append(cs, c) \in Seq(S)
         /\ Len(Append(cs, c)) = Len(cs) + 1
         /\ \A i \in 1 .. Len(cs) : Append(cs, c)[i] = cs[i]
  OBVIOUS

(* Swings: a pivot's window does not change, and one that is new ends at the *)
(* new candle.                                                               *)
LEMMA SwingsGrow ==
  ASSUME NEW S, NEW cs \in Seq(S), NEW c \in S, NEW scope,
         NEW left \in Nat \ {0}, NEW right \in Nat \ {0}
  PROVE  GrowsAt(Swings(cs, scope, left, right), Swings(Append(cs, c), scope, left, right),
                 Len(cs))
<1> DEFINE ds == Append(cs, c)
           Is(xs, p, d) == IsPivot(Window(xs, p - left, p + right), left + 1, d)
<1>1. ASSUME NEW p \in left + 1 .. Len(cs) - right, NEW d
      PROVE  /\ Is(ds, p, d) = Is(cs, p, d)
             /\ Swing(ds, scope, d, p, p + right) = Swing(cs, scope, d, p, p + right)
  <2>1. Window(ds, p - left, p + right) = Window(cs, p - left, p + right)
    BY WindowStays
  <2>2. ds[p] = cs[p]
    BY CandleStays
  <2> QED  BY <2>1, <2>2 DEF Swing
<1>2. ASSUME NEW xs \in Seq(S), NEW f
      PROVE  f \in Swings(xs, scope, left, right)
             <=> \E d \in Directions : \E p \in left + 1 .. Len(xs) - right :
                   Is(xs, p, d) /\ f = Swing(xs, scope, d, p, p + right)
  BY DEF Swings
<1>3. ASSUME NEW xs, NEW d, NEW p  PROVE Swing(xs, scope, d, p, p + right).known = p + right
  BY DEF Swing
<1>4. ds \in Seq(S) /\ Len(ds) = Len(cs) + 1
  BY CandleStays
<1>5. ASSUME NEW f \in Swings(cs, scope, left, right)
      PROVE  /\ f \in Swings(ds, scope, left, right)
             /\ f.known \in Nat /\ f.known <= Len(cs)
  <2>1. PICK d \in Directions, p \in left + 1 .. Len(cs) - right :
             Is(cs, p, d) /\ f = Swing(cs, scope, d, p, p + right)
    BY <1>2
  <2>2. p \in left + 1 .. Len(ds) - right
    BY <1>4
  <2>3. Is(ds, p, d) /\ f = Swing(ds, scope, d, p, p + right)
    BY <1>1, <2>1
  <2>4. f \in Swings(ds, scope, left, right)
    BY <1>2, <1>4, <2>2, <2>3
  <2> QED  BY <1>3, <2>1, <2>4
<1>6. ASSUME NEW f \in Swings(ds, scope, left, right), f \notin Swings(cs, scope, left, right)
      PROVE  f.known = Len(cs) + 1
  <2>1. PICK d \in Directions, p \in left + 1 .. Len(ds) - right :
             Is(ds, p, d) /\ f = Swing(ds, scope, d, p, p + right)
    BY <1>2, <1>4
  <2>2. p \notin left + 1 .. Len(cs) - right
    BY <1>1, <1>2, <1>6, <2>1
  <2>3. p + right = Len(cs) + 1
    BY <1>4, <2>2
  <2> QED  BY <1>3, <2>1, <2>3
<1> QED  BY <1>5, <1>6 DEF GrowsAt

(* Displacements and gaps end with the candle they are dated at. *)
LEMMA DisplacedStays ==
  ASSUME NEW S, NEW cs \in Seq(S), NEW c \in S, NEW d, NEW i \in 1 .. Len(cs)
  PROVE  IsDisplaced(Append(cs, c), d, i) = IsDisplaced(cs, d, i)
<1>1. DisplacementLookback \in Nat
  BY ConfigAssumption
<1>2. CASE i > DisplacementLookback
  <2>1. Window(Append(cs, c), i - DisplacementLookback, i) = Window(cs, i - DisplacementLookback, i)
    BY <1>1, <1>2, WindowStays
  <2> QED  BY <2>1 DEF IsDisplaced
<1>3. CASE ~(i > DisplacementLookback)
  BY <1>3 DEF IsDisplaced
<1> QED  BY <1>2, <1>3

LEMMA DisplacementsGrow ==
  ASSUME NEW S, NEW cs \in Seq(S), NEW c \in S
  PROVE  GrowsAt(Displacements(cs), Displacements(Append(cs, c)), Len(cs))
<1> DEFINE ds == Append(cs, c)
<1>1. ASSUME NEW i \in 1 .. Len(cs), NEW d
      PROVE  Displacement(ds, d, i) = Displacement(cs, d, i)
  BY CandleStays DEF Displacement
<1>2. ASSUME NEW xs, NEW f
      PROVE  f \in Displacements(xs)
             <=> \E d \in Directions : \E i \in 1 .. Len(xs) :
                   IsDisplaced(xs, d, i) /\ f = Displacement(xs, d, i)
  BY DEF Displacements
<1>3. ASSUME NEW xs, NEW d, NEW i  PROVE Displacement(xs, d, i).known = i
  BY DEF Displacement
<1>4. Len(ds) = Len(cs) + 1
  BY CandleStays
<1>5. ASSUME NEW i \in 1 .. Len(cs), NEW d  PROVE IsDisplaced(ds, d, i) = IsDisplaced(cs, d, i)
  BY DisplacedStays
<1> HIDE DEF ds
<1>6. ASSUME NEW f \in Displacements(cs)
      PROVE  f \in Displacements(ds) /\ f.known \in Nat /\ f.known <= Len(cs)
  <2>1. PICK d \in Directions, i \in 1 .. Len(cs) :
             IsDisplaced(cs, d, i) /\ f = Displacement(cs, d, i)
    BY <1>2
  <2>2. i \in 1 .. Len(ds) /\ IsDisplaced(ds, d, i) /\ f = Displacement(ds, d, i)
    BY <1>1, <1>4, <1>5, <2>1
  <2>3. f \in Displacements(ds)
    BY <1>2, <2>2
  <2> QED  BY <1>3, <2>1, <2>3
<1>7. ASSUME NEW f \in Displacements(ds), f \notin Displacements(cs)
      PROVE  f.known = Len(cs) + 1
  <2>1. PICK d \in Directions, i \in 1 .. Len(ds) :
             IsDisplaced(ds, d, i) /\ f = Displacement(ds, d, i)
    BY <1>2
  <2>2. i \notin 1 .. Len(cs)
    BY <1>1, <1>2, <1>5, <1>7, <2>1
  <2>3. i = Len(cs) + 1
    BY <1>4, <2>2
  <2> QED  BY <1>3, <2>1, <2>3
<1> QED  BY <1>6, <1>7 DEF GrowsAt, ds

LEMMA GapsGrow ==
  ASSUME NEW S, NEW cs \in Seq(S), NEW c \in S
  PROVE  GrowsAt(FairValueGaps(cs), FairValueGaps(Append(cs, c)), Len(cs))
<1> DEFINE ds == Append(cs, c)
           R(xs, d, i) == GapOf(Window(xs, i - 2, i), d)
           G(xs, d, i) == Gap("gap", d, R(xs, d, i), i, i)
<1>1. ASSUME NEW i \in 3 .. Len(cs), NEW d  PROVE R(ds, d, i) = R(cs, d, i)
  <2>1. Window(ds, i - 2, i) = Window(cs, i - 2, i)
    BY WindowStays
  <2> QED  BY <2>1
<1>2. ASSUME NEW xs, NEW f
      PROVE  f \in FairValueGaps(xs)
             <=> \E d \in Directions : \E i \in 3 .. Len(xs) : IsWide(R(xs, d, i)) /\ f = G(xs, d, i)
  BY DEF FairValueGaps
<1>3. ASSUME NEW xs, NEW d, NEW i  PROVE G(xs, d, i).known = i
  BY DEF Gap
<1>4. Len(ds) = Len(cs) + 1
  BY CandleStays
<1>5. ASSUME NEW i \in 3 .. Len(cs), NEW d  PROVE G(ds, d, i) = G(cs, d, i)
  BY <1>1
<1> HIDE DEF ds, R, G
<1>6. ASSUME NEW f \in FairValueGaps(cs)
      PROVE  f \in FairValueGaps(ds) /\ f.known \in Nat /\ f.known <= Len(cs)
  <2>1. PICK d \in Directions, i \in 3 .. Len(cs) : IsWide(R(cs, d, i)) /\ f = G(cs, d, i)
    BY <1>2
  <2>2. i \in 3 .. Len(ds) /\ IsWide(R(ds, d, i)) /\ f = G(ds, d, i)
    BY <1>1, <1>4, <1>5, <2>1
  <2>3. f \in FairValueGaps(ds)
    BY <1>2, <2>2
  <2> QED  BY <1>3, <2>1, <2>3
<1>7. ASSUME NEW f \in FairValueGaps(ds), f \notin FairValueGaps(cs)
      PROVE  f.known = Len(cs) + 1
  <2>1. PICK d \in Directions, i \in 3 .. Len(ds) : IsWide(R(ds, d, i)) /\ f = G(ds, d, i)
    BY <1>2
  <2>2. i \notin 3 .. Len(cs)
    BY <1>1, <1>2, <1>5, <1>7, <2>1
  <2>3. i = Len(cs) + 1
    BY <1>4, <2>2
  <2> QED  BY <1>3, <2>1, <2>3
<1> QED  BY <1>6, <1>7 DEF GrowsAt, ds

-----------------------------------------------------------------------------
(* The first of some candles stays the first when only a last one is added,  *)
(* and a first one that is new is that last one.                             *)
LEMMA FirstOfStays ==
  ASSUME NEW n \in Nat, NEW A, NEW B, A \subseteq 1 .. n, B \subseteq 1 .. n + 1,
         \A i \in 1 .. n : i \in A <=> i \in B
  PROVE  GrowsTo(FirstOf(A), FirstOf(B), n)
<1>1. ASSUME NEW i \in FirstOf(A)  PROVE i \in FirstOf(B) /\ i \in 1 .. n
  BY DEF FirstOf
<1>2. ASSUME NEW i \in FirstOf(B)  PROVE i \in FirstOf(A) \/ i = n + 1
  BY DEF FirstOf
<1> QED  BY <1>1, <1>2 DEF GrowsTo

(* ... so the candle that mitigates or invalidates a gap, or fails a block,  *)
(* is settled when it closes.                                                *)
LEMMA EndsStay ==
  ASSUME NEW S, NEW cs \in Seq(S), NEW c \in S, NEW g, g.known \in Nat
  PROVE  /\ GrowsTo(GapMitigated(cs, g), GapMitigated(Append(cs, c), g), Len(cs))
         /\ GrowsTo(GapInvalidated(cs, g), GapInvalidated(Append(cs, c), g), Len(cs))
         /\ GrowsTo(BlockFailed(cs, g), BlockFailed(Append(cs, c), g), Len(cs))
         /\ GrowsTo(FirstOf({i \in Later(cs, g) : Overlaps(cs[i], g)}),
                    FirstOf({i \in Later(Append(cs, c), g) : Overlaps(Append(cs, c)[i], g)}),
                    Len(cs))
         /\ \A i \in GapMitigated(Append(cs, c), g) : g.known < i
         /\ \A i \in GapInvalidated(Append(cs, c), g) : g.known < i
         /\ \A i \in BlockFailed(Append(cs, c), g) : g.known < i
         /\ \A i \in BlockRetested(Append(cs, c), g) : g.known < i
<1> DEFINE ds == Append(cs, c)
           n == Len(cs)
<1>1. /\ n \in Nat /\ Len(ds) = n + 1
      /\ \A i \in 1 .. n : ds[i] = cs[i]
  BY CandleStays
<1> HIDE DEF ds, n
<1>2. /\ Later(cs, g) = g.known + 1 .. n
      /\ Later(ds, g) = g.known + 1 .. n + 1
  BY <1>1 DEF Later, n
<1>3. GrowsTo(GapMitigated(cs, g), GapMitigated(ds, g), n)
  <2> DEFINE A == {i \in Later(cs, g) : Touches(cs[i], g)}
             B == {i \in Later(ds, g) : Touches(ds[i], g)}
  <2>1. A \subseteq 1 .. n /\ B \subseteq 1 .. n + 1
    BY <1>2
  <2>2. \A i \in 1 .. n : i \in A <=> i \in B
    BY <1>1, <1>2
  <2> QED  BY <1>1, <2>1, <2>2, FirstOfStays DEF GapMitigated
<1>4. GrowsTo(GapInvalidated(cs, g), GapInvalidated(ds, g), n)
  <2> DEFINE A == {i \in Later(cs, g) : Fills(cs[i], g)}
             B == {i \in Later(ds, g) : Fills(ds[i], g)}
  <2>1. A \subseteq 1 .. n /\ B \subseteq 1 .. n + 1
    BY <1>2
  <2>2. \A i \in 1 .. n : i \in A <=> i \in B
    BY <1>1, <1>2
  <2> QED  BY <1>1, <2>1, <2>2, FirstOfStays DEF GapInvalidated
<1>5. GrowsTo(BlockFailed(cs, g), BlockFailed(ds, g), n)
  <2> DEFINE A == {i \in Later(cs, g) : FailsBlock(cs[i], g)}
             B == {i \in Later(ds, g) : FailsBlock(ds[i], g)}
  <2>1. A \subseteq 1 .. n /\ B \subseteq 1 .. n + 1
    BY <1>2
  <2>2. \A i \in 1 .. n : i \in A <=> i \in B
    BY <1>1, <1>2
  <2> QED  BY <1>1, <2>1, <2>2, FirstOfStays DEF BlockFailed
<1>6. GrowsTo(FirstOf({i \in Later(cs, g) : Overlaps(cs[i], g)}),
              FirstOf({i \in Later(ds, g) : Overlaps(ds[i], g)}), n)
  <2> DEFINE A == {i \in Later(cs, g) : Overlaps(cs[i], g)}
             B == {i \in Later(ds, g) : Overlaps(ds[i], g)}
  <2>1. A \subseteq 1 .. n /\ B \subseteq 1 .. n + 1
    BY <1>2
  <2>2. \A i \in 1 .. n : i \in A <=> i \in B
    BY <1>1, <1>2
  <2> QED  BY <1>1, <2>1, <2>2, FirstOfStays
<1>7. /\ \A i \in GapMitigated(ds, g) : g.known < i
      /\ \A i \in GapInvalidated(ds, g) : g.known < i
      /\ \A i \in BlockFailed(ds, g) : g.known < i
      /\ \A i \in BlockRetested(ds, g) : g.known < i
  BY <1>2 DEF GapMitigated, GapInvalidated, BlockFailed, BlockRetested, FirstOf
<1> QED  BY <1>3, <1>4, <1>5, <1>6, <1>7 DEF ds, n

(* What is written when a finding ends grows with the findings and the ends. *)
LEMMA MitigationsGrow ==
  ASSUME NEW S, NEW cs \in Seq(S), NEW c \in S
  PROVE  GrowsAt(GapMitigations(cs), GapMitigations(Append(cs, c)), Len(cs))
<1> DEFINE ds == Append(cs, c)
           n == Len(cs)
           M(g, i) == Gap("gap mitigated", g.direction, g, g.known, i)
<1>1. GrowsAt(FairValueGaps(cs), FairValueGaps(ds), n) /\ n \in Nat
  BY GapsGrow
<1>2. ASSUME NEW g, g.known \in Nat
      PROVE  /\ GrowsTo(GapMitigated(cs, g), GapMitigated(ds, g), n)
             /\ \A i \in GapMitigated(ds, g) : g.known < i
  BY <1>2, EndsStay
<1>3. ASSUME NEW xs, NEW f
      PROVE  f \in GapMitigations(xs)
             <=> \E g \in FairValueGaps(xs) : \E i \in GapMitigated(xs, g) : f = M(g, i)
  <2> DEFINE T(g) == {M(g, i) : i \in GapMitigated(xs, g)}
  <2>1. GapMitigations(xs) = UNION {T(g) : g \in FairValueGaps(xs)}
    BY DEF GapMitigations
  <2>2. \A g : f \in T(g) <=> \E i \in GapMitigated(xs, g) : f = M(g, i)
    OBVIOUS
  <2> HIDE DEF T, M
  <2> QED  BY <2>1, <2>2
<1>4. ASSUME NEW g, NEW i  PROVE M(g, i).known = i
  BY DEF Gap
<1> HIDE DEF ds, n, M
<1>5. ASSUME NEW f \in GapMitigations(cs)
      PROVE  f \in GapMitigations(ds) /\ f.known \in Nat /\ f.known <= n
  <2>0. PICK g \in FairValueGaps(cs) : \E i \in GapMitigated(cs, g) : f = M(g, i)
    BY <1>3
  <2>1. PICK i \in GapMitigated(cs, g) : f = M(g, i)
    BY <2>0
  <2>2. g \in FairValueGaps(ds) /\ g.known \in Nat
    BY <1>1 DEF GrowsAt
  <2>3. i \in GapMitigated(ds, g) /\ i \in 1 .. n
    BY <1>2, <2>2 DEF GrowsTo
  <2> QED  BY <1>1, <1>3, <1>4, <2>1, <2>2, <2>3
<1>6. ASSUME NEW f \in GapMitigations(ds), f \notin GapMitigations(cs)
      PROVE  f.known = n + 1
  <2>0. PICK g \in FairValueGaps(ds) : \E i \in GapMitigated(ds, g) : f = M(g, i)
    BY <1>3
  <2>1. PICK i \in GapMitigated(ds, g) : f = M(g, i)
    BY <2>0
  <2>2. g.known \in Nat /\ (g \in FairValueGaps(cs) \/ g.known = n + 1)
    BY <1>1 DEF GrowsAt
  <2>3. i \in GapMitigated(cs, g) \/ i = n + 1
    BY <1>2, <2>2 DEF GrowsTo
  <2>4. i # n + 1 => i \in 1 .. n /\ g.known < i
    BY <1>2, <2>2, <2>3 DEF GrowsTo
  <2>5. i # n + 1 => g \in FairValueGaps(cs)
    BY <1>1, <2>2, <2>4
  <2> QED  BY <1>3, <1>4, <1>6, <2>1, <2>3, <2>5
<1> QED  BY <1>5, <1>6 DEF GrowsAt, ds, n

LEMMA InvalidationsGrow ==
  ASSUME NEW S, NEW cs \in Seq(S), NEW c \in S
  PROVE  GrowsAt(GapInvalidations(cs), GapInvalidations(Append(cs, c)), Len(cs))
<1> DEFINE ds == Append(cs, c)
           n == Len(cs)
           M(g, i) == Gap("gap invalidated", g.direction, g, g.known, i)
<1>1. GrowsAt(FairValueGaps(cs), FairValueGaps(ds), n) /\ n \in Nat
  BY GapsGrow
<1>2. ASSUME NEW g, g.known \in Nat
      PROVE  /\ GrowsTo(GapInvalidated(cs, g), GapInvalidated(ds, g), n)
             /\ \A i \in GapInvalidated(ds, g) : g.known < i
  BY <1>2, EndsStay
<1>3. ASSUME NEW xs, NEW f
      PROVE  f \in GapInvalidations(xs)
             <=> \E g \in FairValueGaps(xs) : \E i \in GapInvalidated(xs, g) : f = M(g, i)
  <2> DEFINE T(g) == {M(g, i) : i \in GapInvalidated(xs, g)}
  <2>1. GapInvalidations(xs) = UNION {T(g) : g \in FairValueGaps(xs)}
    BY DEF GapInvalidations
  <2>2. \A g : f \in T(g) <=> \E i \in GapInvalidated(xs, g) : f = M(g, i)
    OBVIOUS
  <2> HIDE DEF T, M
  <2> QED  BY <2>1, <2>2
<1>4. ASSUME NEW g, NEW i  PROVE M(g, i).known = i
  BY DEF Gap
<1> HIDE DEF ds, n, M
<1>5. ASSUME NEW f \in GapInvalidations(cs)
      PROVE  f \in GapInvalidations(ds) /\ f.known \in Nat /\ f.known <= n
  <2>0. PICK g \in FairValueGaps(cs) : \E i \in GapInvalidated(cs, g) : f = M(g, i)
    BY <1>3
  <2>1. PICK i \in GapInvalidated(cs, g) : f = M(g, i)
    BY <2>0
  <2>2. g \in FairValueGaps(ds) /\ g.known \in Nat
    BY <1>1 DEF GrowsAt
  <2>3. i \in GapInvalidated(ds, g) /\ i \in 1 .. n
    BY <1>2, <2>2 DEF GrowsTo
  <2> QED  BY <1>1, <1>3, <1>4, <2>1, <2>2, <2>3
<1>6. ASSUME NEW f \in GapInvalidations(ds), f \notin GapInvalidations(cs)
      PROVE  f.known = n + 1
  <2>0. PICK g \in FairValueGaps(ds) : \E i \in GapInvalidated(ds, g) : f = M(g, i)
    BY <1>3
  <2>1. PICK i \in GapInvalidated(ds, g) : f = M(g, i)
    BY <2>0
  <2>2. g.known \in Nat /\ (g \in FairValueGaps(cs) \/ g.known = n + 1)
    BY <1>1 DEF GrowsAt
  <2>3. i \in GapInvalidated(cs, g) \/ i = n + 1
    BY <1>2, <2>2 DEF GrowsTo
  <2>4. i # n + 1 => i \in 1 .. n /\ g.known < i
    BY <1>2, <2>2, <2>3 DEF GrowsTo
  <2>5. i # n + 1 => g \in FairValueGaps(cs)
    BY <1>1, <2>2, <2>4
  <2> QED  BY <1>3, <1>4, <1>6, <2>1, <2>3, <2>5
<1> QED  BY <1>5, <1>6 DEF GrowsAt, ds, n

LEMMA InversesGrow ==
  ASSUME NEW S, NEW cs \in Seq(S), NEW c \in S
  PROVE  GrowsAt(InverseGaps(cs), InverseGaps(Append(cs, c)), Len(cs))
<1> DEFINE ds == Append(cs, c)
           n == Len(cs)
           M(g, i) == Gap("inverse gap", Opposite(g.direction), g, g.known, i)
           Through(xs, g) == {i \in GapInvalidated(xs, g) : ClosesThrough(xs[i], g)}
<1>1. GrowsAt(FairValueGaps(cs), FairValueGaps(ds), n) /\ n \in Nat
  BY GapsGrow
<1>2. ASSUME NEW g, g.known \in Nat
      PROVE  /\ GrowsTo(Through(cs, g), Through(ds, g), n)
             /\ \A i \in Through(ds, g) : g.known < i
  <2>1. /\ GrowsTo(GapInvalidated(cs, g), GapInvalidated(ds, g), n)
        /\ \A i \in GapInvalidated(ds, g) : g.known < i
    BY <1>2, EndsStay
  <2>2. \A i \in 1 .. n : ds[i] = cs[i]
    BY CandleStays
  <2> QED  BY <2>1, <2>2 DEF GrowsTo
<1>3. ASSUME NEW xs, NEW f
      PROVE  f \in InverseGaps(xs)
             <=> \E g \in FairValueGaps(xs) : \E i \in Through(xs, g) : f = M(g, i)
  <2> DEFINE T(g) == {M(g, i) : i \in Through(xs, g)}
  <2>1. InverseGaps(xs) = UNION {T(g) : g \in FairValueGaps(xs)}
    BY DEF InverseGaps
  <2>2. \A g : f \in T(g) <=> \E i \in Through(xs, g) : f = M(g, i)
    OBVIOUS
  <2> HIDE DEF T, M, Through
  <2> QED  BY <2>1, <2>2
<1>4. ASSUME NEW g, NEW i  PROVE M(g, i).known = i
  BY DEF Gap
<1> HIDE DEF ds, n, M, Through
<1>5. ASSUME NEW f \in InverseGaps(cs)
      PROVE  f \in InverseGaps(ds) /\ f.known \in Nat /\ f.known <= n
  <2>0. PICK g \in FairValueGaps(cs) : \E i \in Through(cs, g) : f = M(g, i)
    BY <1>3
  <2>1. PICK i \in Through(cs, g) : f = M(g, i)
    BY <2>0
  <2>2. g \in FairValueGaps(ds) /\ g.known \in Nat
    BY <1>1 DEF GrowsAt
  <2>3. i \in Through(ds, g) /\ i \in 1 .. n
    BY <1>2, <2>2 DEF GrowsTo
  <2> QED  BY <1>1, <1>3, <1>4, <2>1, <2>2, <2>3
<1>6. ASSUME NEW f \in InverseGaps(ds), f \notin InverseGaps(cs)
      PROVE  f.known = n + 1
  <2>0. PICK g \in FairValueGaps(ds) : \E i \in Through(ds, g) : f = M(g, i)
    BY <1>3
  <2>1. PICK i \in Through(ds, g) : f = M(g, i)
    BY <2>0
  <2>2. g.known \in Nat /\ (g \in FairValueGaps(cs) \/ g.known = n + 1)
    BY <1>1 DEF GrowsAt
  <2>3. i \in Through(cs, g) \/ i = n + 1
    BY <1>2, <2>2 DEF GrowsTo
  <2>4. i # n + 1 => i \in 1 .. n /\ g.known < i
    BY <1>2, <2>2, <2>3 DEF GrowsTo
  <2>5. i # n + 1 => g \in FairValueGaps(cs)
    BY <1>1, <2>2, <2>4
  <2> QED  BY <1>3, <1>4, <1>6, <2>1, <2>3, <2>5
<1> QED  BY <1>5, <1>6 DEF GrowsAt, ds, n

LEMMA BreakersGrow ==
  ASSUME NEW S, NEW cs \in Seq(S), NEW c \in S, NEW old, NEW new,
         GrowsAt(old, new, Len(cs))
  PROVE  GrowsAt(BreakerBlocks(cs, old), BreakerBlocks(Append(cs, c), new), Len(cs))
<1> DEFINE ds == Append(cs, c)
           n == Len(cs)
           M(b, i) == Block("breaker block", Opposite(b.direction), b.at, b.lower, b.upper, i)
<1>1. GrowsAt(old, new, n) /\ n \in Nat
  OBVIOUS
<1>2. ASSUME NEW g, g.known \in Nat
      PROVE  /\ GrowsTo(BlockFailed(cs, g), BlockFailed(ds, g), n)
             /\ \A i \in BlockFailed(ds, g) : g.known < i
  BY <1>2, EndsStay
<1>3. ASSUME NEW xs, NEW base, NEW f
      PROVE  f \in BreakerBlocks(xs, base)
             <=> \E g \in base : \E i \in BlockFailed(xs, g) : f = M(g, i)
  <2> DEFINE T(g) == {M(g, i) : i \in BlockFailed(xs, g)}
  <2>1. BreakerBlocks(xs, base) = UNION {T(g) : g \in base}
    BY DEF BreakerBlocks
  <2>2. \A g : f \in T(g) <=> \E i \in BlockFailed(xs, g) : f = M(g, i)
    OBVIOUS
  <2> HIDE DEF T, M
  <2> QED  BY <2>1, <2>2
<1>4. ASSUME NEW g, NEW i  PROVE M(g, i).known = i
  BY DEF Block
<1> HIDE DEF ds, n, M
<1>5. ASSUME NEW f \in BreakerBlocks(cs, old)
      PROVE  f \in BreakerBlocks(ds, new) /\ f.known \in Nat /\ f.known <= n
  <2>0. PICK g \in old : \E i \in BlockFailed(cs, g) : f = M(g, i)
    BY <1>3
  <2>1. PICK i \in BlockFailed(cs, g) : f = M(g, i)
    BY <2>0
  <2>2. g \in new /\ g.known \in Nat
    BY <1>1 DEF GrowsAt
  <2>3. i \in BlockFailed(ds, g) /\ i \in 1 .. n
    BY <1>2, <2>2 DEF GrowsTo
  <2> QED  BY <1>1, <1>3, <1>4, <2>1, <2>2, <2>3
<1>6. ASSUME NEW f \in BreakerBlocks(ds, new), f \notin BreakerBlocks(cs, old)
      PROVE  f.known = n + 1
  <2>0. PICK g \in new : \E i \in BlockFailed(ds, g) : f = M(g, i)
    BY <1>3
  <2>1. PICK i \in BlockFailed(ds, g) : f = M(g, i)
    BY <2>0
  <2>2. g.known \in Nat /\ (g \in old \/ g.known = n + 1)
    BY <1>1 DEF GrowsAt
  <2>3. i \in BlockFailed(cs, g) \/ i = n + 1
    BY <1>2, <2>2 DEF GrowsTo
  <2>4. i # n + 1 => i \in 1 .. n /\ g.known < i
    BY <1>2, <2>2, <2>3 DEF GrowsTo
  <2>5. i # n + 1 => g \in old
    BY <1>1, <2>2, <2>4
  <2> QED  BY <1>3, <1>4, <1>6, <2>1, <2>3, <2>5
<1> QED  BY <1>5, <1>6 DEF GrowsAt, ds, n

LEMMA RetestsGrow ==
  ASSUME NEW S, NEW cs \in Seq(S), NEW c \in S, NEW old, NEW new,
         GrowsAt(old, new, Len(cs))
  PROVE  GrowsAt(MitigationBlocks(cs, old), MitigationBlocks(Append(cs, c), new), Len(cs))
<1> DEFINE ds == Append(cs, c)
           n == Len(cs)
           M(b, i) == Block("mitigation block", b.direction, b.at, b.lower, b.upper, i)
<1>1. GrowsAt(old, new, n) /\ n \in Nat
  OBVIOUS
<1>2. ASSUME NEW g, g.known \in Nat
      PROVE  /\ GrowsTo(BlockRetested(cs, g), BlockRetested(ds, g), n)
             /\ \A i \in BlockRetested(ds, g) : g.known < i
  <2> DEFINE A == FirstOf({i \in Later(cs, g) : Overlaps(cs[i], g)})
             B == FirstOf({i \in Later(ds, g) : Overlaps(ds[i], g)})
  <2>1. GrowsTo(A, B, n) /\ GrowsTo(BlockFailed(cs, g), BlockFailed(ds, g), n)
    BY <1>2, EndsStay
  <2>2. \A i \in BlockRetested(ds, g) : g.known < i
    BY <1>2, EndsStay
  <2> HIDE DEF A, B
  <2>3. /\ BlockRetested(cs, g) = {i \in A : \A j \in BlockFailed(cs, g) : i <= j}
        /\ BlockRetested(ds, g) = {i \in B : \A j \in BlockFailed(ds, g) : i <= j}
    BY DEF BlockRetested, A, B
  <2> HIDE DEF ds, n
  <2>4. ASSUME NEW i \in BlockRetested(cs, g)
        PROVE  i \in BlockRetested(ds, g) /\ i \in 1 .. n
    <3>1. i \in A /\ i \in B /\ i \in 1 .. n /\ \A j \in BlockFailed(cs, g) : i <= j
      BY <2>1, <2>3 DEF GrowsTo
    <3>2. \A j \in BlockFailed(ds, g) : j \in BlockFailed(cs, g) \/ j = n + 1
      BY <2>1 DEF GrowsTo
    <3>3. \A j \in BlockFailed(ds, g) : i <= j
      BY <1>1, <3>1, <3>2
    <3> QED  BY <2>3, <3>1, <3>3
  <2>5. ASSUME NEW i \in BlockRetested(ds, g)
        PROVE  i \in BlockRetested(cs, g) \/ i = n + 1
    BY <2>1, <2>3 DEF GrowsTo
  <2>6. GrowsTo(BlockRetested(cs, g), BlockRetested(ds, g), n)
    BY <2>4, <2>5 DEF GrowsTo
  <2> QED  BY <2>2, <2>6
<1>3. ASSUME NEW xs, NEW base, NEW f
      PROVE  f \in MitigationBlocks(xs, base)
             <=> \E g \in base : \E i \in BlockRetested(xs, g) : f = M(g, i)
  <2> DEFINE T(g) == {M(g, i) : i \in BlockRetested(xs, g)}
  <2>1. MitigationBlocks(xs, base) = UNION {T(g) : g \in base}
    BY DEF MitigationBlocks
  <2>2. \A g : f \in T(g) <=> \E i \in BlockRetested(xs, g) : f = M(g, i)
    OBVIOUS
  <2> HIDE DEF T, M
  <2> QED  BY <2>1, <2>2
<1>4. ASSUME NEW g, NEW i  PROVE M(g, i).known = i
  BY DEF Block
<1> HIDE DEF ds, n, M
<1>5. ASSUME NEW f \in MitigationBlocks(cs, old)
      PROVE  f \in MitigationBlocks(ds, new) /\ f.known \in Nat /\ f.known <= n
  <2>0. PICK g \in old : \E i \in BlockRetested(cs, g) : f = M(g, i)
    BY <1>3
  <2>1. PICK i \in BlockRetested(cs, g) : f = M(g, i)
    BY <2>0
  <2>2. g \in new /\ g.known \in Nat
    BY <1>1 DEF GrowsAt
  <2>3. i \in BlockRetested(ds, g) /\ i \in 1 .. n
    BY <1>2, <2>2 DEF GrowsTo
  <2> QED  BY <1>1, <1>3, <1>4, <2>1, <2>2, <2>3
<1>6. ASSUME NEW f \in MitigationBlocks(ds, new), f \notin MitigationBlocks(cs, old)
      PROVE  f.known = n + 1
  <2>0. PICK g \in new : \E i \in BlockRetested(ds, g) : f = M(g, i)
    BY <1>3
  <2>1. PICK i \in BlockRetested(ds, g) : f = M(g, i)
    BY <2>0
  <2>2. g.known \in Nat /\ (g \in old \/ g.known = n + 1)
    BY <1>1 DEF GrowsAt
  <2>3. i \in BlockRetested(cs, g) \/ i = n + 1
    BY <1>2, <2>2 DEF GrowsTo
  <2>4. i # n + 1 => i \in 1 .. n /\ g.known < i
    BY <1>2, <2>2, <2>3 DEF GrowsTo
  <2>5. i # n + 1 => g \in old
    BY <1>1, <2>2, <2>4
  <2> QED  BY <1>3, <1>4, <1>6, <2>1, <2>3, <2>5
<1> QED  BY <1>5, <1>6 DEF GrowsAt, ds, n

-----------------------------------------------------------------------------
LEMMA LaterOfTwo ==
  ASSUME NEW a \in Int, NEW b \in Int, a <= b
  PROVE  Max({a, b}) = b
<1>1. \A m \in {a, b} : (\A y \in {a, b} : m >= y) <=> m = b
  OBVIOUS
<1>2. \E m \in {a, b} : \A y \in {a, b} : m >= y
  BY <1>1
<1> QED  BY <1>1, <1>2 DEF Max

(* A swing is a pivot of its window, and dated at the end of it. *)
LEMMA SwingFacts ==
  ASSUME NEW xs, NEW scope, NEW left \in Nat \ {0}, NEW right \in Nat \ {0},
         Len(xs) \in Nat, NEW s \in Swings(xs, scope, left, right)
  PROVE  /\ s.at \in left + 1 .. Len(xs) - right
         /\ s.known = s.at + right
         /\ s.direction \in Directions
         /\ s.price = Extreme(xs[s.at], s.direction)
         /\ IsPivot(Window(xs, s.at - left, s.at + right), left + 1, s.direction)
<1>1. PICK d \in Directions, p \in left + 1 .. Len(xs) - right :
           /\ IsPivot(Window(xs, p - left, p + right), left + 1, d)
           /\ s = Swing(xs, scope, d, p, p + right)
  BY DEF Swings
<1>2. s.at = p /\ s.known = p + right /\ s.direction = d /\ s.price = Extreme(xs[p], d)
  BY <1>1 DEF Swing
<1> QED  BY <1>1, <1>2

(* No later swing comes between two that are there: pairs stay consecutive.  *)
LEMMA EqualLevelsGrow ==
  ASSUME NEW n \in Nat, NEW right \in Nat, NEW old, NEW new, GrowsAt(old, new, n),
         \A s \in new : s.at \in Int /\ s.known = s.at + right
  PROVE  GrowsAt(EqualLevels(old), EqualLevels(new), n)
<1>1. /\ old \subseteq new
      /\ \A s \in old : s.known \in Nat /\ s.known <= n
      /\ \A s \in new \ old : s.known = n + 1
  BY DEF GrowsAt
<1>2. ASSUME NEW s \in new, NEW t \in new, s.at < t.at
      PROVE  /\ s \in old
             /\ EqualLevel(s, t).known = t.known
  <2>1. /\ s.at \in Int /\ s.known = s.at + right
        /\ t.at \in Int /\ t.known = t.at + right
    OBVIOUS
  <2>2. t.known <= n + 1
    BY <1>1, <2>1
  <2>3. s \in old
    BY <1>1, <1>2, <2>1, <2>2
  <2>4. Max({s.known, t.known}) = t.known
    BY <1>2, <2>1, LaterOfTwo
  <2> QED  BY <2>3, <2>4 DEF EqualLevel
<1>3. ASSUME NEW s \in old, NEW t \in old
      PROVE  Consecutive(new, s, t) <=> Consecutive(old, s, t)
  <2>1. ASSUME NEW u \in new, u \notin old  PROVE t.at <= u.at
    <3>1. t.known <= n /\ t.at \in Int /\ t.known = t.at + right
      BY <1>1
    <3>2. u.known = n + 1 /\ u.at \in Int /\ u.known = u.at + right
      BY <1>1, <2>1
    <3> QED  BY <3>1, <3>2
  <2> QED  BY <1>1, <2>1 DEF Consecutive
<1>4. ASSUME NEW swings, NEW f
      PROVE  f \in EqualLevels(swings)
             <=> \E s, t \in swings : /\ Consecutive(swings, s, t) /\ AreEqual(s.price, t.price)
                                     /\ f = EqualLevel(s, t)
  BY DEF EqualLevels
<1>5. ASSUME NEW f \in EqualLevels(old)
      PROVE  f \in EqualLevels(new) /\ f.known \in Nat /\ f.known <= n
  <2>1. PICK s \in old, t \in old : /\ Consecutive(old, s, t) /\ AreEqual(s.price, t.price)
                                    /\ f = EqualLevel(s, t)
    BY <1>4
  <2>2. f \in EqualLevels(new)
    BY <1>1, <1>3, <1>4, <2>1
  <2>3. f.known = t.known
    BY <1>1, <1>2, <2>1 DEF Consecutive
  <2> QED  BY <1>1, <2>2, <2>3
<1>6. ASSUME NEW f \in EqualLevels(new), f \notin EqualLevels(old)
      PROVE  f.known = n + 1
  <2>1. PICK s \in new, t \in new : /\ Consecutive(new, s, t) /\ AreEqual(s.price, t.price)
                                    /\ f = EqualLevel(s, t)
    BY <1>4
  <2>2. s \in old /\ f.known = t.known
    BY <1>2, <2>1 DEF Consecutive
  <2>3. t \notin old
    BY <1>3, <1>4, <1>6, <2>1, <2>2
  <2> QED  BY <1>1, <2>2, <2>3
<1> QED  BY <1>5, <1>6 DEF GrowsAt

-----------------------------------------------------------------------------
(* A swing confirmed by the new candle is not yet looked at. *)
LEMMA LatestStays ==
  ASSUME NEW n \in Nat, NEW old, NEW new, GrowsAt(old, new, n), NEW i \in 1 .. n + 1, NEW s
  PROVE  IsLatest(new, s, i) <=> IsLatest(old, s, i)
<1>1. ASSUME NEW u \in new, u.known < i  PROVE u \in old
  BY <1>1 DEF GrowsAt
<1>2. old \subseteq new
  BY DEF GrowsAt
<1> QED  BY <1>1, <1>2 DEF IsLatest

LEMMA ClosesGrow ==
  ASSUME NEW S, NEW cs \in Seq(S), NEW c \in S, NEW old, NEW new, GrowsAt(old, new, Len(cs))
  PROVE  /\ GrowsAt(ClosesBeyondLatest(cs, old), ClosesBeyondLatest(Append(cs, c), new), Len(cs))
         /\ \A b \in ClosesBeyondLatest(Append(cs, c), new) : b.known \in Nat
<1> DEFINE ds == Append(cs, c)
           n == Len(cs)
<1>1. /\ n \in Nat /\ Len(ds) = n + 1
      /\ \A i \in 1 .. n : ds[i] = cs[i]
  BY CandleStays
<1>2. GrowsAt(old, new, n)
  OBVIOUS
<1> HIDE DEF ds, n
<1>3. ASSUME NEW b \in ClosesBeyondLatest(cs, old)
      PROVE  b \in ClosesBeyondLatest(ds, new) /\ b.known \in 1 .. n
  <2>1. /\ b \in [swing : old, known : 1 .. n]
        /\ ClosesBeyond(cs[b.known], b.swing) /\ IsLatest(old, b.swing, b.known)
    BY DEF ClosesBeyondLatest, n
  <2>a. b = [swing |-> b.swing, known |-> b.known] /\ b.swing \in old /\ b.known \in 1 .. n
    BY <2>1
  <2>b. b.swing \in new /\ b.known \in 1 .. n + 1
    BY <1>1, <1>2, <2>a DEF GrowsAt
  <2>2. b \in [swing : new, known : 1 .. n + 1]
    BY <2>a, <2>b
  <2>3. IsLatest(new, b.swing, b.known)
    <3>1. IsLatest(old, b.swing, b.known)
      BY <2>1
    <3> QED  BY <1>1, <1>2, <2>b, <3>1, LatestStays
  <2> QED  BY <1>1, <2>1, <2>2, <2>3 DEF ClosesBeyondLatest
<1>4. ASSUME NEW b \in ClosesBeyondLatest(ds, new)
      PROVE  b.known \in 1 .. n + 1 /\ (b \in ClosesBeyondLatest(cs, old) \/ b.known = n + 1)
  <2>1. /\ b \in [swing : new, known : 1 .. n + 1]
        /\ ClosesBeyond(ds[b.known], b.swing) /\ IsLatest(new, b.swing, b.known)
    BY <1>1 DEF ClosesBeyondLatest
  <2>2. b.known \in 1 .. n + 1
    BY <2>1
  <2>3. CASE b.known \in 1 .. n
    <3>1. IsLatest(old, b.swing, b.known)
      BY <1>1, <1>2, <2>1, <2>2, LatestStays
    <3>2. b \in [swing : old, known : 1 .. n]
      BY <2>1, <2>3, <3>1 DEF IsLatest
    <3> QED  BY <1>1, <2>1, <2>2, <2>3, <3>1, <3>2 DEF ClosesBeyondLatest, n
  <2> QED  BY <1>1, <2>2, <2>3
<1>5. GrowsAt(ClosesBeyondLatest(cs, old), ClosesBeyondLatest(ds, new), n)
  BY <1>1, <1>3, <1>4 DEF GrowsAt
<1>6. \A b \in ClosesBeyondLatest(ds, new) : b.known \in Nat
  BY <1>4
<1> QED  BY <1>5, <1>6 DEF ds, n

LEMMA BreaksGrow ==
  ASSUME NEW S, NEW cs \in Seq(S), NEW c \in S, NEW old, NEW new, GrowsAt(old, new, Len(cs))
  PROVE  /\ GrowsAt(Breaks(cs, old), Breaks(Append(cs, c), new), Len(cs))
         /\ \A b \in Breaks(Append(cs, c), new) : b.known \in Nat
<1> DEFINE ds == Append(cs, c)
           n == Len(cs)
           before == ClosesBeyondLatest(cs, old)
           after == ClosesBeyondLatest(ds, new)
<1>0. n \in Nat
  OBVIOUS
<1>1. GrowsAt(before, after, n) /\ \A b \in after : b.known \in Nat
  <2>1. GrowsAt(old, new, Len(cs))
    OBVIOUS
  <2> QED  BY <2>1, ClosesGrow
<1>2. /\ Breaks(cs, old) = {b \in before : \A a \in before : a.swing = b.swing => b.known <= a.known}
      /\ Breaks(ds, new) = {b \in after : \A a \in after : a.swing = b.swing => b.known <= a.known}
  BY DEF Breaks
<1> HIDE DEF ds, n, before, after
<1>3. ASSUME NEW b \in Breaks(cs, old)
      PROVE  b \in Breaks(ds, new) /\ b.known \in Nat /\ b.known <= n
  BY <1>0, <1>1, <1>2 DEF GrowsAt
<1>4. ASSUME NEW b \in Breaks(ds, new), b \notin Breaks(cs, old)
      PROVE  b.known = n + 1
  BY <1>0, <1>1, <1>2, <1>4 DEF GrowsAt
<1>5. \A b \in Breaks(ds, new) : b.known \in Nat
  BY <1>1, <1>2
<1> QED  BY <1>3, <1>4, <1>5 DEF GrowsAt, ds, n

(* What a break is depends on the breaks before it and on its own candle.    *)
LEMMA KindsStay ==
  ASSUME NEW S, NEW cs \in Seq(S), NEW c \in S, NEW before, NEW after,
         GrowsAt(before, after, Len(cs)), \A b \in after : b.known \in Nat,
         NEW b \in before, b.known \in 1 .. Len(cs)
  PROVE  KindsOf(Append(cs, c), after, b) = KindsOf(cs, before, b)
<1> DEFINE ds == Append(cs, c)
           n == Len(cs)
<1>1. n \in Nat /\ GrowsAt(before, after, n)
  OBVIOUS
<1>2. IsDisplaced(ds, Opposite(b.swing.direction), b.known)
      <=> IsDisplaced(cs, Opposite(b.swing.direction), b.known)
  BY DisplacedStays
<1>3. b.known <= n /\ b.known \in Nat
  OBVIOUS
<1> HIDE DEF ds, n
<1>4. before \subseteq after /\ \A x \in after : Precedes(x, b) => x \in before
  BY <1>1, <1>3 DEF GrowsAt, Precedes
<1>5. Turns(after, b) <=> Turns(before, b)
  BY <1>4 DEF Turns
<1>6. KindsOf(ds, after, b) = KindsOf(cs, before, b)
  BY <1>2, <1>5 DEF KindsOf
<1> QED  BY <1>6 DEF ds

LEMMA StructureGrows ==
  ASSUME NEW S, NEW cs \in Seq(S), NEW c \in S, NEW scope, NEW old, NEW new,
         GrowsAt(old, new, Len(cs))
  PROVE  GrowsAt(Structure(cs, scope, old), Structure(Append(cs, c), scope, new), Len(cs))
<1> DEFINE ds == Append(cs, c)
           n == Len(cs)
           before == Breaks(cs, old)
           after == Breaks(ds, new)
<1>0. n \in Nat
  OBVIOUS
<1>1. GrowsAt(before, after, n) /\ \A b \in after : b.known \in Nat
  <2>1. GrowsAt(old, new, Len(cs))
    OBVIOUS
  <2> QED  BY <2>1, BreaksGrow
<1>2. ASSUME NEW b \in before, b.known \in 1 .. n
      PROVE  KindsOf(ds, after, b) = KindsOf(cs, before, b)
  <2>1. GrowsAt(before, after, Len(cs)) /\ (\A x \in after : x.known \in Nat)
        /\ b.known \in 1 .. Len(cs)
    BY <1>1, <1>2
  <2> HIDE DEF before, after
  <2> QED  BY <2>1, KindsStay
<1>3. ASSUME NEW b \in before  PROVE b.known \in 1 .. n
  BY DEF Breaks, ClosesBeyondLatest
<1>4. ASSUME NEW xs, NEW swings, NEW f
      PROVE  f \in Structure(xs, scope, swings)
             <=> \E b \in Breaks(xs, swings) :
                   \E kind \in KindsOf(xs, Breaks(xs, swings), b) : f = StructureEvent(scope, b, kind)
  <2> DEFINE T(b) == {StructureEvent(scope, b, kind) : kind \in KindsOf(xs, Breaks(xs, swings), b)}
  <2>1. Structure(xs, scope, swings) = UNION {T(b) : b \in Breaks(xs, swings)}
    BY DEF Structure
  <2>2. \A b : f \in T(b) <=> \E kind \in KindsOf(xs, Breaks(xs, swings), b) :
                                f = StructureEvent(scope, b, kind)
    OBVIOUS
  <2> HIDE DEF T
  <2> QED  BY <2>1, <2>2
<1>5. ASSUME NEW b, NEW kind  PROVE StructureEvent(scope, b, kind).known = b.known
  BY DEF StructureEvent
<1>a. /\ \A f : f \in Structure(cs, scope, old)
               <=> \E b \in before : \E kind \in KindsOf(cs, before, b) :
                     f = StructureEvent(scope, b, kind)
      /\ \A f : f \in Structure(ds, scope, new)
               <=> \E b \in after : \E kind \in KindsOf(ds, after, b) :
                     f = StructureEvent(scope, b, kind)
  BY <1>4
<1> HIDE DEF ds, n, before, after
<1>6. ASSUME NEW f \in Structure(cs, scope, old)
      PROVE  f \in Structure(ds, scope, new) /\ f.known \in Nat /\ f.known <= n
  <2>1. PICK b \in before : \E kind \in KindsOf(cs, before, b) : f = StructureEvent(scope, b, kind)
    BY <1>a
  <2>2. b \in after /\ KindsOf(ds, after, b) = KindsOf(cs, before, b)
    BY <1>1, <1>2, <1>3 DEF GrowsAt
  <2>3. f.known = b.known
    BY <1>5, <2>1
  <2> QED  BY <1>0, <1>3, <1>a, <2>1, <2>2, <2>3
<1>7. ASSUME NEW f \in Structure(ds, scope, new), f \notin Structure(cs, scope, old)
      PROVE  f.known = n + 1
  <2>1. PICK b \in after : \E kind \in KindsOf(ds, after, b) : f = StructureEvent(scope, b, kind)
    BY <1>a
  <2>2. b \in before => KindsOf(ds, after, b) = KindsOf(cs, before, b)
    BY <1>2, <1>3
  <2>3. b \notin before
    BY <1>7, <1>a, <2>1, <2>2
  <2>4. f.known = b.known
    BY <1>5, <2>1
  <2> QED  BY <1>1, <2>3, <2>4 DEF GrowsAt
<1> QED  BY <1>6, <1>7 DEF GrowsAt, ds, n

LEMMA SweepsGrow ==
  ASSUME NEW S, NEW cs \in Seq(S), NEW c \in S, NEW old, NEW new, GrowsAt(old, new, Len(cs))
  PROVE  GrowsAt(LiquiditySweeps(cs, old), LiquiditySweeps(Append(cs, c), new), Len(cs))
<1> DEFINE ds == Append(cs, c)
           n == Len(cs)
           P(xs, sw, s, i) == Sweeps(xs[i], s) /\ IsLatest(sw, s, i)
           F(xs, s, i) == LiquiditySweep(xs, [swing |-> s, known |-> i])
<1>1. /\ n \in Nat /\ Len(ds) = n + 1
      /\ \A i \in 1 .. n : ds[i] = cs[i]
  BY CandleStays
<1>2. GrowsAt(old, new, n)
  OBVIOUS
<1>3. ASSUME NEW xs, NEW sw, NEW f
      PROVE  f \in LiquiditySweeps(xs, sw)
             <=> \E s \in sw : \E i \in 1 .. Len(xs) : P(xs, sw, s, i) /\ f = F(xs, s, i)
  <2> DEFINE T == [swing : sw, known : 1 .. Len(xs)]
  <2>1. f \in LiquiditySweeps(xs, sw)
        <=> \E b \in T : P(xs, sw, b.swing, b.known) /\ f = LiquiditySweep(xs, b)
    BY DEF LiquiditySweeps
  <2>2. \A b \in T : /\ b.swing \in sw /\ b.known \in 1 .. Len(xs)
                    /\ b = [swing |-> b.swing, known |-> b.known]
    OBVIOUS
  <2>3. \A s \in sw : \A i \in 1 .. Len(xs) :
          /\ [swing |-> s, known |-> i] \in T
          /\ [swing |-> s, known |-> i].swing = s
          /\ [swing |-> s, known |-> i].known = i
    OBVIOUS
  <2> HIDE DEF T, P
  <2>4. ASSUME NEW b \in T, P(xs, sw, b.swing, b.known), f = LiquiditySweep(xs, b)
        PROVE  \E s \in sw : \E i \in 1 .. Len(xs) : P(xs, sw, s, i) /\ f = F(xs, s, i)
    <3>1. b.swing \in sw /\ b.known \in 1 .. Len(xs)
      BY <2>2
    <3>2. f = F(xs, b.swing, b.known)
      BY <2>2, <2>4
    <3> HIDE DEF F
    <3> QED  BY <2>4, <3>1, <3>2
  <2>5. ASSUME NEW s \in sw, NEW i \in 1 .. Len(xs), P(xs, sw, s, i), f = F(xs, s, i)
        PROVE  \E b \in T : P(xs, sw, b.swing, b.known) /\ f = LiquiditySweep(xs, b)
    <3> DEFINE b == [swing |-> s, known |-> i]
    <3>1. b \in T /\ b.swing = s /\ b.known = i
      BY <2>3
    <3>2. f = LiquiditySweep(xs, b)
      BY <2>5
    <3> HIDE DEF b
    <3> QED  BY <2>5, <3>1, <3>2
  <2> HIDE DEF F
  <2> QED  BY <2>1, <2>4, <2>5
<1>4. ASSUME NEW xs, NEW s, NEW i  PROVE F(xs, s, i).known = i
  BY DEF LiquiditySweep
<1>5. ASSUME NEW s, NEW i \in 1 .. n  PROVE F(ds, s, i) = F(cs, s, i)
  BY <1>1 DEF LiquiditySweep
<1>6. ASSUME NEW s, NEW i \in 1 .. n  PROVE P(ds, new, s, i) <=> P(cs, old, s, i)
  <2>1. i \in 1 .. n + 1
    BY <1>1
  <2> HIDE DEF ds, n
  <2>2. IsLatest(new, s, i) <=> IsLatest(old, s, i)
    BY <1>1, <1>2, <2>1, LatestStays
  <2> QED  BY <1>1, <2>2
<1>7. ASSUME NEW sw, NEW xs, NEW s, NEW i, P(xs, sw, s, i)  PROVE s \in sw
  BY <1>7 DEF IsLatest
<1> HIDE DEF ds, n, P, F
<1>8. ASSUME NEW f \in LiquiditySweeps(cs, old)
      PROVE  f \in LiquiditySweeps(ds, new) /\ f.known \in Nat /\ f.known <= n
  <2>1. PICK s \in old, i \in 1 .. n : P(cs, old, s, i) /\ f = F(cs, s, i)
    BY <1>3 DEF n
  <2>2. s \in new /\ i \in 1 .. Len(ds) /\ P(ds, new, s, i) /\ f = F(ds, s, i)
    BY <1>1, <1>2, <1>5, <1>6, <2>1 DEF GrowsAt
  <2>3. f \in LiquiditySweeps(ds, new)
    BY <1>3, <2>2
  <2> QED  BY <1>1, <1>4, <2>1, <2>3
<1>9. ASSUME NEW f \in LiquiditySweeps(ds, new), f \notin LiquiditySweeps(cs, old)
      PROVE  f.known = n + 1
  <2>1. PICK s \in new, i \in 1 .. Len(ds) : P(ds, new, s, i) /\ f = F(ds, s, i)
    BY <1>3
  <2>2. i \in 1 .. n => s \in old /\ P(cs, old, s, i) /\ f = F(cs, s, i)
    BY <1>5, <1>6, <1>7, <2>1
  <2>3. i \notin 1 .. n
    BY <1>3, <1>9, <2>2 DEF n
  <2> QED  BY <1>1, <1>4, <2>1, <2>3
<1> QED  BY <1>8, <1>9 DEF GrowsAt, ds, n

-----------------------------------------------------------------------------
LEMMA OrderBlocksGrow ==
  ASSUME NEW S, NEW cs \in Seq(S), NEW c \in S, NEW old, NEW new, GrowsAt(old, new, Len(cs)),
         \A e \in new : e.known \in 1 .. Len(cs) + 1
  PROVE  GrowsAt(OrderBlocks(cs, old), OrderBlocks(Append(cs, c), new), Len(cs))
<1> DEFINE ds == Append(cs, c)
           n == Len(cs)
           F(xs, e, j) == Block("order block", e.direction, j, xs[j].low, xs[j].high, e.known)
           D(xs, e) == IsDisplaced(xs, e.direction, e.known)
           O(xs, e) == Origin(xs, e.direction, e.known)
<1>1. /\ n \in Nat /\ Len(ds) = n + 1
      /\ \A i \in 1 .. n : ds[i] = cs[i]
  BY CandleStays
<1>2. GrowsAt(old, new, n) /\ \A e \in new : e.known \in 1 .. n + 1
  OBVIOUS
<1>3. ASSUME NEW xs, NEW es, NEW f
      PROVE  f \in OrderBlocks(xs, es)
             <=> \E e \in es : D(xs, e) /\ \E j \in O(xs, e) : f = F(xs, e, j)
  <2> DEFINE T(e) == {F(xs, e, j) : j \in O(xs, e)}
  <2>1. OrderBlocks(xs, es) = UNION {T(e) : e \in {e \in es : D(xs, e)}}
    BY DEF OrderBlocks
  <2>2. \A e : f \in T(e) <=> \E j \in O(xs, e) : f = F(xs, e, j)
    OBVIOUS
  <2> HIDE DEF T, F, D, O
  <2> QED  BY <2>1, <2>2
<1>4. ASSUME NEW e, e.known \in 1 .. n
      PROVE  /\ D(ds, e) <=> D(cs, e)
             /\ O(ds, e) = O(cs, e)
             /\ \A j \in O(cs, e) : F(ds, e, j) = F(cs, e, j)
  <2>1. D(ds, e) <=> D(cs, e)
    BY <1>4, DisplacedStays
  <2>2. \A j \in 1 .. e.known - 1 : ds[j] = cs[j]
    BY <1>1, <1>4
  <2> HIDE DEF ds
  <2>3. O(ds, e) = O(cs, e)
    BY <2>2 DEF Origin, LastOf
  <2>4. \A j \in O(cs, e) : j \in 1 .. e.known - 1
    BY DEF Origin, LastOf
  <2>5. \A j \in O(cs, e) : F(ds, e, j) = F(cs, e, j)
    BY <2>2, <2>4
  <2> QED  BY <2>1, <2>3, <2>5
<1>5. ASSUME NEW xs, NEW e, NEW j  PROVE F(xs, e, j).known = e.known
  BY DEF Block
<1>6. \A e \in old : e \in new /\ e.known \in 1 .. n
  BY <1>1, <1>2 DEF GrowsAt
<1> HIDE DEF ds, n, F, D, O
<1>7. ASSUME NEW f \in OrderBlocks(cs, old)
      PROVE  f \in OrderBlocks(ds, new) /\ f.known \in Nat /\ f.known <= n
  <2>1. PICK e \in old : D(cs, e) /\ \E j \in O(cs, e) : f = F(cs, e, j)
    BY <1>3
  <2>2. PICK j \in O(cs, e) : f = F(cs, e, j)
    BY <2>1
  <2>3. e \in new /\ e.known \in 1 .. n
    BY <1>6
  <2>4. D(ds, e) /\ j \in O(ds, e) /\ f = F(ds, e, j)
    BY <1>4, <2>1, <2>2, <2>3
  <2>5. f \in OrderBlocks(ds, new)
    BY <1>3, <2>3, <2>4
  <2>6. f.known = e.known
    BY <1>5, <2>2
  <2> QED  BY <1>1, <2>3, <2>5, <2>6
<1>8. ASSUME NEW f \in OrderBlocks(ds, new), f \notin OrderBlocks(cs, old)
      PROVE  f.known = n + 1
  <2>1. PICK e \in new : D(ds, e) /\ \E j \in O(ds, e) : f = F(ds, e, j)
    BY <1>3
  <2>2. PICK j \in O(ds, e) : f = F(ds, e, j)
    BY <2>1
  <2>3. e \notin old
    <3>1. ASSUME e \in old  PROVE FALSE
      <4>1. D(cs, e) /\ j \in O(cs, e) /\ f = F(cs, e, j)
        BY <1>4, <1>6, <2>1, <2>2, <3>1
      <4> QED  BY <1>3, <1>8, <3>1, <4>1
    <3> QED  BY <3>1
  <2>4. f.known = e.known
    BY <1>5, <2>2
  <2> QED  BY <1>2, <2>3, <2>4 DEF GrowsAt
<1> QED  BY <1>7, <1>8 DEF GrowsAt, ds, n

LEMMA UnionsGrow ==
  ASSUME NEW A, NEW B, NEW C, NEW D, NEW n \in Nat, GrowsAt(A, B, n), GrowsAt(C, D, n)
  PROVE  GrowsAt(A \cup C, B \cup D, n)
  BY DEF GrowsAt

(* Everything the analysis finds grows. *)
LEMMA PartsGrow ==
  ASSUME NEW S, NEW cs \in Seq(S), NEW c \in S
  PROVE  LET ds == Append(cs, c)
             n == Len(cs)
         IN /\ n \in Nat /\ Len(ds) = n + 1
            /\ GrowsAt(ExternalSwings(cs), ExternalSwings(ds), n)
            /\ GrowsAt(InternalSwings(cs), InternalSwings(ds), n)
            /\ GrowsAt(EqualLevels(ExternalSwings(cs)), EqualLevels(ExternalSwings(ds)), n)
            /\ GrowsAt(ExternalStructure(cs), ExternalStructure(ds), n)
            /\ GrowsAt(InternalStructure(cs), InternalStructure(ds), n)
            /\ GrowsAt(LiquiditySweeps(cs, ExternalSwings(cs)),
                       LiquiditySweeps(ds, ExternalSwings(ds)), n)
            /\ GrowsAt(PriceBlocks(cs), PriceBlocks(ds), n)
            /\ GrowsAt(Displacements(cs), Displacements(ds), n)
            /\ GrowsAt(FairValueGaps(cs), FairValueGaps(ds), n)
            /\ GrowsAt(GapMitigations(cs), GapMitigations(ds), n)
            /\ GrowsAt(GapInvalidations(cs), GapInvalidations(ds), n)
            /\ GrowsAt(InverseGaps(cs), InverseGaps(ds), n)
<1> DEFINE ds == Append(cs, c)
           n == Len(cs)
<1>1. /\ n \in Nat /\ Len(ds) = n + 1 /\ ds \in Seq(S)
      /\ \A right \in {SwingRight, InternalRight} : right \in Nat \ {0}
      /\ \A left \in {SwingLeft, InternalLeft} : left \in Nat \ {0}
  BY CandleStays, ConfigAssumption
<1>2. GrowsAt(ExternalSwings(cs), ExternalSwings(ds), n)
  BY <1>1, SwingsGrow DEF ExternalSwings
<1>3. GrowsAt(InternalSwings(cs), InternalSwings(ds), n)
  BY <1>1, SwingsGrow DEF InternalSwings
<1>4. GrowsAt(EqualLevels(ExternalSwings(cs)), EqualLevels(ExternalSwings(ds)), n)
  <2>1. \A s \in ExternalSwings(ds) : s.at \in Int /\ s.known = s.at + SwingRight
    BY <1>1, SwingFacts DEF ExternalSwings
  <2> HIDE DEF ds, n
  <2> QED  BY <1>1, <1>2, <2>1, EqualLevelsGrow
<1>5. /\ GrowsAt(ExternalStructure(cs), ExternalStructure(ds), n)
      /\ GrowsAt(InternalStructure(cs), InternalStructure(ds), n)
      /\ GrowsAt(LiquiditySweeps(cs, ExternalSwings(cs)), LiquiditySweeps(ds, ExternalSwings(ds)), n)
  BY <1>2, <1>3, StructureGrows, SweepsGrow DEF ExternalStructure, InternalStructure
<1>6. GrowsAt(PriceBlocks(cs), PriceBlocks(ds), n)
  <2> DEFINE old == OrderBlocks(cs, ExternalStructure(cs))
             new == OrderBlocks(ds, ExternalStructure(ds))
  <2>1. ASSUME NEW e \in ExternalStructure(ds)  PROVE e.known \in 1 .. n + 1
    <3>1. PICK b \in Breaks(ds, ExternalSwings(ds)) :
               \E kind \in KindsOf(ds, Breaks(ds, ExternalSwings(ds)), b) :
                 e = StructureEvent("external", b, kind)
      BY DEF ExternalStructure, Structure
    <3>2. e.known = b.known
      BY <3>1 DEF StructureEvent
    <3>3. b.known \in 1 .. Len(ds)
      BY DEF Breaks, ClosesBeyondLatest
    <3> QED  BY <1>1, <3>2, <3>3
  <2>2. GrowsAt(old, new, n)
    BY <1>5, <2>1, OrderBlocksGrow
  <2>3. GrowsAt(MitigationBlocks(cs, old), MitigationBlocks(ds, new), n)
    BY <2>2, RetestsGrow
  <2>4. GrowsAt(BreakerBlocks(cs, old), BreakerBlocks(ds, new), n)
    BY <2>2, BreakersGrow
  <2>5. /\ PriceBlocks(cs) = (old \cup MitigationBlocks(cs, old)) \cup BreakerBlocks(cs, old)
        /\ PriceBlocks(ds) = (new \cup MitigationBlocks(ds, new)) \cup BreakerBlocks(ds, new)
    BY DEF PriceBlocks
  <2> HIDE DEF ds, n, old, new
  <2>6. GrowsAt(old \cup MitigationBlocks(cs, old), new \cup MitigationBlocks(ds, new), n)
    BY <1>1, <2>2, <2>3, UnionsGrow
  <2>7. GrowsAt((old \cup MitigationBlocks(cs, old)) \cup BreakerBlocks(cs, old),
                (new \cup MitigationBlocks(ds, new)) \cup BreakerBlocks(ds, new), n)
    BY <1>1, <2>4, <2>6, UnionsGrow
  <2> QED  BY <2>5, <2>7
<1>7. /\ GrowsAt(Displacements(cs), Displacements(ds), n)
      /\ GrowsAt(FairValueGaps(cs), FairValueGaps(ds), n)
      /\ GrowsAt(GapMitigations(cs), GapMitigations(ds), n)
      /\ GrowsAt(GapInvalidations(cs), GapInvalidations(ds), n)
      /\ GrowsAt(InverseGaps(cs), InverseGaps(ds), n)
  BY DisplacementsGrow, GapsGrow, MitigationsGrow, InvalidationsGrow, InversesGrow
<1> HIDE DEF ds, n
<1> QED  BY <1>1, <1>2, <1>3, <1>4, <1>5, <1>6, <1>7 DEF ds, n

(* ... and so do the findings together: the step of the log. *)
LEMMA FindingsGrow ==
  ASSUME NEW S, NEW cs \in Seq(S), NEW c \in S
  PROVE  GrowsAt(Findings(cs), Findings(Append(cs, c)), Len(cs))
<1> DEFINE ds == Append(cs, c)
           n == Len(cs)
<1>1. /\ GrowsAt(ExternalSwings(cs), ExternalSwings(ds), n)
      /\ GrowsAt(InternalSwings(cs), InternalSwings(ds), n)
      /\ GrowsAt(EqualLevels(ExternalSwings(cs)), EqualLevels(ExternalSwings(ds)), n)
      /\ GrowsAt(ExternalStructure(cs), ExternalStructure(ds), n)
      /\ GrowsAt(InternalStructure(cs), InternalStructure(ds), n)
      /\ GrowsAt(LiquiditySweeps(cs, ExternalSwings(cs)), LiquiditySweeps(ds, ExternalSwings(ds)), n)
      /\ GrowsAt(PriceBlocks(cs), PriceBlocks(ds), n)
      /\ GrowsAt(Displacements(cs), Displacements(ds), n)
      /\ GrowsAt(FairValueGaps(cs), FairValueGaps(ds), n)
      /\ GrowsAt(GapMitigations(cs), GapMitigations(ds), n)
      /\ GrowsAt(GapInvalidations(cs), GapInvalidations(ds), n)
      /\ GrowsAt(InverseGaps(cs), InverseGaps(ds), n)
  BY PartsGrow
<1> HIDE DEF ds, n
<1> QED  BY <1>1 DEF GrowsAt, Findings, ds, n

LEMMA NothingToFind == Findings(<<>>) = {}
<1>1. /\ SwingLeft \in Nat \ {0} /\ SwingRight \in Nat \ {0}
      /\ InternalLeft \in Nat \ {0} /\ InternalRight \in Nat \ {0}
      /\ Len(<<>>) = 0
  BY ConfigAssumption
<1>2. ExternalSwings(<<>>) = {} /\ InternalSwings(<<>>) = {}
  BY <1>1 DEF ExternalSwings, InternalSwings, Swings
<1>3. Displacements(<<>>) = {}
  BY <1>1 DEF Displacements
<1>4. FairValueGaps(<<>>) = {}
  BY <1>1 DEF FairValueGaps
<1>5. GapMitigations(<<>>) = {} /\ GapInvalidations(<<>>) = {} /\ InverseGaps(<<>>) = {}
  BY <1>4 DEF GapMitigations, GapInvalidations, InverseGaps
<1>6. EqualLevels(ExternalSwings(<<>>)) = {}
  BY <1>2 DEF EqualLevels
<1>7. \A swings : Breaks(<<>>, swings) = {}
  BY <1>1 DEF Breaks, ClosesBeyondLatest
<1>8. ExternalStructure(<<>>) = {} /\ InternalStructure(<<>>) = {}
  BY <1>7 DEF ExternalStructure, InternalStructure, Structure
<1>9. LiquiditySweeps(<<>>, ExternalSwings(<<>>)) = {}
  BY <1>1 DEF LiquiditySweeps
<1>10. PriceBlocks(<<>>) = {}
  BY <1>8 DEF PriceBlocks, OrderBlocks, MitigationBlocks, BreakerBlocks
<1> QED  BY <1>2, <1>3, <1>4, <1>5, <1>6, <1>8, <1>9, <1>10 DEF Findings

TypeOK == candles \in Seq(Candles)

(* The candles of an analysis are candles. *)
THEOREM AnalysisTypeCorrect == Spec => []TypeOK
<1>1. Init => TypeOK
  BY DEF Init, TypeOK
<1>2. TypeOK /\ [Next]_candles => TypeOK'
  BY DEF TypeOK, Next, CandleCloses
<1> QED  BY <1>1, <1>2, PTL DEF Spec

(* Whatever the thresholds and the candles, analyze called after every       *)
(* candle never takes a finding back, changes it or dates it before the      *)
(* candle it came with: its results are a log.                               *)
THEOREM AnalysisNeverRepaints == Spec => NothingRepaints
<1>1. Init => Log!LogInit
  BY NothingToFind DEF Init, Log!LogInit
<1>2. TypeOK /\ [Next]_candles => [Log!LogNext]_<<Len(candles), Findings(candles)>>
  <2> SUFFICES ASSUME TypeOK, [Next]_candles
               PROVE  [Log!LogNext]_<<Len(candles), Findings(candles)>>
    OBVIOUS
  <2>1. CASE UNCHANGED candles
    BY <2>1
  <2>2. ASSUME NEW c \in Candles, CandleCloses(c)  PROVE Log!LogNext
    <3>1. candles' = Append(candles, c) /\ candles \in Seq(Candles)
      BY <2>2 DEF CandleCloses, TypeOK
    <3>2. GrowsAt(Findings(candles), Findings(Append(candles, c)), Len(candles))
      BY <3>1, FindingsGrow
    <3>3. Len(Append(candles, c)) = Len(candles) + 1
      BY <3>1, CandleStays
    <3> QED  BY <3>1, <3>2, <3>3 DEF Log!LogNext, GrowsAt
  <2> QED  BY <2>1, <2>2 DEF Next
<1> QED  BY <1>1, <1>2, AnalysisTypeCorrect, PTL DEF Spec, NothingRepaints, Log!LogSpec

-----------------------------------------------------------------------------
(* If both the high and the low looked at were broken, the low would be the  *)
(* higher one; then their windows share no candle, and the earlier of the    *)
(* two was already broken by the first candle of the window of the later.    *)
LEMMA WindowIsBeyond ==
  ASSUME NEW cs \in Seq(CandleSet), NEW scope, NEW left \in Nat \ {0}, NEW right \in Nat \ {0},
         NEW s \in Swings(cs, scope, left, right), NEW i \in s.at - left .. s.at + right
  PROVE  /\ i \in 1 .. Len(cs)
         /\ s.direction = "BEARISH" => cs[i].high <= s.price
         /\ s.direction = "BULLISH" => cs[i].low >= s.price
<1> DEFINE w == Window(cs, s.at - left, s.at + right)
           p == s.at
           j == i - (p - left) + 1
<1>1. /\ p \in left + 1 .. Len(cs) - right
      /\ s.direction \in Directions
      /\ s.price = Extreme(cs[p], s.direction)
      /\ IsPivot(w, left + 1, s.direction)
  BY SwingFacts
<1>2. Len(cs) \in Nat /\ i \in p - left .. p + right
  OBVIOUS
<1>3. /\ DOMAIN w = 1 .. left + right + 1
      /\ \A k \in 1 .. left + right + 1 : w[k] = cs[p - left + k - 1]
  <2>1. p - left \in Int /\ p + right \in Int /\ 1 <= p - left /\ p + right <= Len(cs)
    BY <1>1
  <2>2. (p + right) - (p - left) + 1 = left + right + 1
    BY <1>1
  <2> HIDE DEF p
  <2>3. /\ DOMAIN w = 1 .. (p + right) - (p - left) + 1
        /\ \A k \in 1 .. (p + right) - (p - left) + 1 : w[k] = cs[p - left + k - 1]
    BY <2>1 DEF Window, p
  <2> QED  BY <2>2, <2>3
<1> HIDE DEF w, p
<1>4. i \in 1 .. Len(cs) /\ p \in 1 .. Len(cs) /\ j \in 1 .. left + right + 1
  BY <1>1, <1>2
<1>5. /\ j \in DOMAIN w /\ left + 1 \in DOMAIN w
      /\ p - left + j - 1 = i /\ p - left + (left + 1) - 1 = p
  BY <1>1, <1>2, <1>3, <1>4
<1>6. w[j] = cs[i] /\ w[left + 1] = cs[p]
  BY <1>3, <1>5
<1>7. /\ cs[i].high \in Nat /\ cs[i].low \in Nat
      /\ cs[p].high \in Nat /\ cs[p].low \in Nat
  <2>1. cs[i] \in CandleSet /\ cs[p] \in CandleSet
    BY <1>4
  <2> QED  BY <2>1 DEF CandleSet
<1> HIDE DEF j
<1>8. CASE j = left + 1
  BY <1>1, <1>4, <1>6, <1>7, <1>8 DEF Extreme
<1>9. CASE j # left + 1
  <2>1. IF s.direction = "BEARISH" THEN w[left + 1].high > w[j].high
        ELSE w[left + 1].low < w[j].low
    BY <1>1, <1>5, <1>9 DEF IsPivot
  <2> QED  BY <1>1, <1>4, <1>6, <1>7, <2>1 DEF Extreme
<1> QED  BY <1>8, <1>9

(* A swing that is looked at is looked at since it was confirmed. *)
LEMMA LatestBefore ==
  ASSUME NEW swings, \A s \in swings : s.known \in Nat, NEW i \in Nat, NEW s,
         IsLatest(swings, s, i), NEW j \in Nat, s.known < j, j <= i
  PROVE  IsLatest(swings, s, j)
  BY DEF IsLatest

LEMMA OneBreak ==
  ASSUME NEW cs \in Seq(CandleSet), \A i \in 1 .. Len(cs) : cs[i].close \in cs[i].low .. cs[i].high,
         NEW scope, NEW left \in Nat \ {0}, NEW right \in Nat \ {0},
         NEW a \in Breaks(cs, Swings(cs, scope, left, right)),
         NEW b \in Breaks(cs, Swings(cs, scope, left, right)),
         a.known = b.known, a.swing.direction = "BEARISH", b.swing.direction = "BULLISH"
  PROVE  FALSE
<1> DEFINE swings == Swings(cs, scope, left, right)
           closes == ClosesBeyondLatest(cs, swings)
           n == Len(cs)
           i == a.known
           H == a.swing
           L == b.swing
<1>1. /\ a \in closes /\ b \in closes /\ i \in 1 .. n /\ n \in Nat
      /\ H \in swings /\ L \in swings /\ IsLatest(swings, H, i) /\ IsLatest(swings, L, i)
      /\ ClosesBeyond(cs[i], H) /\ ClosesBeyond(cs[i], L)
      /\ \A x \in closes : x.swing = H => i <= x.known
      /\ \A x \in closes : x.swing = L => i <= x.known
  BY DEF Breaks, ClosesBeyondLatest
<1>2. \A k \in 1 .. n : /\ cs[k].low \in Nat /\ cs[k].high \in Nat /\ cs[k].close \in Nat
                       /\ cs[k].low <= cs[k].close /\ cs[k].close <= cs[k].high
  <2> TAKE k \in 1 .. n
  <2>1. cs[k] \in CandleSet /\ cs[k].close \in cs[k].low .. cs[k].high
    OBVIOUS
  <2>2. cs[k].low \in Nat /\ cs[k].high \in Nat /\ cs[k].close \in Nat
    BY <2>1 DEF CandleSet
  <2> QED  BY <2>1, <2>2
<1>0. ASSUME NEW s \in swings
      PROVE  /\ s.at \in left + 1 .. n - right /\ s.known = s.at + right
             /\ s.price = Extreme(cs[s.at], s.direction)
  BY <1>1, SwingFacts
<1> HIDE DEF swings
<1>3. /\ H.at \in left + 1 .. n - right /\ H.known = H.at + right
      /\ L.at \in left + 1 .. n - right /\ L.known = L.at + right
      /\ \A s \in swings : s.known \in Nat
  <2>1. \A s \in swings : s.known \in Nat
    BY <1>0, <1>1
  <2> QED  BY <1>0, <1>1, <2>1
<1>4. /\ \A k \in H.at - left .. H.at + right : k \in 1 .. n /\ cs[k].high <= H.price
      /\ \A k \in L.at - left .. L.at + right : k \in 1 .. n /\ cs[k].low >= L.price
  BY <1>1, WindowIsBeyond DEF swings
<1>5. H.price \in Nat /\ L.price \in Nat
  <2>1. H.price = cs[H.at].high /\ L.price = cs[L.at].low
    BY <1>0, <1>1 DEF Extreme
  <2>2. H.at \in 1 .. n /\ L.at \in 1 .. n
    BY <1>1, <1>3
  <2> QED  BY <1>2, <2>1, <2>2
<1> HIDE DEF swings, closes, n, i, H, L
<1>6. H.price < L.price
  BY <1>1, <1>2, <1>5 DEF ClosesBeyond, i, H, L
<1>7. ASSUME NEW s \in swings, NEW k \in 1 .. n, IsLatest(swings, s, k), ClosesBeyond(cs[k], s)
      PROVE  \E x \in closes : x.swing = s /\ x.known = k
  <2> DEFINE x == [swing |-> s, known |-> k]
  <2>1. x \in [swing : swings, known : 1 .. Len(cs)] /\ x.swing = s /\ x.known = k
    BY DEF n
  <2> HIDE DEF x
  <2>2. x \in closes
    BY <1>7, <2>1 DEF closes, ClosesBeyondLatest
  <2> QED  BY <2>1, <2>2
<1>8. H.at + right < L.at - left \/ L.at + right < H.at - left
  <2>1. ASSUME NEW k \in H.at - left .. H.at + right, k \in L.at - left .. L.at + right
        PROVE  FALSE
    <3>1. k \in 1 .. n /\ cs[k].high <= H.price
      BY <1>4, <2>1
    <3>2. cs[k].low >= L.price
      BY <1>4, <2>1
    <3>3. cs[k].low \in Nat /\ cs[k].high \in Nat /\ cs[k].low <= cs[k].high
      BY <1>2, <3>1
    <3> QED  BY <1>5, <1>6, <3>1, <3>2, <3>3
  <2>2. H.at \in Int /\ L.at \in Int
    BY <1>1, <1>3
  <2>3. CASE H.at <= L.at
    <3>1. L.at - left \in L.at - left .. L.at + right
      BY <2>2
    <3>2. L.at - left \notin H.at - left .. H.at + right
      BY <2>1, <3>1
    <3> QED  BY <2>2, <2>3, <3>2
  <2>4. CASE L.at < H.at
    <3>1. H.at - left \in H.at - left .. H.at + right
      BY <2>2
    <3>2. H.at - left \notin L.at - left .. L.at + right
      BY <2>1, <3>1
    <3> QED  BY <2>2, <2>4, <3>2
  <2> QED  BY <2>2, <2>3, <2>4
<1>9. CASE H.at + right < L.at - left
  <2> DEFINE k == L.at - left
  <2>1. k \in Nat /\ k \in L.at - left .. L.at + right /\ H.known < k /\ k < i
    BY <1>1, <1>3, <1>9 DEF IsLatest
  <2>2. k \in 1 .. n /\ cs[k].close > H.price
    <3>1. k \in 1 .. n /\ cs[k].low >= L.price
      BY <1>4, <2>1
    <3>2. /\ cs[k].low \in Nat /\ cs[k].high \in Nat /\ cs[k].close \in Nat
          /\ cs[k].low <= cs[k].close /\ cs[k].close <= cs[k].high
      BY <1>2, <3>1
    <3> HIDE DEF k
    <3> QED  BY <1>5, <1>6, <3>1, <3>2
  <2> HIDE DEF k
  <2>3. IsLatest(swings, H, k) /\ ClosesBeyond(cs[k], H)
    BY <1>1, <1>3, <2>1, <2>2, LatestBefore DEF ClosesBeyond, H
  <2> QED  BY <1>1, <1>7, <2>1, <2>2, <2>3
<1>10. CASE L.at + right < H.at - left
  <2> DEFINE k == H.at - left
  <2>1. k \in Nat /\ k \in H.at - left .. H.at + right /\ L.known < k /\ k < i
    BY <1>1, <1>3, <1>10 DEF IsLatest
  <2>2. k \in 1 .. n /\ cs[k].close < L.price
    <3>1. k \in 1 .. n /\ cs[k].high <= H.price
      BY <1>4, <2>1
    <3>2. /\ cs[k].low \in Nat /\ cs[k].high \in Nat /\ cs[k].close \in Nat
          /\ cs[k].low <= cs[k].close /\ cs[k].close <= cs[k].high
      BY <1>2, <3>1
    <3> HIDE DEF k
    <3> QED  BY <1>5, <1>6, <3>1, <3>2
  <2> HIDE DEF k
  <2>3. IsLatest(swings, L, k) /\ ClosesBeyond(cs[k], L)
    BY <1>1, <1>3, <2>1, <2>2, LatestBefore DEF ClosesBeyond, L
  <2> QED  BY <1>1, <1>7, <2>1, <2>2, <2>3
<1> QED  BY <1>8, <1>9, <1>10

(* Two breaks of a side at one candle are of the same swing. *)
LEMMA OneBreakOfASide ==
  ASSUME NEW cs, NEW scope, NEW left \in Nat \ {0}, NEW right \in Nat \ {0}, Len(cs) \in Nat,
         NEW a \in Breaks(cs, Swings(cs, scope, left, right)),
         NEW b \in Breaks(cs, Swings(cs, scope, left, right)),
         a.known = b.known, a.swing.direction = b.swing.direction
  PROVE  a.swing.at = b.swing.at
<1> DEFINE swings == Swings(cs, scope, left, right)
<1>1. ASSUME NEW s \in swings  PROVE s.at \in Int
  BY SwingFacts
<1>2. /\ a.swing \in swings /\ IsLatest(swings, a.swing, a.known)
      /\ b.swing \in swings /\ IsLatest(swings, b.swing, b.known)
  BY DEF Breaks, ClosesBeyondLatest
<1> HIDE DEF swings
<1>3. a.swing.at <= b.swing.at /\ b.swing.at <= a.swing.at
  BY <1>2 DEF IsLatest
<1> QED  BY <1>1, <1>2, <1>3

LEMMA EventsAtOneCandle ==
  ASSUME NEW cs \in Seq(Candles), NEW scope, NEW left \in Nat \ {0}, NEW right \in Nat \ {0},
         NEW e \in Structure(cs, scope, Swings(cs, scope, left, right)),
         NEW f \in Structure(cs, scope, Swings(cs, scope, left, right)),
         e.known = f.known
  PROVE  e.direction = f.direction /\ e.at = f.at
<1> DEFINE swings == Swings(cs, scope, left, right)
           breaks == Breaks(cs, swings)
<1>1. ASSUME NEW g \in Structure(cs, scope, swings)
      PROVE  \E b \in breaks : /\ g.known = b.known /\ g.at = b.swing.at
                               /\ g.direction = Opposite(b.swing.direction)
  <2>1. PICK b \in breaks : \E kind \in KindsOf(cs, breaks, b) : g = StructureEvent(scope, b, kind)
    BY DEF Structure
  <2> QED  BY <2>1 DEF StructureEvent
<1>2. PICK a \in breaks : /\ e.known = a.known /\ e.at = a.swing.at
                         /\ e.direction = Opposite(a.swing.direction)
  BY <1>1
<1>3. PICK b \in breaks : /\ f.known = b.known /\ f.at = b.swing.at
                         /\ f.direction = Opposite(b.swing.direction)
  BY <1>1
<1>4. a.swing.direction \in Directions /\ b.swing.direction \in Directions
  <2>1. a.swing \in swings /\ b.swing \in swings
    BY DEF Breaks, ClosesBeyondLatest
  <2> QED  BY <2>1, SwingFacts
<1>5. /\ cs \in Seq(CandleSet)
      /\ \A i \in 1 .. Len(cs) : cs[i].close \in cs[i].low .. cs[i].high
  <2>1. cs \in Seq(CandleSet)
    <3>1. Candles \subseteq CandleSet
      BY CandlesAssumption DEF CandleSet
    <3> HIDE DEF CandleSet
    <3>2. Seq(Candles) \subseteq Seq(CandleSet)
      BY <3>1
    <3> QED  BY <3>2
  <2>2. \A i \in 1 .. Len(cs) : cs[i] \in Candles
    OBVIOUS
  <2> QED  BY <2>1, <2>2, CandlesAssumption
<1>6. a.known = b.known
  BY <1>2, <1>3
<1>7. a.swing.direction = b.swing.direction
  <2>1. CASE a.swing.direction = "BEARISH" /\ b.swing.direction = "BULLISH"
    BY <1>5, <1>6, <2>1, OneBreak
  <2>2. CASE a.swing.direction = "BULLISH" /\ b.swing.direction = "BEARISH"
    BY <1>5, <1>6, <2>2, OneBreak
  <2> QED  BY <1>4, <2>1, <2>2 DEF Directions
<1>8. a.swing.at = b.swing.at
  BY <1>6, <1>7, OneBreakOfASide
<1> QED  BY <1>2, <1>3, <1>7, <1>8

(* Whatever the thresholds and the candles, one candle breaks at most one of *)
(* the levels of a scope: a candle above the last high and below the last    *)
(* low comes only after one of them was broken.                              *)
THEOREM AnalysisBreaksOnce == Spec => []OneBreakPerCandle
<1>1. TypeOK => OneBreakPerCandle
  <2> SUFFICES ASSUME TypeOK  PROVE OneBreakPerCandle
    OBVIOUS
  <2>1. candles \in Seq(Candles)
    BY DEF TypeOK
  <2>2. /\ SwingLeft \in Nat \ {0} /\ SwingRight \in Nat \ {0}
        /\ InternalLeft \in Nat \ {0} /\ InternalRight \in Nat \ {0}
    BY ConfigAssumption
  <2>3. ASSUME NEW e \in ExternalStructure(candles), NEW f \in ExternalStructure(candles),
               e.known = f.known
        PROVE  e.direction = f.direction /\ e.at = f.at
    BY <2>1, <2>2, <2>3, EventsAtOneCandle DEF ExternalStructure, ExternalSwings
  <2>4. ASSUME NEW e \in InternalStructure(candles), NEW f \in InternalStructure(candles),
               e.known = f.known
        PROVE  e.direction = f.direction /\ e.at = f.at
    BY <2>1, <2>2, <2>4, EventsAtOneCandle DEF InternalStructure, InternalSwings
  <2> QED  BY <2>3, <2>4 DEF OneBreakPerCandle
<1> QED  BY <1>1, AnalysisTypeCorrect, PTL

-----------------------------------------------------------------------------
(* The last period before the newest candle's, when one more candle closes:  *)
(* the period of the candle before it, if it begins another, and otherwise   *)
(* the same as before.                                                       *)
LEMMA PeriodsFollow ==
  ASSUME NEW S, NEW cs \in Seq(S), NEW c \in S, Len(cs) < MaxCandles
  PROVE  /\ Current(cs, DayOf) \subseteq 1 .. Len(cs)
         /\ Previous(cs, DayOf) \subseteq 1 .. Len(cs)
         /\ Len(cs) > 0 => Len(cs) \in Current(cs, DayOf)
         /\ Previous(Append(cs, c), DayOf) =
              IF Len(cs) > 0 /\ DayOf[Len(cs)] # DayOf[Len(cs) + 1] THEN Current(cs, DayOf)
              ELSE Previous(cs, DayOf)
<1> DEFINE n == Len(cs)
           ds == Append(cs, c)
<1>1. n \in Nat /\ DOMAIN cs = 1 .. n /\ Len(ds) = n + 1 /\ DOMAIN ds = 1 .. n + 1
  BY CandleStays
<1>2. \A i, j \in 1 .. n + 1 : DayOf[i] \in Nat /\ (i <= j => DayOf[i] <= DayOf[j])
  BY <1>1, CandlesAssumption, CalendarAssumption
<1>3. /\ Current(cs, DayOf) = {i \in 1 .. n : DayOf[i] = DayOf[n]}
      /\ Current(ds, DayOf) = {i \in 1 .. n + 1 : DayOf[i] = DayOf[n + 1]}
  BY <1>1 DEF Current
<1> HIDE DEF n, ds
<1>4. /\ Previous(cs, DayOf) =
           {i \in 1 .. n : /\ DayOf[i] # DayOf[n]
                           /\ \A j \in 1 .. n : DayOf[j] # DayOf[n] => DayOf[j] <= DayOf[i]}
      /\ Previous(ds, DayOf) =
           {i \in 1 .. n + 1 :
              /\ DayOf[i] # DayOf[n + 1]
              /\ \A j \in 1 .. n + 1 : DayOf[j] # DayOf[n + 1] => DayOf[j] <= DayOf[i]}
  BY <1>1, <1>3 DEF Previous
<1>5. CASE n > 0 /\ DayOf[n] # DayOf[n + 1]
  <2>1. \A i \in 1 .. n : DayOf[i] <= DayOf[n] /\ DayOf[i] # DayOf[n + 1] /\ DayOf[n] \in Nat
    BY <1>1, <1>2, <1>5
  <2>2. \A i \in 1 .. n : DayOf[i] \in Nat
    BY <1>1, <1>2
  <2>3. \A i : i \in Previous(ds, DayOf) <=>
                 i \in 1 .. n /\ \A j \in 1 .. n : DayOf[j] <= DayOf[i]
    BY <1>1, <1>4, <2>1
  <2>4. \A i \in 1 .. n : (\A j \in 1 .. n : DayOf[j] <= DayOf[i]) <=> DayOf[i] = DayOf[n]
    BY <1>1, <1>5, <2>1, <2>2
  <2>5. Previous(ds, DayOf) = Current(cs, DayOf)
    BY <1>3, <2>3, <2>4
  <2> QED BY <1>1, <1>3, <1>4, <1>5, <2>5 DEF n, ds
<1>6. CASE n > 0 /\ DayOf[n] = DayOf[n + 1]
  <2>1. Previous(ds, DayOf) = Previous(cs, DayOf)
    BY <1>1, <1>4, <1>6
  <2> QED BY <1>1, <1>3, <1>4, <1>6, <2>1 DEF n, ds
<1>7. CASE n = 0
  <2>1. Previous(ds, DayOf) = Previous(cs, DayOf)
    BY <1>1, <1>4, <1>7
  <2> QED BY <1>1, <1>3, <1>4, <1>7, <2>1 DEF n, ds
<1> QED BY <1>1, <1>5, <1>6, <1>7

Highest(cs, period) == IF period = {} THEN {} ELSE {Max({cs[i].high : i \in period})}
Lowest(cs, period) == IF period = {} THEN {} ELSE {Min({cs[i].low : i \in period})}

LEMMA LevelPrices ==
  ASSUME NEW cs
  PROVE  /\ PriceOf(cs, "previous day high") = Highest(cs, Previous(cs, DayOf))
         /\ PriceOf(cs, "previous day low") = Lowest(cs, Previous(cs, DayOf))
         /\ PriceOf(cs, "session high") = Highest(cs, Current(cs, DayOf))
         /\ PriceOf(cs, "session low") = Lowest(cs, Current(cs, DayOf))
<1> DEFINE At(level, kind) == IF level.kind = kind THEN {level.price} ELSE {}
           Prices(levels, kind) == {l.price : l \in {l \in levels : l.kind = kind}}
<1>1. ASSUME NEW A, NEW B, NEW C, NEW kind
      PROVE  Prices(A \cup B \cup C, kind) = Prices(A, kind) \cup Prices(B, kind) \cup Prices(C, kind)
  OBVIOUS
<1>2. ASSUME NEW period, NEW high, NEW low, high # low, NEW kind
      PROVE  Prices(LevelsOf(cs, period, high, low), kind) =
               IF kind = high THEN Highest(cs, period)
               ELSE IF kind = low THEN Lowest(cs, period) ELSE {}
  <2>1. CASE period = {}
    BY <2>1 DEF LevelsOf, Highest, Lowest
  <2>2. CASE period # {}
    <3> DEFINE h == [kind |-> high, price |-> Max({cs[i].high : i \in period}),
                     known |-> Max(period)]
               l == [kind |-> low, price |-> Min({cs[i].low : i \in period}),
                     known |-> Max(period)]
    <3>1. LevelsOf(cs, period, high, low) = {h, l}
      BY <2>2 DEF LevelsOf
    <3>2. /\ h.kind = high /\ h.price = Max({cs[i].high : i \in period})
          /\ l.kind = low /\ l.price = Min({cs[i].low : i \in period})
      OBVIOUS
    <3> HIDE DEF h, l
    <3>3. Prices({h, l}, kind) = At(h, kind) \cup At(l, kind)
      OBVIOUS
    <3> QED BY <1>2, <2>2, <3>1, <3>2, <3>3 DEF Highest, Lowest
  <2> QED BY <2>1, <2>2
<1> DEFINE D == LevelsOf(cs, Previous(cs, DayOf), "previous day high", "previous day low")
           W == LevelsOf(cs, Previous(cs, WeekOf), "previous week high", "previous week low")
           T == LevelsOf(cs, Current(cs, DayOf), "session high", "session low")
<1>3. \A kind : PriceOf(cs, kind) = Prices(D \cup W \cup T, kind)
  BY DEF PriceOf, ReferenceLevels
<1>4. ASSUME NEW kind
      PROVE  PriceOf(cs, kind) = Prices(D, kind) \cup Prices(W, kind) \cup Prices(T, kind)
  <2> HIDE DEF D, W, T
  <2>1. Prices(D \cup W \cup T, kind) = Prices(D, kind) \cup Prices(W, kind) \cup Prices(T, kind)
    BY <1>1
  <2> QED BY <1>3, <2>1
<1> HIDE DEF Prices
<1>5. ASSUME NEW kind
      PROVE  /\ Prices(D, kind) = IF kind = "previous day high" THEN Highest(cs, Previous(cs, DayOf))
                                  ELSE IF kind = "previous day low"
                                  THEN Lowest(cs, Previous(cs, DayOf)) ELSE {}
             /\ Prices(W, kind) = IF kind = "previous week high" THEN Highest(cs, Previous(cs, WeekOf))
                                  ELSE IF kind = "previous week low"
                                  THEN Lowest(cs, Previous(cs, WeekOf)) ELSE {}
             /\ Prices(T, kind) = IF kind = "session high" THEN Highest(cs, Current(cs, DayOf))
                                  ELSE IF kind = "session low"
                                  THEN Lowest(cs, Current(cs, DayOf)) ELSE {}
  <2>1. Prices(D, kind) = IF kind = "previous day high" THEN Highest(cs, Previous(cs, DayOf))
                          ELSE IF kind = "previous day low"
                          THEN Lowest(cs, Previous(cs, DayOf)) ELSE {}
    BY <1>2
  <2>2. Prices(W, kind) = IF kind = "previous week high" THEN Highest(cs, Previous(cs, WeekOf))
                          ELSE IF kind = "previous week low"
                          THEN Lowest(cs, Previous(cs, WeekOf)) ELSE {}
    BY <1>2
  <2>3. Prices(T, kind) = IF kind = "session high" THEN Highest(cs, Current(cs, DayOf))
                          ELSE IF kind = "session low"
                          THEN Lowest(cs, Current(cs, DayOf)) ELSE {}
    BY <1>2
  <2> QED BY <2>1, <2>2, <2>3
<1> HIDE DEF D, W, T
<1>6. PriceOf(cs, "previous day high") = Highest(cs, Previous(cs, DayOf))
  <2>1. /\ Prices(D, "previous day high") = Highest(cs, Previous(cs, DayOf))
        /\ Prices(W, "previous day high") = {}
        /\ Prices(T, "previous day high") = {}
    BY <1>5
  <2> QED BY <1>4, <2>1
<1>7. PriceOf(cs, "previous day low") = Lowest(cs, Previous(cs, DayOf))
  <2>1. /\ Prices(D, "previous day low") = Lowest(cs, Previous(cs, DayOf))
        /\ Prices(W, "previous day low") = {}
        /\ Prices(T, "previous day low") = {}
    BY <1>5
  <2> QED BY <1>4, <2>1
<1>8. PriceOf(cs, "session high") = Highest(cs, Current(cs, DayOf))
  <2>1. /\ Prices(D, "session high") = {}
        /\ Prices(W, "session high") = {}
        /\ Prices(T, "session high") = Highest(cs, Current(cs, DayOf))
    BY <1>5
  <2> QED BY <1>4, <2>1
<1>9. PriceOf(cs, "session low") = Lowest(cs, Current(cs, DayOf))
  <2>1. /\ Prices(D, "session low") = {}
        /\ Prices(W, "session low") = {}
        /\ Prices(T, "session low") = Lowest(cs, Current(cs, DayOf))
    BY <1>5
  <2> QED BY <1>4, <2>1
<1> QED BY <1>6, <1>7, <1>8, <1>9

(* For any calendar and any candles: the previous day's high and low are     *)
(* those of the session that was, from its end to the end of the next.       *)
THEOREM LevelsAlwaysFollowSessions == Spec => LevelsFollowSessions
<1> DEFINE n == Len(candles)
           Ends == n > 0 /\ DayOf[n] # DayOf[n + 1]
           Follows(previous, session) ==
             PriceOf(candles', previous) =
               IF Ends THEN PriceOf(candles, session) ELSE PriceOf(candles, previous)
<1>1. ASSUME TypeOK, NEW c \in Candles, CandleCloses(c)
      PROVE  /\ Follows("previous day high", "session high")
             /\ Follows("previous day low", "session low")
  <2>1. candles \in Seq(Candles) /\ n < MaxCandles /\ candles' = Append(candles, c)
    BY <1>1 DEF TypeOK, CandleCloses
  <2>2. /\ Current(candles, DayOf) \subseteq 1 .. n /\ Previous(candles, DayOf) \subseteq 1 .. n
        /\ Previous(candles', DayOf) =
             IF Ends THEN Current(candles, DayOf) ELSE Previous(candles, DayOf)
    BY <2>1, PeriodsFollow
  <2>3. \A i \in 1 .. n : candles'[i] = candles[i]
    BY <2>1, CandleStays
  <2>4. ASSUME NEW period \in SUBSET (1 .. n)
        PROVE  /\ Highest(candles', period) = Highest(candles, period)
               /\ Lowest(candles', period) = Lowest(candles, period)
    <3>1. /\ {candles'[i].high : i \in period} = {candles[i].high : i \in period}
          /\ {candles'[i].low : i \in period} = {candles[i].low : i \in period}
      BY <2>3
    <3> QED BY <3>1 DEF Highest, Lowest
  <2> HIDE DEF n, Ends
  <2>5. /\ PriceOf(candles, "previous day high") = Highest(candles, Previous(candles, DayOf))
        /\ PriceOf(candles, "previous day low") = Lowest(candles, Previous(candles, DayOf))
        /\ PriceOf(candles, "session high") = Highest(candles, Current(candles, DayOf))
        /\ PriceOf(candles, "session low") = Lowest(candles, Current(candles, DayOf))
        /\ PriceOf(candles', "previous day high") = Highest(candles', Previous(candles', DayOf))
        /\ PriceOf(candles', "previous day low") = Lowest(candles', Previous(candles', DayOf))
    BY LevelPrices
  <2> QED BY <2>2, <2>4, <2>5
<1>2. TypeOK /\ [Next]_candles => [/\ Follows("previous day high", "session high")
                                   /\ Follows("previous day low", "session low")]_candles
  BY <1>1 DEF Next
<1>3. [][/\ Follows("previous day high", "session high")
         /\ Follows("previous day low", "session low")]_candles <=> LevelsFollowSessions
  BY PTL DEF LevelsFollowSessions
<1> QED BY <1>2, <1>3, AnalysisTypeCorrect, PTL DEF Spec

-----------------------------------------------------------------------------
(* A figure of a chart stays as it is, or is drawn on from candle n to the   *)
(* next one.                                                                 *)
Redrawn(d, e, n) == e = d \/ (d.end = n /\ e.end = n + 1 /\ e = [d EXCEPT !.end = n + 1])

Extends(before, after, n) ==
  /\ \A o \in before : o \in after \/ (o.end = n /\ [o EXCEPT !.end = n + 1] \in after)
  /\ \A o \in after \ before : o.end = n + 1

LEMMA FiguresExtend ==
  ASSUME NEW n, NEW A, NEW B, GrowsAt(A, B, n), NEW D, NEW E,
         \A f \in A : Redrawn(D[f], E[f], n), \A f \in B \ A : E[f].end = n + 1
  PROVE  Extends({D[f] : f \in A}, {E[f] : f \in B}, n)
<1>1. ASSUME NEW o \in {D[f] : f \in A}
      PROVE  \/ o \in {E[f] : f \in B}
             \/ o.end = n /\ [o EXCEPT !.end = n + 1] \in {E[f] : f \in B}
  BY DEF GrowsAt, Redrawn
<1>2. ASSUME NEW o \in {E[f] : f \in B}, o \notin {D[f] : f \in A}  PROVE o.end = n + 1
  BY <1>2 DEF Redrawn
<1> QED BY <1>1, <1>2 DEF Extends

LEMMA DrawnEnds ==
  ASSUME NEW kind, NEW from, NEW to, NEW lower, NEW upper
  PROVE  Drawn(kind, from, to, lower, upper).end = to
  BY DEF Drawn

LEMMA DrawnOn ==
  ASSUME NEW kind, NEW from, NEW u, NEW v, NEW lower, NEW upper, NEW n,
         v = u \/ (u = n /\ v = n + 1)
  PROVE  Redrawn(Drawn(kind, from, u, lower, upper), Drawn(kind, from, v, lower, upper), n)
<1>1. CASE u = n /\ v = n + 1
  <2>1. Drawn(kind, from, v, lower, upper) =
          [Drawn(kind, from, u, lower, upper) EXCEPT !.end = n + 1]
    BY <1>1 DEF Drawn
  <2>2. Drawn(kind, from, v, lower, upper).end = n + 1 /\ Drawn(kind, from, u, lower, upper).end = n
    BY <1>1, DrawnEnds
  <2> QED BY <2>1, <2>2 DEF Redrawn
<1> QED BY <1>1 DEF Redrawn

LEMMA LeastNumber ==
  ASSUME NEW S \in SUBSET Nat, S # {}
  PROVE  \E n \in S : \A m \in S : n <= m
<1>1. IsWellFoundedOn(OpToRel(<, Nat), Nat)
  BY NatLessThanWellFounded
<1>2. PICK n \in S : \A m \in S : ~(<<m, n>> \in OpToRel(<, Nat))
  BY <1>1, WFMin
<1>3. \A m \in S : ~(m < n)
  BY <1>2 DEF OpToRel
<1>4. n \in Nat /\ \A m \in S : m \in Nat /\ n <= m
  BY <1>3
<1> QED BY <1>4

LEMMA GreatestNumber ==
  ASSUME NEW n \in Nat, NEW S \in SUBSET (1 .. n), S # {}
  PROVE  Max(S) \in S /\ \A i \in S : i <= Max(S)
<1> DEFINE T == {n - i : i \in S}
<1>1. T \in SUBSET Nat /\ T # {}
  <2>1. PICK i : i \in S
    OBVIOUS
  <2>2. n - i \in T
    BY <2>1
  <2>3. \A k \in S : n - k \in Nat
    OBVIOUS
  <2> QED BY <2>2, <2>3
<1>2. PICK t \in T : \A u \in T : t <= u
  BY <1>1, LeastNumber
<1>3. PICK m \in S : t = n - m
  BY <1>2
<1>4. ASSUME NEW i \in S  PROVE m >= i
  <2>1. n - i \in T /\ i \in 1 .. n /\ m \in 1 .. n
    OBVIOUS
  <2>2. n - m <= n - i
    BY <1>2, <1>3, <2>1
  <2> QED BY <2>1, <2>2
<1>5. Max(S) \in S /\ \A i \in S : Max(S) >= i
  BY <1>4 DEF Max
<1> QED BY <1>5

(* What is drawn until it ends: there is one end at most, and it stays.      *)
LEMMA UntilStays ==
  ASSUME NEW n \in Nat, NEW cs, NEW ds, Len(cs) = n, Len(ds) = n + 1,
         NEW P, NEW Q, GrowsTo(P, Q, n), \A i, j \in Q : i <= j
  PROVE  Until(ds, Q) = Until(cs, P) \/ (Until(cs, P) = n /\ Until(ds, Q) = n + 1)
<1>1. P \subseteq Q /\ P \subseteq 1 .. n /\ Q \subseteq P \cup {n + 1}
  BY DEF GrowsTo
<1>2. CASE P = {}
  <2>1. Q = {} \/ Q = {n + 1}
    BY <1>1, <1>2
  <2>2. Min({n + 1}) = n + 1
    BY DEF Min
  <2> QED BY <1>2, <2>1, <2>2 DEF Until
<1>3. CASE P # {}
  <2>1. PICK e \in P : e \in 1 .. n
    BY <1>1, <1>3
  <2>2. \A i \in Q : i = e
    BY <1>1, <2>1
  <2>3. P = Q
    BY <1>1, <2>1, <2>2
  <2> QED BY <1>3, <2>3 DEF Until
<1> QED BY <1>2, <1>3

LEMMA EndsAreFirst ==
  ASSUME NEW cs, NEW g
  PROVE  /\ \A i, j \in GapInvalidated(cs, g) : i <= j
         /\ \A i, j \in BlockEnds(cs, g) : i <= j
  BY DEF GapInvalidated, BlockEnds, BlockFailed, FirstOf

(* The figures of findings that are drawn as they are found: the same ones,  *)
(* and those of new findings end with the new candle.                        *)
LEMMA FixedFiguresExtend ==
  ASSUME NEW n, NEW A, NEW B, GrowsAt(A, B, n), NEW D, \A f \in B : D[f].end = f.known
  PROVE  Extends({D[f] : f \in A}, {D[f] : f \in B}, n)
<1>1. \A f \in A : Redrawn(D[f], D[f], n)
  BY DEF Redrawn
<1>2. \A f \in B \ A : D[f].end = n + 1
  BY DEF GrowsAt
<1> QED BY <1>1, <1>2, FiguresExtend

LEMMA ExtensionsJoin ==
  ASSUME NEW n, NEW A, NEW B, NEW C, NEW D, Extends(A, B, n), Extends(C, D, n)
  PROVE  Extends(A \cup C, B \cup D, n)
  BY DEF Extends

SwingFigures(cs) ==
  {Drawn("swing", s.at, s.known, s.price, s.price) :
     s \in ExternalSwings(cs) \cup InternalSwings(cs)}
BlockFigures(cs) ==
  {Drawn(b.type, b.at, Until(cs, BlockEnds(cs, b)), b.lower, b.upper) : b \in PriceBlocks(cs)}
DisplacementFigures(cs) ==
  {Drawn("displacement", d.known, d.known, d.low, d.high) : d \in Displacements(cs)}
EqualFigures(cs) ==
  {Drawn("equal levels", l.first, Len(cs), l.lower, l.upper) :
     l \in EqualLevels(ExternalSwings(cs))}
StructureFigures(cs) ==
  {Drawn(e.kind, e.at, e.known, e.level, e.level) :
     e \in ExternalStructure(cs) \cup InternalStructure(cs)}
GapFigures(cs) ==
  {Drawn("gap", g.known - 2, Until(cs, GapInvalidated(cs, g)), g.lower, g.upper) :
     g \in FairValueGaps(cs)}
InverseFigures(cs) ==
  {Drawn("inverse gap", g.known, Len(cs), g.lower, g.upper) : g \in InverseGaps(cs)}
SweepFigures(cs) ==
  {Drawn("sweep", s.at, s.known, Min({s.level, s.extreme}), Max({s.level, s.extreme})) :
     s \in LiquiditySweeps(cs, ExternalSwings(cs))}

LEMMA FixedOnes ==
  ASSUME NEW S, NEW cs \in Seq(S), NEW c \in S
  PROVE  LET ds == Append(cs, c)
             n == Len(cs)
         IN /\ Extends(SwingFigures(cs), SwingFigures(ds), n)
            /\ Extends(DisplacementFigures(cs), DisplacementFigures(ds), n)
            /\ Extends(StructureFigures(cs), StructureFigures(ds), n)
            /\ Extends(SweepFigures(cs), SweepFigures(ds), n)
<1> DEFINE ds == Append(cs, c)
           n == Len(cs)
<1>1. /\ n \in Nat
      /\ GrowsAt(ExternalSwings(cs), ExternalSwings(ds), n)
      /\ GrowsAt(InternalSwings(cs), InternalSwings(ds), n)
      /\ GrowsAt(ExternalStructure(cs), ExternalStructure(ds), n)
      /\ GrowsAt(InternalStructure(cs), InternalStructure(ds), n)
      /\ GrowsAt(LiquiditySweeps(cs, ExternalSwings(cs)), LiquiditySweeps(ds, ExternalSwings(ds)), n)
      /\ GrowsAt(Displacements(cs), Displacements(ds), n)
  BY PartsGrow
<1> HIDE DEF ds, n
<1>2. Extends(SwingFigures(cs), SwingFigures(ds), n)
  <2> DEFINE A == ExternalSwings(cs) \cup InternalSwings(cs)
             B == ExternalSwings(ds) \cup InternalSwings(ds)
             D == [s \in B |-> Drawn("swing", s.at, s.known, s.price, s.price)]
  <2>1. GrowsAt(A, B, n)
    BY <1>1, UnionsGrow
  <2> HIDE DEF A, B
  <2>2. \A s \in B : D[s].end = s.known
    BY DrawnEnds
  <2>3. SwingFigures(cs) = {D[s] : s \in A} /\ SwingFigures(ds) = {D[s] : s \in B}
    BY <2>1 DEF SwingFigures, GrowsAt, A, B
  <2> HIDE DEF D
  <2> QED BY <2>1, <2>2, <2>3, FixedFiguresExtend
<1>3. Extends(DisplacementFigures(cs), DisplacementFigures(ds), n)
  <2> DEFINE A == Displacements(cs)
             B == Displacements(ds)
             D == [d \in B |-> Drawn("displacement", d.known, d.known, d.low, d.high)]
  <2>1. GrowsAt(A, B, n)
    BY <1>1
  <2> HIDE DEF A, B
  <2>2. \A d \in B : D[d].end = d.known
    BY DrawnEnds
  <2>3. DisplacementFigures(cs) = {D[d] : d \in A} /\ DisplacementFigures(ds) = {D[d] : d \in B}
    BY <2>1 DEF DisplacementFigures, GrowsAt, A, B
  <2> HIDE DEF D
  <2> QED BY <2>1, <2>2, <2>3, FixedFiguresExtend
<1>4. Extends(StructureFigures(cs), StructureFigures(ds), n)
  <2> DEFINE A == ExternalStructure(cs) \cup InternalStructure(cs)
             B == ExternalStructure(ds) \cup InternalStructure(ds)
             D == [e \in B |-> Drawn(e.kind, e.at, e.known, e.level, e.level)]
  <2>1. GrowsAt(A, B, n)
    BY <1>1, UnionsGrow
  <2> HIDE DEF A, B
  <2>2. \A e \in B : D[e].end = e.known
    BY DrawnEnds
  <2>3. StructureFigures(cs) = {D[e] : e \in A} /\ StructureFigures(ds) = {D[e] : e \in B}
    BY <2>1 DEF StructureFigures, GrowsAt, A, B
  <2> HIDE DEF D
  <2> QED BY <2>1, <2>2, <2>3, FixedFiguresExtend
<1>5. Extends(SweepFigures(cs), SweepFigures(ds), n)
  <2> DEFINE A == LiquiditySweeps(cs, ExternalSwings(cs))
             B == LiquiditySweeps(ds, ExternalSwings(ds))
             D == [s \in B |-> Drawn("sweep", s.at, s.known, Min({s.level, s.extreme}),
                                     Max({s.level, s.extreme}))]
  <2>1. GrowsAt(A, B, n)
    BY <1>1
  <2> HIDE DEF A, B
  <2>2. \A s \in B : D[s].end = s.known
    BY DrawnEnds
  <2>3. SweepFigures(cs) = {D[s] : s \in A} /\ SweepFigures(ds) = {D[s] : s \in B}
    BY <2>1 DEF SweepFigures, GrowsAt, A, B
  <2> HIDE DEF D
  <2> QED BY <2>1, <2>2, <2>3, FixedFiguresExtend
<1> QED BY <1>2, <1>3, <1>4, <1>5 DEF ds, n

LEMMA OpenOnes ==
  ASSUME NEW S, NEW cs \in Seq(S), NEW c \in S
  PROVE  LET ds == Append(cs, c)
             n == Len(cs)
         IN /\ Extends(EqualFigures(cs), EqualFigures(ds), n)
            /\ Extends(InverseFigures(cs), InverseFigures(ds), n)
            /\ Extends(GapFigures(cs), GapFigures(ds), n)
            /\ Extends(BlockFigures(cs), BlockFigures(ds), n)
<1> DEFINE ds == Append(cs, c)
           n == Len(cs)
<1>1. /\ n \in Nat /\ Len(ds) = n + 1
      /\ GrowsAt(EqualLevels(ExternalSwings(cs)), EqualLevels(ExternalSwings(ds)), n)
      /\ GrowsAt(InverseGaps(cs), InverseGaps(ds), n)
      /\ GrowsAt(FairValueGaps(cs), FairValueGaps(ds), n)
      /\ GrowsAt(PriceBlocks(cs), PriceBlocks(ds), n)
  BY PartsGrow
<1>2. ASSUME NEW g, g.known \in Nat
      PROVE  /\ GrowsTo(GapInvalidated(cs, g), GapInvalidated(ds, g), n)
             /\ GrowsTo(BlockEnds(cs, g), BlockEnds(ds, g), n)
             /\ \A i \in GapInvalidated(ds, g) \cup BlockEnds(ds, g) : g.known < i
  <2>1. /\ GrowsTo(GapInvalidated(cs, g), GapInvalidated(ds, g), n)
        /\ GrowsTo(BlockFailed(cs, g), BlockFailed(ds, g), n)
        /\ \A i \in GapInvalidated(ds, g) : g.known < i
        /\ \A i \in BlockFailed(ds, g) : g.known < i
    BY <1>2, EndsStay
  <2> QED BY <1>1, <2>1 DEF BlockEnds, GrowsTo
<1> HIDE DEF ds, n
<1>3. ASSUME NEW g, g.known \in Nat
      PROVE  /\ \/ Until(ds, GapInvalidated(ds, g)) = Until(cs, GapInvalidated(cs, g))
                \/ Until(cs, GapInvalidated(cs, g)) = n /\ Until(ds, GapInvalidated(ds, g)) = n + 1
             /\ \/ Until(ds, BlockEnds(ds, g)) = Until(cs, BlockEnds(cs, g))
                \/ Until(cs, BlockEnds(cs, g)) = n /\ Until(ds, BlockEnds(ds, g)) = n + 1
             /\ g.known = n + 1 => /\ Until(ds, GapInvalidated(ds, g)) = n + 1
                                   /\ Until(ds, BlockEnds(ds, g)) = n + 1
  <2>1. /\ \A i, j \in GapInvalidated(ds, g) : i <= j
        /\ \A i, j \in BlockEnds(ds, g) : i <= j
    BY EndsAreFirst
  <2>2. /\ GrowsTo(GapInvalidated(cs, g), GapInvalidated(ds, g), n)
        /\ GrowsTo(BlockEnds(cs, g), BlockEnds(ds, g), n)
        /\ \A i \in GapInvalidated(ds, g) \cup BlockEnds(ds, g) : g.known < i
    BY <1>2, <1>3
  <2>3. Len(cs) = n
    BY DEF n
  <2>4. \/ Until(ds, GapInvalidated(ds, g)) = Until(cs, GapInvalidated(cs, g))
        \/ Until(cs, GapInvalidated(cs, g)) = n /\ Until(ds, GapInvalidated(ds, g)) = n + 1
    BY <1>1, <2>1, <2>2, <2>3, UntilStays
  <2>5. \/ Until(ds, BlockEnds(ds, g)) = Until(cs, BlockEnds(cs, g))
        \/ Until(cs, BlockEnds(cs, g)) = n /\ Until(ds, BlockEnds(ds, g)) = n + 1
    BY <1>1, <2>1, <2>2, <2>3, UntilStays
  <2>6. ASSUME g.known = n + 1
        PROVE  GapInvalidated(ds, g) = {} /\ BlockEnds(ds, g) = {}
    BY <1>1, <2>2, <2>6 DEF GrowsTo
  <2> QED BY <1>1, <2>4, <2>5, <2>6 DEF Until
<1>4. Extends(EqualFigures(cs), EqualFigures(ds), n)
  <2> DEFINE A == EqualLevels(ExternalSwings(cs))
             B == EqualLevels(ExternalSwings(ds))
             U(xs) == Len(xs)
             D == [l \in B |-> Drawn("equal levels", l.first, U(cs), l.lower, l.upper)]
             E == [l \in B |-> Drawn("equal levels", l.first, U(ds), l.lower, l.upper)]
  <2>1. GrowsAt(A, B, n)
    BY <1>1
  <2>2. U(cs) = n /\ U(ds) = n + 1
    BY <1>1 DEF n
  <2>3. EqualFigures(cs) = {D[l] : l \in A} /\ EqualFigures(ds) = {E[l] : l \in B}
    BY <2>1 DEF EqualFigures, GrowsAt
  <2> HIDE DEF A, B, U
  <2>4. \A l \in A : l \in B
    BY <2>1 DEF GrowsAt
  <2>5. \A l \in A : Redrawn(D[l], E[l], n)
    BY <2>2, <2>4, DrawnOn
  <2>6. ASSUME NEW l \in B  PROVE E[l].end = U(ds)
    <3>1. E[l] = Drawn("equal levels", l.first, U(ds), l.lower, l.upper)
      OBVIOUS
    <3> HIDE DEF E
    <3>2. Drawn("equal levels", l.first, U(ds), l.lower, l.upper).end = U(ds)
      BY DEF Drawn
    <3> QED BY <3>1, <3>2
  <2> HIDE DEF D, E
  <2>7. \A l \in B \ A : E[l].end = n + 1
    BY <2>2, <2>6
  <2> QED BY <2>1, <2>3, <2>5, <2>7, FiguresExtend
<1>5. Extends(InverseFigures(cs), InverseFigures(ds), n)
  <2> DEFINE A == InverseGaps(cs)
             B == InverseGaps(ds)
             U(xs) == Len(xs)
             D == [g \in B |-> Drawn("inverse gap", g.known, U(cs), g.lower, g.upper)]
             E == [g \in B |-> Drawn("inverse gap", g.known, U(ds), g.lower, g.upper)]
  <2>1. GrowsAt(A, B, n)
    BY <1>1
  <2>2. U(cs) = n /\ U(ds) = n + 1
    BY <1>1 DEF n
  <2>3. InverseFigures(cs) = {D[g] : g \in A} /\ InverseFigures(ds) = {E[g] : g \in B}
    BY <2>1 DEF InverseFigures, GrowsAt
  <2> HIDE DEF A, B, U
  <2>4. \A g \in A : g \in B
    BY <2>1 DEF GrowsAt
  <2>5. \A g \in A : Redrawn(D[g], E[g], n)
    BY <2>2, <2>4, DrawnOn
  <2>6. ASSUME NEW g \in B  PROVE E[g].end = U(ds)
    <3>1. E[g] = Drawn("inverse gap", g.known, U(ds), g.lower, g.upper)
      OBVIOUS
    <3> HIDE DEF E
    <3>2. Drawn("inverse gap", g.known, U(ds), g.lower, g.upper).end = U(ds)
      BY DEF Drawn
    <3> QED BY <3>1, <3>2
  <2> HIDE DEF D, E
  <2>7. \A g \in B \ A : E[g].end = n + 1
    BY <2>2, <2>6
  <2> QED BY <2>1, <2>3, <2>5, <2>7, FiguresExtend
<1>6. Extends(GapFigures(cs), GapFigures(ds), n)
  <2> DEFINE A == FairValueGaps(cs)
             B == FairValueGaps(ds)
             U(xs, g) == Until(xs, GapInvalidated(xs, g))
             D == [g \in B |-> Drawn("gap", g.known - 2, U(cs, g), g.lower, g.upper)]
             E == [g \in B |-> Drawn("gap", g.known - 2, U(ds, g), g.lower, g.upper)]
  <2>1. GrowsAt(A, B, n)
    BY <1>1
  <2>2. ASSUME NEW g \in A
        PROVE  U(ds, g) = U(cs, g) \/ (U(cs, g) = n /\ U(ds, g) = n + 1)
    BY <1>3, <2>1 DEF GrowsAt
  <2>3. ASSUME NEW g \in B \ A  PROVE U(ds, g) = n + 1
    <3>1. g.known = n + 1 /\ n + 1 \in Nat
      BY <1>1, <2>1 DEF GrowsAt
    <3> QED BY <1>3, <3>1
  <2>4. GapFigures(cs) = {D[g] : g \in A} /\ GapFigures(ds) = {E[g] : g \in B}
    BY <2>1 DEF GapFigures, GrowsAt
  <2> HIDE DEF A, B, U
  <2>5. \A g \in A : g \in B
    BY <2>1 DEF GrowsAt
  <2>6. \A g \in A : Redrawn(D[g], E[g], n)
    BY <2>2, <2>5, DrawnOn
  <2>7. \A g \in B \ A : E[g].end = n + 1
    BY <2>3, DrawnEnds
  <2> HIDE DEF D, E
  <2> QED BY <2>1, <2>4, <2>6, <2>7, FiguresExtend
<1>7. Extends(BlockFigures(cs), BlockFigures(ds), n)
  <2> DEFINE A == PriceBlocks(cs)
             B == PriceBlocks(ds)
             U(xs, b) == Until(xs, BlockEnds(xs, b))
             D == [b \in B |-> Drawn(b.type, b.at, U(cs, b), b.lower, b.upper)]
             E == [b \in B |-> Drawn(b.type, b.at, U(ds, b), b.lower, b.upper)]
  <2>1. GrowsAt(A, B, n)
    BY <1>1
  <2>2. ASSUME NEW b \in A
        PROVE  U(ds, b) = U(cs, b) \/ (U(cs, b) = n /\ U(ds, b) = n + 1)
    BY <1>3, <2>1 DEF GrowsAt
  <2>3. ASSUME NEW b \in B \ A  PROVE U(ds, b) = n + 1
    <3>1. b.known = n + 1 /\ n + 1 \in Nat
      BY <1>1, <2>1 DEF GrowsAt
    <3> QED BY <1>3, <3>1
  <2>4. BlockFigures(cs) = {D[b] : b \in A} /\ BlockFigures(ds) = {E[b] : b \in B}
    BY <2>1 DEF BlockFigures, GrowsAt
  <2> HIDE DEF A, B, U
  <2>5. \A b \in A : b \in B
    BY <2>1 DEF GrowsAt
  <2>6. \A b \in A : Redrawn(D[b], E[b], n)
    BY <2>2, <2>5, DrawnOn
  <2>7. \A b \in B \ A : E[b].end = n + 1
    BY <2>3, DrawnEnds
  <2> HIDE DEF D, E
  <2> QED BY <2>1, <2>4, <2>6, <2>7, FiguresExtend
<1> QED BY <1>4, <1>5, <1>6, <1>7 DEF ds, n

(* A level or a zone is dated at a candle of the chart. *)
LEMMA LevelsAreDated ==
  ASSUME NEW S, NEW cs \in Seq(S), NEW l \in ReferenceLevels(cs)
  PROVE  l.known \in 1 .. Len(cs)
<1> DEFINE n == Len(cs)
<1>1. n \in Nat /\ DOMAIN cs = 1 .. n
  OBVIOUS
<1>2. ASSUME NEW PeriodOf
      PROVE  Previous(cs, PeriodOf) \subseteq 1 .. n /\ Current(cs, PeriodOf) \subseteq 1 .. n
  BY <1>1 DEF Previous, Current
<1> HIDE DEF n
<1>3. ASSUME NEW period, period \subseteq 1 .. n, NEW high, NEW low,
             l \in LevelsOf(cs, period, high, low)
      PROVE  l.known \in 1 .. n
  <2>1. period # {} /\ l.known = Max(period)
    BY <1>3 DEF LevelsOf
  <2>2. Max(period) \in period
    BY <1>1, <1>3, <2>1, GreatestNumber
  <2> QED BY <1>3, <2>1, <2>2
<1>4. \E PeriodOf, high, low :
        \/ l \in LevelsOf(cs, Previous(cs, PeriodOf), high, low)
        \/ l \in LevelsOf(cs, Current(cs, PeriodOf), high, low)
  BY DEF ReferenceLevels
<1> QED BY <1>2, <1>3, <1>4 DEF n

LEMMA ZonesAreDated ==
  ASSUME NEW S, NEW cs \in Seq(S), NEW z \in PriceZones(ExternalSwings(cs))
  PROVE  z.known \in 1 .. Len(cs)
<1> DEFINE n == Len(cs)
           swings == ExternalSwings(cs)
           high == LastSwing(swings, "BEARISH")
           low == LastSwing(swings, "BULLISH")
<1>1. n \in Nat /\ SwingRight \in Nat \ {0} /\ SwingLeft \in Nat \ {0}
  BY ConfigAssumption
<1>2. ASSUME NEW s \in swings  PROVE s.at \in 1 .. n /\ s.known \in 1 .. n
  <2>1. s.at \in SwingLeft + 1 .. n - SwingRight /\ s.known = s.at + SwingRight
    BY <1>1, SwingFacts DEF ExternalSwings
  <2> QED BY <1>1, <2>1
<1>3. /\ {s.direction : s \in swings} = {"BULLISH", "BEARISH"}
      /\ z.known = Max({high.known, low.known})
  <2> DEFINE width == high.price - low.price
             Zone(kind, from, to) ==
               [kind |-> kind, lower |-> low.price * 100 + width * from,
                upper |-> low.price * 100 + width * to, known |-> Max({high.known, low.known})]
             zones == {Zone("discount", 0, 50), Zone("premium", 50, 100),
                       Zone("bullish ote", 62, 79), Zone("bearish ote", 21, 38)}
  <2>1. z \in IF {s.direction : s \in swings} # {"BULLISH", "BEARISH"} \/ width <= 0
              THEN {} ELSE zones
    BY DEF PriceZones
  <2>2. \A kind, from, to : Zone(kind, from, to).known = Max({high.known, low.known})
    OBVIOUS
  <2>3. z \in zones => z.known = Max({high.known, low.known})
    <3> HIDE DEF Zone
    <3> QED BY <2>2
  <2> HIDE DEF zones, width, swings
  <2> QED BY <2>1, <2>3
<1> HIDE DEF n, swings
<1>4. ASSUME NEW direction \in {"BULLISH", "BEARISH"}
      PROVE  LastSwing(swings, direction) \in swings
  <2> DEFINE Side == {s \in swings : s.direction = direction}
             Dates == {s.at : s \in Side}
  <2>1. PICK s \in swings : s.direction = direction
    BY <1>3
  <2>2. Dates \in SUBSET (1 .. n) /\ Dates # {}
    BY <1>2, <2>1
  <2>3. Max(Dates) \in Dates /\ \A i \in Dates : i <= Max(Dates)
    <3> HIDE DEF Dates
    <3> QED BY <1>1, <2>2, GreatestNumber
  <2>4. PICK t \in Side : t.at = Max(Dates)
    BY <2>3
  <2>5. /\ t \in swings /\ t.direction = direction
        /\ \A u \in swings : u.direction = direction => u.at <= t.at
    BY <2>3, <2>4
  <2> QED BY <2>5 DEF LastSwing
<1>5. high.known \in 1 .. n /\ low.known \in 1 .. n
  BY <1>2, <1>4
<1> HIDE DEF high, low
<1>6. Max({high.known, low.known}) \in {high.known, low.known}
  <2>1. {high.known, low.known} = {low.known, high.known}
    OBVIOUS
  <2>2. high.known <= low.known \/ low.known <= high.known
    BY <1>5
  <2>3. high.known \in Int /\ low.known \in Int
    BY <1>5
  <2> QED BY <2>1, <2>2, <2>3, LaterOfTwo
<1> QED BY <1>3, <1>5, <1>6 DEF n

LEMMA CurrentsAreDated ==
  ASSUME NEW S, NEW cs \in Seq(S), NEW o \in Currents(cs)
  PROVE  o.start <= o.end
<1>1. ASSUME NEW kind, NEW from \in 1 .. Len(cs), NEW lower, NEW upper
      PROVE  /\ Drawn(kind, from, Len(cs), lower, upper).start = from
             /\ Drawn(kind, from, Len(cs), lower, upper).end = Len(cs)
             /\ from <= Len(cs)
  BY DEF Drawn
<1>2. ASSUME NEW l \in ReferenceLevels(cs), o = Drawn(l.kind, l.known, Len(cs), l.price, l.price)
      PROVE  o.start <= o.end
  BY <1>1, <1>2, LevelsAreDated
<1>3. ASSUME NEW z \in PriceZones(ExternalSwings(cs)),
             o = Drawn(z.kind, z.known, Len(cs), z.lower, z.upper)
      PROVE  o.start <= o.end
  BY <1>1, <1>3, ZonesAreDated
<1> QED BY <1>2, <1>3 DEF Currents

LEMMA OverlaysExtend ==
  ASSUME NEW S, NEW cs \in Seq(S), NEW c \in S
  PROVE  Extends(Overlays(cs), Overlays(Append(cs, c)), Len(cs))
<1> DEFINE ds == Append(cs, c)
           n == Len(cs)
<1>1. ASSUME NEW xs
      PROVE  Overlays(xs) =
               SwingFigures(xs) \cup BlockFigures(xs) \cup DisplacementFigures(xs)
               \cup EqualFigures(xs) \cup StructureFigures(xs) \cup GapFigures(xs)
               \cup InverseFigures(xs) \cup SweepFigures(xs)
  BY DEF Overlays, SwingFigures, BlockFigures, DisplacementFigures, EqualFigures,
         StructureFigures, GapFigures, InverseFigures, SweepFigures
<1>2. /\ Extends(SwingFigures(cs), SwingFigures(ds), n)
      /\ Extends(DisplacementFigures(cs), DisplacementFigures(ds), n)
      /\ Extends(StructureFigures(cs), StructureFigures(ds), n)
      /\ Extends(SweepFigures(cs), SweepFigures(ds), n)
  BY FixedOnes
<1>3. /\ Extends(EqualFigures(cs), EqualFigures(ds), n)
      /\ Extends(InverseFigures(cs), InverseFigures(ds), n)
      /\ Extends(GapFigures(cs), GapFigures(ds), n)
      /\ Extends(BlockFigures(cs), BlockFigures(ds), n)
  BY OpenOnes
<1> HIDE DEF ds, n
<1> QED BY <1>1, <1>2, <1>3, ExtensionsJoin DEF ds, n

(* For any configuration, calendar and candles: what a chart showed stays    *)
(* where it was, or is drawn on to the newest candle; what is new ends       *)
(* there; nothing reaches beyond.                                            *)
THEOREM ChartsAlwaysExtend == Spec => ChartsOnlyExtend
<1> DEFINE now == Len(candles')
           Onward ==
             /\ \A o \in Overlays(candles) :
                  \/ o \in Overlays(candles')
                  \/ o.end = now - 1 /\ [o EXCEPT !.end = now] \in Overlays(candles')
             /\ \A o \in Overlays(candles') \ Overlays(candles) : o.end = now
             /\ \A o \in Currents(candles') : o.start <= o.end
<1>1. ASSUME TypeOK, NEW c \in Candles, CandleCloses(c)  PROVE Onward
  <2>1. candles \in Seq(Candles) /\ candles' = Append(candles, c)
    BY <1>1 DEF TypeOK, CandleCloses
  <2>2. candles' \in Seq(Candles) /\ now = Len(candles) + 1 /\ Len(candles) = now - 1
    BY <2>1, CandleStays
  <2>3. Extends(Overlays(candles), Overlays(candles'), Len(candles))
    BY <2>1, OverlaysExtend
  <2>4. \A o \in Currents(candles') : o.start <= o.end
    BY <2>2, CurrentsAreDated
  <2> HIDE DEF now
  <2> QED BY <2>2, <2>3, <2>4 DEF Extends
<1>2. TypeOK /\ [Next]_candles => [Onward]_candles
  BY <1>1 DEF Next
<1>3. [][Onward]_candles <=> ChartsOnlyExtend
  BY PTL DEF ChartsOnlyExtend
<1> QED BY <1>2, <1>3, AnalysisTypeCorrect, PTL DEF Spec
=============================================================================
