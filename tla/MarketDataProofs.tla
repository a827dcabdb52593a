--------------------------- MODULE MarketDataProofs ---------------------------
(***************************************************************************)
(* What MarketData promises, proved for every set of operators, batches,     *)
(* calendars and instants.                                                   *)
(***************************************************************************)
EXTENDS MarketData, FiniteSetTheorems, WellFoundedInduction, TLAPS

-----------------------------------------------------------------------------
(* Types. *)

CandleRows ==
  [at : Nat, tf : 1 .. Daily, closed : BOOLEAN,
   value : [open : Int, high : Int, low : Int, close : Int, volume : Int, oi : Int]]

Codes ==
  {"DUPLICATE", "OUT_OF_ORDER", "FEED_GAP", "TIMESTAMP_DRIFT", "INVALID_CANDLE",
   "CONFLICTING_CANDLE"}
QualityRows == [id : STRING, code : Codes]

CheckedTxns == [at : {"checked"}, batch : Batches]
ComparedTxns ==
  [at : {"compared"}, batch : Batches, fresh : SUBSET CandleRows,
   events : SUBSET QualityRows]
ImportTxns == [at : {"importing"}, missing : SUBSET Sessions]
Txns == {Closed} \cup CheckedTxns \cup ComparedTxns \cup ImportTxns

Types ==
  /\ overlap \in BOOLEAN /\ now \in Nat
  /\ raws \subseteq RawCandles /\ candles \subseteq CandleRows
  /\ quality \subseteq QualityRows
  /\ calendar \subseteq Sessions
  /\ txn \in [Workers -> Txns]

LEMMA ShapeOfTxn ==
  ASSUME NEW t \in Txns
  PROVE  /\ t.at = "checked" => t \in CheckedTxns
         /\ t.at = "compared" => t \in ComparedTxns
         /\ t.at = "importing" => t \in ImportTxns
BY DEF Txns, Closed, CheckedTxns, ComparedTxns, ImportTxns

LEMMA RowsAreRawCandles ==
  ASSUME NEW b \in Batches, NEW i \in DOMAIN b
  PROVE  b[i] \in RawCandles /\ i \in Nat
<1>1. b \in Seq(RawCandles)
  BY MarketDataAssumption
<1>. QED
  BY <1>1

LEMMA CandleOfRow ==
  ASSUME now \in Nat, NEW r \in RawCandles
  PROVE  ToCandle(r) \in CandleRows
BY DEF ToCandle, CandleRows, RawCandles

LEMMA CodesAreNames ==
  ASSUME NEW b, NEW i
  PROVE  CodesOf(b, i) \subseteq
           {"DUPLICATE", "OUT_OF_ORDER", "FEED_GAP", "TIMESTAMP_DRIFT", "INVALID_CANDLE"}
<1>1. CASE IsDuplicate(b, i)
  BY <1>1 DEF CodesOf
<1>2. CASE ~IsDuplicate(b, i) /\ IsOutOfOrder(b, i)
  BY <1>2 DEF CodesOf
<1>3. CASE ~IsDuplicate(b, i) /\ ~IsOutOfOrder(b, i)
  <2>. DEFINE gap == IF FollowsGap(b, i) THEN {"FEED_GAP"} ELSE {}
              bad == IF b[i].at > now + Drift THEN {"TIMESTAMP_DRIFT"}
                     ELSE IF ~WellFormed(b[i].value) THEN {"INVALID_CANDLE"} ELSE {}
  <2>1. CodesOf(b, i) = gap \cup bad
    BY <1>3 DEF CodesOf
  <2>2. gap \subseteq {"FEED_GAP"} /\ bad \subseteq {"TIMESTAMP_DRIFT", "INVALID_CANDLE"}
    OBVIOUS
  <2>. QED
    BY <2>1, <2>2
<1>. QED
  BY <1>1, <1>2, <1>3

LEMMA EventsAreTyped ==
  ASSUME NEW b \in Batches
  PROVE  ValidationEvents(b) \subseteq QualityRows
<1>. SUFFICES ASSUME NEW i \in DOMAIN b, NEW code \in CodesOf(b, i)
              PROVE  Event(b[i].id, code) \in QualityRows
  BY DEF ValidationEvents
<1>1. b[i].id \in STRING
  BY RowsAreRawCandles DEF RawCandles
<1>2. code \in Codes
  BY CodesAreNames DEF Codes
<1>. QED
  BY <1>1, <1>2 DEF Event, QualityRows

LEMMA LeastNumber ==
  ASSUME NEW S \in SUBSET Nat, S # {}
  PROVE  \E n \in S : \A m \in S : n <= m
<1>1. IsWellFoundedOn(OpToRel(<, Nat), Nat)
  BY NatLessThanWellFounded
<1>2. PICK n \in S : \A m \in S : ~(<<m, n>> \in OpToRel(<, Nat))
  BY <1>1, WFMin
<1>3. \A m \in S : ~(m < n)
  BY <1>2 DEF OpToRel
<1>4. n \in Nat /\ \A m \in S : m \in Nat /\ n <= m
  BY <1>3
<1>. QED
  BY <1>4

LEMMA MaxOfBounded ==
  ASSUME NEW S \in SUBSET Nat, S # {}, NEW n \in Nat, \A s \in S : s <= n
  PROVE  Max(S) \in S /\ \A s \in S : s <= Max(S)
<1>. DEFINE T == {m \in Nat : n - m \in S}
<1>1. \A s \in S : n - s \in T
  <2>. TAKE s \in S
  <2>1. n - s \in Nat /\ n - (n - s) = s
    OBVIOUS
  <2>. QED
    BY <2>1
<1>2. PICK m \in T : \A k \in T : m <= k
  <2>. T \in SUBSET Nat /\ T # {}
    BY <1>1
  <2>. HIDE DEF T
  <2>. QED
    BY LeastNumber
<1>3. n - m \in S /\ \A s \in S : s <= n - m
  BY <1>1, <1>2
<1>4. PICK g \in S : g = Max(S) /\ \A s \in S : g >= s
  BY <1>3 DEF Max
<1>. QED
  BY <1>4

(* A conflict is filed under the id of a record of that identity. *)
LEMMA LastOfIdentity ==
  ASSUME NEW b \in Batches, NEW c, NEW i \in DOMAIN b, SameCandle(b[i], c)
  PROVE  \E j \in DOMAIN b : SameCandle(b[j], c) /\ SourceId(b, c) = b[j].id
<1>. DEFINE S == {j \in DOMAIN b : SameCandle(b[j], c)}
<1>1. b \in Seq(RawCandles)
  BY MarketDataAssumption
<1>2. DOMAIN b = 1 .. Len(b) /\ Len(b) \in Nat
  BY <1>1
<1>3. S \in SUBSET Nat /\ i \in S /\ \A j \in S : j <= Len(b)
  BY <1>2
<1>4. Max(S) \in S
  <2>. HIDE DEF S
  <2>. QED
    BY <1>2, <1>3, MaxOfBounded
<1>. QED
  BY <1>4 DEF SourceId

-----------------------------------------------------------------------------
(* Types are kept. *)

LEMMA AcceptedAreCandles ==
  ASSUME now \in Nat, NEW b \in Batches, NEW i \in AcceptedRecords(b)
  PROVE  i \in DOMAIN b /\ ToCandle(b[i]) \in CandleRows
BY RowsAreRawCandles, CandleOfRow DEF AcceptedRecords

(* What CompareWithStored has found. *)
Accepted(b) == {ToCandle(b[i]) : i \in AcceptedRecords(b)}
Differing(b) == {c \in Accepted(b) : \E d \in candles : SameCandle(c, d) /\ c # d}
Comparison(b) ==
  [at |-> "compared", batch |-> b,
   fresh |-> {c \in Accepted(b) : ~\E d \in candles : SameCandle(c, d)},
   events |-> ValidationEvents(b) \cup
              {Event(SourceId(b, c), "CONFLICTING_CANDLE") : c \in Differing(b)}]

LEMMA CompareIsComparison ==
  ASSUME NEW w, CompareWithStored(w)
  PROVE  /\ txn' = [txn EXCEPT ![w] = Comparison(txn[w].batch)]
         /\ txn[w].at = "checked"
         /\ UNCHANGED <<overlap, now, raws, candles, quality, calendar, audited>>
BY DEF CompareWithStored, Comparison, Accepted, Differing

LEMMA ConflictsAreTyped ==
  ASSUME now \in Nat, NEW b \in Batches, NEW c \in Accepted(b)
  PROVE  Event(SourceId(b, c), "CONFLICTING_CANDLE") \in QualityRows
<1>1. PICK i \in AcceptedRecords(b) : c = ToCandle(b[i])
  BY DEF Accepted
<1>2. i \in DOMAIN b /\ SameCandle(b[i], c)
  BY <1>1 DEF AcceptedRecords, SameCandle, ToCandle
<1>3. PICK j \in DOMAIN b : SourceId(b, c) = b[j].id
  BY <1>2, LastOfIdentity
<1>4. b[j].id \in STRING
  BY RowsAreRawCandles DEF RawCandles
<1>. QED
  BY <1>3, <1>4 DEF Event, QualityRows, Codes

LEMMA ComparisonIsTyped ==
  ASSUME now \in Nat, NEW b \in Batches
  PROVE  Comparison(b) \in ComparedTxns
<1>1. Accepted(b) \subseteq CandleRows
  BY AcceptedAreCandles DEF Accepted
<1>2. ValidationEvents(b) \subseteq QualityRows
  BY EventsAreTyped
<1>3. {Event(SourceId(b, c), "CONFLICTING_CANDLE") : c \in Differing(b)} \subseteq QualityRows
  BY ConflictsAreTyped DEF Differing
<1>. DEFINE fresh == {c \in Accepted(b) : ~\E d \in candles : SameCandle(c, d)}
            events == ValidationEvents(b) \cup
                        {Event(SourceId(b, c), "CONFLICTING_CANDLE") : c \in Differing(b)}
<1>4. fresh \in SUBSET CandleRows /\ events \in SUBSET QualityRows
  BY <1>1, <1>2, <1>3
<1>5. Comparison(b) = [at |-> "compared", batch |-> b, fresh |-> fresh, events |-> events]
  BY DEF Comparison
<1>. HIDE DEF fresh, events
<1>. QED
  BY <1>4, <1>5 DEF ComparedTxns

LEMMA RowsOfIsRaw ==
  ASSUME NEW b \in Batches
  PROVE  {b[i] : i \in DOMAIN b} \subseteq RawCandles
BY RowsAreRawCandles

LEMMA TypesHold == Spec => []Types
<1>1. ASSUME Init PROVE Types
  BY <1>1, MarketDataAssumption DEF Init, Types, Txns
<1>2. ASSUME Types, [Next]_vars PROVE Types'
  <2>. USE Types DEF Types
  <2>1. CASE Wait
    BY <2>1, MarketDataAssumption DEF Wait
  <2>2. ASSUME NEW w \in Workers, NEW b \in Batches, CheckSourceEvents(w, b) PROVE Types'
    <3>1. [at |-> "checked", batch |-> b] \in Txns
      BY DEF Txns, CheckedTxns
    <3>. QED
      BY <2>2, <3>1 DEF CheckSourceEvents, Begin
  <2>3. ASSUME NEW w \in Workers, CompareWithStored(w) PROVE Types'
    <3>1. txn[w].batch \in Batches
      BY <2>3, CompareIsComparison, ShapeOfTxn DEF CheckedTxns
    <3>2. Comparison(txn[w].batch) \in Txns
      BY <3>1, ComparisonIsTyped DEF Txns
    <3>. QED
      BY <2>3, <3>2, CompareIsComparison
  <2>4. ASSUME NEW w \in Workers, Store(w) PROVE Types'
    <3>1. txn[w] \in ComparedTxns
      BY <2>4, ShapeOfTxn DEF Store
    <3>2. /\ txn[w].batch \in Batches /\ txn[w].fresh \subseteq CandleRows
          /\ txn[w].events \subseteq QualityRows
      BY <3>1 DEF ComparedTxns
    <3>3. Closed \in Txns
      BY DEF Txns
    <3>4. raws' \subseteq RawCandles
      BY <2>4, <3>2, RowsOfIsRaw DEF Store
    <3>5. candles' \subseteq CandleRows /\ quality' \subseteq QualityRows
      BY <2>4, <3>2 DEF Store
    <3>. QED
      BY <2>4, <3>3, <3>4, <3>5 DEF Store, End
  <2>5. ASSUME NEW w \in Workers, NEW i \in Imports, BeginImport(w, i) PROVE Types'
    <3>1. i \subseteq Sessions
      BY MarketDataAssumption
    <3>2. [at |-> "importing", missing |-> i \ calendar] \in Txns
      BY <3>1 DEF Txns, ImportTxns
    <3>. QED
      BY <2>5, <3>2 DEF BeginImport, Begin
  <2>6. ASSUME NEW w \in Workers, CommitImport(w) PROVE Types'
    <3>1. txn[w].missing \subseteq Sessions
      BY <2>6, ShapeOfTxn DEF CommitImport, ImportTxns
    <3>2. Closed \in Txns
      BY DEF Txns
    <3>. QED
      BY <2>6, <3>1, <3>2 DEF CommitImport, End
  <2>7. ASSUME NEW w \in Workers, Rollback(w) PROVE Types'
    <3>1. Closed \in Txns
      BY DEF Txns
    <3>. QED
      BY <2>7, <3>1 DEF Rollback, End
  <2>8. CASE UNCHANGED vars
    BY <2>8 DEF vars
  <2>. QED
    BY <1>2, <2>1, <2>2, <2>3, <2>4, <2>5, <2>6, <2>7, <2>8 DEF Next
<1>. QED
  BY <1>1, <1>2, PTL DEF Spec

-----------------------------------------------------------------------------
(* Calendars: what an import is about to insert is a finite set with one      *)
(* session of a day, and it is inserted only where none of its days is taken.*)

OnePerDay(sessions) == \A s, t \in sessions : s.day = t.day => s = t

CalendarInv ==
  /\ ImportsAreAudited
  /\ IsFiniteSet(calendar)
  /\ \A w \in Workers : txn[w].at = "importing" =>
       IsFiniteSet(txn[w].missing) /\ OnePerDay(txn[w].missing)

(* Racing imports leave one session of a day, and the audit events count     *)
(* those on file and no other.                                               *)
THEOREM ImportsAreAlwaysAudited == Spec => []ImportsAreAudited
<1>1. ASSUME Init PROVE CalendarInv
  <2>1. \A w \in Workers : txn[w].at # "importing"
    BY <1>1 DEF Init, Closed
  <2>. QED
    BY <1>1, <2>1, FS_EmptySet DEF Init, CalendarInv, ImportsAreAudited
<1>2. ASSUME Types, CalendarInv, [Next]_vars PROVE CalendarInv'
  <2>. USE Types, CalendarInv DEF Types
  <2>0. ASSUME NEW w \in Workers, UNCHANGED <<calendar, audited>>, NEW t,
               txn' = [txn EXCEPT ![w] = t],
               t.at = "importing" => IsFiniteSet(t.missing) /\ OnePerDay(t.missing)
        PROVE  CalendarInv'
    BY <2>0 DEF CalendarInv, ImportsAreAudited, OnePerDay
  <2>1. CASE Wait
    BY <2>1 DEF Wait, CalendarInv, ImportsAreAudited, OnePerDay
  <2>2. ASSUME NEW w \in Workers, NEW b \in Batches, CheckSourceEvents(w, b) PROVE CalendarInv'
    BY <2>0, <2>2 DEF CheckSourceEvents, Begin
  <2>3. ASSUME NEW w \in Workers, CompareWithStored(w) PROVE CalendarInv'
    <3>1. Comparison(txn[w].batch).at # "importing"
      BY DEF Comparison
    <3>. QED
      BY <2>0, <2>3, <3>1, CompareIsComparison
  <2>4. ASSUME NEW w \in Workers, Store(w) PROVE CalendarInv'
    BY <2>0, <2>4 DEF Store, End, Closed
  <2>5. ASSUME NEW w \in Workers, NEW i \in Imports, BeginImport(w, i) PROVE CalendarInv'
    <3>1. IsFiniteSet(i) /\ OnePerDay(i)
      BY MarketDataAssumption DEF OnePerDay
    <3>2. IsFiniteSet(i \ calendar) /\ OnePerDay(i \ calendar)
      BY <3>1, FS_Difference DEF OnePerDay
    <3>. QED
      BY <2>0, <2>5, <3>2 DEF BeginImport, Begin
  <2>6. ASSUME NEW w \in Workers, CommitImport(w) PROVE CalendarInv'
    <3>. DEFINE new == txn[w].missing
    <3>1. IsFiniteSet(new) /\ OnePerDay(new)
      BY <2>6 DEF CommitImport, CalendarInv
    <3>2. CASE \E s \in new, r \in calendar : r.day = s.day
      BY <2>0, <2>6, <3>2 DEF CommitImport, End, Closed
    <3>3. CASE ~\E s \in new, r \in calendar : r.day = s.day
      <4>1. calendar' = calendar \cup new /\ audited' = audited + Cardinality(new)
        BY <2>6, <3>3 DEF CommitImport
      <4>2. calendar \cap new = {}
        BY <3>3
      <4>3. /\ IsFiniteSet(calendar \cup new)
            /\ Cardinality(calendar \cup new) = Cardinality(calendar) + Cardinality(new)
        <5>1. IsFiniteSet(calendar)
          BY DEF CalendarInv
        <5>2. Cardinality(calendar \cap new) = 0
          BY <4>2, FS_EmptySet
        <5>3. Cardinality(calendar) \in Nat /\ Cardinality(new) \in Nat
          BY <3>1, <5>1, FS_CardinalityType
        <5>4. IsFiniteSet(new)
          BY <3>1
        <5>. HIDE DEF new
        <5>5. /\ IsFiniteSet(calendar \cup new)
              /\ Cardinality(calendar \cup new) =
                   Cardinality(calendar) + Cardinality(new) - Cardinality(calendar \cap new)
          BY <5>1, <5>4, FS_Union
        <5>. QED
          BY <5>2, <5>3, <5>5
      <4>4. \A s, t \in calendar \cup new : s.day = t.day => s = t
        BY <3>1, <3>3 DEF CalendarInv, ImportsAreAudited, OnePerDay
      <4>5. ImportsAreAudited' /\ IsFiniteSet(calendar')
        BY <4>1, <4>3, <4>4 DEF CalendarInv, ImportsAreAudited
      <4>6. txn' = [txn EXCEPT ![w] = Closed] /\ Closed.at # "importing"
        BY <2>6 DEF CommitImport, End, Closed
      <4>. QED
        BY <4>5, <4>6 DEF CalendarInv
    <3>. QED
      BY <3>2, <3>3
  <2>7. ASSUME NEW w \in Workers, Rollback(w) PROVE CalendarInv'
    BY <2>0, <2>7 DEF Rollback, End, Closed
  <2>8. CASE UNCHANGED vars
    BY <2>8 DEF vars, CalendarInv, ImportsAreAudited, OnePerDay
  <2>. QED
    BY <1>2, <2>1, <2>2, <2>3, <2>4, <2>5, <2>6, <2>7, <2>8 DEF Next
<1>3. CalendarInv => ImportsAreAudited
  BY DEF CalendarInv
<1>. QED
  BY <1>1, <1>2, <1>3, TypesHold, PTL DEF Spec

-----------------------------------------------------------------------------
(* Candles: one of an identity, and closed only when its bar has ended.      *)

UniqueCandles(S) == \A c, d \in S : SameCandle(c, d) => c = d

Ended(S) == \A c \in S : c.closed => c.at + c.tf <= now

CandleInv ==
  /\ UniqueCandles(candles) /\ Ended(candles)
  /\ \A w \in Workers : txn[w].at = "compared" =>
       UniqueCandles(txn[w].fresh) /\ Ended(txn[w].fresh)

LEMMA AcceptedOnce ==
  ASSUME NEW b \in Batches, NEW i \in AcceptedRecords(b), NEW j \in AcceptedRecords(b),
         SameCandle(b[i], b[j])
  PROVE  i = j
<1>1. ASSUME NEW k \in DOMAIN b, NEW l \in DOMAIN b, k < l, SameCandle(b[k], b[l])
      PROVE  l \notin AcceptedRecords(b)
  <2>1. k \in Nat /\ l \in Nat /\ k >= 1
    <3>1. b \in Seq(RawCandles)
      BY MarketDataAssumption
    <3>. QED
      BY <3>1
  <2>2. k \in Earlier(b, l)
    BY <1>1, <2>1 DEF Earlier, SameCandle
  <2>3. IsDuplicate(b, l)
    BY <1>1, <2>2 DEF IsDuplicate
  <2>4. "DUPLICATE" \in CodesOf(b, l) \cap ErrorCodes
    BY <2>3 DEF CodesOf, ErrorCodes
  <2>. QED
    BY <2>4 DEF AcceptedRecords
<1>2. i \in DOMAIN b /\ j \in DOMAIN b
  BY DEF AcceptedRecords
<1>3. i \in Nat /\ j \in Nat
  BY <1>2, RowsAreRawCandles
<1>4. SameCandle(b[j], b[i])
  BY DEF SameCandle
<1>. QED
  BY <1>1, <1>2, <1>3, <1>4

LEMMA AcceptedAreUnique ==
  ASSUME now \in Nat, NEW b \in Batches
  PROVE  UniqueCandles(Accepted(b)) /\ Ended(Accepted(b))
<1>1. ASSUME NEW c \in Accepted(b), NEW d \in Accepted(b), SameCandle(c, d) PROVE c = d
  <2>1. PICK i \in AcceptedRecords(b) : c = ToCandle(b[i])
    BY DEF Accepted
  <2>2. PICK j \in AcceptedRecords(b) : d = ToCandle(b[j])
    BY DEF Accepted
  <2>3. SameCandle(b[i], b[j])
    BY <1>1, <2>1, <2>2 DEF SameCandle, ToCandle
  <2>. QED
    BY <2>1, <2>2, <2>3, AcceptedOnce
<1>2. ASSUME NEW c \in Accepted(b), c.closed PROVE c.at + c.tf <= now
  <2>1. PICK i \in AcceptedRecords(b) : c = ToCandle(b[i])
    BY DEF Accepted
  <2>. QED
    BY <1>2, <2>1 DEF ToCandle
<1>. QED
  BY <1>1, <1>2 DEF UniqueCandles, Ended

LEMMA UniqueSubset ==
  ASSUME NEW S, NEW T \in SUBSET S, UniqueCandles(S), Ended(S)
  PROVE  UniqueCandles(T) /\ Ended(T)
BY DEF UniqueCandles, Ended

LEMMA CandlesAreUnique == Spec => []CandleInv
<1>1. ASSUME Init PROVE CandleInv
  BY <1>1 DEF Init, CandleInv, Closed, UniqueCandles, Ended
<1>2. ASSUME Types, CandleInv, [Next]_vars PROVE CandleInv'
  <2>. USE Types, CandleInv DEF Types
  <2>0. ASSUME NEW w \in Workers, UNCHANGED <<now, candles>>, NEW t,
               txn' = [txn EXCEPT ![w] = t],
               t.at = "compared" => UniqueCandles(t.fresh) /\ Ended(t.fresh)
        PROVE  CandleInv'
    BY <2>0 DEF CandleInv, UniqueCandles, Ended
  <2>1. CASE Wait
    <3>1. now' \in Nat /\ now <= now' /\ UNCHANGED <<candles, txn>>
      BY <2>1, MarketDataAssumption DEF Wait
    <3>2. \A w \in Workers : txn[w].at = "compared" => txn[w].fresh \in SUBSET CandleRows
      BY ShapeOfTxn DEF ComparedTxns
    <3>3. \A w \in Workers : txn[w].at = "compared" => Ended(txn[w].fresh)'
      BY <3>1, <3>2 DEF Ended, CandleRows, CandleInv
    <3>4. Ended(candles)'
      BY <3>1 DEF Ended, CandleRows, CandleInv
    <3>. QED
      BY <3>1, <3>3, <3>4 DEF CandleInv, UniqueCandles, Ended
  <2>2. ASSUME NEW w \in Workers, NEW b \in Batches, CheckSourceEvents(w, b) PROVE CandleInv'
    BY <2>0, <2>2 DEF CheckSourceEvents, Begin
  <2>3. ASSUME NEW w \in Workers, CompareWithStored(w) PROVE CandleInv'
    <3>. DEFINE b == txn[w].batch
    <3>1. b \in Batches
      BY <2>3, CompareIsComparison, ShapeOfTxn DEF CheckedTxns
    <3>2. Comparison(b).fresh \in SUBSET Accepted(b)
      BY DEF Comparison
    <3>3. UniqueCandles(Comparison(b).fresh) /\ Ended(Comparison(b).fresh)
      BY <3>1, <3>2, AcceptedAreUnique, UniqueSubset
    <3>. QED
      BY <2>0, <2>3, <3>3, CompareIsComparison
  <2>4. ASSUME NEW w \in Workers, Store(w) PROVE CandleInv'
    <3>. DEFINE fresh == txn[w].fresh
    <3>1. UniqueCandles(fresh) /\ Ended(fresh)
      BY <2>4 DEF Store, CandleInv
    <3>2. candles' = candles \cup {c \in fresh : ~\E d \in candles : SameCandle(c, d)}
      BY <2>4 DEF Store
    <3>3. UniqueCandles(candles')
      <4>1. UniqueCandles(candles)
        BY DEF CandleInv
      <4>. HIDE DEF fresh
      <4>2. \A c, d : SameCandle(c, d) <=> SameCandle(d, c)
        BY DEF SameCandle
      <4>. QED
        BY <3>1, <3>2, <4>1, <4>2 DEF UniqueCandles
    <3>4. Ended(candles')
      BY <3>1, <3>2 DEF Ended, CandleInv
    <3>5. txn' = [txn EXCEPT ![w] = Closed] /\ Closed.at # "compared" /\ now' = now
      BY <2>4 DEF Store, End, Closed
    <3>. QED
      BY <3>3, <3>4, <3>5 DEF CandleInv, UniqueCandles, Ended
  <2>5. ASSUME NEW w \in Workers, NEW i \in Imports, BeginImport(w, i) PROVE CandleInv'
    BY <2>0, <2>5 DEF BeginImport, Begin
  <2>6. ASSUME NEW w \in Workers, CommitImport(w) PROVE CandleInv'
    BY <2>0, <2>6 DEF CommitImport, End, Closed
  <2>7. ASSUME NEW w \in Workers, Rollback(w) PROVE CandleInv'
    BY <2>0, <2>7 DEF Rollback, End, Closed
  <2>8. CASE UNCHANGED vars
    BY <2>8 DEF vars, CandleInv, UniqueCandles, Ended
  <2>. QED
    BY <1>2, <2>1, <2>2, <2>3, <2>4, <2>5, <2>6, <2>7, <2>8 DEF Next
<1>. QED
  BY <1>1, <1>2, TypesHold, PTL DEF Spec

-----------------------------------------------------------------------------
(* Imports in turn: the one that is open has seen what is stored.            *)

Turn == \A v, w \in Workers : txn[v] # Closed /\ txn[w] # Closed => v = w

Made(c, r) == SameCandle(c, r) /\ c.value = r.value

(* A record is what is on file under its key. *)
KeepsIds(b) ==
  \A i \in DOMAIN b, r \in raws \cup RowsOf(b) :
    r.source = b[i].source /\ r.id = b[i].id => r = b[i]

(* A record of R is among the candles C, or an error is in E.                *)
Explained(r, C, E, R) ==
  \/ \E c \in C : Made(c, r)
  \/ \E e \in E, s \in R : SameCandle(r, s) /\ e.id = s.id /\ e.code \in ErrorCodes

OnFile ==
  /\ \A c \in candles : \E r \in raws : Made(c, r)
  /\ \A r \in raws : Explained(r, candles, quality, raws)

ReadyToStore(t) ==
  LET rows == RowsOf(t.batch)
  IN /\ \A c \in t.fresh : /\ \E r \in rows : Made(c, r)
                           /\ ~\E d \in candles : SameCandle(c, d)
     /\ \A r \in rows : Explained(r, candles \cup t.fresh, t.events, rows)

TurnInv ==
  ~overlap =>
    /\ Turn
    /\ OnFile
    /\ \A w \in Workers : txn[w].at \in {"checked", "compared"} => KeepsIds(txn[w].batch)
    /\ \A w \in Workers : txn[w].at = "compared" => ReadyToStore(txn[w])

LEMMA OnFileMeansAgree ==
  ~overlap => (OnFile <=> CandlesAndRawsAgreeInTurn)
BY DEF OnFile, CandlesAndRawsAgreeInTurn, Explained, Made

LEMMA TurnIsKept ==
  ASSUME Types, ~overlap, Turn, NEW w \in Workers, NEW t \in Txns,
         \/ t = Closed
         \/ txn[w] # Closed
         \/ \A v \in Workers : txn[v] = Closed,
         txn' = [txn EXCEPT ![w] = t]
  PROVE  Turn'
BY DEF Types, Turn

LEMMA OthersAreClosed ==
  ASSUME Types, Turn, NEW w \in Workers, txn[w] # Closed
  PROVE  \A v \in Workers \ {w} : txn[v] = Closed
BY DEF Turn

(* What a comparison finds is ready to be stored. *)
LEMMA ComparisonIsReady ==
  ASSUME now \in Nat, NEW b \in Batches
  PROVE  ReadyToStore(Comparison(b))
<1>. DEFINE t == Comparison(b)
            rows == RowsOf(b)
<1>1. ASSUME NEW c \in t.fresh
      PROVE  (\E r \in rows : Made(c, r)) /\ ~\E d \in candles : SameCandle(c, d)
  <2>1. c \in Accepted(b) /\ ~\E d \in candles : SameCandle(c, d)
    BY DEF Comparison
  <2>2. PICK i \in AcceptedRecords(b) : c = ToCandle(b[i])
    BY <2>1 DEF Accepted
  <2>3. b[i] \in rows /\ Made(c, b[i])
    BY <2>2 DEF AcceptedRecords, RowsOf, Made, SameCandle, ToCandle
  <2>. QED
    BY <2>1, <2>3
<1>2. ASSUME NEW r \in rows PROVE Explained(r, candles \cup t.fresh, t.events, rows)
  <2>1. PICK i \in DOMAIN b : r = b[i]
    BY DEF RowsOf
  <2>2. CASE i \notin AcceptedRecords(b)
    <3>1. PICK code \in CodesOf(b, i) : code \in ErrorCodes
      BY <2>2 DEF AcceptedRecords
    <3>2. Event(b[i].id, code) \in t.events
      BY <3>1 DEF Comparison, ValidationEvents
    <3>3. Event(b[i].id, code).id = r.id /\ Event(b[i].id, code).code \in ErrorCodes
      BY <2>1, <3>1 DEF Event
    <3>. QED
      BY <3>2, <3>3 DEF Explained, SameCandle
  <2>3. CASE i \in AcceptedRecords(b)
    <3>. DEFINE c == ToCandle(b[i])
    <3>1. c \in Accepted(b) /\ Made(c, r) /\ SameCandle(b[i], c)
      BY <2>1, <2>3 DEF Accepted, ToCandle, Made, SameCandle
    <3>2. CASE ~\E d \in candles : SameCandle(c, d)
      <4>1. c \in t.fresh
        BY <3>1, <3>2 DEF Comparison
      <4>. QED
        BY <3>1, <4>1 DEF Explained
    <3>3. CASE c \in candles
      BY <3>1, <3>3 DEF Explained
    <3>4. CASE \E d \in candles : SameCandle(c, d) /\ c # d
      <4>1. c \in Differing(b)
        BY <3>1, <3>4 DEF Differing
      <4>2. PICK j \in DOMAIN b : SameCandle(b[j], c) /\ SourceId(b, c) = b[j].id
        BY <3>1, LastOfIdentity
      <4>. DEFINE e == Event(SourceId(b, c), "CONFLICTING_CANDLE")
      <4>3. e \in t.events
        BY <4>1 DEF Comparison
      <4>4. e.id = b[j].id /\ e.code \in ErrorCodes /\ b[j] \in rows /\ SameCandle(r, b[j])
        BY <2>1, <3>1, <4>2 DEF Event, ErrorCodes, RowsOf, SameCandle
      <4>. QED
        BY <4>3, <4>4 DEF Explained
    <3>. QED
      BY <3>2, <3>3, <3>4
  <2>. QED
    BY <2>2, <2>3
<1>3. t.batch = b
  BY DEF Comparison
<1>. QED
  BY <1>1, <1>2, <1>3 DEF ReadyToStore

(* In turn, what is ready is stored in whole. *)
LEMMA StoreInTurn ==
  ASSUME Types, NEW w \in Workers, Store(w), KeepsIds(txn[w].batch), ReadyToStore(txn[w])
  PROVE  /\ raws' = raws \cup RowsOf(txn[w].batch)
         /\ candles' = candles \cup txn[w].fresh
         /\ quality' = quality \cup txn[w].events
<1>. DEFINE b == txn[w].batch
<1>1. raws' = raws \cup {r \in RowsOf(b) : ~\E s \in raws : s.source = r.source /\ s.id = r.id}
  BY DEF Store, RowsOf
<1>2. \A r \in RowsOf(b), s \in raws : s.source = r.source /\ s.id = r.id => s = r
  BY DEF KeepsIds, RowsOf
<1>3. raws' = raws \cup RowsOf(b)
  BY <1>1, <1>2
<1>4. candles' = candles \cup txn[w].fresh
  BY DEF Store, ReadyToStore
<1>5. quality' = quality \cup txn[w].events
  BY DEF Store
<1>. QED
  BY <1>3, <1>4, <1>5

LEMMA StoringKeepsOnFile ==
  ASSUME NEW t, OnFile, ReadyToStore(t),
         raws' = raws \cup RowsOf(t.batch),
         candles' = candles \cup t.fresh,
         quality' = quality \cup t.events
  PROVE  OnFile'
<1>1. ASSUME NEW c \in candles' PROVE \E r \in raws' : Made(c, r)
  BY DEF OnFile, ReadyToStore
<1>2. ASSUME NEW r \in raws' PROVE Explained(r, candles', quality', raws')
  <2>1. CASE r \in raws
    BY <2>1 DEF OnFile, Explained
  <2>2. CASE r \in RowsOf(t.batch)
    BY <2>2 DEF ReadyToStore, Explained
  <2>. QED
    BY <2>1, <2>2
<1>. QED
  BY <1>1, <1>2 DEF OnFile, Made, SameCandle, Explained

LEMMA TurnsHold == Spec => []TurnInv
<1>1. ASSUME Init PROVE TurnInv
  BY <1>1 DEF Init, TurnInv, Turn, OnFile, Closed
<1>2. ASSUME Types, TurnInv, [Next]_vars PROVE TurnInv'
  <2>. SUFFICES ASSUME ~overlap, overlap' = overlap PROVE TurnInv'
    <3>1. overlap' = overlap
      BY <1>2 DEF Next, vars, Wait, CheckSourceEvents, CompareWithStored, Store, BeginImport,
                  CommitImport, Rollback
    <3>. QED
      BY <3>1 DEF TurnInv
  <2>. USE Types, TurnInv DEF Types
  (* A transaction moves on and nothing is stored. *)
  <2>0. ASSUME NEW w \in Workers, UNCHANGED <<raws, candles, quality>>, NEW t \in Txns,
               \/ t = Closed
               \/ txn[w] # Closed
               \/ \A v \in Workers : txn[v] = Closed,
               txn' = [txn EXCEPT ![w] = t],
               t.at \in {"checked", "compared"} => KeepsIds(t.batch),
               t.at = "compared" => ReadyToStore(t)
        PROVE  TurnInv'
    <3>1. Turn'
      BY <2>0, TurnIsKept DEF TurnInv
    <3>2. OnFile'
      BY <2>0 DEF TurnInv, OnFile, Explained, Made, SameCandle
    <3>3. \A b : KeepsIds(b) => KeepsIds(b)'
      BY <2>0 DEF KeepsIds, RowsOf
    <3>4. \A v \in Workers : txn[v].at = "compared" /\ ReadyToStore(txn[v]) /\ v # w =>
                               ReadyToStore(txn[v])'
      BY <2>0 DEF ReadyToStore, RowsOf, Explained, Made, SameCandle
    <3>5. t.at = "compared" => ReadyToStore(t)'
      BY <2>0 DEF ReadyToStore, RowsOf, Explained, Made, SameCandle
    <3>. QED
      BY <2>0, <3>1, <3>2, <3>3, <3>4, <3>5 DEF TurnInv
  <2>1. CASE Wait
    BY <2>1 DEF Wait, TurnInv, Turn, OnFile, KeepsIds, ReadyToStore, Explained, Made,
                SameCandle, RowsOf
  <2>2. ASSUME NEW w \in Workers, NEW b \in Batches, CheckSourceEvents(w, b) PROVE TurnInv'
    <3>. DEFINE t == [at |-> "checked", batch |-> b]
    <3>1. t \in Txns
      BY DEF Txns, CheckedTxns
    <3>2. KeepsIds(b)
      BY <2>2 DEF CheckSourceEvents, KeepsIds, RowsOf
    <3>. QED
      BY <2>0, <2>2, <3>1, <3>2 DEF CheckSourceEvents, Begin
  <2>3. ASSUME NEW w \in Workers, CompareWithStored(w) PROVE TurnInv'
    <3>. DEFINE b == txn[w].batch
    <3>1. b \in Batches /\ txn[w].at = "checked" /\ txn[w] # Closed
      BY <2>3, CompareIsComparison, ShapeOfTxn DEF CheckedTxns, Closed
    <3>2. Comparison(b) \in Txns /\ Comparison(b).batch = b
      BY <3>1, ComparisonIsTyped DEF Txns, Comparison
    <3>3. KeepsIds(b)
      BY <3>1 DEF TurnInv
    <3>4. ReadyToStore(Comparison(b))
      BY <3>1, ComparisonIsReady
    <3>5. /\ txn' = [txn EXCEPT ![w] = Comparison(b)]
          /\ UNCHANGED <<raws, candles, quality>>
      BY <2>3, CompareIsComparison
    <3>. QED
      BY <2>0, <3>1, <3>2, <3>3, <3>4, <3>5
  <2>4. ASSUME NEW w \in Workers, Store(w) PROVE TurnInv'
    <3>1. KeepsIds(txn[w].batch) /\ ReadyToStore(txn[w]) /\ txn[w] # Closed
      BY <2>4 DEF Store, TurnInv, Closed
    <3>2. OnFile'
      BY <2>4, <3>1, StoreInTurn, StoringKeepsOnFile DEF TurnInv
    <3>3. txn' = [txn EXCEPT ![w] = Closed]
      BY <2>4 DEF Store, End
    <3>4. \A v \in Workers : txn'[v] = Closed
      BY <3>1, <3>3, OthersAreClosed DEF TurnInv
    <3>. QED
      BY <3>2, <3>4 DEF TurnInv, Turn, Closed
  <2>5. ASSUME NEW w \in Workers, NEW i \in Imports, BeginImport(w, i) PROVE TurnInv'
    <3>1. [at |-> "importing", missing |-> i \ calendar] \in Txns
      BY MarketDataAssumption DEF Txns, ImportTxns
    <3>. QED
      BY <2>0, <2>5, <3>1 DEF BeginImport, Begin
  <2>6. ASSUME NEW w \in Workers, CommitImport(w) PROVE TurnInv'
    BY <2>0, <2>6 DEF CommitImport, End, Closed, Txns
  <2>7. ASSUME NEW w \in Workers, Rollback(w) PROVE TurnInv'
    BY <2>0, <2>7 DEF Rollback, End, Closed, Txns
  <2>8. CASE UNCHANGED vars
    BY <2>8 DEF vars, TurnInv, Turn, OnFile, KeepsIds, ReadyToStore, Explained, Made,
                SameCandle, RowsOf
  <2>. QED
    BY <1>2, <2>1, <2>2, <2>3, <2>4, <2>5, <2>6, <2>7, <2>8 DEF Next
<1>. QED
  BY <1>1, <1>2, TypesHold, PTL DEF Spec

(* As long as imports do not overlap, every candle is backed by a raw event, *)
(* and every raw event is the stored candle or has an error on file.         *)
THEOREM CandlesAndRawsAlwaysAgreeInTurn == Spec => []CandlesAndRawsAgreeInTurn
<1>1. TurnInv => CandlesAndRawsAgreeInTurn
  <2>1. CASE overlap
    BY <2>1 DEF CandlesAndRawsAgreeInTurn
  <2>2. CASE ~overlap
    BY <2>2, OnFileMeansAgree DEF TurnInv
  <2>. QED
    BY <2>1, <2>2
<1>. QED
  BY <1>1, TurnsHold, PTL

-----------------------------------------------------------------------------
(* Retries.  The codes of a record depend on the clock only through the      *)
(* drift: without that they are the same ever after.                         *)

CodesAt(b, i, n) ==
  IF IsDuplicate(b, i) THEN {"DUPLICATE"}
  ELSE IF IsOutOfOrder(b, i) THEN {"OUT_OF_ORDER"}
  ELSE (IF FollowsGap(b, i) THEN {"FEED_GAP"} ELSE {}) \cup
       (IF b[i].at > n + Drift THEN {"TIMESTAMP_DRIFT"}
        ELSE IF ~WellFormed(b[i].value) THEN {"INVALID_CANDLE"} ELSE {})

LEMMA CodesNow ==
  ASSUME NEW b, NEW i
  PROVE  CodesOf(b, i) = CodesAt(b, i, now)
BY DEF CodesOf, CodesAt

LEMMA CodesSettle ==
  ASSUME NEW b \in Batches, NEW i \in DOMAIN b, NEW n \in Nat, NEW m \in Nat, n <= m,
         "TIMESTAMP_DRIFT" \notin CodesAt(b, i, n)
  PROVE  CodesAt(b, i, m) = CodesAt(b, i, n)
<1>1. CASE IsDuplicate(b, i) \/ IsOutOfOrder(b, i)
  BY <1>1 DEF CodesAt
<1>2. CASE ~IsDuplicate(b, i) /\ ~IsOutOfOrder(b, i)
  <2>1. b[i].at \in Nat /\ Drift \in Nat
    BY RowsAreRawCandles, MarketDataAssumption DEF RawCandles
  <2>2. ~(b[i].at > n + Drift)
    BY <1>2 DEF CodesAt
  <2>3. ~(b[i].at > m + Drift)
    BY <2>1, <2>2
  <2>. QED
    BY <2>2, <2>3 DEF CodesAt
<1>. QED
  BY <1>1, <1>2

ConflictOf(b, r) == Event(SourceId(b, r), "CONFLICTING_CANDLE")

(* What a batch that was judged at n has left: its events are in E, and what *)
(* it accepted is in C, or a conflict is in E.                               *)
Covers(b, n, E, C) ==
  /\ \A i \in DOMAIN b : \A code \in CodesAt(b, i, n) : Event(b[i].id, code) \in E
  /\ \A i \in DOMAIN b : CodesAt(b, i, n) \cap ErrorCodes = {} =>
       \E d \in C : SameCandle(d, b[i]) /\ (d.value = b[i].value \/ ConflictOf(b, b[i]) \in E)

SentOnce == \A b, d \in Batches : RowsOf(b) \cap RowsOf(d) # {} => b = d

AllClosed == \A c \in candles : c.closed
NoDrift == \A e \in quality : e.code # "TIMESTAMP_DRIFT"

(* What is about to be stored brings no event when its records are there.    *)
IsQuietRetry(t) == RowsOf(t.batch) \subseteq raws /\ AllClosed /\ NoDrift => t.events \subseteq quality

RetryInv ==
  ~overlap /\ SentOnce =>
    /\ \A r \in raws : \E b \in Batches, n \in 0 .. now :
         r \in RowsOf(b) /\ Covers(b, n, quality, candles)
    /\ \A w \in Workers : txn[w].at = "compared" =>
         /\ \E n \in 0 .. now : Covers(txn[w].batch, n, txn[w].events, candles \cup txn[w].fresh)
         /\ IsQuietRetry(txn[w])

LEMMA CoversMore ==
  ASSUME NEW b, NEW n, NEW E, NEW C, NEW F, NEW D, Covers(b, n, E, C), E \subseteq F, C \subseteq D
  PROVE  Covers(b, n, F, D)
BY DEF Covers

LEMMA ConflictOfIdentity ==
  ASSUME NEW b, NEW r
  PROVE  SourceId(b, ToCandle(r)) = SourceId(b, r)
BY DEF SourceId, SameCandle, ToCandle

LEMMA ComparisonCovers ==
  ASSUME Types, NEW b \in Batches
  PROVE  Covers(b, now, Comparison(b).events, candles \cup Comparison(b).fresh)
<1>. DEFINE t == Comparison(b)
<1>1. ASSUME NEW i \in DOMAIN b, NEW code \in CodesAt(b, i, now)
      PROVE  Event(b[i].id, code) \in t.events
  BY CodesNow DEF Comparison, ValidationEvents
<1>2. ASSUME NEW i \in DOMAIN b, CodesAt(b, i, now) \cap ErrorCodes = {}
      PROVE  \E d \in candles \cup t.fresh :
               SameCandle(d, b[i]) /\ (d.value = b[i].value \/ ConflictOf(b, b[i]) \in t.events)
  <2>. DEFINE c == ToCandle(b[i])
  <2>1. c \in Accepted(b)
    BY <1>2, CodesNow DEF Accepted, AcceptedRecords
  <2>2. SameCandle(c, b[i]) /\ c.value = b[i].value
    BY DEF SameCandle, ToCandle
  <2>3. CASE ~\E d \in candles : SameCandle(c, d)
    <3>1. c \in t.fresh
      BY <2>1, <2>3 DEF Comparison
    <3>. QED
      BY <2>2, <3>1
  <2>4. ASSUME NEW d \in candles, SameCandle(c, d)
        PROVE  SameCandle(d, b[i]) /\ (d.value = b[i].value \/ ConflictOf(b, b[i]) \in t.events)
    <3>1. SameCandle(d, b[i])
      BY <2>2, <2>4 DEF SameCandle
    <3>2. CASE c = d
      BY <2>2, <3>1, <3>2
    <3>3. CASE c # d
      <4>1. c \in Differing(b)
        BY <2>1, <2>4, <3>3 DEF Differing
      <4>2. Event(SourceId(b, c), "CONFLICTING_CANDLE") \in t.events
        BY <4>1 DEF Comparison
      <4>3. ConflictOf(b, b[i]) \in t.events
        BY <4>2, ConflictOfIdentity DEF ConflictOf
      <4>. QED
        BY <3>1, <4>3
    <3>. QED
      BY <3>2, <3>3
  <2>. QED
    BY <2>3, <2>4
<1>. QED
  BY <1>1, <1>2 DEF Covers

(* The events of a batch that was covered before are there, if it was judged *)
(* without a drift and what it stored has closed.                            *)
LEMMA CoveredIsQuiet ==
  ASSUME Types, CandleInv, AllClosed, NoDrift, NEW b \in Batches, NEW n \in 0 .. now,
         Covers(b, n, quality, candles)
  PROVE  Comparison(b).events \subseteq quality
<1>1. \A i \in DOMAIN b : CodesOf(b, i) = CodesAt(b, i, n)
  <2>. TAKE i \in DOMAIN b
  <2>1. "TIMESTAMP_DRIFT" \notin CodesAt(b, i, n)
    BY DEF Covers, NoDrift, Event
  <2>2. now \in Nat /\ n \in Nat /\ n <= now
    BY DEF Types
  <2>. QED
    BY <2>1, <2>2, CodesSettle, CodesNow
<1>2. ValidationEvents(b) \subseteq quality
  BY <1>1 DEF ValidationEvents, Covers
<1>3. ASSUME NEW c \in Differing(b)
      PROVE  Event(SourceId(b, c), "CONFLICTING_CANDLE") \in quality
  <2>1. PICK i \in AcceptedRecords(b) : c = ToCandle(b[i])
    BY DEF Differing, Accepted
  <2>2. i \in DOMAIN b /\ CodesAt(b, i, n) \cap ErrorCodes = {}
    BY <1>1 DEF AcceptedRecords
  <2>3. PICK d \in candles : /\ SameCandle(d, b[i])
                             /\ d.value = b[i].value \/ ConflictOf(b, b[i]) \in quality
    BY <2>2 DEF Covers
  <2>4. PICK e \in candles : SameCandle(c, e) /\ c # e
    BY DEF Differing
  <2>5. d = e
    <3>1. SameCandle(d, e)
      BY <2>1, <2>3, <2>4 DEF SameCandle, ToCandle
    <3>. QED
      BY <3>1 DEF CandleInv, UniqueCandles
  <2>6. d.value # b[i].value
    <3>1. d \in CandleRows /\ d.closed /\ d.at + d.tf <= now
      BY DEF Types, AllClosed, CandleInv, Ended
    <3>2. d.at = b[i].at /\ d.tf = b[i].tf
      BY <2>3 DEF SameCandle
    <3>3. c = [at |-> d.at, tf |-> d.tf, value |-> b[i].value, closed |-> TRUE]
      BY <2>1, <3>1, <3>2 DEF ToCandle
    <3>4. d = [at |-> d.at, tf |-> d.tf, value |-> d.value, closed |-> TRUE]
      BY <3>1 DEF CandleRows
    <3>. QED
      BY <2>4, <2>5, <3>3, <3>4
  <2>7. ConflictOf(b, b[i]) \in quality
    BY <2>3, <2>6
  <2>. QED
    BY <2>1, <2>7, ConflictOfIdentity DEF ConflictOf
<1>. QED
  BY <1>2, <1>3 DEF Comparison

LEMMA RetriesHold == Spec => []RetryInv
<1>1. ASSUME Init PROVE RetryInv
  BY <1>1 DEF Init, RetryInv, Closed
<1>2. ASSUME Types, CandleInv, TurnInv, RetryInv, [Next]_vars PROVE RetryInv'
  <2>. SUFFICES ASSUME ~overlap, overlap' = overlap, SentOnce PROVE RetryInv'
    <3>1. overlap' = overlap
      BY <1>2 DEF Next, vars, Wait, CheckSourceEvents, CompareWithStored, Store, BeginImport,
                  CommitImport, Rollback
    <3>. QED
      BY <3>1 DEF RetryInv
  <2>. USE Types, CandleInv, TurnInv, RetryInv DEF Types
  <2>0. ASSUME NEW w \in Workers, UNCHANGED <<now, raws, candles, quality>>, NEW t,
               txn' = [txn EXCEPT ![w] = t],
               t.at = "compared" =>
                 /\ \E n \in 0 .. now : Covers(t.batch, n, t.events, candles \cup t.fresh)
                 /\ IsQuietRetry(t)
        PROVE  RetryInv'
    <3>1. \A u : IsQuietRetry(u) => IsQuietRetry(u)'
      BY <2>0 DEF IsQuietRetry, AllClosed, NoDrift
    <3>. QED
      BY <2>0, <3>1 DEF RetryInv
  <2>1. CASE Wait
    <3>1. now' \in Nat /\ 0 .. now \subseteq 0 .. now'
      BY <2>1, MarketDataAssumption DEF Wait
    <3>2. UNCHANGED <<raws, candles, quality, txn>>
      BY <2>1 DEF Wait
    <3>3. \A u : IsQuietRetry(u) => IsQuietRetry(u)'
      BY <3>2 DEF IsQuietRetry, AllClosed, NoDrift
    <3>. QED
      BY <3>1, <3>2, <3>3 DEF RetryInv
  <2>2. ASSUME NEW w \in Workers, NEW b \in Batches, CheckSourceEvents(w, b) PROVE RetryInv'
    BY <2>0, <2>2 DEF CheckSourceEvents, Begin
  <2>3. ASSUME NEW w \in Workers, CompareWithStored(w) PROVE RetryInv'
    <3>. DEFINE b == txn[w].batch
                t == Comparison(b)
    <3>1. b \in Batches /\ t.batch = b
      BY <2>3, CompareIsComparison, ShapeOfTxn DEF CheckedTxns, Comparison
    <3>2. now \in 0 .. now /\ Covers(b, now, t.events, candles \cup t.fresh)
      BY <3>1, ComparisonCovers
    <3>3. IsQuietRetry(t)
      <4>. SUFFICES ASSUME RowsOf(b) \subseteq raws, AllClosed, NoDrift
                    PROVE  t.events \subseteq quality
        BY <3>1 DEF IsQuietRetry
      <4>1. CASE RowsOf(b) = {}
        <5>1. DOMAIN b = {}
          BY <4>1 DEF RowsOf
        <5>2. ValidationEvents(b) = {} /\ Accepted(b) = {}
          BY <5>1 DEF ValidationEvents, Accepted, AcceptedRecords
        <5>. QED
          BY <5>2 DEF Comparison, Differing
      <4>2. CASE RowsOf(b) # {}
        <5>1. PICK r \in raws : r \in RowsOf(b)
          BY <4>2
        <5>2. PICK d \in Batches, n \in 0 .. now : r \in RowsOf(d) /\ Covers(d, n, quality, candles)
          BY DEF RetryInv
        <5>3. d = b
          BY <3>1, <5>1, <5>2 DEF SentOnce
        <5>. QED
          BY <3>1, <5>2, <5>3, CoveredIsQuiet
      <4>. QED
        BY <4>1, <4>2
    <3>4. txn' = [txn EXCEPT ![w] = t] /\ UNCHANGED <<now, raws, candles, quality>>
      BY <2>3, CompareIsComparison
    <3>. HIDE DEF t, b
    <3>. QED
      BY <2>0, <3>1, <3>2, <3>3, <3>4
  <2>4. ASSUME NEW w \in Workers, Store(w) PROVE RetryInv'
    <3>. DEFINE b == txn[w].batch
    <3>1. /\ KeepsIds(b) /\ ReadyToStore(txn[w]) /\ txn[w] # Closed
          /\ txn[w].at = "compared" /\ now' = now
      BY <2>4 DEF Store, TurnInv, Closed
    <3>2. b \in Batches
      BY <3>1, ShapeOfTxn DEF ComparedTxns
    <3>3. /\ raws' = raws \cup RowsOf(b)
          /\ candles' = candles \cup txn[w].fresh
          /\ quality' = quality \cup txn[w].events
      BY <2>4, <3>1, StoreInTurn
    <3>4. txn' = [txn EXCEPT ![w] = Closed]
      BY <2>4 DEF Store, End
    <3>5. \A v \in Workers : txn'[v] = Closed
      BY <3>1, <3>4, OthersAreClosed DEF TurnInv
    <3>6. PICK n \in 0 .. now : Covers(b, n, txn[w].events, candles \cup txn[w].fresh)
      BY <3>1 DEF RetryInv
    <3>7. Covers(b, n, quality', candles')
      BY <3>3, <3>6, CoversMore
    <3>8. ASSUME NEW r \in raws
          PROVE  \E d \in Batches, m \in 0 .. now : r \in RowsOf(d) /\ Covers(d, m, quality', candles')
      <4>1. PICK d \in Batches, m \in 0 .. now : r \in RowsOf(d) /\ Covers(d, m, quality, candles)
        BY DEF RetryInv
      <4>2. Covers(d, m, quality', candles')
        BY <3>3, <4>1, CoversMore
      <4>. QED
        BY <4>1, <4>2
    <3>9. \A r \in raws' : \E d \in Batches, m \in 0 .. now' :
                             r \in RowsOf(d) /\ Covers(d, m, quality', candles')
      <4>. HIDE DEF b
      <4>. QED
        BY <3>1, <3>2, <3>3, <3>7, <3>8
    <3>10. \A v \in Workers : txn'[v].at # "compared"
      BY <3>5 DEF Closed
    <3>. QED
      BY <3>9, <3>10 DEF RetryInv, Covers, ConflictOf
  <2>5. ASSUME NEW w \in Workers, NEW i \in Imports, BeginImport(w, i) PROVE RetryInv'
    BY <2>0, <2>5 DEF BeginImport, Begin
  <2>6. ASSUME NEW w \in Workers, CommitImport(w) PROVE RetryInv'
    BY <2>0, <2>6 DEF CommitImport, End, Closed
  <2>7. ASSUME NEW w \in Workers, Rollback(w) PROVE RetryInv'
    BY <2>0, <2>7 DEF Rollback, End, Closed
  <2>8. CASE UNCHANGED vars
    <3>1. UNCHANGED <<now, raws, candles, quality, txn>>
      BY <2>8 DEF vars
    <3>2. \A u : IsQuietRetry(u) => IsQuietRetry(u)'
      BY <3>1 DEF IsQuietRetry, AllClosed, NoDrift
    <3>. QED
      BY <3>1, <3>2 DEF RetryInv
  <2>. QED
    BY <1>2, <2>1, <2>2, <2>3, <2>4, <2>5, <2>6, <2>7, <2>8 DEF Next
<1>. QED
  BY <1>1, <1>2, TypesHold, CandlesAreUnique, TurnsHold, PTL DEF Spec

(* A retry of a batch reports nothing: imports in turn, candles that had      *)
(* closed, none ahead of the clock, and no event in two batches.             *)
THEOREM RetriesOfClosedAreIdempotent == Spec => RetryOfClosedIsIdempotent
<1>1. ASSUME Types, TurnInv, RetryInv, [Next]_vars, ~overlap, raws' = raws, SentOnce,
             AllClosed, NoDrift
      PROVE  quality' = quality
  <2>1. ASSUME NEW w \in Workers, Store(w) PROVE quality' = quality
    <3>1. KeepsIds(txn[w].batch) /\ ReadyToStore(txn[w]) /\ txn[w].at = "compared"
      BY <1>1, <2>1 DEF Store, TurnInv
    <3>2. RowsOf(txn[w].batch) \subseteq raws /\ quality' = quality \cup txn[w].events
      BY <1>1, <2>1, <3>1, StoreInTurn
    <3>3. txn[w].events \subseteq quality
      BY <1>1, <3>1, <3>2 DEF RetryInv, IsQuietRetry
    <3>. QED
      BY <3>2, <3>3
  <2>. QED
    BY <1>1, <2>1 DEF Next, vars, Wait, CheckSourceEvents, CompareWithStored, BeginImport,
                      CommitImport, Rollback
<1>2. Types /\ TurnInv /\ RetryInv /\ [Next]_vars =>
        [ /\ ~overlap /\ raws' = raws
          /\ \A b, d \in Batches : RowsOf(b) \cap RowsOf(d) # {} => b = d
          /\ \A c \in candles : c.closed
          /\ \A e \in quality : e.code # "TIMESTAMP_DRIFT"
          => quality' = quality ]_vars
  BY <1>1 DEF SentOnce, AllClosed, NoDrift
<1>. QED
  BY <1>2, TypesHold, TurnsHold, RetriesHold, PTL DEF Spec, RetryOfClosedIsIdempotent

-----------------------------------------------------------------------------
(* Division, for any length of a candle, a bucket or a day.                  *)

LEMMA DivBounds ==
  ASSUME NEW x \in Int, NEW D \in Nat, D > 0
  PROVE  x \div D \in Int /\ D * (x \div D) <= x /\ x < D * (x \div D) + D
OBVIOUS

LEMMA DivIsUnique ==
  ASSUME NEW x \in Int, NEW D \in Nat, D > 0, NEW d \in Int, D * d <= x, x < D * d + D
  PROVE  x \div D = d
<1>. DEFINE q == x \div D
<1>1. q \in Int /\ D * q <= x /\ x < D * q + D
  BY DivBounds
<1>. HIDE DEF q
<1>2. ASSUME q < d PROVE FALSE
  <2>1. D * (q + 1) <= D * d
    BY <1>1, <1>2
  <2>2. D * (q + 1) = D * q + D
    BY <1>1
  <2>. QED
    BY <2>1, <2>2, <1>1
<1>3. ASSUME d < q PROVE FALSE
  <2>1. D * (d + 1) <= D * q
    BY <1>1, <1>3
  <2>2. D * (d + 1) = D * d + D
    BY <1>1
  <2>. QED
    BY <2>1, <2>2, <1>1
<1>4. q = d
  BY <1>1, <1>2, <1>3
<1>. QED
  BY <1>4 DEF q

LEMMA DivMonotone ==
  ASSUME NEW x \in Int, NEW y \in Int, NEW D \in Nat, D > 0, x <= y
  PROVE  x \div D <= y \div D
<1>. DEFINE p == x \div D
            q == y \div D
<1>1. p \in Int /\ D * p <= x /\ x < D * p + D
  BY DivBounds
<1>2. q \in Int /\ D * q <= y /\ y < D * q + D
  BY DivBounds
<1>. HIDE DEF p, q
<1>3. ASSUME q < p PROVE FALSE
  <2>1. D * (q + 1) <= D * p
    BY <1>1, <1>2, <1>3
  <2>2. D * (q + 1) = D * q + D
    BY <1>2
  <2>. QED
    BY <2>1, <2>2, <1>1, <1>2
<1>4. p <= q
  BY <1>1, <1>2, <1>3
<1>. QED
  BY <1>4 DEF p, q

LEMMA ModIsMultiple ==
  ASSUME NEW x \in Int, NEW D \in Nat, D > 0
  PROVE  x % D = 0 <=> \E k \in Int : x = D * k
<1>. DEFINE q == x \div D
<1>1. q \in Int /\ x % D \in 0 .. D - 1 /\ x % D = x - D * q
  OBVIOUS
<1>2. ASSUME x % D = 0 PROVE \E k \in Int : x = D * k
  <2>. HIDE DEF q
  <2>1. D * q \in Int /\ x = D * q
    BY <1>1, <1>2
  <2>. QED
    BY <1>1, <2>1
<1>3. ASSUME NEW k \in Int, x = D * k PROVE x % D = 0
  <2>1. x \div D = k
    BY <1>3, DivIsUnique
  <2>. QED
    BY <1>1, <1>3, <2>1
<1>. QED
  BY <1>2, <1>3

LEMMA ModDiff ==
  ASSUME NEW x \in Int, NEW y \in Int, NEW D \in Nat, D > 0, x % D = 0, y % D = 0
  PROVE  (x - y) % D = 0 /\ (x + y) % D = 0
<1>1. PICK k \in Int : x = D * k
  BY ModIsMultiple
<1>2. PICK l \in Int : y = D * l
  BY ModIsMultiple
<1>3. x - y = D * (k - l) /\ x + y = D * (k + l)
  BY <1>1, <1>2
<1>. QED
  BY <1>3, ModIsMultiple

LEMMA ModTimes ==
  ASSUME NEW x \in Int, NEW n \in Int, NEW D \in Nat, D > 0, x % D = 0
  PROVE  (n * x) % D = 0
<1>1. PICK k \in Int : x = D * k
  BY ModIsMultiple
<1>2. n * x = D * (n * k) /\ n * k \in Int /\ n * x \in Int
  BY <1>1
<1>. QED
  BY <1>2, ModIsMultiple

-----------------------------------------------------------------------------
(* Sessions. *)

LEMMA DayFacts ==
  /\ DayLength \in Nat /\ DayLength > 0
  /\ \A x \in Nat : DayOf(x) \in Nat
  /\ \A x, y \in Nat : x <= y => DayOf(x) <= DayOf(y)
<1>1. DayLength \in Nat /\ DayLength > 0
  BY SessionAssumption
<1>2. ASSUME NEW x \in Nat PROVE DayOf(x) \in Nat
  <2>1. x \div DayLength \in Int /\ 0 \div DayLength <= x \div DayLength
    BY <1>1, DivMonotone, DivBounds
  <2>2. 0 \div DayLength = 0
    <3>1. DayLength * 0 <= 0 /\ 0 < DayLength * 0 + DayLength
      BY <1>1
    <3>. QED
      BY <1>1, <3>1, DivIsUnique
  <2>. QED
    BY <2>1, <2>2 DEF DayOf
<1>3. \A x, y \in Nat : x <= y => DayOf(x) <= DayOf(y)
  BY <1>1, DivMonotone DEF DayOf
<1>. QED
  BY <1>1, <1>2, <1>3

IsSession(s, d) ==
  /\ s.day = d /\ s.opens \in Nat /\ s.closes \in Nat /\ s.opens < s.closes
  /\ \A x \in Nat : s.opens <= x /\ x < s.closes => DayOf(x) = d
  /\ s.closes - s.opens <= Daily
  /\ DayOf(s.opens) = d

LEMMA KnownSession ==
  ASSUME NEW s \in Sessions
  PROVE  IsSession(s, s.day)
<1>1. /\ s.opens \in Nat /\ s.closes \in Nat /\ s.opens < s.closes /\ s.day \in Nat
      /\ DayOf(s.opens) = s.day /\ DayOf(s.closes) = s.day
  BY DEF Sessions
<1>2. ASSUME NEW x \in Nat, s.opens <= x, x < s.closes PROVE DayOf(x) = s.day
  <2>1. DayOf(s.opens) <= DayOf(x) /\ DayOf(x) <= DayOf(s.closes) /\ DayOf(x) \in Nat
    BY <1>1, <1>2, DayFacts
  <2>. QED
    BY <1>1, <2>1
<1>3. s.closes - s.opens <= Daily
  <2>1. DayLength * s.day <= s.opens /\ s.closes < DayLength * s.day + DayLength
    BY <1>1, DayFacts, DivBounds DEF DayOf
  <2>2. DayLength * s.day \in Nat
    BY <1>1, DayFacts
  <2>. QED
    BY <1>1, <2>1, <2>2, DayFacts DEF Daily
<1>. QED
  BY <1>1, <1>2, <1>3 DEF IsSession

LEMMA RegularIsSession ==
  ASSUME NEW d \in Nat
  PROVE  IsSession(RegularSession(d), d)
<1>. DEFINE m == d * DayLength
            s == RegularSession(d)
<1>1. m \in Nat /\ m = DayLength * d
  BY DayFacts
<1>2. /\ RegularOpen \in Nat /\ RegularClose \in Nat
      /\ RegularOpen < RegularClose /\ RegularClose <= DayLength
  BY SessionAssumption
<1>3. s.day = d /\ s.opens = m + RegularOpen /\ s.closes = m + RegularClose
  BY DEF RegularSession
<1>. HIDE DEF m, s
<1>4. ASSUME NEW x \in Nat, s.opens <= x, x < s.closes PROVE DayOf(x) = d
  <2>1. DayLength * d <= x /\ x < DayLength * d + DayLength
    BY <1>1, <1>2, <1>3, <1>4, DayFacts
  <2>. QED
    BY <2>1, DayFacts, DivIsUnique DEF DayOf
<1>5. s.opens \in Nat /\ s.closes \in Nat /\ s.opens < s.closes
  BY <1>1, <1>2, <1>3
<1>6. s.closes - s.opens <= Daily
  BY <1>1, <1>2, <1>3, DayFacts DEF Daily
<1>7. DayOf(s.opens) = d
  BY <1>4, <1>5
<1>. QED
  BY <1>3, <1>4, <1>5, <1>6, <1>7 DEF IsSession, s

LEMMA SessionOfDay ==
  ASSUME NEW K \in SUBSET Sessions, NEW d \in Nat
  PROVE  /\ IsSession(SessionOn(K, d), d)
         /\ (\E s \in K : s.day = d) => SessionOn(K, d) \in K
<1>1. CASE \E s \in K : s.day = d
  <2>1. SessionOn(K, d) \in K /\ SessionOn(K, d).day = d
    BY <1>1 DEF SessionOn
  <2>. QED
    BY <2>1, KnownSession
<1>2. CASE ~\E s \in K : s.day = d
  BY <1>2, RegularIsSession DEF SessionOn
<1>. QED
  BY <1>1, <1>2

-----------------------------------------------------------------------------
(* Buckets: where the candles of a bucket lie. *)

(* A bucket b that ends at e holds the candle c of a session s.              *)
Holds(b, e, s, c, base) ==
  /\ b \in Nat /\ e \in Nat
  /\ s.opens <= b /\ b <= c.at /\ c.at < e /\ e <= s.closes
  /\ (c.at - b) % base = 0 /\ (e - b) % base = 0

LEMMA BucketHolds ==
  ASSUME NEW base \in Nat, base > 0, NEW T \in 1 .. Daily, T % base = 0,
         NEW d, NEW s, IsSession(s, d), NEW c, c.at \in Nat, s.opens <= c.at, c.at < s.closes,
         (c.at - s.opens) % base = 0, (s.closes - s.opens) % base = 0
  PROVE  Holds(BucketOf(c, T, s), BucketEnd(BucketOf(c, T, s), T, s), s, c, base)
<1>0. s.opens \in Nat /\ s.closes \in Nat /\ s.opens < s.closes /\ T \in Nat /\ T > 0
  BY DEF IsSession
<1>1. CASE T = Daily
  <2>1. BucketOf(c, T, s) = s.opens /\ BucketEnd(s.opens, T, s) = s.closes
    BY <1>1 DEF BucketOf, BucketEnd
  <2>. QED
    BY <1>0, <2>1 DEF Holds
<1>2. CASE T # Daily
  <2>. DEFINE x == c.at - s.opens
              q == x \div T
              b == s.opens + q * T
              e == Min({b + T, s.closes})
  <2>1. BucketOf(c, T, s) = b /\ BucketEnd(b, T, s) = e
    BY <1>2 DEF BucketOf, BucketEnd
  <2>2. x \in Nat /\ x % base = 0 /\ x = c.at - s.opens
    BY <1>0
  <2>3. q \in Int /\ T * q <= x /\ x < T * q + T
    BY <1>0, <2>2, DivBounds
  <2>4. 0 <= q
    <3>1. 0 \div T <= q
      BY <1>0, <2>2, DivMonotone
    <3>2. 0 \div T = 0
      <4>1. T * 0 <= 0 /\ 0 < T * 0 + T
        BY <1>0
      <4>. QED
        BY <1>0, <4>1, DivIsUnique
    <3>. QED
      BY <2>3, <3>1, <3>2
  <2>. DEFINE m == q * T
  <2>5. m \in Nat /\ m <= x /\ x < m + T /\ b = s.opens + m
    <3>1. q * T = T * q /\ q * T \in Nat
      BY <1>0, <2>3, <2>4
    <3>. QED
      BY <2>3, <3>1
  <2>. HIDE DEF x, q
  <2>6. m % base = 0
    <3>1. (q * T) % base = 0
      BY <1>0, <2>3, ModTimes
    <3>. QED
      BY <3>1
  <2>. HIDE DEF m
  <2>7. c.at - b = x - m /\ (b + T) - b = T /\ s.closes - b = (s.closes - s.opens) - m
    BY <1>0, <2>2, <2>5
  <2>8. (c.at - b) % base = 0 /\ (s.closes - b) % base = 0
    <3>1. (x - m) % base = 0
      BY <2>2, <2>5, <2>6, ModDiff
    <3>. DEFINE l == s.closes - s.opens
    <3>2. l \in Int /\ l % base = 0
      BY <1>0
    <3>. HIDE DEF l
    <3>3. (l - m) % base = 0
      BY <2>5, <2>6, <3>2, ModDiff
    <3>. USE DEF l
    <3>. QED
      BY <2>7, <3>1, <3>3
  <2>9. e \in {b + T, s.closes} /\ e <= b + T /\ e <= s.closes /\ c.at < e
    <3>1. CASE b + T <= s.closes
      <4>1. e = b + T
        BY <1>0, <2>5, <3>1 DEF Min
      <4>. QED
        BY <1>0, <2>2, <2>5, <3>1, <4>1
    <3>2. CASE s.closes < b + T
      <4>1. e = s.closes
        BY <1>0, <2>5, <3>2 DEF Min
      <4>. QED
        BY <1>0, <2>2, <2>5, <3>2, <4>1
    <3>. QED
      BY <1>0, <2>5, <3>1, <3>2
  <2>10. b \in Nat /\ e \in Nat /\ (e - b) % base = 0
    BY <1>0, <2>5, <2>7, <2>8, <2>9
  <2>. QED
    BY <1>0, <2>1, <2>2, <2>5, <2>8, <2>9, <2>10 DEF Holds
<1>. QED
  BY <1>1, <1>2

(* A bucket has no more candles than it has room for, and as many only when  *)
(* every slot is filled.                                                     *)
LEMMA RoomInBucket ==
  ASSUME NEW base \in Nat, base > 0, NEW b \in Nat, NEW e \in Nat, b < e, (e - b) % base = 0,
         NEW M, \A c, d \in M : c.at = d.at => c = d,
         \A c \in M : c.at \in Nat /\ b <= c.at /\ c.at < e /\ (c.at - b) % base = 0
  PROVE  /\ IsFiniteSet(M) /\ Cardinality(M) <= (e - b) \div base
         /\ (e - b) \div base \in Nat
         /\ Cardinality(M) = (e - b) \div base <=>
              \A x \in b .. e - 1 : (x - b) % base = 0 => \E c \in M : c.at = x
<1>. DEFINE n == (e - b) \div base
            f == [c \in M |-> (c.at - b) \div base]
<1>1. PICK k \in Int : e - b = base * k
  BY ModIsMultiple
<1>2. n = k
  <2>1. base * k <= e - b /\ e - b < base * k + base
    BY <1>1
  <2>. QED
    BY <2>1, DivIsUnique
<1>3. k > 0
  <2>1. ASSUME k <= 0 PROVE FALSE
    <3>1. base * k <= base * 0
      BY <2>1
    <3>. QED
      BY <1>1, <3>1
  <2>. QED
    BY <2>1
<1>4. ASSUME NEW c \in M
      PROVE  f[c] \in 0 .. n - 1 /\ c.at = b + base * f[c]
  <2>0. c.at - b \in Int /\ c.at - b >= 0 /\ c.at - b < e - b /\ (c.at - b) % base = 0
    OBVIOUS
  <2>1. PICK j \in Int : c.at - b = base * j
    BY <2>0, ModIsMultiple
  <2>2. (c.at - b) \div base = j
    <3>1. base * j <= c.at - b /\ c.at - b < base * j + base
      BY <2>1
    <3>. QED
      BY <3>1, DivIsUnique
  <2>3. j >= 0
    <3>1. ASSUME j < 0 PROVE FALSE
      <4>1. base * j < base * 0
        BY <3>1
      <4>. QED
        BY <2>0, <2>1, <4>1
    <3>. QED
      BY <3>1
  <2>4. j < k
    <3>1. ASSUME k <= j PROVE FALSE
      <4>1. base * k <= base * j
        BY <3>1
      <4>. QED
        BY <1>1, <2>0, <2>1, <4>1
    <3>. QED
      BY <3>1
  <2>5. f[c] = j
    BY <2>2
  <2>. HIDE DEF f, n
  <2>6. c.at = b + base * j
    BY <2>1
  <2>. QED
    BY <1>2, <2>3, <2>4, <2>5, <2>6
<1>5. f \in Injection(M, 0 .. n - 1)
  <2>1. f \in [M -> 0 .. n - 1]
    BY <1>4
  <2>2. \A c, d \in M : f[c] = f[d] => c = d
    <3>. HIDE DEF f
    <3>. QED
      BY <1>4
  <2>. HIDE DEF f
  <2>. QED
    BY <2>1, <2>2 DEF Injection, IsInjective
<1>6. IsFiniteSet(0 .. n - 1) /\ Cardinality(0 .. n - 1) = n
  BY <1>2, <1>3, FS_Interval
<1>7. /\ IsFiniteSet(M) /\ Cardinality(M) <= n
      /\ Cardinality(M) = n <=> f \in Surjection(M, 0 .. n - 1)
  <2>. HIDE DEF f, n
  <2>. QED
    BY <1>5, <1>6, FS_Injection
<1>8. f \in Surjection(M, 0 .. n - 1) <=> \A l \in 0 .. n - 1 : \E c \in M : f[c] = l
  <2>1. f \in [M -> 0 .. n - 1]
    BY <1>4
  <2>. HIDE DEF f, n
  <2>. QED
    BY <2>1 DEF Surjection
<1>9. ASSUME \A l \in 0 .. n - 1 : \E c \in M : f[c] = l,
             NEW x \in b .. e - 1, (x - b) % base = 0
      PROVE  \E c \in M : c.at = x
  <2>1. x - b \in Int /\ x - b >= 0 /\ x - b < e - b
    OBVIOUS
  <2>2. PICK j \in Int : x - b = base * j
    BY <1>9, <2>1, ModIsMultiple
  <2>3. j >= 0
    <3>1. ASSUME j < 0 PROVE FALSE
      <4>1. base * j < base * 0
        BY <3>1
      <4>. QED
        BY <2>1, <2>2, <4>1
    <3>. QED
      BY <3>1
  <2>4. j < k
    <3>1. ASSUME k <= j PROVE FALSE
      <4>1. base * k <= base * j
        BY <3>1
      <4>. QED
        BY <1>1, <2>1, <2>2, <4>1
    <3>. QED
      BY <3>1
  <2>. HIDE DEF f, n
  <2>5. PICK c \in M : f[c] = j
    BY <1>2, <1>9, <2>3, <2>4
  <2>6. c.at = b + base * j
    BY <1>4, <2>5
  <2>. QED
    BY <2>2, <2>6
<1>10. ASSUME \A x \in b .. e - 1 : (x - b) % base = 0 => \E c \in M : c.at = x,
              NEW l \in 0 .. n - 1
       PROVE  \E c \in M : f[c] = l
  <2>. DEFINE x == b + base * l
  <2>. HIDE DEF n, f
  <2>1. l \in Nat /\ l < k
    BY <1>2, <1>3
  <2>2. base * l \in Nat /\ base * l < base * k
    BY <2>1
  <2>3. x \in b .. e - 1 /\ x - b = base * l
    BY <1>1, <2>2
  <2>4. (x - b) % base = 0
    BY <2>1, <2>3, ModIsMultiple
  <2>5. PICK c \in M : c.at = x
    BY <1>10, <2>3, <2>4
  <2>6. f[c] \in Int /\ base * f[c] = base * l
    BY <1>2, <1>4, <2>2, <2>5
  <2>7. f[c] = l
    <3>1. ASSUME f[c] < l PROVE FALSE
      <4>1. base * f[c] < base * l
        BY <2>1, <2>6, <3>1
      <4>. QED
        BY <2>2, <2>6, <4>1
    <3>2. ASSUME l < f[c] PROVE FALSE
      <4>1. base * l < base * f[c]
        BY <2>1, <2>6, <3>2
      <4>. QED
        BY <2>2, <2>6, <4>1
    <3>. QED
      BY <2>1, <2>6, <3>1, <3>2
  <2>. QED
    BY <2>7
<1>11. Cardinality(M) = n <=>
         \A x \in b .. e - 1 : (x - b) % base = 0 => \E c \in M : c.at = x
  <2>. HIDE DEF f, n
  <2>. QED
    BY <1>7, <1>8, <1>9, <1>10
<1>. QED
  BY <1>2, <1>3, <1>7, <1>11

-----------------------------------------------------------------------------
(* More candles, known for longer, take back no bucket: on the grid a whole  *)
(* bucket has no room for another candle, and a complete week no day.        *)

(* Closed candles of one timeframe, as a query selects them. *)
IsSeries(C, base) ==
  /\ C \subseteq CandleRows /\ UniqueCandles(C)
  /\ \A c \in C : c.tf = base /\ c.closed

(* Two calendars say the same of the weeks that have candles. *)
SameWeeks(C, K, L) ==
  \A c \in C, s \in K \cup L : s.day \div 7 = WeekOf(c.at) => (s \in K <=> s \in L)

IsDayBar(c, s, K) ==
  s.trading /\ c.at = s.opens /\ (s \in K \/ s.day \in Weekdays(WeekOf(c.at)))

IsSlot(c, s, base) ==
  s.trading /\ s.opens <= c.at /\ c.at < s.closes =>
    (c.at - s.opens) % base = 0 /\ (s.closes - s.opens) % base = 0

Grid(C, K, base) ==
  \A c \in C : IF base = Daily THEN IsDayBar(c, SessionOn(K, DayOf(c.at)), K)
                               ELSE IsSlot(c, SessionOn(K, DayOf(c.at)), base)

(* D and L are what a reader of C and K is asked to compare with.            *)
Grows(C, K, t, D, L, u, base) ==
  /\ IsSeries(D, base) /\ C \subseteq D
  /\ K \subseteq Sessions /\ L \subseteq Sessions /\ OnePerDay(L)
  /\ SameWeeks(C, K, L) /\ Grid(D, L, base)
  /\ t \in Nat /\ u \in Nat /\ t <= u

LEMMA SameSessions ==
  ASSUME NEW C \in SUBSET CandleRows, NEW K \in SUBSET Sessions, NEW L \in SUBSET Sessions,
         OnePerDay(L), SameWeeks(C, K, L), NEW c \in C
  PROVE  SessionOn(K, DayOf(c.at)) = SessionOn(L, DayOf(c.at))
<1>. DEFINE d == DayOf(c.at)
<1>1. \A s \in K \cup L : s.day = d => s.day \div 7 = WeekOf(c.at)
  BY DEF WeekOf
<1>2. CASE \E s \in K : s.day = d
  <2>1. SessionOn(K, d) \in K /\ SessionOn(K, d).day = d
    BY <1>2 DEF SessionOn
  <2>2. SessionOn(K, d) \in L
    BY <1>1, <2>1 DEF SameWeeks
  <2>3. SessionOn(L, d) \in L /\ SessionOn(L, d).day = d
    BY <2>1, <2>2 DEF SessionOn
  <2>. QED
    BY <2>1, <2>2, <2>3 DEF OnePerDay
<1>3. CASE ~\E s \in K : s.day = d
  <2>1. ~\E s \in L : s.day = d
    BY <1>1, <1>3 DEF SameWeeks
  <2>. QED
    BY <1>3, <2>1 DEF SessionOn
<1>. QED
  BY <1>2, <1>3

(* The parts of Intraday. *)
InSession(A, K) ==
  {c \in A : /\ SessionOn(K, DayOf(c.at)).trading
             /\ SessionOn(K, DayOf(c.at)).opens <= c.at
             /\ c.at < SessionOn(K, DayOf(c.at)).closes}
BucketIn(c, T, K) == BucketOf(c, T, SessionOn(K, DayOf(c.at)))
MembersOf(b, A, T, K) == {c \in InSession(A, K) : BucketIn(c, T, K) = b}
EndOf(b, T, K) == BucketEnd(b, T, SessionOn(K, DayOf(b)))
WholeBuckets(A, base, T, asOf, K) ==
  {b \in {BucketIn(c, T, K) : c \in InSession(A, K)} :
     Whole(MembersOf(b, A, T, K), b, EndOf(b, T, K), base, asOf)}

LEMMA IntradayParts ==
  ASSUME NEW A, NEW base, NEW T, NEW asOf, NEW K
  PROVE  Intraday(A, base, T, asOf, K) =
           Answer({Combine(MembersOf(b, A, T, K), b, T) : b \in WholeBuckets(A, base, T, asOf, K)})
BY DEF Intraday, WholeBuckets, MembersOf, EndOf, BucketIn, InSession

LEMMA MemberIsHeld ==
  ASSUME NEW base \in Nat, base > 0, base # Daily, NEW T \in 1 .. Daily, T % base = 0,
         NEW C \in SUBSET CandleRows, NEW K \in SUBSET Sessions, Grid(C, K, base),
         NEW A \in SUBSET C, NEW b, NEW c \in MembersOf(b, A, T, K)
  PROVE  /\ Holds(b, EndOf(b, T, K), SessionOn(K, DayOf(c.at)), c, base)
         /\ DayOf(b) = DayOf(c.at)
         /\ c \in A /\ c.at \in Nat /\ DayOf(c.at) \in Nat
<1>. DEFINE s == SessionOn(K, DayOf(c.at))
<1>1. c \in A /\ s.trading /\ s.opens <= c.at /\ c.at < s.closes /\ BucketOf(c, T, s) = b
  BY DEF MembersOf, InSession, BucketIn
<1>2. c.at \in Nat /\ DayOf(c.at) \in Nat
  BY <1>1, DayFacts DEF CandleRows
<1>3. IsSession(s, DayOf(c.at))
  BY <1>2, SessionOfDay
<1>4. (c.at - s.opens) % base = 0 /\ (s.closes - s.opens) % base = 0
  BY <1>1 DEF Grid, IsSlot
<1>. HIDE DEF s
<1>5. Holds(b, BucketEnd(b, T, s), s, c, base)
  BY <1>1, <1>2, <1>3, <1>4, BucketHolds
<1>6. DayOf(b) = DayOf(c.at)
  <2>1. b \in Nat /\ s.opens <= b /\ b <= c.at /\ c.at \in Nat /\ s.closes \in Nat /\ c.at < s.closes
    BY <1>1, <1>2, <1>3, <1>5 DEF Holds, IsSession
  <2>2. b < s.closes
    BY <2>1
  <2>. QED
    BY <1>3, <2>1, <2>2 DEF IsSession
<1>7. EndOf(b, T, K) = BucketEnd(b, T, s)
  BY <1>6 DEF EndOf, s
<1>. QED
  BY <1>1, <1>2, <1>5, <1>6, <1>7 DEF s

LEMMA GrowIntraday ==
  ASSUME NEW base \in Nat, base > 0, base # Daily, NEW T \in 1 .. Daily, T % base = 0,
         NEW C, NEW D, NEW K, NEW L, NEW t, NEW u, Grows(C, K, t, D, L, u, base),
         NEW A \in SUBSET C, NEW B \in SUBSET D, A \subseteq B
  PROVE  Intraday(A, base, T, t, K).items \subseteq Intraday(B, base, T, u, L).items
<1>0. /\ IsSeries(D, base) /\ C \subseteq D
      /\ K \in SUBSET Sessions /\ L \in SUBSET Sessions /\ OnePerDay(L)
      /\ SameWeeks(C, K, L) /\ Grid(D, L, base)
      /\ t \in Nat /\ u \in Nat /\ t <= u
  BY DEF Grows
<1>. USE <1>0
<1>1. ASSUME NEW b \in WholeBuckets(A, base, T, t, K)
      PROVE  /\ b \in WholeBuckets(B, base, T, u, L)
             /\ MembersOf(b, A, T, K) = MembersOf(b, B, T, L)
  <2>. DEFINE M == MembersOf(b, A, T, K)
              N == MembersOf(b, B, T, L)
              e == EndOf(b, T, L)
  <2>1. PICK c \in InSession(A, K) : BucketIn(c, T, K) = b
    BY DEF WholeBuckets
  <2>2. \A x \in C : SessionOn(K, DayOf(x.at)) = SessionOn(L, DayOf(x.at))
    BY SameSessions DEF IsSeries
  <2>3. M \subseteq N
    BY <2>2 DEF MembersOf, InSession, BucketIn
  <2>4. c \in M /\ c \in N /\ c \in C
    BY <2>1, <2>3 DEF MembersOf, InSession
  <2>5. \A x \in N : /\ Holds(b, e, SessionOn(L, DayOf(x.at)), x, base)
                     /\ DayOf(b) = DayOf(x.at)
                     /\ x \in D /\ x.at \in Nat
    BY MemberIsHeld DEF IsSeries
  <2>6. /\ b \in Nat /\ e \in Nat /\ b < e /\ (e - b) % base = 0
        /\ \A x \in N : x.at \in Nat /\ b <= x.at /\ x.at < e /\ (x.at - b) % base = 0
    <3>1. b <= c.at /\ c.at < e /\ c.at \in Nat /\ b \in Nat /\ e \in Nat
      BY <2>4, <2>5 DEF Holds
    <3>2. b < e
      BY <3>1
    <3>. QED
      BY <2>4, <2>5, <3>1, <3>2 DEF Holds
  <2>7. \A x, y \in N : x.at = y.at => x = y
    BY <2>5 DEF IsSeries, UniqueCandles, SameCandle
  <2>8. EndOf(b, T, K) = e
    <3>1. SessionOn(K, DayOf(b)) = SessionOn(L, DayOf(b))
      BY <2>2, <2>4, <2>5
    <3>. QED
      BY <3>1 DEF EndOf
  <2>9. Whole(M, b, e, base, t)
    BY <2>8 DEF WholeBuckets
  <2>10. Cardinality(M) = (e - b) \div base
    BY <2>9 DEF Whole
  <2>11. M = N
    <3>. HIDE DEF M, N, e
    <3>1. IsFiniteSet(N) /\ Cardinality(N) <= (e - b) \div base /\ (e - b) \div base \in Nat
      BY <2>6, <2>7, RoomInBucket
    <3>2. Cardinality(M) <= Cardinality(N) /\ (Cardinality(N) = Cardinality(M) => M = N)
      BY <2>3, <3>1, FS_Subset
    <3>3. Cardinality(N) \in Nat
      BY <3>1, FS_CardinalityType
    <3>. QED
      BY <2>10, <3>1, <3>2, <3>3
  <2>12. Whole(N, b, e, base, u)
    <3>. HIDE DEF M, N, e
    <3>. QED
      BY <2>6, <2>9, <2>11 DEF Whole
  <2>13. b \in {BucketIn(x, T, L) : x \in InSession(B, L)}
    BY <2>4 DEF MembersOf
  <2>. QED
    BY <2>11, <2>12, <2>13 DEF WholeBuckets
<1>. QED
  BY <1>1, IntradayParts DEF Answer

(* The parts of AggregateWeekly. *)
WeekMembers(A, w) == {c \in A : WeekOf(c.at) = w}
WeekTrading(K, w) == {s \in K : s.trading /\ s.day \div 7 = w}
WeeksOf(A) == {WeekOf(c.at) : c \in A}
CompleteWeeks(A, asOf, K) ==
  {w \in WeeksOf(A) : /\ CompleteWeek(WeekMembers(A, w), WeekTrading(K, w))
                      /\ \A s \in WeekTrading(K, w) : s.closes <= asOf}
WeekBar(M) == Combine(M, Min({c.at : c \in M}), Weekly)
WeeksRefused(A, base, K) ==
  \/ A = {} \/ base # Daily
  \/ \E w \in WeeksOf(A) : ~(Weekdays(w) \subseteq {s.day : s \in K})

LEMMA WeeklyParts ==
  ASSUME NEW A, NEW base, NEW asOf, NEW K
  PROVE  AggregateWeekly(A, base, asOf, K) =
           IF WeeksRefused(A, base, K) THEN Refusal
           ELSE Answer({WeekBar(WeekMembers(A, w)) : w \in CompleteWeeks(A, asOf, K)})
BY DEF AggregateWeekly, WeeksRefused, WeekMembers, WeekTrading, WeeksOf, CompleteWeeks, WeekBar

LEMMA GrowWeekly ==
  ASSUME NEW C, NEW D, NEW K, NEW L, NEW t, NEW u, Grows(C, K, t, D, L, u, Daily),
         NEW A \in SUBSET C, NEW B \in SUBSET D, A \subseteq B
  PROVE  \/ AggregateWeekly(B, Daily, u, L).refused
         \/ AggregateWeekly(A, Daily, t, K).items \subseteq AggregateWeekly(B, Daily, u, L).items
<1>0. /\ IsSeries(D, Daily) /\ C \subseteq D
      /\ K \in SUBSET Sessions /\ L \in SUBSET Sessions /\ OnePerDay(L)
      /\ SameWeeks(C, K, L) /\ Grid(D, L, Daily)
      /\ t \in Nat /\ u \in Nat /\ t <= u
  BY DEF Grows
<1>. USE <1>0
<1>. SUFFICES ASSUME ~WeeksRefused(A, Daily, K), ~WeeksRefused(B, Daily, L)
              PROVE  \A w \in CompleteWeeks(A, t, K) :
                       w \in CompleteWeeks(B, u, L) /\ WeekMembers(A, w) = WeekMembers(B, w)
  BY WeeklyParts DEF Refusal, Answer
<1>. TAKE w \in CompleteWeeks(A, t, K)
<1>. DEFINE M == WeekMembers(A, w)
            N == WeekMembers(B, w)
<1>1. PICK a \in A : WeekOf(a.at) = w
  BY DEF CompleteWeeks, WeeksOf
<1>2. WeekTrading(K, w) = WeekTrading(L, w)
  BY <1>1 DEF WeekTrading, SameWeeks
<1>3. /\ CompleteWeek(M, WeekTrading(L, w))
      /\ \A s \in WeekTrading(L, w) : s.closes <= t
  BY <1>2 DEF CompleteWeeks
<1>4. M \subseteq N
  BY DEF WeekMembers
<1>5. ASSUME NEW c \in N PROVE c \in M
  <2>. DEFINE s == SessionOn(L, DayOf(c.at))
  <2>1. c \in D /\ WeekOf(c.at) = w /\ c \in B /\ c \in CandleRows
    BY DEF WeekMembers, IsSeries
  <2>2. c.at \in Nat /\ DayOf(c.at) \in Nat
    BY <2>1, DayFacts DEF CandleRows
  <2>3. IsSession(s, DayOf(c.at)) /\ ((\E r \in L : r.day = DayOf(c.at)) => s \in L)
    BY <2>2, SessionOfDay
  <2>4. s.trading /\ c.at = s.opens /\ (s \in L \/ s.day \in Weekdays(w))
    BY <2>1 DEF Grid, IsDayBar
  <2>5. s \in L
    <3>1. Weekdays(w) \subseteq {r.day : r \in L}
      BY <2>1 DEF WeeksRefused, WeeksOf
    <3>. QED
      BY <2>3, <2>4, <3>1 DEF IsSession
  <2>6. s \in WeekTrading(L, w) /\ s.day = DayOf(c.at)
    BY <2>1, <2>3, <2>4, <2>5 DEF WeekTrading, WeekOf, IsSession
  <2>. HIDE DEF s
  <2>7. PICK m \in M : DayOf(m.at) = s.day
    BY <1>3, <2>6 DEF CompleteWeek
  <2>8. m.at = s.opens
    BY <1>3, <2>6, <2>7 DEF CompleteWeek
  <2>9. m \in D /\ m.tf = Daily /\ c.tf = Daily
    BY <1>4, <2>1, <2>7 DEF WeekMembers, IsSeries
  <2>10. m = c
    BY <2>1, <2>4, <2>8, <2>9 DEF IsSeries, UniqueCandles, SameCandle
  <2>. QED
    BY <2>7, <2>10
<1>6. M = N
  BY <1>4, <1>5
<1>7. \A s \in WeekTrading(L, w) : s.closes <= u
  <2>1. \A s \in WeekTrading(L, w) : s.closes \in Nat
    BY DEF WeekTrading, Sessions
  <2>. QED
    BY <1>3, <2>1
<1>8. w \in WeeksOf(B)
  BY <1>1 DEF WeeksOf
<1>. QED
  BY <1>3, <1>6, <1>7, <1>8 DEF CompleteWeeks

LEMMA Grow ==
  ASSUME NEW base \in 1 .. Daily, NEW T \in (1 .. Daily) \cup {Weekly},
         NEW C, NEW D, NEW K, NEW L, NEW t, NEW u, Grows(C, K, t, D, L, u, base)
  PROVE  \/ AggregateClosedCandles(D, base, T, u, L).refused
         \/ AggregateClosedCandles(C, base, T, t, K).items \subseteq
              AggregateClosedCandles(D, base, T, u, L).items
<1>. DEFINE A == {c \in C : c.closed /\ AvailableAt(c, K) <= t}
            B == {c \in D : c.closed /\ AvailableAt(c, L) <= u}
<1>0. /\ IsSeries(D, base) /\ C \subseteq D
      /\ K \in SUBSET Sessions /\ L \in SUBSET Sessions /\ OnePerDay(L)
      /\ SameWeeks(C, K, L)
      /\ t \in Nat /\ u \in Nat /\ t <= u
  BY DEF Grows
<1>. USE <1>0
<1>1. CASE C = {} \/ T <= base \/ T % base # 0
  <2>1. AggregateClosedCandles(C, base, T, t, K).items = {}
    BY <1>1 DEF AggregateClosedCandles, Answer, Refusal
  <2>. QED
    BY <2>1
<1>2. CASE C # {} /\ ~(T <= base \/ T % base # 0)
  <2>1. D # {}
    BY <1>2
  <2>2. \A c \in C : AvailableAt(c, K) = AvailableAt(c, L) /\ AvailableAt(c, L) \in Nat
    <3>. TAKE c \in C
    <3>1. c \in CandleRows /\ c.at \in Nat /\ c.tf \in Nat /\ DayOf(c.at) \in Nat
      BY DayFacts DEF IsSeries, CandleRows, Daily
    <3>2. SessionOn(K, DayOf(c.at)) = SessionOn(L, DayOf(c.at))
      BY SameSessions DEF IsSeries
    <3>3. SessionOn(L, DayOf(c.at)).closes \in Nat
      BY <3>1, SessionOfDay DEF IsSession
    <3>. QED
      BY <3>1, <3>2, <3>3 DEF AvailableAt
  <2>3. A \subseteq C /\ B \subseteq D /\ A \subseteq B
    BY <2>2
  <2>4. CASE T = Weekly
    <3>1. AggregateClosedCandles(C, base, T, t, K) = AggregateWeekly(A, base, t, K)
      BY <1>2, <2>4 DEF AggregateClosedCandles
    <3>2. AggregateClosedCandles(D, base, T, u, L) = AggregateWeekly(B, base, u, L)
      BY <1>2, <2>1, <2>4 DEF AggregateClosedCandles
    <3>3. CASE base = Daily
      <4>1. Grows(C, K, t, D, L, u, Daily)
        BY <3>3
      <4>2. A \in SUBSET C /\ B \in SUBSET D /\ A \subseteq B
        BY <2>3
      <4>. HIDE DEF A, B
      <4>3. \/ AggregateWeekly(B, Daily, u, L).refused
            \/ AggregateWeekly(A, Daily, t, K).items \subseteq AggregateWeekly(B, Daily, u, L).items
        BY <4>1, <4>2, GrowWeekly
      <4>. QED
        BY <3>1, <3>2, <3>3, <4>3
    <3>4. CASE base # Daily
      <4>1. WeeksRefused(B, base, L)
        BY <3>4 DEF WeeksRefused
      <4>. HIDE DEF B
      <4>2. AggregateWeekly(B, base, u, L) = Refusal
        BY <4>1, WeeklyParts
      <4>. QED
        BY <3>2, <4>2 DEF Refusal
    <3>. QED
      BY <3>3, <3>4
  <2>5. CASE T # Weekly
    <3>1. AggregateClosedCandles(C, base, T, t, K) = Intraday(A, base, T, t, K)
      BY <1>2, <2>5 DEF AggregateClosedCandles
    <3>2. AggregateClosedCandles(D, base, T, u, L) = Intraday(B, base, T, u, L)
      BY <1>2, <2>1, <2>5 DEF AggregateClosedCandles
    <3>3. T \in 1 .. Daily /\ base \in Nat /\ base > 0 /\ base # Daily /\ T % base = 0
      <4>1. DayLength \in Nat /\ Daily = DayLength
        BY DayFacts DEF Daily
      <4>. QED
        BY <1>2, <2>5, <4>1
    <3>. HIDE DEF A, B
    <3>4. Intraday(A, base, T, t, K).items \subseteq Intraday(B, base, T, u, L).items
      BY <2>3, <3>3, GrowIntraday
    <3>. QED
      BY <3>1, <3>2, <3>4
  <2>. QED
    BY <2>4, <2>5
<1>. QED
  BY <1>1, <1>2

-----------------------------------------------------------------------------
(* What readers are answered. *)

LEMMA HorizonIsLater ==
  /\ Horizon \in Nat
  /\ \A t \in AsOf : t \in Nat /\ t < Horizon
<1>1. AsOf \subseteq Nat /\ \E last \in AsOf : \A t \in AsOf : t <= last
  BY MarketDataAssumption
<1>2. Max(AsOf) \in AsOf /\ \A t \in AsOf : t <= Max(AsOf)
  BY <1>1, MaxOfBounded
<1>3. Max(AsOf) \in Nat
  BY <1>1, <1>2
<1>. QED
  BY <1>1, <1>2, <1>3 DEF Horizon

LEMMA OnGridIsGrid ==
  ASSUME NEW t, NEW tf
  PROVE  OnGrid(t, tf) <=> Grid(StoredCandles(t, 0, Horizon, tf), KnownCalendar(t, 0, Horizon), tf)
BY DEF OnGrid, Grid, IsDayBar, IsSlot

LEMMA StoredIsSeries ==
  ASSUME Types, CandleInv, NEW t, NEW from, NEW to, NEW tf
  PROVE  IsSeries(StoredCandles(t, from, to, tf), tf)
BY DEF Types, CandleInv, UniqueCandles, StoredCandles, IsSeries

LEMMA KnownIsCalendar ==
  ASSUME Types, ImportsAreAudited, NEW t, NEW from, NEW to
  PROVE  /\ KnownCalendar(t, from, to) \subseteq Sessions
         /\ OnePerDay(KnownCalendar(t, from, to))
BY DEF Types, ImportsAreAudited, KnownCalendar, OnePerDay

LEMMA SameCalendar ==
  ASSUME NEW C, NEW K
  PROVE  SameWeeks(C, K, K)
BY DEF SameWeeks

LEMMA SourceIsShort ==
  ASSUME Types, NEW tf \in Sources
  PROVE  tf \in 1 .. Daily /\ tf \in Nat
<1>1. Daily \in Nat
  BY DayFacts DEF Daily
<1>. QED
  BY <1>1 DEF Types, Sources, RawCandles

(* The answer to a query is raw or aggregated. *)
AnswerOf(C, K, asOf, tf, T) ==
  IF T = tf THEN Answer({c \in C : AvailableAt(c, {}) <= asOf})
  ELSE AggregateClosedCandles(C, tf, T, asOf, K)

LEMMA ListIsAnswer ==
  ASSUME NEW t, NEW from, NEW to, NEW tf, NEW T
  PROVE  ListCandles(t, from, to, tf, T) =
           AnswerOf(StoredCandles(t, from, to, tf), KnownCalendar(t, from, to), t, tf, T)
BY DEF ListCandles, AnswerOf

AnswersGrow(C, K, t, D, L, u, tf, T) ==
  /\ T # tf => Grows(C, K, t, D, L, u, tf)
  /\ C \subseteq D /\ IsSeries(D, tf)
  /\ t \in Nat /\ u \in Nat /\ t <= u
  /\ T \in Targets /\ tf \in 1 .. Daily

LEMMA AnswerGrows ==
  ASSUME NEW C, NEW K, NEW t, NEW D, NEW L, NEW u, NEW tf, NEW T,
         AnswersGrow(C, K, t, D, L, u, tf, T)
  PROVE  \/ AnswerOf(D, L, u, tf, T).refused
         \/ AnswerOf(C, K, t, tf, T).items \subseteq AnswerOf(D, L, u, tf, T).items
<1>. USE DEF AnswersGrow
<1>1. CASE T # tf
  <2>1. T \in (1 .. Daily) \cup {Weekly}
    BY MarketDataAssumption
  <2>. QED
    BY <1>1, <2>1, Grow DEF AnswerOf
<1>2. CASE T = tf
  <2>1. ASSUME NEW c \in D PROVE AvailableAt(c, {}) \in Nat
    <3>1. c.at \in Nat /\ c.tf \in Nat /\ DayOf(c.at) \in Nat
      BY DayFacts DEF IsSeries, CandleRows, Daily
    <3>2. SessionOn({}, DayOf(c.at)).closes \in Nat
      BY <3>1, SessionOfDay DEF IsSession
    <3>. QED
      BY <3>1, <3>2 DEF AvailableAt
  <2>. QED
    BY <1>2, <2>1 DEF AnswerOf, Answer
<1>. QED
  BY <1>1, <1>2

LEMMA WithinRange ==
  ASSUME Types, NEW t \in AsOf, NEW from \in Nat, NEW to \in Nat, NEW tf
  PROVE  /\ StoredCandles(t, from, to, tf) \subseteq StoredCandles(t, 0, Horizon, tf)
         /\ SameWeeks(StoredCandles(t, from, to, tf), KnownCalendar(t, from, to),
                      KnownCalendar(t, 0, Horizon))
<1>1. \A c \in candles : c.at \in Nat
  BY DEF Types, CandleRows
<1>2. StoredCandles(t, from, to, tf) \subseteq StoredCandles(t, 0, Horizon, tf)
  BY <1>1, HorizonIsLater DEF StoredCandles
<1>3. ASSUME NEW c \in candles, NEW a \in Nat, NEW b \in Nat, a <= c.at, c.at < b,
             NEW s \in calendar, s.day \div 7 = WeekOf(c.at)
      PROVE  7 * WeekOf(a) <= s.day /\ s.day <= DayOf(b) + 6
  <2>. DEFINE d == DayOf(c.at)
              e == DayOf(a)
              f == DayOf(b)
  <2>1. d \in Nat /\ e \in Nat /\ f \in Nat /\ e <= d /\ d <= f
    BY <1>1, <1>3, DayFacts
  <2>2. s.day \in Nat
    BY DEF Types, Sessions
  <2>3. s.day \div 7 = d \div 7
    BY <1>3 DEF WeekOf
  <2>. HIDE DEF d, e, f
  <2>4. 7 * (e \div 7) <= s.day /\ s.day <= f + 6
    BY <2>1, <2>2, <2>3
  <2>. QED
    BY <2>4 DEF WeekOf, e, f
<1>4. SameWeeks(StoredCandles(t, from, to, tf), KnownCalendar(t, from, to),
                KnownCalendar(t, 0, Horizon))
  <2>. SUFFICES ASSUME NEW c \in StoredCandles(t, from, to, tf), NEW s \in calendar,
                       s.day \div 7 = WeekOf(c.at)
                PROVE  s \in KnownCalendar(t, from, to) <=> s \in KnownCalendar(t, 0, Horizon)
    BY DEF SameWeeks, KnownCalendar
  <2>1. c \in candles /\ from <= c.at /\ c.at < to
    BY DEF StoredCandles
  <2>2. 0 <= c.at /\ c.at < Horizon
    BY <1>2 DEF StoredCandles
  <2>3. 7 * WeekOf(from) <= s.day /\ s.day <= DayOf(to) + 6
    BY <1>3, <2>1
  <2>4. 7 * WeekOf(0) <= s.day /\ s.day <= DayOf(Horizon) + 6
    BY <1>3, <2>1, <2>2, HorizonIsLater
  <2>. QED
    BY <2>3, <2>4 DEF KnownCalendar
<1>. QED
  BY <1>2, <1>4

(* A part of the time tells nothing that all of it does not. *)
LEMMA RangesAlwaysAgree ==
  ASSUME Types, CandleInv, ImportsAreAudited
  PROVE  RangesAgree
<1>. SUFFICES ASSUME NEW t \in AsOf, NEW tf \in Sources, NEW T \in Targets,
                     T = tf \/ OnGrid(t, tf), NEW from \in Nat, NEW to \in Nat
              PROVE  \/ Whenever(t, tf, T).refused
                     \/ ListCandles(t, from, to, tf, T).items \subseteq Whenever(t, tf, T).items
  BY MarketDataAssumption, HorizonIsLater DEF RangesAgree
<1>. DEFINE C == StoredCandles(t, from, to, tf)
            D == StoredCandles(t, 0, Horizon, tf)
            K == KnownCalendar(t, from, to)
            L == KnownCalendar(t, 0, Horizon)
<1>1. t \in Nat /\ tf \in 1 .. Daily
  BY HorizonIsLater, SourceIsShort
<1>2. C \subseteq D /\ SameWeeks(C, K, L)
  BY WithinRange
<1>3. IsSeries(D, tf)
  BY StoredIsSeries
<1>4. K \subseteq Sessions /\ L \subseteq Sessions /\ OnePerDay(L)
  BY KnownIsCalendar
<1>5. T # tf => Grows(C, K, t, D, L, t, tf)
  BY <1>1, <1>2, <1>3, <1>4, OnGridIsGrid DEF Grows
<1>6. /\ ListCandles(t, from, to, tf, T) = AnswerOf(C, K, t, tf, T)
      /\ Whenever(t, tf, T) = AnswerOf(D, L, t, tf, T)
  BY ListIsAnswer DEF Whenever
<1>. HIDE DEF C, D, K, L
<1>7. AnswersGrow(C, K, t, D, L, t, tf, T)
  BY <1>1, <1>2, <1>3, <1>5 DEF AnswersGrow
<1>. QED
  BY <1>6, <1>7, AnswerGrows

(* An instant later nothing is taken back. *)
LEMMA LaterAnswersAlwaysInclude ==
  ASSUME Types, CandleInv, ImportsAreAudited
  PROVE  LaterAnswersInclude
<1>. SUFFICES ASSUME NEW t \in AsOf, NEW u \in AsOf, t < u, NEW tf \in Sources, NEW T \in Targets,
                     KnownCalendar(t, 0, Horizon) = KnownCalendar(u, 0, Horizon),
                     T = tf \/ OnGrid(u, tf)
              PROVE  \/ Whenever(u, tf, T).refused
                     \/ Whenever(t, tf, T).items \subseteq Whenever(u, tf, T).items
  BY DEF LaterAnswersInclude
<1>. DEFINE C == StoredCandles(t, 0, Horizon, tf)
            D == StoredCandles(u, 0, Horizon, tf)
            K == KnownCalendar(t, 0, Horizon)
            L == KnownCalendar(u, 0, Horizon)
<1>1. t \in Nat /\ u \in Nat /\ t <= u /\ tf \in 1 .. Daily
  BY HorizonIsLater, SourceIsShort
<1>2. C \subseteq D
  BY <1>1 DEF StoredCandles, Types, CandleRows
<1>3. IsSeries(D, tf)
  BY StoredIsSeries
<1>4. K \subseteq Sessions /\ L \subseteq Sessions /\ OnePerDay(L) /\ SameWeeks(C, K, L)
  BY KnownIsCalendar, SameCalendar
<1>5. T # tf => Grows(C, K, t, D, L, u, tf)
  BY <1>1, <1>2, <1>3, <1>4, OnGridIsGrid DEF Grows
<1>6. /\ Whenever(t, tf, T) = AnswerOf(C, K, t, tf, T)
      /\ Whenever(u, tf, T) = AnswerOf(D, L, u, tf, T)
  BY ListIsAnswer DEF Whenever
<1>. HIDE DEF C, D, K, L
<1>7. AnswersGrow(C, K, t, D, L, u, tf, T)
  BY <1>1, <1>2, <1>3, <1>5 DEF AnswersGrow
<1>. QED
  BY <1>6, <1>7, AnswerGrows

(* Readers who ask about other instants or other ranges agree with each      *)
(* other, where the candles are on the grid.                                 *)
THEOREM AnswersAlwaysAgree == Spec => []AnswersAgree
<1>1. Types /\ CandleInv /\ ImportsAreAudited => AnswersAgree
  BY RangesAlwaysAgree, LaterAnswersAlwaysInclude DEF AnswersAgree
<1>. QED
  BY <1>1, TypesHold, CandlesAreUnique, ImportsAreAlwaysAudited, PTL

LEMMA NothingIsRemoved ==
  ASSUME [Next]_vars
  PROVE  candles \subseteq candles' /\ calendar \subseteq calendar'
BY DEF Next, vars, Wait, CheckSourceEvents, CompareWithStored, Store, BeginImport, CommitImport,
       Rollback

(* What was answered about an instant is answered about it ever after,       *)
(* whatever is imported and by whom, where the candles are on the grid.      *)
THEOREM AnswersAreAlwaysStable == Spec => AnswersAreStable
<1>1. ASSUME Types, Types', CandleInv', ImportsAreAudited', [Next]_vars,
             NEW t \in AsOf, NEW tf \in Sources, NEW T \in Targets,
             ~\E s \in calendar' \ calendar : s.published <= t,
             T = tf \/ OnGrid(t, tf)'
      PROVE  \/ Whenever(t, tf, T)'.refused
             \/ Whenever(t, tf, T).items \subseteq Whenever(t, tf, T)'.items
  <2>. DEFINE C == StoredCandles(t, 0, Horizon, tf)
              D == StoredCandles(t, 0, Horizon, tf)'
              K == KnownCalendar(t, 0, Horizon)
              L == KnownCalendar(t, 0, Horizon)'
  <2>1. t \in Nat /\ tf \in 1 .. Daily
    BY <1>1, HorizonIsLater, SourceIsShort
  <2>2. candles \subseteq candles' /\ calendar \subseteq calendar'
    BY <1>1, NothingIsRemoved
  <2>3. C \subseteq D
    BY <2>2 DEF StoredCandles
  <2>4. K = L
    BY <1>1, <2>2 DEF KnownCalendar
  <2>5. IsSeries(D, tf)
    BY <1>1 DEF Types, CandleInv, UniqueCandles, StoredCandles, IsSeries
  <2>6. L \subseteq Sessions /\ OnePerDay(L)
    BY <1>1 DEF Types, ImportsAreAudited, KnownCalendar, OnePerDay
  <2>7. OnGrid(t, tf)' <=> Grid(D, L, tf)
    BY DEF OnGrid, Grid, IsDayBar, IsSlot
  <2>8. T # tf => Grows(C, K, t, D, L, t, tf)
    BY <1>1, <2>1, <2>3, <2>4, <2>5, <2>6, <2>7, SameCalendar DEF Grows
  <2>9. /\ Whenever(t, tf, T) = AnswerOf(C, K, t, tf, T)
        /\ Whenever(t, tf, T)' = AnswerOf(D, L, t, tf, T)
    BY DEF Whenever, ListCandles, AnswerOf
  <2>. HIDE DEF C, D, K, L
  <2>. QED
    <3>1. AnswersGrow(C, K, t, D, L, t, tf, T)
      BY <2>1, <2>3, <2>5, <2>8 DEF AnswersGrow
    <3>. QED
      BY <2>9, <3>1, AnswerGrows
<1>2. Types /\ Types' /\ CandleInv' /\ ImportsAreAudited' /\ [Next]_vars =>
        [ <<candles, calendar>>' # <<candles, calendar>> =>
            \A t \in AsOf, tf \in Sources, target \in Targets :
              LET before == Whenever(t, tf, target) after == Whenever(t, tf, target)'
              IN \/ \E s \in calendar' \ calendar : s.published <= t
                 \/ after.refused
                 \/ before.items \subseteq after.items
                 \/ target # tf /\ ~OnGrid(t, tf)' ]_vars
  BY <1>1
<1>. QED
  BY <1>2, TypesHold, CandlesAreUnique, ImportsAreAlwaysAudited, PTL DEF Spec, AnswersAreStable

-----------------------------------------------------------------------------
(* Intraday and daily answers, slot by slot. *)

RefEnd(b, T, s) == Min({b + T, s.closes})
RefStarts(T, s) == {b \in s.opens .. s.closes - 1 : (b - s.opens) % T = 0}
SlotsOf(b, e, tf) == {x \in b .. e - 1 : (x - b) % tf = 0}
AtSlot(x, tf) == {c \in candles : c.tf = tf /\ c.at = x /\ c.closed}
RefMembers(b, e, tf) == UNION {AtSlot(x, tf) : x \in SlotsOf(b, e, tf)}
RefBuckets(t, tf, T, s) ==
  {b \in RefStarts(T, s) : /\ RefEnd(b, T, s) <= t
                           /\ \A x \in SlotsOf(b, RefEnd(b, T, s), tf) : AtSlot(x, tf) # {}}

LEMMA ReferenceParts ==
  ASSUME NEW t, NEW tf, NEW T, NEW s
  PROVE  BucketReference(t, tf, T, s) =
           {Combine(RefMembers(b, RefEnd(b, T, s), tf), b, T) : b \in RefBuckets(t, tf, T, s)}
BY DEF BucketReference, RefMembers, RefBuckets, RefStarts, RefEnd, SlotsOf, AtSlot

(* A session is no longer than a day: a day is one bucket of it.             *)
LEMMA BucketStarts ==
  ASSUME NEW T \in 1 .. Daily, NEW d, NEW s, IsSession(s, d),
         NEW c, c.at \in Nat, s.opens <= c.at, c.at < s.closes
  PROVE  BucketOf(c, T, s) = s.opens + T * ((c.at - s.opens) \div T)
<1>. DEFINE x == c.at - s.opens
            q == x \div T
<1>1. x \in Int /\ 0 <= x /\ x < Daily /\ s.opens \in Int /\ T \in Nat /\ T > 0 /\ Daily \in Nat
  BY DayFacts DEF IsSession, Daily
<1>2. q \in Int
  BY <1>1, DivBounds
<1>3. CASE T = Daily
  <2>1. T * 0 <= x /\ x < T * 0 + T
    BY <1>1, <1>3
  <2>2. q = 0
    BY <1>1, <2>1, DivIsUnique
  <2>3. BucketOf(c, T, s) = s.opens
    BY <1>3 DEF BucketOf
  <2>. HIDE DEF q
  <2>4. T * q = 0
    BY <1>1, <2>2
  <2>5. BucketOf(c, T, s) = s.opens + T * q
    BY <1>1, <2>3, <2>4
  <2>. QED
    BY <2>5 DEF q
<1>4. CASE T # Daily
  <2>1. BucketOf(c, T, s) = s.opens + q * T
    BY <1>4 DEF BucketOf
  <2>. HIDE DEF q
  <2>2. q * T = T * q
    BY <1>1, <1>2
  <2>3. BucketOf(c, T, s) = s.opens + T * q
    BY <2>1, <2>2
  <2>. QED
    BY <2>3 DEF q
<1>. QED
  BY <1>3, <1>4

LEMMA EndsAgree ==
  ASSUME NEW T \in 1 .. Daily, NEW d, NEW s, IsSession(s, d), NEW b \in RefStarts(T, s)
  PROVE  /\ BucketEnd(b, T, s) = RefEnd(b, T, s)
         /\ b \in Nat /\ s.opens <= b /\ b < s.closes /\ DayOf(b) = d
         /\ RefEnd(b, T, s) \in Nat /\ b < RefEnd(b, T, s)
         /\ \A x \in Int : x < RefEnd(b, T, s) <=> x < b + T /\ x < s.closes
<1>1. /\ s.opens \in Nat /\ s.closes \in Nat /\ s.opens < s.closes
      /\ s.closes - s.opens <= Daily /\ T \in Nat /\ T > 0 /\ Daily \in Nat
  BY DayFacts DEF IsSession, Daily
<1>2. b \in Nat /\ s.opens <= b /\ b < s.closes
  BY <1>1 DEF RefStarts
<1>3. DayOf(b) = d
  BY <1>2 DEF IsSession
<1>4. \/ b + T <= s.closes /\ RefEnd(b, T, s) = b + T
      \/ s.closes < b + T /\ RefEnd(b, T, s) = s.closes
  BY <1>1, <1>2 DEF RefEnd, Min
<1>5. BucketEnd(b, T, s) = RefEnd(b, T, s)
  <2>1. CASE T = Daily
    <3>1. BucketEnd(b, T, s) = s.closes
      BY <2>1 DEF BucketEnd
    <3>2. s.closes <= b + T
      BY <1>1, <1>2, <2>1
    <3>. QED
      BY <1>1, <1>2, <1>4, <3>1, <3>2
  <2>2. CASE T # Daily
    BY <2>2 DEF BucketEnd, RefEnd
  <2>. QED
    BY <2>1, <2>2
<1>. QED
  BY <1>1, <1>2, <1>3, <1>4, <1>5

LEMMA BucketIsStart ==
  ASSUME NEW T \in 1 .. Daily, NEW d, NEW s, IsSession(s, d),
         NEW c, c.at \in Nat, s.opens <= c.at, c.at < s.closes, NEW b
  PROVE  BucketOf(c, T, s) = b <=> b \in RefStarts(T, s) /\ b <= c.at /\ c.at < RefEnd(b, T, s)
<1>. DEFINE x == c.at - s.opens
            q == x \div T
            m == T * q
<1>1. /\ x \in Int /\ 0 <= x /\ s.opens \in Nat /\ T \in Nat /\ T > 0 /\ s.closes \in Nat
      /\ c.at = s.opens + x
  BY DEF IsSession
<1>2. q \in Int /\ m \in Int /\ m <= x /\ x < m + T
  BY <1>1, DivBounds
<1>3. BucketOf(c, T, s) = s.opens + m
  BY BucketStarts
<1>4. m >= 0
  <2>1. q >= 0
    <3>1. T * 0 <= 0 /\ 0 < T * 0 + T
      BY <1>1
    <3>2. 0 \div T = 0
      BY <1>1, <3>1, DivIsUnique
    <3>3. 0 \div T <= q
      BY <1>1, DivMonotone
    <3>. QED
      BY <3>2, <3>3
  <2>. HIDE DEF q
  <2>. QED
    BY <1>1, <1>2, <2>1
<1>5. m % T = 0
  <2>. HIDE DEF q
  <2>. QED
    BY <1>1, <1>2, ModIsMultiple
<1>6. ASSUME BucketOf(c, T, s) = b
      PROVE  b \in RefStarts(T, s) /\ b <= c.at /\ c.at < RefEnd(b, T, s)
  <2>. HIDE DEF m, x
  <2>1. b = s.opens + m /\ b - s.opens = m /\ b <= c.at /\ c.at < b + T
    BY <1>1, <1>2, <1>3, <1>6
  <2>2. b \in RefStarts(T, s)
    BY <1>1, <1>2, <1>4, <1>5, <2>1 DEF RefStarts
  <2>. QED
    BY <2>1, <2>2, EndsAgree
<1>7. ASSUME b \in RefStarts(T, s), b <= c.at, c.at < RefEnd(b, T, s)
      PROVE  BucketOf(c, T, s) = b
  <2>1. b \in Nat /\ c.at < b + T /\ (b - s.opens) % T = 0
    BY <1>7, EndsAgree DEF RefStarts
  <2>2. PICK k \in Int : b - s.opens = T * k
    <3>1. b - s.opens \in Int
      BY <1>1, <2>1
    <3>. HIDE DEF q, m, x
    <3>. QED
      BY <1>1, <2>1, <3>1, ModIsMultiple
  <2>3. T * k <= x /\ x < T * k + T
    BY <1>1, <1>7, <2>1, <2>2
  <2>4. q = k
    BY <1>1, <2>3, DivIsUnique
  <2>. HIDE DEF q, x
  <2>5. m = b - s.opens
    BY <2>2, <2>4
  <2>. HIDE DEF m
  <2>. QED
    BY <1>1, <1>3, <2>1, <2>5
<1>. QED
  BY <1>6, <1>7

(* Slots are a candle apart. *)
LEMMA NextSlot ==
  ASSUME NEW base \in Nat, base > 0, NEW b \in Int, NEW x \in Int, NEW y \in Int, x < y,
         (x - b) % base = 0, (y - b) % base = 0
  PROVE  x + base <= y
<1>0. x - b \in Int /\ y - b \in Int
  OBVIOUS
<1>1. PICK k \in Int : x - b = base * k
  BY <1>0, ModIsMultiple
<1>2. PICK l \in Int : y - b = base * l
  <2>1. \E l \in Int : y - b = base * l
    BY <1>0, ModIsMultiple
  <2>. QED
    BY <2>1
<1>3. k < l
  <2>1. ASSUME l <= k PROVE FALSE
    <3>1. base * l <= base * k
      BY <2>1
    <3>. QED
      BY <1>1, <1>2, <3>1
  <2>. QED
    BY <2>1
<1>4. base * (k + 1) <= base * l /\ base * (k + 1) = base * k + base
  BY <1>3
<1>. QED
  BY <1>1, <1>2, <1>4

(* What a reader sees who asks at t for candles of tf in buckets of T. *)
Seen(t, tf) == StoredCandles(t, 0, Horizon, tf)
Known(t) == KnownCalendar(t, 0, Horizon)
Available(t, tf) == {c \in Seen(t, tf) : c.closed /\ AvailableAt(c, Known(t)) <= t}

Asked(t, tf, T) ==
  /\ Types /\ CandleInv /\ ImportsAreAudited
  /\ t \in AsOf /\ tf \in 1 .. Daily /\ tf # Daily
  /\ T \in 1 .. Daily /\ T > tf /\ T % tf = 0
  /\ OnGrid(t, tf)

LEMMA AskedFacts ==
  ASSUME NEW t, NEW tf, NEW T, Asked(t, tf, T)
  PROVE  /\ t \in Nat /\ t < Horizon /\ Horizon \in Nat
         /\ tf \in Nat /\ tf > 0 /\ tf # Daily /\ T \in 1 .. Daily /\ T > tf /\ T % tf = 0
         /\ Seen(t, tf) \in SUBSET CandleRows /\ UniqueCandles(Seen(t, tf))
         /\ Known(t) \in SUBSET Sessions
         /\ Grid(Seen(t, tf), Known(t), tf)
         /\ Available(t, tf) \in SUBSET Seen(t, tf)
         /\ \A c \in Seen(t, tf) : c \in Available(t, tf) <=> c.at + tf <= t
<1>1. t \in Nat /\ t < Horizon /\ Horizon \in Nat
  BY HorizonIsLater DEF Asked
<1>2. tf \in Nat /\ tf > 0 /\ tf # Daily /\ T \in 1 .. Daily /\ T > tf /\ T % tf = 0
  BY DEF Asked
<1>3. IsSeries(Seen(t, tf), tf)
  BY StoredIsSeries DEF Asked, Seen
<1>4. Known(t) \in SUBSET Sessions
  BY KnownIsCalendar DEF Asked, Known
<1>5. Grid(Seen(t, tf), Known(t), tf)
  BY OnGridIsGrid DEF Asked, Seen, Known
<1>6. \A c \in Seen(t, tf) : c \in Available(t, tf) <=> c.at + tf <= t
  BY <1>2, <1>3 DEF Available, IsSeries, AvailableAt
<1>. QED
  BY <1>1, <1>2, <1>3, <1>4, <1>5, <1>6 DEF IsSeries, Available

(* A bucket of a session: where it begins and ends, and what it is asked for.*)
AskedFor(t, tf, T, d, s, b, e) ==
  /\ Asked(t, tf, T)
  /\ d \in Nat /\ s = SessionOn(Known(t), d) /\ s.trading
  /\ b \in RefStarts(T, s) /\ e = RefEnd(b, T, s) /\ e <= t

LEMMA AskedForFacts ==
  ASSUME NEW t, NEW tf, NEW T, NEW d, NEW s, NEW b, NEW e, AskedFor(t, tf, T, d, s, b, e)
  PROVE  /\ IsSession(s, d)
         /\ b \in Nat /\ e \in Nat /\ b < e /\ s.opens <= b /\ e <= s.closes /\ DayOf(b) = d
         /\ EndOf(b, T, Known(t)) = e
<1>1. T \in 1 .. Daily /\ Known(t) \in SUBSET Sessions /\ d \in Nat
  BY AskedFacts DEF AskedFor
<1>2. IsSession(s, d)
  BY <1>1, SessionOfDay DEF AskedFor
<1>3. /\ b \in Nat /\ e \in Nat /\ b < e /\ s.opens <= b /\ DayOf(b) = d /\ BucketEnd(b, T, s) = e
      /\ \A x \in Int : x < e <=> x < b + T /\ x < s.closes
  BY <1>1, <1>2, EndsAgree DEF AskedFor
<1>4. e <= s.closes
  <2>1. e - 1 < e /\ e - 1 \in Int /\ s.closes \in Nat
    BY <1>2, <1>3 DEF IsSession
  <2>. QED
    BY <1>3, <2>1
<1>5. EndOf(b, T, Known(t)) = e
  BY <1>3 DEF EndOf, AskedFor
<1>. QED
  BY <1>2, <1>3, <1>4, <1>5

(* A candle of a slot of a bucket is seen, and held by that bucket.          *)
LEMMA SlotIsHeld ==
  ASSUME NEW t, NEW tf, NEW T, NEW d, NEW s, NEW b, NEW e, AskedFor(t, tf, T, d, s, b, e),
         NEW c \in RefMembers(b, e, tf)
  PROVE  /\ c \in MembersOf(b, Available(t, tf), T, Known(t))
         /\ (e - b) % tf = 0
<1>1. /\ IsSession(s, d)
      /\ b \in Nat /\ e \in Nat /\ b < e /\ s.opens <= b /\ e <= s.closes /\ DayOf(b) = d
      /\ EndOf(b, T, Known(t)) = e
  BY AskedForFacts
<1>2. /\ t \in Nat /\ t < Horizon /\ Horizon \in Nat
      /\ tf \in Nat /\ tf > 0 /\ tf # Daily /\ T \in 1 .. Daily /\ T % tf = 0
      /\ Grid(Seen(t, tf), Known(t), tf)
      /\ \A x \in Seen(t, tf) : x \in Available(t, tf) <=> x.at + tf <= t
  BY AskedFacts DEF AskedFor
<1>3. c \in candles /\ c.tf = tf /\ c.closed /\ c.at \in Nat /\ b <= c.at /\ c.at < e
      /\ (c.at - b) % tf = 0
  BY <1>1 DEF RefMembers, SlotsOf, AtSlot
<1>4. e <= t
  BY DEF AskedFor
<1>5. c \in Seen(t, tf)
  BY <1>1, <1>2, <1>3, <1>4 DEF Seen, StoredCandles
<1>6. s.opens \in Nat /\ s.closes \in Nat /\ s.opens <= c.at /\ c.at < s.closes
  BY <1>1, <1>3 DEF IsSession
<1>7. DayOf(c.at) = d /\ SessionOn(Known(t), DayOf(c.at)) = s /\ s.trading
  BY <1>1, <1>3, <1>6 DEF IsSession, AskedFor
<1>8. BucketOf(c, T, s) = b
  BY <1>1, <1>2, <1>3, <1>6, BucketIsStart DEF AskedFor
<1>9. (c.at - s.opens) % tf = 0 /\ (s.closes - s.opens) % tf = 0
  BY <1>2, <1>5, <1>6, <1>7 DEF Grid, IsSlot
<1>10. (e - b) % tf = 0
  <2>1. Holds(BucketOf(c, T, s), BucketEnd(BucketOf(c, T, s), T, s), s, c, tf)
    BY <1>1, <1>2, <1>3, <1>6, <1>9, BucketHolds
  <2>2. BucketEnd(b, T, s) = e
    BY <1>1, <1>2, EndsAgree DEF AskedFor
  <2>. QED
    BY <1>8, <2>1, <2>2 DEF Holds
<1>11. c.at + tf <= e
  <2>1. b \in Int /\ c.at \in Int /\ e \in Int /\ c.at < e
    BY <1>1, <1>3
  <2>. QED
    BY <1>2, <1>3, <1>10, <2>1, NextSlot
<1>12. c \in Available(t, tf)
  BY <1>1, <1>2, <1>3, <1>4, <1>5, <1>11
<1>13. c \in InSession(Available(t, tf), Known(t)) /\ BucketIn(c, T, Known(t)) = b
  BY <1>6, <1>7, <1>8, <1>12 DEF InSession, BucketIn
<1>. QED
  BY <1>10, <1>13 DEF MembersOf

(* The members of a bucket are the candles of its slots, and it is whole     *)
(* when each slot has one.                                                   *)
LEMMA WholeIsFilled ==
  ASSUME NEW t, NEW tf, NEW T, NEW d, NEW s, NEW b, NEW e, AskedFor(t, tf, T, d, s, b, e)
  PROVE  /\ MembersOf(b, Available(t, tf), T, Known(t)) = RefMembers(b, e, tf)
         /\ (/\ RefMembers(b, e, tf) # {}
             /\ Whole(RefMembers(b, e, tf), b, e, tf, t)) <=>
              \A x \in SlotsOf(b, e, tf) : AtSlot(x, tf) # {}
<1>. DEFINE M == RefMembers(b, e, tf)
<1>1. /\ IsSession(s, d)
      /\ b \in Nat /\ e \in Nat /\ b < e /\ DayOf(b) = d
      /\ EndOf(b, T, Known(t)) = e
  BY AskedForFacts
<1>2. /\ t \in Nat /\ tf \in Nat /\ tf > 0 /\ tf # Daily /\ T \in 1 .. Daily /\ T % tf = 0
      /\ Seen(t, tf) \in SUBSET CandleRows /\ UniqueCandles(Seen(t, tf))
      /\ Known(t) \in SUBSET Sessions
      /\ Grid(Seen(t, tf), Known(t), tf)
      /\ Available(t, tf) \in SUBSET Seen(t, tf)
  BY AskedFacts DEF AskedFor
<1>3. ASSUME NEW c \in MembersOf(b, Available(t, tf), T, Known(t)) PROVE c \in M
  <2>1. /\ Holds(b, e, SessionOn(Known(t), DayOf(c.at)), c, tf)
        /\ c \in Available(t, tf) /\ c.at \in Nat
    BY <1>1, <1>2, MemberIsHeld
  <2>2. c \in candles /\ c.tf = tf /\ c.closed
    BY <1>2, <2>1 DEF Seen, StoredCandles
  <2>3. c.at \in SlotsOf(b, e, tf)
    BY <1>1, <2>1 DEF Holds, SlotsOf
  <2>. QED
    BY <2>2, <2>3 DEF RefMembers, AtSlot
<1>4. MembersOf(b, Available(t, tf), T, Known(t)) = M
  BY <1>3, SlotIsHeld
<1>5. \A c \in M : c.at \in SlotsOf(b, e, tf) /\ c \in AtSlot(c.at, tf) /\ c \in Seen(t, tf)
  <2>1. \A c \in M : c.at \in SlotsOf(b, e, tf) /\ c \in AtSlot(c.at, tf)
    BY DEF RefMembers, AtSlot
  <2>2. \A c \in M : c \in Seen(t, tf)
    BY <1>2, <1>4 DEF MembersOf, InSession
  <2>. QED
    BY <2>1, <2>2
<1>6. \A x \in SlotsOf(b, e, tf) : AtSlot(x, tf) # {} <=> \E c \in M : c.at = x
  <2>1. ASSUME NEW x \in SlotsOf(b, e, tf), AtSlot(x, tf) # {} PROVE \E c \in M : c.at = x
    BY <2>1 DEF RefMembers, AtSlot
  <2>. QED
    BY <1>5, <2>1
<1>7. \A c, f \in M : c.at = f.at => c = f
  BY <1>5 DEF AtSlot, IsSeries, UniqueCandles, SameCandle, AskedFor, Asked, CandleInv
<1>8. \A c \in M : c.at \in Nat /\ b <= c.at /\ c.at < e /\ (c.at - b) % tf = 0
  BY <1>1, <1>5 DEF SlotsOf
<1>9. M # {} => (e - b) % tf = 0
  BY SlotIsHeld
<1>10. M # {} =>
         (Cardinality(M) = (e - b) \div tf <=> \A x \in SlotsOf(b, e, tf) : AtSlot(x, tf) # {})
  <2>. SUFFICES ASSUME M # {}
                PROVE  Cardinality(M) = (e - b) \div tf <=>
                         \A x \in SlotsOf(b, e, tf) : AtSlot(x, tf) # {}
    OBVIOUS
  <2>1. (e - b) % tf = 0
    BY <1>9
  <2>. HIDE DEF M
  <2>2. Cardinality(M) = (e - b) \div tf <=>
          \A x \in b .. e - 1 : (x - b) % tf = 0 => \E c \in M : c.at = x
    BY <1>1, <1>2, <1>7, <1>8, <2>1, RoomInBucket
  <2>3. (\A x \in b .. e - 1 : (x - b) % tf = 0 => \E c \in M : c.at = x) <=>
          \A x \in SlotsOf(b, e, tf) : \E c \in M : c.at = x
    BY DEF SlotsOf
  <2>. QED
    BY <1>6, <2>2, <2>3
<1>11. ASSUME \A x \in SlotsOf(b, e, tf) : AtSlot(x, tf) # {} PROVE M # {}
  <2>1. b \in SlotsOf(b, e, tf)
    <3>1. b - b = 0 /\ 0 % tf = 0
      BY <1>1, <1>2
    <3>. QED
      BY <1>1, <3>1 DEF SlotsOf
  <2>. QED
    BY <1>6, <1>11, <2>1
<1>12. ASSUME \A x \in SlotsOf(b, e, tf) : AtSlot(x, tf) # {} PROVE IsContiguous(M, tf)
  <2>. SUFFICES ASSUME NEW c \in M, NEW f \in M, c.at < f.at,
                       \A g \in M : ~(c.at < g.at /\ g.at < f.at)
                PROVE  f.at = c.at + tf
    BY DEF IsContiguous
  <2>. HIDE DEF M
  <2>1. c.at \in Nat /\ f.at \in Nat /\ c.at + tf <= f.at
    BY <1>1, <1>2, <1>8, NextSlot
  <2>2. (c.at + tf - b) % tf = 0
    <3>. DEFINE y == c.at - b
    <3>1. y \in Int /\ y % tf = 0 /\ tf % tf = 0 /\ c.at + tf - b = y + tf
      BY <1>1, <1>2, <1>8
    <3>. HIDE DEF y
    <3>2. (y + tf) % tf = 0
      BY <1>2, <3>1, ModDiff
    <3>. QED
      BY <3>1, <3>2
  <2>3. c.at + tf \in SlotsOf(b, e, tf)
    BY <1>1, <1>2, <1>8, <2>1, <2>2 DEF SlotsOf
  <2>4. PICK g \in M : g.at = c.at + tf
    BY <1>6, <1>12, <2>3
  <2>. QED
    BY <1>2, <2>1, <2>4
<1>13. e <= t
  BY DEF AskedFor
<1>. HIDE DEF M
<1>14. (M # {} /\ Whole(M, b, e, tf, t)) <=> \A x \in SlotsOf(b, e, tf) : AtSlot(x, tf) # {}
  BY <1>10, <1>11, <1>12, <1>13 DEF Whole
<1>. QED
  BY <1>4, <1>14 DEF M

LEMMA WholeInSession ==
  ASSUME NEW t, NEW tf, NEW T, Asked(t, tf, T),
         NEW b \in WholeBuckets(Available(t, tf), tf, T, t, Known(t))
  PROVE  \E d \in 0 .. DayOf(Horizon) :
           LET s == SessionOn(Known(t), d)
           IN /\ s.trading /\ b \in RefBuckets(t, tf, T, s)
              /\ MembersOf(b, Available(t, tf), T, Known(t)) = RefMembers(b, RefEnd(b, T, s), tf)
<1>1. PICK c \in InSession(Available(t, tf), Known(t)) : BucketIn(c, T, Known(t)) = b
  BY DEF WholeBuckets
<1>. DEFINE d == DayOf(c.at)
            s == SessionOn(Known(t), d)
            e == RefEnd(b, T, s)
<1>2. /\ t \in Nat /\ t < Horizon /\ Horizon \in Nat /\ T \in 1 .. Daily
      /\ Seen(t, tf) \in SUBSET CandleRows /\ Known(t) \in SUBSET Sessions
      /\ Available(t, tf) \in SUBSET Seen(t, tf)
  BY AskedFacts
<1>3. /\ c \in Seen(t, tf) /\ c.at \in Nat /\ s.trading /\ s.opens <= c.at /\ c.at < s.closes
      /\ BucketOf(c, T, s) = b /\ c.at < Horizon
  BY <1>1, <1>2 DEF InSession, BucketIn, CandleRows, Seen, StoredCandles
<1>4. d \in Nat /\ d \in 0 .. DayOf(Horizon)
  BY <1>2, <1>3, DayFacts
<1>5. IsSession(s, d)
  BY <1>2, <1>4, SessionOfDay
<1>6. b \in RefStarts(T, s)
  BY <1>2, <1>3, <1>5, BucketIsStart
<1>7. EndOf(b, T, Known(t)) = e
  <2>1. DayOf(b) = d /\ BucketEnd(b, T, s) = e
    BY <1>2, <1>5, <1>6, EndsAgree
  <2>. QED
    BY <2>1 DEF EndOf
<1>. DEFINE M == MembersOf(b, Available(t, tf), T, Known(t))
<1>8. c \in M /\ Whole(M, b, e, tf, t)
  BY <1>1, <1>7 DEF WholeBuckets, MembersOf
<1>. HIDE DEF d, s, e, M
<1>9. AskedFor(t, tf, T, d, s, b, e)
  <2>1. e <= t
    BY <1>8 DEF Whole
  <2>. QED
    BY <1>3, <1>4, <1>6, <2>1 DEF AskedFor, s, e
<1>10. M = RefMembers(b, e, tf) /\ \A x \in SlotsOf(b, e, tf) : AtSlot(x, tf) # {}
  BY <1>8, <1>9, WholeIsFilled DEF M
<1>11. b \in RefBuckets(t, tf, T, s)
  BY <1>9, <1>10 DEF RefBuckets, AskedFor
<1>. QED
  BY <1>3, <1>4, <1>10, <1>11 DEF M, s, e

LEMMA FilledIsWhole ==
  ASSUME NEW t, NEW tf, NEW T, Asked(t, tf, T), NEW d \in Nat,
         NEW s, s = SessionOn(Known(t), d), s.trading, NEW b \in RefBuckets(t, tf, T, s)
  PROVE  /\ b \in WholeBuckets(Available(t, tf), tf, T, t, Known(t))
         /\ MembersOf(b, Available(t, tf), T, Known(t)) = RefMembers(b, RefEnd(b, T, s), tf)
<1>. DEFINE e == RefEnd(b, T, s)
            M == MembersOf(b, Available(t, tf), T, Known(t))
<1>1. AskedFor(t, tf, T, d, s, b, e) /\ \A x \in SlotsOf(b, e, tf) : AtSlot(x, tf) # {}
  BY DEF AskedFor, RefBuckets
<1>. HIDE DEF e, M
<1>2. M = RefMembers(b, e, tf) /\ M # {} /\ Whole(M, b, e, tf, t)
  BY <1>1, WholeIsFilled DEF M
<1>3. EndOf(b, T, Known(t)) = e
  BY <1>1, AskedForFacts
<1>4. b \in {BucketIn(c, T, Known(t)) : c \in InSession(Available(t, tf), Known(t))}
  BY <1>2 DEF M, MembersOf
<1>5. b \in WholeBuckets(Available(t, tf), tf, T, t, Known(t))
  BY <1>2, <1>3, <1>4 DEF WholeBuckets, M
<1>. QED
  BY <1>2, <1>5 DEF M, e

LEMMA AnswerIsWholeBuckets ==
  ASSUME NEW t, NEW tf, NEW T, Asked(t, tf, T)
  PROVE  Whenever(t, tf, T).items =
           {Combine(MembersOf(b, Available(t, tf), T, Known(t)), b, T) :
              b \in WholeBuckets(Available(t, tf), tf, T, t, Known(t))}
<1>1. T # Weekly
  <2>1. T \in 1 .. Daily /\ Weekly = 7 * Daily /\ Daily \in Nat
    BY DayFacts DEF Asked, Weekly, Daily
  <2>. QED
    BY <2>1
<1>2. T > tf /\ T % tf = 0 /\ T \in Nat /\ tf \in Nat
  BY AskedFacts
<1>3. Whenever(t, tf, T) = AggregateClosedCandles(Seen(t, tf), tf, T, t, Known(t))
  BY <1>2 DEF Whenever, ListCandles, Seen, Known
<1>4. CASE Seen(t, tf) = {}
  <2>1. Whenever(t, tf, T).items = {}
    BY <1>3, <1>4 DEF AggregateClosedCandles, Answer
  <2>2. WholeBuckets(Available(t, tf), tf, T, t, Known(t)) = {}
    BY <1>4 DEF WholeBuckets, InSession, Available
  <2>. QED
    BY <2>1, <2>2
<1>5. CASE Seen(t, tf) # {}
  <2>1. Whenever(t, tf, T) = Intraday(Available(t, tf), tf, T, t, Known(t))
    BY <1>1, <1>2, <1>3, <1>5 DEF AggregateClosedCandles, Available
  <2>. QED
    BY <2>1, IntradayParts DEF Answer
<1>. QED
  BY <1>4, <1>5

(* "An aggregated candle appears only after its complete source bucket       *)
(* closes", with the session that was published, and then it does appear:    *)
(* what a reader is answered is exactly the buckets of which every slot has  *)
(* a closed candle, for any sessions and timeframes, on the grid.            *)
THEOREM AggregatesAreAlwaysWholeBuckets == Spec => []AggregatesAreWholeBuckets
<1>1. ASSUME Types, CandleInv, ImportsAreAudited PROVE AggregatesAreWholeBuckets
  <2>. SUFFICES ASSUME NEW t \in AsOf, NEW tf \in Sources \ {Daily}, NEW T \in Targets \ {Weekly},
                       T > tf, T % tf = 0, OnGrid(t, tf)
                PROVE  Whenever(t, tf, T).items =
                         UNION {BucketReference(t, tf, T, s) :
                                  s \in {s \in {SessionOn(Known(t), d) : d \in 0 .. DayOf(Horizon)} :
                                           s.trading}}
    BY DEF AggregatesAreWholeBuckets, Known
  <2>1. Asked(t, tf, T)
    <3>1. tf \in 1 .. Daily
      BY <1>1, SourceIsShort
    <3>2. T \in 1 .. Daily
      BY MarketDataAssumption
    <3>. QED
      BY <1>1, <3>1, <3>2 DEF Asked
  <2>2. DayOf(Horizon) \in Nat
    BY HorizonIsLater, DayFacts
  <2>. DEFINE A == Available(t, tf)
              Bucket(b) == Combine(MembersOf(b, A, T, Known(t)), b, T)
              W == WholeBuckets(A, tf, T, t, Known(t))
  <2>3. Whenever(t, tf, T).items = {Bucket(b) : b \in W}
    BY <2>1, AnswerIsWholeBuckets
  <2>4. ASSUME NEW b \in W
        PROVE  \E d \in 0 .. DayOf(Horizon) :
                 /\ SessionOn(Known(t), d).trading
                 /\ Bucket(b) \in BucketReference(t, tf, T, SessionOn(Known(t), d))
    <3>1. PICK d \in 0 .. DayOf(Horizon) :
            LET s == SessionOn(Known(t), d)
            IN /\ s.trading /\ b \in RefBuckets(t, tf, T, s)
               /\ MembersOf(b, A, T, Known(t)) = RefMembers(b, RefEnd(b, T, s), tf)
      BY <2>1, WholeInSession
    <3>. QED
      BY <3>1, ReferenceParts
  <2>5. ASSUME NEW d \in 0 .. DayOf(Horizon), NEW s, s = SessionOn(Known(t), d), s.trading,
               NEW x \in BucketReference(t, tf, T, s)
        PROVE  \E b \in W : x = Bucket(b)
    <3>1. PICK b \in RefBuckets(t, tf, T, s) : x = Combine(RefMembers(b, RefEnd(b, T, s), tf), b, T)
      BY <2>5, ReferenceParts
    <3>2. d \in Nat
      BY <2>2
    <3>3. b \in W /\ MembersOf(b, A, T, Known(t)) = RefMembers(b, RefEnd(b, T, s), tf)
      BY <2>1, <2>5, <3>2, FilledIsWhole
    <3>. QED
      BY <3>1, <3>3
  <2>. HIDE DEF Bucket, W
  <2>. QED
    BY <2>3, <2>4, <2>5
<1>. QED
  BY <1>1, TypesHold, CandlesAreUnique, ImportsAreAlwaysAudited, PTL
=============================================================================
