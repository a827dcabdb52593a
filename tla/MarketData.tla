------------------------------ MODULE MarketData ------------------------------
(***************************************************************************)
(* Historical market data of one instrument: batches of raw candles and     *)
(* trading sessions imported by concurrent operators, and what a reader is   *)
(* answered as of a point in time (apps/api/market_data.py,                  *)
(* packages/market_data).                                                    *)
(*                                                                         *)
(* An import reads what is stored, decides in memory, and inserts with ON    *)
(* CONFLICT DO NOTHING.  Such an INSERT waits for a transaction that holds   *)
(* the same key, so that overlapping inserts take effect in the order of     *)
(* their commits: Store is the inserts and the commit in one step.           *)
(***************************************************************************)
EXTENDS Aggregation, Sequences

CONSTANTS
  Workers,
  Batches,   \* sequences of raw candles [source, id, at, tf, value]
  Imports,   \* sets of sessions [day, opens, closes, trading, source, published]
  Instants,  \* the moments at which something happens
  AsOf,      \* the moments readers ask about
  Cuts,      \* the moments at which a range readers ask for begins or ends
  Targets,   \* timeframes readers ask for, the source timeframes among them
  Drift      \* how far ahead of the clock a candle may begin

(* What an operator may send: a source and ids are names, a bar lasts a day   *)
(* at most (market_data.py:38) and is whatever the feed says, well formed or *)
(* not.                                                                      *)
RawCandles ==
  [source : STRING, id : STRING, at : Nat, tf : 1 .. Daily,
   value : [open : Int, high : Int, low : Int, close : Int, volume : Int, oi : Int]]

(* A session closes after it opens (domain/models.py:201-205), on its day     *)
(* (market_data.py:129-141).                                                 *)
Sessions ==
  {s \in [day : Nat, opens : Nat, closes : Nat, trading : BOOLEAN, source : STRING,
          published : Nat] :
     s.opens < s.closes /\ DayOf(s.opens) = s.day /\ DayOf(s.closes) = s.day}

ASSUME MarketDataAssumption ==
  /\ Instants \subseteq Nat /\ AsOf \subseteq Nat /\ Cuts \subseteq Nat /\ Drift \in Nat
  /\ \E last \in AsOf : \A t \in AsOf : t <= last
  /\ Targets \subseteq (1 .. Daily) \cup {Weekly}
  /\ \A b \in Batches : b \in Seq(RawCandles)
  /\ \A i \in Imports : /\ \A s \in i : s \in Sessions
                       /\ IsFiniteSet(i)
                       /\ \A s, t \in i : s.day = t.day => s = t
  /\ \A b \in Batches : \A i, j \in DOMAIN b : b[i].source = b[j].source

VARIABLES
  overlap,   \* whether imports may overlap
  now,
  raws,      \* raw candle rows
  candles,   \* normalized candle rows
  quality,   \* quality events [id, code]
  calendar,  \* exchange sessions
  audited,   \* sessions counted by the audit events of imports
  txn        \* the import of each operator

vars == <<overlap, now, raws, candles, quality, calendar, audited, txn>>

Closed == [at |-> "closed"]

Init ==
  /\ overlap \in BOOLEAN
  /\ now \in Instants /\ \A t \in Instants : now <= t
  /\ raws = {} /\ candles = {} /\ quality = {} /\ calendar = {}
  /\ audited = 0
  /\ txn = [w \in Workers |-> Closed]

Begin(w, t) ==
  /\ txn[w] = Closed
  /\ overlap \/ \A v \in Workers : txn[v] = Closed
  /\ txn' = [txn EXCEPT ![w] = t]

End(w) == txn' = [txn EXCEPT ![w] = Closed]

Wait ==
  /\ now' \in {t \in Instants : t > now}
  /\ UNCHANGED <<overlap, raws, candles, quality, calendar, audited, txn>>

-----------------------------------------------------------------------------
(* Validation of a batch: what each record is reported for. *)

SameCandle(c, d) == c.at = d.at /\ c.tf = d.tf

WellFormed(v) ==
  /\ v.open > 0 /\ v.high > 0 /\ v.low > 0 /\ v.close > 0
  /\ v.volume >= 0 /\ v.oi >= 0
  /\ v.high >= Max({v.open, v.close}) /\ v.low <= Min({v.open, v.close})

Earlier(b, i) == {j \in 1 .. i - 1 : b[j].tf = b[i].tf}

IsDuplicate(b, i) == \E j \in Earlier(b, i) : SameCandle(b[j], b[i])

IsOutOfOrder(b, i) == \E j \in Earlier(b, i) : b[j].at > b[i].at

FollowsGap(b, i) ==
  /\ Earlier(b, i) # {}
  /\ \A j \in Earlier(b, i) : b[j].at + b[j].tf < b[i].at

(* The codes of the quality events of one record; the second is a warning. *)
CodesOf(b, i) ==
  IF IsDuplicate(b, i) THEN {"DUPLICATE"}
  ELSE IF IsOutOfOrder(b, i) THEN {"OUT_OF_ORDER"}
  ELSE (IF FollowsGap(b, i) THEN {"FEED_GAP"} ELSE {}) \cup
       (IF b[i].at > now + Drift THEN {"TIMESTAMP_DRIFT"}
        ELSE IF ~WellFormed(b[i].value) THEN {"INVALID_CANDLE"} ELSE {})

ErrorCodes ==
  {"DUPLICATE", "OUT_OF_ORDER", "TIMESTAMP_DRIFT", "INVALID_CANDLE", "CONFLICTING_CANDLE"}

AcceptedRecords(b) == {i \in DOMAIN b : CodesOf(b, i) \cap ErrorCodes = {}}

ToCandle(raw) ==
  [at |-> raw.at, tf |-> raw.tf, value |-> raw.value, closed |-> raw.at + raw.tf <= now]

(* The event id a conflict is filed under: the last of that identity. *)
SourceId(b, candle) ==
  b[Max({i \in DOMAIN b : SameCandle(b[i], candle)})].id

Event(id, code) == [id |-> id, code |-> code]

ValidationEvents(b) == UNION {{Event(b[i].id, code) : code \in CodesOf(b, i)} : i \in DOMAIN b}

-----------------------------------------------------------------------------
(* POST /operator/market-data/candles. *)

(* A source event id, in the batch or stored, must not change its content. *)
CheckSourceEvents(w, b) ==
  /\ \A i \in DOMAIN b, r \in raws \cup {b[j] : j \in DOMAIN b} :
       r.source = b[i].source /\ r.id = b[i].id => r = b[i]
  /\ Begin(w, [at |-> "checked", batch |-> b])
  /\ UNCHANGED <<overlap, now, raws, candles, quality, calendar, audited>>

(* Slips the runs must notice: a candle that differs is not reported, and   *)
(* one that does not differ is.                                             *)
CompareSilently(w) ==
  /\ txn[w].at = "checked"
  /\ LET b == txn[w].batch
         accepted == {ToCandle(b[i]) : i \in AcceptedRecords(b)}
     IN txn' = [txn EXCEPT ![w] =
          [at |-> "compared", batch |-> b, events |-> ValidationEvents(b),
           fresh |-> {c \in accepted : ~\E d \in candles : SameCandle(c, d)}]]
  /\ UNCHANGED <<overlap, now, raws, candles, quality, calendar, audited>>

CompareAnyway(w) ==
  /\ txn[w].at = "checked"
  /\ LET b == txn[w].batch
         accepted == {ToCandle(b[i]) : i \in AcceptedRecords(b)}
         differing == {c \in accepted : \E d \in candles : SameCandle(c, d)}
     IN txn' = [txn EXCEPT ![w] =
          [at |-> "compared", batch |-> b,
           fresh |-> {c \in accepted : ~\E d \in candles : SameCandle(c, d)},
           events |-> ValidationEvents(b) \cup
                      {Event(SourceId(b, c), "CONFLICTING_CANDLE") : c \in differing}]]
  /\ UNCHANGED <<overlap, now, raws, candles, quality, calendar, audited>>

(* Validation, and the comparison of what it accepted with what is stored. *)
CompareWithStored(w) ==
  /\ txn[w].at = "checked"
  /\ LET b == txn[w].batch
         accepted == {ToCandle(b[i]) : i \in AcceptedRecords(b)}
         differing == {c \in accepted : \E d \in candles : SameCandle(c, d) /\ c # d}
     IN txn' = [txn EXCEPT ![w] =
          [at |-> "compared", batch |-> b,
           fresh |-> {c \in accepted : ~\E d \in candles : SameCandle(c, d)},
           events |-> ValidationEvents(b) \cup
                      {Event(SourceId(b, c), "CONFLICTING_CANDLE") : c \in differing}]]
  /\ UNCHANGED <<overlap, now, raws, candles, quality, calendar, audited>>

(* A slip the runs must notice: a candle that is there is replaced.          *)
StoreReplacing(w) ==
  /\ txn[w].at = "compared"
  /\ LET t == txn[w]
     IN /\ raws' = raws \cup {r \in {t.batch[i] : i \in DOMAIN t.batch} :
                               ~\E s \in raws : s.source = r.source /\ s.id = r.id}
        /\ candles' = {c \in candles : ~\E d \in t.fresh : SameCandle(c, d)} \cup t.fresh
        /\ quality' = quality \cup t.events
  /\ End(w)
  /\ UNCHANGED <<overlap, now, calendar, audited>>

(* Rows whose key is taken are ignored; then the commit. *)
Store(w) ==
  /\ txn[w].at = "compared"
  /\ LET t == txn[w]
     IN /\ raws' = raws \cup {r \in {t.batch[i] : i \in DOMAIN t.batch} :
                               ~\E s \in raws : s.source = r.source /\ s.id = r.id}
        /\ candles' = candles \cup {c \in t.fresh : ~\E d \in candles : SameCandle(c, d)}
        /\ quality' = quality \cup t.events
  /\ End(w)
  /\ UNCHANGED <<overlap, now, calendar, audited>>

-----------------------------------------------------------------------------
(* POST /operator/calendars/nse/sessions. *)

(* Sessions published in the future or changed are refused. *)
BeginImport(w, import) ==
  /\ \A s \in import : s.published <= now
  /\ \A s \in import, r \in calendar : r.day = s.day => r = s
  /\ Begin(w, [at |-> "importing", missing |-> import \ calendar])
  /\ UNCHANGED <<overlap, now, raws, candles, quality, calendar, audited>>

(* A slip the runs must notice: a day that is taken by now is skipped. *)
CommitImportIgnoring(w) ==
  /\ txn[w].at = "importing"
  /\ calendar' = calendar \cup {s \in txn[w].missing : ~\E r \in calendar : r.day = s.day}
  /\ audited' = audited + Cardinality(txn[w].missing)
  /\ End(w)
  /\ UNCHANGED <<overlap, now, raws, candles, quality>>

(* A day that is taken by now fails the whole import. *)
CommitImport(w) ==
  /\ txn[w].at = "importing"
  /\ IF \E s \in txn[w].missing, r \in calendar : r.day = s.day
     THEN UNCHANGED <<calendar, audited>>
     ELSE /\ calendar' = calendar \cup txn[w].missing
          /\ audited' = audited + Cardinality(txn[w].missing)
  /\ End(w)
  /\ UNCHANGED <<overlap, now, raws, candles, quality>>

(* The caller is cancelled, a deadlock is broken, or the process dies. *)
Rollback(w) ==
  /\ txn[w] # Closed
  /\ End(w)
  /\ UNCHANGED <<overlap, now, raws, candles, quality, calendar, audited>>

Next ==
  \/ Wait
  \/ \E w \in Workers :
       \/ \E b \in Batches : CheckSourceEvents(w, b)
       \/ CompareWithStored(w)
       \/ Store(w)
       \/ \E i \in Imports : BeginImport(w, i)
       \/ CommitImport(w)
       \/ Rollback(w)

Spec == Init /\ [][Next]_vars

-----------------------------------------------------------------------------
(* GET /instruments/{id}/candles. *)

KnownCalendar(asOf, from, to) ==
  {s \in calendar : /\ 7 * WeekOf(from) <= s.day /\ s.day <= DayOf(to) + 6
                    /\ s.published <= asOf}

StoredCandles(asOf, from, to, tf) ==
  {c \in candles : /\ c.tf = tf /\ c.closed
                   /\ from <= c.at /\ c.at < to /\ c.at <= asOf}

ListCandles(asOf, from, to, tf, target) ==
  LET stored == StoredCandles(asOf, from, to, tf)
  IN IF target = tf THEN Answer({c \in stored : AvailableAt(c, {}) <= asOf})
     ELSE AggregateClosedCandles(stored, tf, target, asOf, KnownCalendar(asOf, from, to))

-----------------------------------------------------------------------------
(* Readers see what is committed, and any import may still be rolled back:   *)
(* what they are answered in general they are answered when none is open.    *)
Quiet == \A w \in Workers : txn[w] = Closed

Sources == {r.tf : r \in raws}
Horizon == Max(AsOf) + 1
Whenever(asOf, tf, target) == ListCandles(asOf, 0, Horizon, tf, target)

(* The count of a whole bucket is a quotient that is rounded down, and no     *)
(* candle is checked for where it begins (aggregation.py:92-98): answers are  *)
(* what they should be where a session is a whole number of candles and each *)
(* is one of these, or a daily one begins with the session of a trading day, *)
(* at a weekend of one that is on the calendar.                              *)
OnGrid(asOf, tf) ==
  LET known == KnownCalendar(asOf, 0, Horizon)
      Session(c) == SessionOn(known, DayOf(c.at))
      IsDayBar(c, s) ==
        s.trading /\ c.at = s.opens /\ (s \in known \/ s.day \in Weekdays(WeekOf(c.at)))
      IsSlot(c, s) ==
        s.trading /\ s.opens <= c.at /\ c.at < s.closes =>
          (c.at - s.opens) % tf = 0 /\ (s.closes - s.opens) % tf = 0
  IN \A c \in StoredCandles(asOf, 0, Horizon, tf) :
       IF tf = Daily THEN IsDayBar(c, Session(c)) ELSE IsSlot(c, Session(c))

(* "The normalized value is not silently replaced", and evidence counts from *)
(* its publication (docs/api/historical-market-data.md:30-31, 51-53): what   *)
(* was answered about an instant is answered about it ever after, whatever   *)
(* candles are imported, also by overlapping operators, and whatever         *)
(* sessions are that were published later than that instant; unless the      *)
(* answer is refused for want of a calendar, or candles are off the grid.    *)
AnswersAreStable ==
  [][ <<candles, calendar>>' # <<candles, calendar>> =>
        \A t \in AsOf, tf \in Sources, target \in Targets :
          LET before == Whenever(t, tf, target) after == Whenever(t, tf, target)'
          IN \/ \E s \in calendar' \ calendar : s.published <= t
             \/ after.refused
             \/ before.items \subseteq after.items
             \/ target # tf /\ ~OnGrid(t, tf)' ]_vars

(* An instant later, under the same sessions, nothing answered is taken back.*)
LaterAnswersInclude ==
  Quiet => \A tf \in Sources, target \in Targets :
    LET answers == [t \in AsOf |-> Whenever(t, tf, target)]
    IN \A t, u \in AsOf :
         t < u /\ KnownCalendar(t, 0, Horizon) = KnownCalendar(u, 0, Horizon) =>
           \/ answers[u].refused
           \/ answers[t].items \subseteq answers[u].items
           \/ target # tf /\ ~OnGrid(u, tf)

(* A reader who asks for a part of the time is told nothing that a reader    *)
(* who asks for all of it is not: no bucket is made of the candles that      *)
(* happen to be in the range (market_data.py:385-447, aggregation.py:97-98). *)
RangesAgree ==
  Quiet => \A t \in AsOf, tf \in Sources, target \in Targets :
    LET answer == Whenever(t, tf, target)
    IN \/ answer.refused
       \/ \A cut \in Cuts :
            /\ ListCandles(t, 0, cut, tf, target).items \subseteq answer.items
            /\ ListCandles(t, cut, Horizon, tf, target).items \subseteq answer.items
       \/ target # tf /\ ~OnGrid(t, tf)

(* Readers who ask about other instants or other ranges agree with each other. *)
AnswersAgree == LaterAnswersInclude /\ RangesAgree

(* What an aggregated candle must be, slot by slot: every slot of the bucket *)
(* has a closed candle, the bucket has ended, and nothing else is in it.     *)
BucketReference(asOf, tf, target, session) ==
  LET Slots(b, end) == {s \in b .. end - 1 : (s - b) % tf = 0}
      At(s) == {c \in candles : c.tf = tf /\ c.at = s /\ c.closed}
      end(b) == Min({b + target, session.closes})
      starts == {b \in session.opens .. session.closes - 1 : (b - session.opens) % target = 0}
  IN {Combine(UNION {At(s) : s \in Slots(b, end(b))}, b, target) :
        b \in {b \in starts : /\ end(b) <= asOf
                              /\ \A s \in Slots(b, end(b)) : At(s) # {}}}

(* "An aggregated candle appears only after its complete source bucket       *)
(* closes", with the actual session where one was published                  *)
(* (docs/api/historical-market-data.md:34-35, 60-62), and then it does       *)
(* appear: intraday and daily answers are exactly the whole buckets.         *)
AggregatesAreWholeBuckets ==
  Quiet => \A t \in AsOf, tf \in Sources \ {Daily}, target \in Targets \ {Weekly} :
    target > tf /\ target % tf = 0 /\ OnGrid(t, tf) =>
      LET known == KnownCalendar(t, 0, Horizon)
          sessions == {s \in {SessionOn(known, d) : d \in 0 .. DayOf(Horizon)} : s.trading}
      IN Whenever(t, tf, target).items =
           UNION {BucketReference(t, tf, target, s) : s \in sessions}

(* As long as imports do not overlap, every candle is backed by the raw      *)
(* event it was made of (market_data.py:320-354), and every raw event is the *)
(* stored candle or has an error on file for its identity: "when a different *)
(* feed supplies a different value ... the raw event is retained and         *)
(* CONFLICTING_CANDLE appears in quality events", "a malformed OHLC bar ...  *)
(* creates an explicit quality event" (:26-31).  Events are filed by event   *)
(* id without the source (database/models.py:127): sources are taken to      *)
(* share no ids.                                                             *)
CandlesAndRawsAgreeInTurn ==
  LET Made(c, r) == SameCandle(c, r) /\ c.value = r.value
  IN ~overlap =>
       /\ \A c \in candles : \E r \in raws : Made(c, r)
       /\ \A r \in raws :
            \/ \E c \in candles : Made(c, r)
            \/ \E e \in quality, s \in raws :
                 SameCandle(r, s) /\ e.id = s.id /\ e.code \in ErrorCodes

RowsOf(b) == {b[i] : i \in DOMAIN b}

(* A retry reports nothing, as long as imports do not overlap, the candles   *)
(* had closed when they were stored, none was ahead of the clock, and no     *)
(* event is sent in two batches: validation judges a record by those before  *)
(* it in its batch (ingestion.py:26-61, validation.py).                      *)
RetryOfClosedIsIdempotent ==
  [][ /\ ~overlap /\ raws' = raws
      /\ \A b, d \in Batches : RowsOf(b) \cap RowsOf(d) # {} => b = d
      /\ \A c \in candles : c.closed
      /\ \A e \in quality : e.code # "TIMESTAMP_DRIFT"
      => quality' = quality ]_vars

Conflicts(events) == {e \in events : e.code = "CONFLICTING_CANDLE"}

(* "A retry with the same source event IDs is idempotent"                    *)
(* (docs/api/historical-market-data.md:27-28): it is no conflict with itself.*)
RetryIsNoConflict ==
  [][ ~overlap /\ raws' = raws => Conflicts(quality') = Conflicts(quality) ]_vars

(* "A successful import is audited" (:55): racing imports leave one session  *)
(* of a day, and the audit events count those on file, and no other.         *)
ImportsAreAudited ==
  /\ audited = Cardinality(calendar)
  /\ \A s, t \in calendar : s.day = t.day => s = t
=============================================================================
