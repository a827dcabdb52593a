----------------------------- MODULE Aggregation -----------------------------
(***************************************************************************)
(* packages/market_data/aggregation.py: point-in-time aggregation of closed *)
(* candles into buckets that are aligned to trading sessions.               *)
(*                                                                         *)
(* Time is counted in units; a day has DayLength of them, and the regular   *)
(* session is the same interval of every day.  Day 0 is a Monday.  A candle *)
(* is [at, tf, value, closed] with the value [open, high, low, close,       *)
(* volume, oi]; a session is [day, opens, closes, trading, ...].            *)
(***************************************************************************)
EXTENDS Integers, FiniteSets, FiniteSetsExt

CONSTANTS DayLength, RegularOpen, RegularClose

ASSUME SessionAssumption ==
  /\ DayLength \in Nat /\ RegularOpen \in Nat /\ RegularClose \in Nat
  /\ RegularOpen < RegularClose /\ RegularClose <= DayLength

Daily == DayLength
Weekly == 7 * DayLength

DayOf(t) == t \div DayLength
WeekOf(t) == DayOf(t) \div 7

RegularSession(d) ==
  [day |-> d, opens |-> d * DayLength + RegularOpen,
   closes |-> d * DayLength + RegularClose, trading |-> TRUE]

SessionOn(calendar, d) ==
  IF \E s \in calendar : s.day = d THEN CHOOSE s \in calendar : s.day = d
  ELSE RegularSession(d)

(* When a closed candle is known: a daily one at the close of its session. *)
AvailableAt(candle, calendar) ==
  IF candle.tf = Daily THEN SessionOn(calendar, DayOf(candle.at)).closes
  ELSE candle.at + candle.tf

(* What a request gets: candles, or a refusal (ValueError). *)
Answer(items) == [refused |-> FALSE, items |-> items]
Refusal == [refused |-> TRUE, items |-> {}]

Combine(members, at, tf) ==
  LET first == CHOOSE c \in members : \A d \in members : c.at <= d.at
      last == CHOOSE c \in members : \A d \in members : d.at <= c.at
      Volume(c) == c.value.volume
  IN [at |-> at, tf |-> tf, closed |-> TRUE,
      value |-> [open |-> first.value.open, close |-> last.value.close,
                 high |-> Max({c.value.high : c \in members}),
                 low |-> Min({c.value.low : c \in members}),
                 volume |-> MapThenSumSet(Volume, members), oi |-> last.value.oi]]

(* Every candle ends where the next one begins. *)
IsContiguous(candles, base) ==
  \A c, d \in candles :
    c.at < d.at /\ (\A e \in candles : ~(c.at < e.at /\ e.at < d.at)) => d.at = c.at + base

-----------------------------------------------------------------------------
BucketOf(candle, target, session) ==
  IF target = Daily THEN session.opens
  ELSE session.opens + ((candle.at - session.opens) \div target) * target

(* A slip the runs must notice: the last bucket does not end at the close. *)
BucketEndLate(bucket, target, session) ==
  IF target = Daily THEN session.closes ELSE bucket + target

BucketEnd(bucket, target, session) ==
  IF target = Daily THEN session.closes
  ELSE Min({bucket + target, session.closes})

(* A slip the runs must notice: a bucket is given out as soon as it has      *)
(* members.                                                                 *)
WholeWhenStarted(members, bucket, end, base, asOf) == members # {}

Whole(members, bucket, end, base, asOf) ==
  /\ end <= asOf
  /\ Cardinality(members) = (end - bucket) \div base
  /\ IsContiguous(members, base)

Intraday(available, base, target, asOf, calendar) ==
  LET Session(t) == SessionOn(calendar, DayOf(t))
      inSession == {c \in available : /\ Session(c.at).trading
                                      /\ Session(c.at).opens <= c.at
                                      /\ c.at < Session(c.at).closes}
      Bucket(c) == BucketOf(c, target, Session(c.at))
      Members(b) == {c \in inSession : Bucket(c) = b}
      whole == {b \in {Bucket(c) : c \in inSession} :
                  Whole(Members(b), b, BucketEnd(b, target, Session(b)), base, asOf)}
  IN Answer({Combine(Members(b), b, target) : b \in whole})

-----------------------------------------------------------------------------
Weekdays(week) == 7 * week .. 7 * week + 4

(* A week is complete with a daily candle at the open of each trading day. *)
CompleteWeek(members, trading) ==
  /\ Cardinality(members) = Cardinality({DayOf(c.at) : c \in members})
  /\ {DayOf(c.at) : c \in members} = {s.day : s \in trading}
  /\ \A c \in members, s \in trading : s.day = DayOf(c.at) => c.at = s.opens

(* The calendar must name all weekdays of every week that has a candle. *)
AggregateWeekly(available, base, asOf, calendar) ==
  LET Members(w) == {c \in available : WeekOf(c.at) = w}
      Trading(w) == {s \in calendar : s.trading /\ s.day \div 7 = w}
      weeks == {WeekOf(c.at) : c \in available}
      complete == {w \in weeks : /\ CompleteWeek(Members(w), Trading(w))
                                 /\ \A s \in Trading(w) : s.closes <= asOf}
      Start(w) == Min({c.at : c \in Members(w)})
  IN IF \/ available = {} \/ base # Daily
        \/ \E w \in weeks : ~(Weekdays(w) \subseteq {s.day : s \in calendar})
     THEN Refusal
     ELSE Answer({Combine(Members(w), Start(w), Weekly) : w \in complete})

(* aggregate_closed_candles, for candles of one instrument and timeframe. *)
AggregateClosedCandles(candles, base, target, asOf, calendar) ==
  LET available == {c \in candles : c.closed /\ AvailableAt(c, calendar) <= asOf}
  IN IF candles = {} THEN Answer({})
     ELSE IF target <= base \/ target % base # 0 THEN Refusal
     ELSE IF target = Weekly THEN AggregateWeekly(available, base, asOf, calendar)
     ELSE Intraday(available, base, target, asOf, calendar)
=============================================================================
