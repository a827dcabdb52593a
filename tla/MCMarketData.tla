---------------------------- MODULE MCMarketData ----------------------------
(***************************************************************************)
(* Two operators and two sources, days of six units with three in session,  *)
(* intraday buckets of two units (so that the last of a session is short).  *)
(* The batches hold each thing validation looks for; the daily ones are a   *)
(* week, which the calendar covers with a holiday and a shortened session.  *)
(***************************************************************************)
EXTENDS MarketData, TLC

CONSTANTS W1, W2

MCWorkers == {W1, W2}

(* Fields stand in the order in which TLC first reads their names, which is  *)
(* the order it keeps them in: its workers can share these records.          *)
Value(last) == [open |-> 2, high |-> 3, low |-> 1, close |-> last, volume |-> 1, oi |-> 0]

Raw(source, id, at, tf, last) ==
  [source |-> source, id |-> id, at |-> at, tf |-> tf, value |-> Value(last)]

MCBatches ==
  { <<Raw("A", "a1", 2, 1, 2), Raw("A", "a2", 3, 1, 2)>>,
    <<Raw("A", "a1", 4, 1, 3)>>,
    <<Raw("B", "b1", 2, 1, 3), Raw("B", "b2", 2, 1, 2), Raw("B", "b3", 4, 1, 1),
      Raw("B", "b4", 3, 1, 2), Raw("B", "b5", 5, 1, 9)>>,
    <<Raw("A", "d0", 2, 6, 2), Raw("A", "d1", 8, 6, 2), Raw("A", "d3", 20, 6, 2),
      Raw("A", "d4", 26, 6, 2)>> }

Session(day, closes, trading, published) ==
  [source |-> "nse", day |-> day, closes |-> day * 6 + closes, trading |-> trading,
   published |-> published, opens |-> day * 6 + 2]

MCImports ==
  { {Session(0, 5, FALSE, 5)},
    {Session(d, IF d = 0 THEN 4 ELSE 5, d # 2, 1) : d \in 0 .. 4} }

MCInstants == {1, 33}
MCAsOf == {4, 5, 29}
MCCuts == {3}
MCTargets == {1, 2, 6, 42}

WorkerSymmetry == Permutations(MCWorkers)
=============================================================================
