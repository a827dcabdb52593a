---------------------------- MODULE DecisionEngine ----------------------------
(***************************************************************************)
(* packages/decision_engine/engine.py: what becomes of a strategy's signal. *)
(* A signal is [action, entry, stop, target, risk, reasons]; scores are a    *)
(* function from names to hundredths, in which "ml" may be missing.  The     *)
(* weights and thresholds are hundredths too.                                *)
(***************************************************************************)
EXTENDS Integers, FiniteSetsExt

CONSTANTS
  NoPrice,        \* a proposed price that is not there
  Weights,        \* the weight of each score
  MinConfidence,
  MinQuality,
  MinRiskReward

ASSUME DecisionAssumption ==
  /\ \A name \in DOMAIN Weights : Weights[name] \in 0 .. 100
  /\ MinConfidence \in 0 .. 100 /\ MinQuality \in 0 .. 100
  /\ MinRiskReward \in Nat \ {0}
  /\ NoPrice \notin Int

Entries == {"LONG", "SHORT"}
Actions == Entries \cup {"EXIT", "HOLD", "NO_TRADE"}

(* What is lost per unit at the stop and won at the target. *)
RiskOf(s) == IF s.action = "LONG" THEN s.entry - s.stop ELSE s.stop - s.entry
RewardOf(s) == IF s.action = "LONG" THEN s.target - s.entry ELSE s.entry - s.target

HasGeometry(s) ==
  NoPrice \notin {s.entry, s.stop, s.target} /\ RiskOf(s) > 0 /\ RewardOf(s) > 0

(* The weighted mean of the scores that are there reaches the threshold. *)
IsConfident(scores) ==
  LET Weight(name) == Weights[name]
      Weighted(name) == Weights[name] * scores[name]
      active == MapThenSumSet(Weight, DOMAIN scores)
  IN IF active = 0 THEN MinConfidence = 0
     ELSE MapThenSumSet(Weighted, DOMAIN scores) >= MinConfidence * active

EntryReasons(s, scores) ==
  (IF scores["data_quality"] < MinQuality THEN {"DATA_QUALITY_BELOW_THRESHOLD"} ELSE {}) \cup
  (IF IsConfident(scores) THEN {} ELSE {"CONFIDENCE_BELOW_THRESHOLD"}) \cup
  (IF ~HasGeometry(s) THEN {"INVALID_PRICE_GEOMETRY"}
   ELSE IF RewardOf(s) * 100 < RiskOf(s) * MinRiskReward THEN {"RISK_REWARD_BELOW_THRESHOLD"}
   ELSE {})

RejectionReasons(s, scores) ==
  s.reasons \cup
  (IF s.action = "NO_TRADE" THEN {"STRATEGY_NO_TRADE"}
   ELSE IF s.action \in Entries THEN EntryReasons(s, scores) ELSE {})

(* An entry that is refused is no trade; an exit is never held back. *)
Decide(s, scores) ==
  LET reasons == RejectionReasons(s, scores)
      action == IF s.action \in Entries /\ reasons # {} THEN "NO_TRADE" ELSE s.action
  IN IF action \in Entries
     THEN [action |-> action, stop |-> s.stop, target |-> s.target, risk |-> s.risk]
     ELSE [action |-> action, stop |-> NoPrice, target |-> NoPrice, risk |-> 0]
=============================================================================
