---------------------------- MODULE RiskControls ----------------------------
(***************************************************************************)
(* packages/risk_engine/persistence.py: the limits in effect, the durable    *)
(* kill switch, and the one decision every order intent gets.                *)
(***************************************************************************)
EXTENDS Transactions, RiskEngine

CONSTANTS
  LimitRows,        \* RiskLimitRecord: [type, value, enabled, from]
  SwitchRequests,   \* changes by hand: [enabled, by]
  Evaluations       \* [intent, context, price, stop]

VARIABLES
  switch,      \* SafetyStateRecord, if there is one
  decisions    \* RiskDecisionRecord

riskVars == <<switch, decisions>>

NotConfigured == {}

RiskInit == switch = NotConfigured /\ decisions = {}

-----------------------------------------------------------------------------
(* PersistentRiskConfigurationStore.load *)
LimitTypes ==
  { "perTrade", "dailyLoss", "openPositions", "instrument", "quoteAge", "spreadBps",
    "weeklyLoss", "drawdown", "gross", "net", "ordersPerMinute", "losses", "sector",
    "strategy", "slippageBps", "options", "delta", "gamma" }

WholeNumbers == {"openPositions", "quoteAge", "ordersPerMinute", "losses"}

Latest(rows) == {r \in rows : \A s \in rows : s.type = r.type => s.from <= r.from}

(* The rows in effect are the policy, and its version. *)
Policies ==
  [asOf \in {e.context.now : e \in Evaluations} |->
     Latest({r \in LimitRows : r.enabled /\ r.from <= asOf})]

Policy(asOf) == Policies[asOf]

IsComplete(policy) ==
  /\ {r.type : r \in policy} = LimitTypes
  /\ \A r \in policy : r.type \in WholeNumbers => r.value > 0

LimitsOf(policy) == [type \in LimitTypes |-> (CHOOSE r \in policy : r.type = type).value]

IsEngaged == \E s \in switch : s.enabled

-----------------------------------------------------------------------------
(* set_kill_switch: the row is read, *)
ReadSwitch(w, request) ==
  /\ Begin(w, [at |-> "switching", request |-> request, loaded |-> switch])
  /\ told' = {}
  /\ UNCHANGED <<audits, riskVars>>

(* and its columns are written that differ from what was read. *)
Written(column, loaded, current, value) ==
  IF loaded[column] = value[column] THEN current[column] ELSE value[column]

UpdatedSwitch(loaded, current, value) ==
  [enabled |-> Written("enabled", loaded, current, value),
   by |-> Written("by", loaded, current, value)]

SwitchEvent(request) ==
  [action |-> "risk.kill_switch.changed", resource |-> <<"safety_state", "kill_switch">>, by |-> request.by,
   enabled |-> request.enabled]

(* A second first row is refused by its primary key. *)
CommitSwitch(w) ==
  /\ txn[w].at = "switching"
  /\ LET t == txn[w]
     IN /\ IF t.loaded = NotConfigured
           THEN switch = NotConfigured /\ switch' = {t.request}
           ELSE switch' = {UpdatedSwitch(l, s, t.request) : l \in t.loaded, s \in switch}
        /\ Audit(SwitchEvent(t.request))
  /\ End(w)
  /\ told' = {}
  /\ UNCHANGED decisions

(* activate_automatic_kill_if_required *)
CircuitBreakers ==
  {"MAXIMUM_DAILY_LOSS", "MAXIMUM_WEEKLY_LOSS", "MAXIMUM_DRAWDOWN",
   "CONSECUTIVE_LOSS_CIRCUIT_BREAKER"}

Breaches(context, limits) == EntryLocks(context, limits) \cap CircuitBreakers

AutomaticKill(w, context) ==
  /\ ReadSwitch(w, [enabled |-> TRUE, by |-> "risk-engine"])
  /\ LET policy == Policy(context.now)
     IN IsComplete(policy) /\ Breaches(context, LimitsOf(policy)) # {}

-----------------------------------------------------------------------------
(* evaluate_with_persisted_configuration: the limits in effect and the       *)
(* switch are read, and the switch overrides the caller's context,           *)
WithSwitch(e, engaged) == [e EXCEPT !.context.killSwitch = @ \/ engaged]

LoadConfiguration(w, e) ==
  /\ Begin(w, [at |-> "configured", request |-> WithSwitch(e, IsEngaged)])
  /\ IsComplete(Policy(e.context.now))
  /\ told' = {}
  /\ UNCHANGED <<audits, riskVars>>

(* then evaluate looks for a decision about the intent: the same inputs get  *)
(* it again, others are refused.                                             *)
DecisionKey(e) == <<"decision", e.intent.id>>

(* A slip the runs must notice: the inputs as the caller gave them.          *)
CallersFingerprint(e) == WithSwitch([e EXCEPT !.context.killSwitch = FALSE], FALSE)

Fingerprint(e) == e

Decided(e) ==
  LET policy == Policy(e.context.now)
  IN Entry(DecisionKey(e),
           [fingerprint |-> <<Fingerprint(e), policy>>,
            decision |-> EvaluateOrderRisk(e.intent, e.context, LimitsOf(policy),
                                           e.price, e.stop)])

LookUpDecision(w) ==
  /\ txn[w].at = "configured"
  /\ LET e == txn[w].request
         existing == Existing(decisions, DecisionKey(e))
     IN IF existing = {}
        THEN Continue(w, [at |-> "deciding", request |-> e]) /\ told' = {}
        ELSE /\ told' = {d \in existing :
                           d.content.fingerprint = Decided(e).content.fingerprint}
             /\ End(w)
  /\ UNCHANGED <<audits, riskVars>>

(* A slip the runs must notice: no intent is unique in the table.            *)
CommitAnyDecision(w) ==
  /\ txn[w].at = "deciding"
  /\ decisions' = decisions \cup {Decided(txn[w].request)}
  /\ told' = {Decided(txn[w].request)}
  /\ End(w)
  /\ UNCHANGED <<audits, switch>>

(* "The database uniqueness constraint on intent ID is the final             *)
(* duplicate-decision guard" (docs/architecture/risk-engine.md:30-31).       *)
CommitDecision(w) ==
  /\ txn[w].at = "deciding"
  /\ Existing(decisions, DecisionKey(txn[w].request)) = {}
  /\ decisions' = decisions \cup {Decided(txn[w].request)}
  /\ told' = {Decided(txn[w].request)}
  /\ End(w)
  /\ UNCHANGED <<audits, switch>>

RiskStep(w) ==
  \/ \E request \in SwitchRequests : ReadSwitch(w, request)
  \/ \E e \in Evaluations : AutomaticKill(w, e.context)
  \/ CommitSwitch(w)
  \/ \E e \in Evaluations : LoadConfiguration(w, e)
  \/ LookUpDecision(w)
  \/ CommitDecision(w)
=============================================================================
