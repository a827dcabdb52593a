---------------------------- MODULE SafetyControls ----------------------------
(***************************************************************************)
(* The durable controls of the platform, used by overlapping callers: risk   *)
(* configuration and decisions, access, the registry of models, and the      *)
(* datasets, sessions and option chains that studies refer to.               *)
(***************************************************************************)
EXTENDS RiskControls, AccessControl, ModelRegistry, EvidenceTables

ASSUME ControlsAssumption ==
  /\ \A r \in SwitchRequests : r = [enabled |-> r.enabled, by |-> r.by]
  /\ \A e \in Evaluations :
       e = [intent |-> e.intent, context |-> e.context, price |-> e.price, stop |-> e.stop]
       /\ "killSwitch" \in DOMAIN e.context

vars == <<overlap, calls, txn, audits, told, switch, decisions, now, revocations,
          versions, stage, predictions, datasets, sessions, chains>>

Init == CallsInit /\ RiskInit /\ AccessInit /\ ModelInit /\ EvidenceInit

(* A call that fails, is cancelled, or dies leaves nothing behind. *)
Rollback(w) ==
  /\ txn[w] # Closed
  /\ End(w)
  /\ told' = {}
  /\ UNCHANGED <<audits, riskVars, accessVars, modelVars, evidenceVars>>

Next ==
  \/ \E w \in Workers :
       \/ RiskStep(w) /\ UNCHANGED <<accessVars, modelVars, evidenceVars>>
       \/ AccessStep(w) /\ UNCHANGED <<riskVars, modelVars, evidenceVars>>
       \/ ModelStep(w) /\ UNCHANGED <<riskVars, accessVars, evidenceVars>>
       \/ EvidenceStep(w) /\ UNCHANGED <<riskVars, modelVars>>
       \/ Rollback(w)
  \/ Tick /\ UNCHANGED <<riskVars, modelVars, evidenceVars>>

Spec == Init /\ [][Next]_vars

-----------------------------------------------------------------------------
Records ==
  decisions \cup revocations \cup versions \cup predictions
  \cup datasets \cup sessions \cup chains

Tables == INSTANCE WriteOnce WITH records <- Records, answer <- told

(* Decisions, revocations, model versions and predictions, datasets, the     *)
(* dataset of a session, and option chains are written once: racing callers  *)
(* and retries are all told the one that is durable, or nothing              *)
(* (risk_engine/persistence.py:79-106, auth/persistence.py:15-61,            *)
(* machine_learning/persistence.py:45-101, 144-187, replay/datasets.py:32-57,*)
(* replay/persistence.py:31-59, options/persistence.py:24-77).               *)
RecordsAreOnce == Tables!OnceSpec

(* The switch is what the last audited change made it, and every revocation  *)
(* has its one audit event ("every change records actor, reason, correlation *)
(* ID, and audit event", docs/IMPLEMENTATION_STATUS.md:126-127; "without     *)
(* duplicating audit evidence", docs/architecture/authentication.md:32).     *)
IsChange(event) == event.action = "risk.kill_switch.changed"

SwitchIsAsAudited ==
  /\ switch = NotConfigured => \A i \in DOMAIN audits : ~IsChange(audits[i])
  /\ switch # NotConfigured =>
       \E i \in DOMAIN audits :
         /\ IsChange(audits[i])
         /\ switch = {[enabled |-> audits[i].enabled, by |-> audits[i].by]}
         /\ \A j \in DOMAIN audits : IsChange(audits[j]) => j <= i

RevocationsAreAudited ==
  /\ \A r \in revocations : \E i \in DOMAIN audits : audits[i] = RevocationEvent(r)
  /\ \A i, j \in DOMAIN audits :
       ~IsChange(audits[i]) /\ audits[i].resource = audits[j].resource => i = j
  /\ \A i \in DOMAIN audits :
       IsChange(audits[i]) \/ \E r \in revocations : audits[i] = RevocationEvent(r)

ControlsAreAudited == (~overlap => SwitchIsAsAudited) /\ RevocationsAreAudited

(* While the switch is engaged no entry is approved, not even one that was   *)
(* approved before and is evaluated again: calls that do not overlap with    *)
(* the change see it (docs/architecture/risk-engine.md:17-18, 29-30).        *)
ApprovesEntry(r) ==
  /\ r.key[1] = "decision"
  /\ Approves(r.content.decision) /\ ~r.content.fingerprint[1].intent.exit

NoEntryUnderKillInTurn ==
  [][~overlap /\ IsEngaged => ~\E r \in told' : ApprovesEntry(r)]_vars

(* "Promotion archives the previous champion for the same model name"        *)
(* (docs/architecture/machine-learning.md:21-22): once promotions take turns *)
(* a name that had a champion has exactly one.                               *)
OneChampionInTurn ==
  ~overlap => \A m \in Models :
    stage[m] \in {"champion", "archived"} => \E c \in Models : Champions(m.name) = {c}
=============================================================================
