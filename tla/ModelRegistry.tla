---------------------------- MODULE ModelRegistry ----------------------------
(***************************************************************************)
(* packages/machine_learning/persistence.py: the versions of models, which   *)
(* of them is the champion of its name, and what they predicted.             *)
(***************************************************************************)
EXTENDS Transactions

CONSTANTS
  Registrations,   \* [name, version, metadata]
  Predictions      \* [id, model, available, at, inputs]

VARIABLES
  versions,      \* MLModelVersionRecord, without its stage
  stage,         \* the stage of each version that is registered
  predictions    \* MLPredictionRecord

modelVars == <<versions, stage, predictions>>

ModelKey(m) == <<"model", m.name, m.version>>
Models == {[name |-> r.name, version |-> r.version] : r \in Registrations}

ModelInit ==
  /\ versions = {} /\ predictions = {}
  /\ stage = [m \in Models |-> "none"]

(* register: the same metadata gets the version again, other metadata is     *)
(* refused.                                                                  *)
Register(w, r) ==
  /\ LET existing == Existing(versions, ModelKey(r))
     IN IF existing = {}
        THEN Begin(w, [at |-> "registering", request |-> r]) /\ told' = {}
        ELSE /\ Begin(w, Closed)
             /\ told' = {v \in existing : v.content = r.metadata}
  /\ UNCHANGED <<audits, modelVars>>

CommitVersion(w) ==
  /\ txn[w].at = "registering"
  /\ LET r == txn[w].request
     IN /\ Existing(versions, ModelKey(r)) = {}
        /\ versions' = versions \cup {Entry(ModelKey(r), r.metadata)}
        /\ stage' = [stage EXCEPT ![[name |-> r.name, version |-> r.version]] = "challenger"]
        /\ told' = {Entry(ModelKey(r), r.metadata)}
  /\ End(w)
  /\ UNCHANGED <<audits, predictions>>

(* promote: the version is read, *)
Promote(w, m) ==
  /\ stage[m] # "none"
  /\ Begin(w, [at |-> "promoting", model |-> m, loaded |-> stage[m]])
  /\ told' = {}
  /\ UNCHANGED <<audits, modelVars>>

Champions(name) == {m \in Models : m.name = name /\ stage[m] = "champion"}

(* A slip the runs must notice: the version itself is not left out.          *)
FindAllChampions(w) ==
  /\ txn[w].at = "promoting"
  /\ LET t == txn[w]
     IN Continue(w, [at |-> "archiving", model |-> t.model, loaded |-> t.loaded,
                     found |-> Champions(t.model.name)])
  /\ told' = {}
  /\ UNCHANGED <<audits, modelVars>>

(* the UPDATE finds the other champions and may wait for their rows,         *)
FindChampions(w) ==
  /\ txn[w].at = "promoting"
  /\ LET t == txn[w]
     IN Continue(w, [at |-> "archiving", model |-> t.model, loaded |-> t.loaded,
                     found |-> Champions(t.model.name) \ {t.model}])
  /\ told' = {}
  /\ UNCHANGED <<audits, modelVars>>

(* archives those that still are, and the version's own stage is written     *)
(* unless it is what was read.                                               *)
StageAfter(t, m) ==
  IF m \in t.found /\ stage[m] = "champion" THEN "archived"
  ELSE IF m = t.model /\ t.loaded # "champion" THEN "champion"
  ELSE stage[m]

CommitPromotion(w) ==
  /\ txn[w].at = "archiving"
  /\ stage' = [m \in Models |-> StageAfter(txn[w], m)]
  /\ End(w)
  /\ told' = {}
  /\ UNCHANGED <<audits, versions, predictions>>

(* PredictionLogger.log: evidence of the future is refused, and so is        *)
(* another prediction by the same id.                                        *)
PredictionEntry(p) == Entry(<<"prediction", p.id>>, p)

Log(w, p) ==
  /\ p.available <= p.at
  /\ LET existing == Existing(predictions, PredictionEntry(p).key)
     IN IF existing = {}
        THEN Begin(w, [at |-> "logging", request |-> p]) /\ told' = {}
        ELSE Begin(w, Closed) /\ told' = existing \cap {PredictionEntry(p)}
  /\ UNCHANGED <<audits, modelVars>>

(* The id is the primary key, and the model a foreign one.                   *)
CommitPrediction(w) ==
  /\ txn[w].at = "logging"
  /\ LET p == txn[w].request
     IN /\ Existing(predictions, PredictionEntry(p).key) = {}
        /\ stage[p.model] # "none"
        /\ predictions' = predictions \cup {PredictionEntry(p)}
        /\ told' = {PredictionEntry(p)}
  /\ End(w)
  /\ UNCHANGED <<audits, versions, stage>>

ModelStep(w) ==
  \/ \E r \in Registrations : Register(w, r)
  \/ CommitVersion(w)
  \/ \E m \in Models : Promote(w, m)
  \/ FindChampions(w)
  \/ CommitPromotion(w)
  \/ \E p \in Predictions : Log(w, p)
  \/ CommitPrediction(w)
=============================================================================
