------------------------ MODULE SafetyControlsProofs ------------------------
(***************************************************************************)
(* What holds of the durable controls for any number of callers, requests, *)
(* limits, tokens and models.  A table that is written once says who was   *)
(* told what; a call that does not overlap with others finds, when it      *)
(* writes, what it read.                                                   *)
(***************************************************************************)
EXTENDS SafetyControls, TLAPS

(* A table holds entries of its kind. *)
OfKind(table, kind) == \A r \in table : r.key[1] = kind

TablesInv ==
  /\ OfKind(decisions, "decision") /\ OfKind(revocations, "revocation")
  /\ OfKind(versions, "model") /\ OfKind(predictions, "prediction")
  /\ OfKind(datasets, "dataset") /\ OfKind(sessions, "session") /\ OfKind(chains, "chain")
  /\ \A w \in Workers : txn[w].at = "revoking" => txn[w].record.key[1] = "revocation"

(* Calls that do not overlap take turns. *)
TurnsInv ==
  /\ txn = [w \in Workers |-> txn[w]]
  /\ overlap \/ \A v, w \in Workers : txn[v] # Closed /\ txn[w] # Closed => v = w

-----------------------------------------------------------------------------
(* A step of w's call, of which t is left. *)
IsACall(w, t) == Begin(w, t) \/ (txn[w] # Closed /\ Continue(w, t))

(* A step of a call leaves the other calls as they are; if calls take turns, *)
(* there is no other.                                                       *)
LEMMA TurnFacts ==
  ASSUME TurnsInv, NEW w \in Workers, NEW t,
         IsACall(w, t)
  PROVE  /\ TurnsInv' /\ overlap' = overlap /\ txn'[w] = t
         /\ \A v \in Workers \ {w} : txn'[v] = txn[v] /\ (overlap \/ txn[v] = Closed)
<1>1. txn' = [txn EXCEPT ![w] = t] /\ overlap' = overlap
  BY DEF IsACall, Begin, Continue
<1>2. txn' = [v \in Workers |-> IF v = w THEN t ELSE txn[v]]
  BY <1>1 DEF TurnsInv
<1>3. txn' = [v \in Workers |-> txn'[v]]
  BY <1>2
<1>4. txn'[w] = t /\ \A v \in Workers \ {w} : txn'[v] = txn[v]
  BY <1>2
<1>5. ASSUME NEW v \in Workers \ {w}, ~overlap PROVE txn[v] = Closed
  BY <1>5 DEF IsACall, TurnsInv, Begin
<1>6. overlap' \/ \A u, v \in Workers : txn'[u] # Closed /\ txn'[v] # Closed => u = v
  BY <1>1, <1>4, <1>5
<1> QED BY <1>1, <1>3, <1>4, <1>5, <1>6 DEF TurnsInv

(* The call a step is about, and what is left of it. *)
LEMMA StepIsACall ==
  ASSUME Next
  PROVE  \/ Tick /\ UNCHANGED <<riskVars, modelVars, evidenceVars>>
         \/ \E w \in Workers : \E t :
              /\ IsACall(w, t)
              /\ \/ Rollback(w) /\ t.at = "closed"
                 \/ /\ RiskStep(w) /\ UNCHANGED <<accessVars, modelVars, evidenceVars>>
                    /\ t.at \in {"closed", "switching", "configured", "deciding"}
                 \/ /\ AccessStep(w) /\ UNCHANGED <<riskVars, modelVars, evidenceVars>>
                    /\ t.at \in {"closed", "admitted", "revoking"}
                    /\ t.at = "revoking" => t.record.key[1] = "revocation"
                 \/ /\ ModelStep(w) /\ UNCHANGED <<riskVars, accessVars, evidenceVars>>
                    /\ t.at \in {"closed", "registering", "promoting", "archiving", "logging"}
                 \/ /\ EvidenceStep(w) /\ UNCHANGED <<riskVars, modelVars>>
                    /\ t.at \in {"closed", "storing", "creating", "ingesting", "adding"}
<1>1. \A t : t.at # "closed" => t # Closed
  BY DEF Closed
<1>2. Closed.at = "closed"
  BY DEF Closed
<1>3. ASSUME NEW w \in Workers, RiskStep(w)
      PROVE  \E t : IsACall(w, t) /\ t.at \in {"closed", "switching", "configured", "deciding"}
  <2>1. ASSUME NEW request, ReadSwitch(w, request)
        PROVE  \E t : Begin(w, t) /\ t.at = "switching"
    BY <2>1 DEF ReadSwitch
  <2>2. ASSUME NEW e, LoadConfiguration(w, e)
        PROVE  \E t : Begin(w, t) /\ t.at = "configured"
    BY <2>2 DEF LoadConfiguration
  <2>3. ASSUME LookUpDecision(w)
        PROVE  txn[w] # Closed /\ \E t : Continue(w, t) /\ (t.at \in {"closed", "deciding"})
    BY <1>1, <1>2, <2>3 DEF LookUpDecision, End
  <2>4. ASSUME CommitSwitch(w) \/ CommitDecision(w)
        PROVE  txn[w] # Closed /\ Continue(w, Closed)
    BY <1>1, <2>4 DEF CommitSwitch, CommitDecision, End
  <2> QED BY <1>2, <1>3, <2>1, <2>2, <2>3, <2>4 DEF RiskStep, AutomaticKill, IsACall
<1>4. ASSUME NEW w \in Workers, AccessStep(w)
      PROVE  \E t : /\ IsACall(w, t) /\ t.at \in {"closed", "admitted", "revoking"}
                    /\ t.at = "revoking" => t.record.key[1] = "revocation"
  <2>1. ASSUME NEW t, NEW request, Admit(w, t, request)
        PROVE  \E s : Begin(w, s) /\ s.at = "admitted"
    BY <2>1 DEF Admit
  <2>2. ASSUME LookUpRevocation(w)
        PROVE  txn[w] # Closed /\ \E t : /\ Continue(w, t) /\ t.at \in {"closed", "revoking"}
                                         /\ t.at = "revoking" => t.record.key[1] = "revocation"
    BY <1>1, <1>2, <2>2 DEF LookUpRevocation, End, Revocation, Entry, RevocationKey
  <2>3. ASSUME CommitRevocation(w)
        PROVE  txn[w] # Closed /\ Continue(w, Closed)
    BY <1>1, <2>3 DEF CommitRevocation, End
  <2> QED BY <1>2, <1>4, <2>1, <2>2, <2>3 DEF AccessStep, IsACall
<1>5. ASSUME NEW w \in Workers, ModelStep(w)
      PROVE  \E t : /\ IsACall(w, t)
                    /\ t.at \in {"closed", "registering", "promoting", "archiving", "logging"}
  <2>1. ASSUME NEW r, Register(w, r) \/ Promote(w, r) \/ Log(w, r)
        PROVE  \E t : Begin(w, t) /\ t.at \in {"closed", "registering", "promoting", "logging"}
    BY <1>2, <2>1 DEF Register, Promote, Log
  <2>2. ASSUME FindChampions(w)
        PROVE  txn[w] # Closed /\ \E t : Continue(w, t) /\ t.at = "archiving"
    BY <1>1, <2>2 DEF FindChampions
  <2>3. ASSUME CommitVersion(w) \/ CommitPromotion(w) \/ CommitPrediction(w)
        PROVE  txn[w] # Closed /\ Continue(w, Closed)
    BY <1>1, <2>3 DEF CommitVersion, CommitPromotion, CommitPrediction, End
  <2> QED BY <1>2, <1>5, <2>1, <2>2, <2>3 DEF ModelStep, IsACall
<1>6. ASSUME NEW w \in Workers, EvidenceStep(w)
      PROVE  \E t : /\ IsACall(w, t)
                    /\ t.at \in {"closed", "storing", "creating", "ingesting", "adding"}
  <2>1. ASSUME NEW x, Store(w, x) \/ CreateSession(w, x) \/ ReadRaw(w, x) \/ LatestAsOf(w, x)
        PROVE  \E t : Begin(w, t) /\ t.at \in {"closed", "storing", "creating", "ingesting"}
    BY <1>2, <2>1 DEF Store, CreateSession, ReadRaw, LatestAsOf
  <2>2. ASSUME LookUpSnapshot(w)
        PROVE  txn[w] # Closed /\ \E t : Continue(w, t) /\ t.at \in {"closed", "adding"}
    BY <1>1, <1>2, <2>2 DEF LookUpSnapshot, End
  <2>3. ASSUME CommitDataset(w) \/ CommitSession(w) \/ CommitChain(w)
        PROVE  txn[w] # Closed /\ Continue(w, Closed)
    BY <1>1, <2>3 DEF CommitDataset, CommitSession, CommitChain, End
  <2> QED BY <1>2, <1>6, <2>1, <2>2, <2>3 DEF EvidenceStep, IsACall
<1>7. ASSUME NEW w \in Workers, Rollback(w) PROVE IsACall(w, Closed)
  BY <1>7 DEF Rollback, End, IsACall
<1> QED BY <1>2, <1>3, <1>4, <1>5, <1>6, <1>7 DEF Next

-----------------------------------------------------------------------------
(* Tables that are written once. *)

(* A table is extended by an entry of its kind whose key is new, and that is *)
(* told.                                                                     *)
Extends(table, extended, kind) ==
  \E r : /\ r.key[1] = kind
         /\ Existing(table, r.key) = {}
         /\ extended = table \cup {r}
         /\ told' = {r}

Quiet ==
  /\ UNCHANGED <<decisions, revocations, versions, predictions, evidenceVars>>
  /\ told' \subseteq Records

(* What a call of each part records and tells. *)
LEMMA RiskRecords ==
  ASSUME NEW w, RiskStep(w), UNCHANGED <<accessVars, modelVars, evidenceVars>>
  PROVE  Quiet \/ /\ Extends(decisions, decisions', "decision")
                  /\ UNCHANGED <<revocations, versions, predictions, evidenceVars>>
<1>1. UNCHANGED <<revocations, versions, predictions, evidenceVars>>
  BY DEF accessVars, modelVars
<1>2. ASSUME NEW request, ReadSwitch(w, request) PROVE Quiet
  BY <1>1, <1>2 DEF ReadSwitch, riskVars, Quiet
<1>3. ASSUME NEW e, LoadConfiguration(w, e) PROVE Quiet
  BY <1>1, <1>3 DEF LoadConfiguration, riskVars, Quiet
<1>4. ASSUME LookUpDecision(w) PROVE Quiet
  BY <1>1, <1>4 DEF LookUpDecision, riskVars, Existing, Quiet, Records
<1>5. ASSUME CommitSwitch(w) PROVE Quiet
  BY <1>1, <1>5 DEF CommitSwitch, Quiet
<1>6. ASSUME CommitDecision(w) PROVE Extends(decisions, decisions', "decision")
  <2> DEFINE r == Decided(txn[w].request)
  <2>1. r.key = DecisionKey(txn[w].request) /\ r.key[1] = "decision"
    BY DEF Decided, Entry, DecisionKey
  <2>2. Existing(decisions, DecisionKey(txn[w].request)) = {} /\ told' = {r}
        /\ decisions' = decisions \cup {r}
    BY <1>6 DEF CommitDecision
  <2> HIDE DEF r
  <2> QED BY <2>1, <2>2 DEF Extends
<1> QED BY <1>1, <1>2, <1>3, <1>4, <1>5, <1>6 DEF RiskStep, AutomaticKill

LEMMA AccessRecords ==
  ASSUME TablesInv, NEW w \in Workers, AccessStep(w),
         UNCHANGED <<riskVars, modelVars, evidenceVars>>
  PROVE  Quiet \/ /\ Extends(revocations, revocations', "revocation")
                  /\ UNCHANGED <<decisions, versions, predictions, evidenceVars>>
<1>1. UNCHANGED <<decisions, versions, predictions, evidenceVars>>
  BY DEF riskVars, modelVars
<1>2. ASSUME NEW t, NEW request, Admit(w, t, request) PROVE Quiet
  BY <1>1, <1>2 DEF Admit, accessVars, Quiet
<1>3. ASSUME LookUpRevocation(w) PROVE Quiet
  BY <1>1, <1>3 DEF LookUpRevocation, accessVars, Existing, Quiet, Records
<1>4. ASSUME CommitRevocation(w) PROVE Extends(revocations, revocations', "revocation")
  BY <1>4 DEF CommitRevocation, Extends, TablesInv
<1> QED BY <1>1, <1>2, <1>3, <1>4 DEF AccessStep

LEMMA ModelRecords ==
  ASSUME NEW w, ModelStep(w), UNCHANGED <<riskVars, accessVars, evidenceVars>>
  PROVE  \/ Quiet
         \/ /\ Extends(versions, versions', "model")
            /\ UNCHANGED <<decisions, revocations, predictions, evidenceVars>>
         \/ /\ Extends(predictions, predictions', "prediction")
            /\ UNCHANGED <<decisions, revocations, versions, evidenceVars>>
<1>1. UNCHANGED <<decisions, revocations, evidenceVars>>
  BY DEF riskVars, accessVars
<1>2. ASSUME NEW r, Register(w, r) \/ Promote(w, r) \/ Log(w, r) PROVE Quiet
  BY <1>1, <1>2 DEF Register, Promote, Log, modelVars, Existing, Quiet, Records
<1>3. ASSUME FindChampions(w) \/ CommitPromotion(w) PROVE Quiet
  BY <1>1, <1>3 DEF FindChampions, CommitPromotion, modelVars, Quiet
<1>4. ASSUME CommitVersion(w)
      PROVE  Extends(versions, versions', "model") /\ UNCHANGED predictions
  <2> DEFINE m == txn[w].request
             r == Entry(ModelKey(m), m.metadata)
  <2>1. r.key = ModelKey(m) /\ r.key[1] = "model"
    BY DEF Entry, ModelKey
  <2>2. Existing(versions, ModelKey(m)) = {} /\ told' = {r}
        /\ versions' = versions \cup {r} /\ predictions' = predictions
    BY <1>4 DEF CommitVersion
  <2> HIDE DEF r
  <2> QED BY <2>1, <2>2 DEF Extends
<1>5. ASSUME CommitPrediction(w)
      PROVE  Extends(predictions, predictions', "prediction") /\ UNCHANGED versions
  <2> DEFINE r == PredictionEntry(txn[w].request)
  <2>1. r.key[1] = "prediction"
    BY DEF PredictionEntry, Entry
  <2>2. Existing(predictions, r.key) = {} /\ told' = {r}
        /\ predictions' = predictions \cup {r} /\ versions' = versions
    BY <1>5 DEF CommitPrediction
  <2> HIDE DEF r
  <2> QED BY <2>1, <2>2 DEF Extends
<1> QED BY <1>1, <1>2, <1>3, <1>4, <1>5 DEF ModelStep

LEMMA EvidenceRecords ==
  ASSUME NEW w, EvidenceStep(w), UNCHANGED <<riskVars, modelVars>>
  PROVE  \/ Quiet
         \/ /\ UNCHANGED <<decisions, revocations, versions, predictions>>
            /\ \/ Extends(datasets, datasets', "dataset") /\ UNCHANGED <<sessions, chains>>
               \/ Extends(sessions, sessions', "session") /\ UNCHANGED <<datasets, chains>>
               \/ Extends(chains, chains', "chain") /\ UNCHANGED <<datasets, sessions>>
<1>1. UNCHANGED <<decisions, versions, predictions>>
  BY DEF riskVars, modelVars
<1>2. ASSUME NEW x, Store(w, x) \/ CreateSession(w, x) \/ ReadRaw(w, x) PROVE Quiet
  BY <1>1, <1>2 DEF Store, CreateSession, ReadRaw, accessVars, Existing, Quiet, Records
<1>3. ASSUME NEW q, LatestAsOf(w, q) PROVE Quiet
  BY <1>1, <1>3 DEF LatestAsOf, LatestChains, KnownAt, accessVars, Quiet, Records
<1>4. ASSUME LookUpSnapshot(w) PROVE Quiet
  BY <1>1, <1>4 DEF LookUpSnapshot, accessVars, Existing, Quiet, Records
<1>5. ASSUME CommitDataset(w)
      PROVE  Extends(datasets, datasets', "dataset") /\ UNCHANGED <<revocations, sessions, chains>>
  <2> DEFINE r == Entry(DatasetKey(txn[w].candles), txn[w].time)
  <2>1. r.key[1] = "dataset"
    BY DEF DatasetKey, Entry
  <2>2. Existing(datasets, r.key) = {} /\ told' = {r} /\ datasets' = datasets \cup {r}
        /\ UNCHANGED <<revocations, sessions, chains>>
    BY <1>5 DEF CommitDataset, accessVars
  <2> HIDE DEF r
  <2> QED BY <2>1, <2>2 DEF Extends
<1>6. ASSUME CommitSession(w)
      PROVE  Extends(sessions, sessions', "session") /\ UNCHANGED <<revocations, datasets, chains>>
  <2> DEFINE r == SessionEntry(txn[w].request)
  <2>1. r.key[1] = "session"
    BY DEF SessionEntry, Entry
  <2>2. Existing(sessions, r.key) = {} /\ told' = {r} /\ sessions' = sessions \cup {r}
        /\ UNCHANGED <<revocations, datasets, chains>>
    BY <1>6 DEF CommitSession, accessVars
  <2> HIDE DEF r
  <2> QED BY <2>1, <2>2 DEF Extends
<1>7. ASSUME CommitChain(w)
      PROVE  Extends(chains, chains', "chain") /\ UNCHANGED <<revocations, datasets, sessions>>
  <2> DEFINE r == ChainEntry(txn[w].request)
  <2>1. r.key[1] = "chain"
    BY DEF ChainEntry, Entry
  <2>2. Existing(chains, r.key) = {} /\ told' = {r} /\ chains' = chains \cup {r}
        /\ UNCHANGED <<revocations, datasets, sessions>>
    BY <1>7 DEF CommitChain, accessVars
  <2> HIDE DEF r
  <2> QED BY <2>1, <2>2 DEF Extends
<1> QED BY <1>1, <1>2, <1>3, <1>4, <1>5, <1>6, <1>7 DEF EvidenceStep

(* A step extends one table, or records nothing. *)
LEMMA TableSteps ==
  ASSUME TablesInv, Next
  PROVE  \/ Quiet
         \/ /\ Extends(decisions, decisions', "decision")
            /\ UNCHANGED <<revocations, versions, predictions, datasets, sessions, chains>>
         \/ /\ Extends(revocations, revocations', "revocation")
            /\ UNCHANGED <<decisions, versions, predictions, datasets, sessions, chains>>
         \/ /\ Extends(versions, versions', "model")
            /\ UNCHANGED <<decisions, revocations, predictions, datasets, sessions, chains>>
         \/ /\ Extends(predictions, predictions', "prediction")
            /\ UNCHANGED <<decisions, revocations, versions, datasets, sessions, chains>>
         \/ /\ Extends(datasets, datasets', "dataset")
            /\ UNCHANGED <<decisions, revocations, versions, predictions, sessions, chains>>
         \/ /\ Extends(sessions, sessions', "session")
            /\ UNCHANGED <<decisions, revocations, versions, predictions, datasets, chains>>
         \/ /\ Extends(chains, chains', "chain")
            /\ UNCHANGED <<decisions, revocations, versions, predictions, datasets, sessions>>
<1>1. CASE Tick /\ UNCHANGED <<riskVars, modelVars, evidenceVars>>
  BY <1>1 DEF Tick, riskVars, modelVars, Quiet
<1>2. ASSUME NEW w \in Workers, Rollback(w) PROVE Quiet
  BY <1>2 DEF Rollback, riskVars, accessVars, modelVars, Quiet
<1> QED BY <1>1, <1>2, RiskRecords, AccessRecords, ModelRecords, EvidenceRecords
        DEF Next, evidenceVars

(* Its new entry has a key that is new among those of all tables. *)
LEMMA StepRecordsOnce ==
  ASSUME TablesInv, Next
  PROVE  /\ OfKind(decisions, "decision")' /\ OfKind(revocations, "revocation")'
         /\ OfKind(versions, "model")' /\ OfKind(predictions, "prediction")'
         /\ OfKind(datasets, "dataset")' /\ OfKind(sessions, "session")'
         /\ OfKind(chains, "chain")'
         /\ Tables!OnceNext
<1>0. /\ OfKind(decisions, "decision") /\ OfKind(revocations, "revocation")
      /\ OfKind(versions, "model") /\ OfKind(predictions, "prediction")
      /\ OfKind(datasets, "dataset") /\ OfKind(sessions, "session") /\ OfKind(chains, "chain")
  BY DEF TablesInv
<1>1. CASE Quiet
  <2>1. UNCHANGED <<decisions, revocations, versions, predictions, datasets, sessions, chains>>
    BY <1>1 DEF Quiet, evidenceVars
  <2>2. Tables!Answer
    BY <1>1, <2>1 DEF Quiet, Records, Tables!Answer
  <2> QED BY <1>0, <2>1, <2>2 DEF Tables!OnceNext
<1>2. CASE /\ Extends(decisions, decisions', "decision")
         /\ UNCHANGED <<revocations, versions, predictions, datasets, sessions, chains>>
  <2> DEFINE others == revocations \cup versions \cup predictions
                       \cup datasets \cup sessions \cup chains
  <2>1. \A s \in others : s.key[1] # "decision"
    BY <1>0 DEF OfKind
  <2>2. Records = decisions \cup others /\ Records' = decisions' \cup others
    BY <1>2 DEF Records
  <2> HIDE DEF others
  <2>3. PICK r : /\ r.key[1] = "decision" /\ Existing(decisions, r.key) = {}
                 /\ decisions' = decisions \cup {r} /\ told' = {r}
    BY <1>2 DEF Extends
  <2>4. OfKind(decisions', "decision")
    BY <1>0, <2>3 DEF OfKind
  <2>5. Records' = Records \cup {r} /\ \A s \in Records : s.key # r.key
    BY <2>1, <2>2, <2>3 DEF Existing
  <2>6. Tables!Record
    BY <2>3, <2>5 DEF Tables!Record
  <2> QED BY <1>0, <1>2, <2>4, <2>6 DEF Tables!OnceNext
<1>3. CASE /\ Extends(revocations, revocations', "revocation")
         /\ UNCHANGED <<decisions, versions, predictions, datasets, sessions, chains>>
  <2> DEFINE others == decisions \cup versions \cup predictions
                       \cup datasets \cup sessions \cup chains
  <2>1. \A s \in others : s.key[1] # "revocation"
    BY <1>0 DEF OfKind
  <2>2. Records = revocations \cup others /\ Records' = revocations' \cup others
    BY <1>3 DEF Records
  <2> HIDE DEF others
  <2>3. PICK r : /\ r.key[1] = "revocation" /\ Existing(revocations, r.key) = {}
                 /\ revocations' = revocations \cup {r} /\ told' = {r}
    BY <1>3 DEF Extends
  <2>4. OfKind(revocations', "revocation")
    BY <1>0, <2>3 DEF OfKind
  <2>5. Records' = Records \cup {r} /\ \A s \in Records : s.key # r.key
    BY <2>1, <2>2, <2>3 DEF Existing
  <2>6. Tables!Record
    BY <2>3, <2>5 DEF Tables!Record
  <2> QED BY <1>0, <1>3, <2>4, <2>6 DEF Tables!OnceNext
<1>4. CASE /\ Extends(versions, versions', "model")
         /\ UNCHANGED <<decisions, revocations, predictions, datasets, sessions, chains>>
  <2> DEFINE others == decisions \cup revocations \cup predictions
                       \cup datasets \cup sessions \cup chains
  <2>1. \A s \in others : s.key[1] # "model"
    BY <1>0 DEF OfKind
  <2>2. Records = versions \cup others /\ Records' = versions' \cup others
    BY <1>4 DEF Records
  <2> HIDE DEF others
  <2>3. PICK r : /\ r.key[1] = "model" /\ Existing(versions, r.key) = {}
                 /\ versions' = versions \cup {r} /\ told' = {r}
    BY <1>4 DEF Extends
  <2>4. OfKind(versions', "model")
    BY <1>0, <2>3 DEF OfKind
  <2>5. Records' = Records \cup {r} /\ \A s \in Records : s.key # r.key
    BY <2>1, <2>2, <2>3 DEF Existing
  <2>6. Tables!Record
    BY <2>3, <2>5 DEF Tables!Record
  <2> QED BY <1>0, <1>4, <2>4, <2>6 DEF Tables!OnceNext
<1>5. CASE /\ Extends(predictions, predictions', "prediction")
         /\ UNCHANGED <<decisions, revocations, versions, datasets, sessions, chains>>
  <2> DEFINE others == decisions \cup revocations \cup versions
                       \cup datasets \cup sessions \cup chains
  <2>1. \A s \in others : s.key[1] # "prediction"
    BY <1>0 DEF OfKind
  <2>2. Records = predictions \cup others /\ Records' = predictions' \cup others
    BY <1>5 DEF Records
  <2> HIDE DEF others
  <2>3. PICK r : /\ r.key[1] = "prediction" /\ Existing(predictions, r.key) = {}
                 /\ predictions' = predictions \cup {r} /\ told' = {r}
    BY <1>5 DEF Extends
  <2>4. OfKind(predictions', "prediction")
    BY <1>0, <2>3 DEF OfKind
  <2>5. Records' = Records \cup {r} /\ \A s \in Records : s.key # r.key
    BY <2>1, <2>2, <2>3 DEF Existing
  <2>6. Tables!Record
    BY <2>3, <2>5 DEF Tables!Record
  <2> QED BY <1>0, <1>5, <2>4, <2>6 DEF Tables!OnceNext
<1>6. CASE /\ Extends(datasets, datasets', "dataset")
         /\ UNCHANGED <<decisions, revocations, versions, predictions, sessions, chains>>
  <2> DEFINE others == decisions \cup revocations \cup versions
                       \cup predictions \cup sessions \cup chains
  <2>1. \A s \in others : s.key[1] # "dataset"
    BY <1>0 DEF OfKind
  <2>2. Records = datasets \cup others /\ Records' = datasets' \cup others
    BY <1>6 DEF Records
  <2> HIDE DEF others
  <2>3. PICK r : /\ r.key[1] = "dataset" /\ Existing(datasets, r.key) = {}
                 /\ datasets' = datasets \cup {r} /\ told' = {r}
    BY <1>6 DEF Extends
  <2>4. OfKind(datasets', "dataset")
    BY <1>0, <2>3 DEF OfKind
  <2>5. Records' = Records \cup {r} /\ \A s \in Records : s.key # r.key
    BY <2>1, <2>2, <2>3 DEF Existing
  <2>6. Tables!Record
    BY <2>3, <2>5 DEF Tables!Record
  <2> QED BY <1>0, <1>6, <2>4, <2>6 DEF Tables!OnceNext
<1>7. CASE /\ Extends(sessions, sessions', "session")
         /\ UNCHANGED <<decisions, revocations, versions, predictions, datasets, chains>>
  <2> DEFINE others == decisions \cup revocations \cup versions
                       \cup predictions \cup datasets \cup chains
  <2>1. \A s \in others : s.key[1] # "session"
    BY <1>0 DEF OfKind
  <2>2. Records = sessions \cup others /\ Records' = sessions' \cup others
    BY <1>7 DEF Records
  <2> HIDE DEF others
  <2>3. PICK r : /\ r.key[1] = "session" /\ Existing(sessions, r.key) = {}
                 /\ sessions' = sessions \cup {r} /\ told' = {r}
    BY <1>7 DEF Extends
  <2>4. OfKind(sessions', "session")
    BY <1>0, <2>3 DEF OfKind
  <2>5. Records' = Records \cup {r} /\ \A s \in Records : s.key # r.key
    BY <2>1, <2>2, <2>3 DEF Existing
  <2>6. Tables!Record
    BY <2>3, <2>5 DEF Tables!Record
  <2> QED BY <1>0, <1>7, <2>4, <2>6 DEF Tables!OnceNext
<1>8. CASE /\ Extends(chains, chains', "chain")
         /\ UNCHANGED <<decisions, revocations, versions, predictions, datasets, sessions>>
  <2> DEFINE others == decisions \cup revocations \cup versions
                       \cup predictions \cup datasets \cup sessions
  <2>1. \A s \in others : s.key[1] # "chain"
    BY <1>0 DEF OfKind
  <2>2. Records = chains \cup others /\ Records' = chains' \cup others
    BY <1>8 DEF Records
  <2> HIDE DEF others
  <2>3. PICK r : /\ r.key[1] = "chain" /\ Existing(chains, r.key) = {}
                 /\ chains' = chains \cup {r} /\ told' = {r}
    BY <1>8 DEF Extends
  <2>4. OfKind(chains', "chain")
    BY <1>0, <2>3 DEF OfKind
  <2>5. Records' = Records \cup {r} /\ \A s \in Records : s.key # r.key
    BY <2>1, <2>2, <2>3 DEF Existing
  <2>6. Tables!Record
    BY <2>3, <2>5 DEF Tables!Record
  <2> QED BY <1>0, <1>8, <2>4, <2>6 DEF Tables!OnceNext
<1> QED BY <1>1, <1>2, <1>3, <1>4, <1>5, <1>6, <1>7, <1>8, TableSteps

LEMMA TablesStep == TablesInv /\ TurnsInv /\ [Next]_vars => TablesInv' /\ TurnsInv'
<1> SUFFICES ASSUME TablesInv, TurnsInv, [Next]_vars PROVE TablesInv' /\ TurnsInv'
  OBVIOUS
<1>1. CASE UNCHANGED vars
  BY <1>1 DEF vars, TablesInv, TurnsInv
<1>2. CASE Next
  <2>1. /\ OfKind(decisions, "decision")' /\ OfKind(revocations, "revocation")'
        /\ OfKind(versions, "model")' /\ OfKind(predictions, "prediction")'
        /\ OfKind(datasets, "dataset")' /\ OfKind(sessions, "session")'
        /\ OfKind(chains, "chain")'
    BY <1>2, StepRecordsOnce
  <2>2. CASE Tick /\ UNCHANGED <<riskVars, modelVars, evidenceVars>>
    BY <2>1, <2>2 DEF Tick, TablesInv, TurnsInv
  <2>3. ASSUME NEW w \in Workers, NEW t, IsACall(w, t),
               t.at = "revoking" => t.record.key[1] = "revocation"
        PROVE  TablesInv' /\ TurnsInv'
    <3>2. /\ TurnsInv' /\ txn'[w] = t
          /\ \A v \in Workers \ {w} : txn'[v] = txn[v]
      BY <2>3, TurnFacts
    <3> QED BY <2>1, <2>3, <3>2 DEF TablesInv
  <2> QED BY <1>2, <2>2, <2>3, StepIsACall
<1> QED BY <1>1, <1>2

LEMMA TablesAlways == Spec => [](TablesInv /\ TurnsInv)
<1>1. Init => TablesInv /\ TurnsInv
  BY DEF Init, CallsInit, RiskInit, AccessInit, ModelInit, EvidenceInit, Closed, TablesInv,
         TurnsInv, OfKind
<1> QED BY <1>1, TablesStep, PTL DEF Spec

(* The tables of decisions, revocations, versions, predictions, datasets,    *)
(* sessions and option chains refine one that is written once, for any       *)
(* number of racing callers (risk_engine/persistence.py:79-106,              *)
(* auth/persistence.py:15-61, machine_learning/persistence.py:45-101,        *)
(* 144-187, replay/datasets.py:32-57, replay/persistence.py:31-59,           *)
(* options/persistence.py:24-77).                                            *)
THEOREM RecordsAreWrittenOnce == Spec => RecordsAreOnce
<1>1. Init => Tables!OnceInit
  BY DEF Init, CallsInit, RiskInit, AccessInit, ModelInit, EvidenceInit, Records, Tables!OnceInit
<1>2. TablesInv /\ [Next]_vars => [Tables!OnceNext]_<<Records, told>>
  BY StepRecordsOnce DEF vars, Records
<1> QED BY <1>1, <1>2, TablesAlways, PTL DEF Spec, RecordsAreOnce, Tables!OnceSpec

-----------------------------------------------------------------------------
(* Promotions that take turns archive every other champion. *)

PromotionInv(w) ==
  txn[w].at \in {"promoting", "archiving"} =>
    /\ txn[w].model \in Models /\ stage[txn[w].model] # "none"
    /\ overlap \/ /\ txn[w].loaded = stage[txn[w].model]
                  /\ txn[w].at = "archiving" =>
                       txn[w].found = Champions(txn[w].model.name) \ {txn[w].model}

ChampionsInv ==
  /\ stage = [m \in Models |-> stage[m]]
  /\ \A m \in Models : stage[m] # "none" => Existing(versions, ModelKey(m)) # {}
  /\ \A w \in Workers : PromotionInv(w)
  /\ OneChampionInTurn

LEMMA NoPromotion ==
  ASSUME ChampionsInv, TurnsInv, NEW w \in Workers, NEW t, IsACall(w, t),
         t.at \notin {"promoting", "archiving"}, UNCHANGED <<versions, stage>>
  PROVE  ChampionsInv'
<1>1. /\ overlap' = overlap /\ txn'[w] = t
      /\ \A v \in Workers \ {w} : txn'[v] = txn[v]
  BY TurnFacts
<1>2. \A v \in Workers : PromotionInv(v)'
  BY <1>1 DEF ChampionsInv, PromotionInv, Champions
<1> QED BY <1>1, <1>2 DEF ChampionsInv, OneChampionInTurn, Champions

LEMMA CommitVersionKeeps ==
  ASSUME ChampionsInv, TurnsInv, NEW w \in Workers, CommitVersion(w)
  PROVE  ChampionsInv'
<1> DEFINE r == txn[w].request
           n == [name |-> r.name, version |-> r.version]
<1>1. /\ txn[w].at = "registering" /\ IsACall(w, Closed)
      /\ Existing(versions, ModelKey(n)) = {}
      /\ versions' = versions \cup {Entry(ModelKey(n), r.metadata)}
      /\ stage' = [stage EXCEPT ![n] = "challenger"]
  BY DEF CommitVersion, ModelKey, IsACall, Closed, End
<1>2. /\ overlap' = overlap /\ txn'[w] = Closed
      /\ \A v \in Workers \ {w} : txn'[v] = txn[v] /\ (overlap \/ txn[v] = Closed)
  BY <1>1, TurnFacts
<1> HIDE DEF n
<1>3. \A m \in Models : stage'[m] = IF m = n THEN "challenger" ELSE stage[m]
  BY <1>1 DEF ChampionsInv
<1>4. n \in Models => stage[n] = "none"
  BY <1>1 DEF ChampionsInv
<1>5. stage' = [m \in Models |-> stage'[m]]
  BY <1>1 DEF ChampionsInv
<1>6. ASSUME NEW m \in Models, stage'[m] # "none" PROVE Existing(versions', ModelKey(m)) # {}
  <2> DEFINE e == Entry(ModelKey(n), r.metadata)
  <2>1. e.key = ModelKey(n) /\ versions' = versions \cup {e}
    BY <1>1 DEF Entry
  <2> HIDE DEF e
  <2>2. CASE m = n
    BY <2>1, <2>2 DEF Existing
  <2>3. CASE m # n
    <3>1. Existing(versions, ModelKey(m)) # {}
      BY <1>3, <1>6, <2>3 DEF ChampionsInv
    <3> QED BY <2>1, <3>1 DEF Existing
  <2> QED BY <2>2, <2>3
<1>7. \A name : Champions(name)' = Champions(name)
  BY <1>3, <1>4 DEF Champions
<1>8. ASSUME NEW v \in Workers PROVE PromotionInv(v)'
  <2>1. CASE v = w
    BY <1>2, <2>1 DEF PromotionInv, Closed
  <2>2. CASE v # w
    <3>1. txn'[v] = txn[v] /\ (overlap \/ txn[v].at = "closed")
      BY <1>2, <2>2 DEF Closed
    <3>2. PromotionInv(v)
      BY DEF ChampionsInv
    <3> QED BY <1>2, <1>3, <3>1, <3>2 DEF PromotionInv
  <2> QED BY <2>1, <2>2
<1>9. OneChampionInTurn'
  BY <1>2, <1>3, <1>4, <1>7 DEF ChampionsInv, OneChampionInTurn
<1> QED BY <1>5, <1>6, <1>8, <1>9 DEF ChampionsInv

LEMMA PromoteKeeps ==
  ASSUME ChampionsInv, TurnsInv, NEW w \in Workers,
         FindChampions(w) \/ \E m \in Models : Promote(w, m)
  PROVE  ChampionsInv'
<1>1. PICK t : /\ IsACall(w, t) /\ UNCHANGED <<versions, stage>>
               /\ t.model \in Models /\ stage[t.model] # "none"
               /\ overlap \/ t.loaded = stage[t.model]
               /\ t.at = "promoting" \/ t.found = Champions(t.model.name) \ {t.model}
  <2>1. CASE FindChampions(w)
    <3>1. /\ txn[w].at = "promoting" /\ txn[w] # Closed
      BY <2>1 DEF FindChampions, Closed
    <3>2. PromotionInv(w)
      BY DEF ChampionsInv
    <3> DEFINE t == [at |-> "archiving", model |-> txn[w].model, loaded |-> txn[w].loaded,
                     found |-> Champions(txn[w].model.name) \ {txn[w].model}]
    <3>3. Continue(w, t) /\ UNCHANGED <<versions, stage>>
      BY <2>1 DEF FindChampions, modelVars
    <3>4. /\ t.model = txn[w].model /\ t.loaded = txn[w].loaded
          /\ t.found = Champions(txn[w].model.name) \ {txn[w].model}
      OBVIOUS
    <3> HIDE DEF t
    <3> QED BY <3>1, <3>2, <3>3, <3>4 DEF IsACall, PromotionInv
  <2>2. ASSUME NEW m \in Models, Promote(w, m)
        PROVE  \E t : /\ IsACall(w, t) /\ UNCHANGED <<versions, stage>> /\ t.model = m
                      /\ t.loaded = stage[m] /\ stage[m] # "none" /\ t.at = "promoting"
    BY <2>2 DEF Promote, modelVars, IsACall
  <2> QED BY <2>1, <2>2
<1>2. /\ overlap' = overlap /\ txn'[w] = t
      /\ \A v \in Workers \ {w} : txn'[v] = txn[v]
  BY <1>1, TurnFacts
<1>3. \A name : Champions(name)' = Champions(name)
  BY <1>1 DEF Champions
<1>4. \A v \in Workers : PromotionInv(v)'
  BY <1>1, <1>2, <1>3 DEF ChampionsInv, PromotionInv
<1> QED BY <1>1, <1>2, <1>3, <1>4 DEF ChampionsInv, OneChampionInTurn

LEMMA CommitPromotionKeeps ==
  ASSUME ChampionsInv, TurnsInv, NEW w \in Workers, CommitPromotion(w)
  PROVE  ChampionsInv'
<1> DEFINE t == txn[w]
<1>1. /\ t.at = "archiving" /\ IsACall(w, Closed) /\ versions' = versions
      /\ stage' = [m \in Models |-> StageAfter(t, m)]
  BY DEF CommitPromotion, IsACall, Closed, End
<1>2. /\ overlap' = overlap /\ txn'[w] = Closed
      /\ \A v \in Workers \ {w} : txn'[v] = txn[v] /\ (overlap \/ txn[v] = Closed)
  BY <1>1, TurnFacts
<1>3. /\ t.model \in Models /\ stage[t.model] # "none"
      /\ overlap \/ /\ t.loaded = stage[t.model]
                    /\ t.found = Champions(t.model.name) \ {t.model}
  BY <1>1 DEF ChampionsInv, PromotionInv
<1> HIDE DEF t
<1>4. ASSUME NEW m \in Models PROVE stage'[m] # "none" <=> stage[m] # "none"
  BY <1>1, <1>3 DEF StageAfter
<1>5. ASSUME NEW v \in Workers PROVE PromotionInv(v)'
  <2>1. CASE v = w
    BY <1>2, <2>1 DEF PromotionInv, Closed
  <2>2. CASE v # w
    <3>1. txn'[v] = txn[v] /\ (overlap \/ txn[v].at = "closed")
      BY <1>2, <2>2 DEF Closed
    <3>2. PromotionInv(v)
      BY DEF ChampionsInv
    <3> QED BY <1>2, <1>4, <3>1, <3>2 DEF PromotionInv
  <2> QED BY <2>1, <2>2
<1>6. ASSUME ~overlap, NEW m \in Models, stage'[m] \in {"champion", "archived"}
      PROVE  \E c \in Models : Champions(m.name)' = {c}
  <2>1. t.found = {n \in Models : n.name = t.model.name /\ stage[n] = "champion"} \ {t.model}
    BY <1>3, <1>6 DEF Champions
  <2>2. stage'[t.model] = "champion"
    BY <1>1, <1>3, <1>6, <2>1 DEF StageAfter
  <2>3. ASSUME NEW n \in Models \ {t.model}
        PROVE  stage'[n] = IF n.name = t.model.name /\ stage[n] = "champion" THEN "archived"
                           ELSE stage[n]
    BY <1>1, <2>1 DEF StageAfter
  <2>4. CASE m.name = t.model.name
    <3>1. Champions(m.name)' = {t.model}
      BY <1>3, <2>2, <2>3, <2>4 DEF Champions
    <3> QED BY <1>3, <3>1
  <2>5. CASE m.name # t.model.name
    <3>1. Champions(m.name)' = Champions(m.name)
      BY <2>3, <2>5 DEF Champions
    <3>2. stage[m] \in {"champion", "archived"}
      BY <1>6, <2>3, <2>5
    <3> QED BY <1>6, <3>1, <3>2 DEF ChampionsInv, OneChampionInTurn
  <2> QED BY <2>4, <2>5
<1>7. stage' = [m \in Models |-> stage'[m]]
  BY <1>1
<1>8. \A m \in Models : stage'[m] # "none" => Existing(versions', ModelKey(m)) # {}
  BY <1>1, <1>4 DEF ChampionsInv
<1> QED BY <1>2, <1>5, <1>6, <1>7, <1>8 DEF ChampionsInv, OneChampionInTurn

(* Promotions that take turns leave one champion to every name that had one, *)
(* for any number of callers, names and versions (machine_learning/          *)
(* persistence.py:103-119).                                                  *)
THEOREM OneChampion == Spec => []OneChampionInTurn
<1>1. Init => ChampionsInv
  BY DEF Init, ModelInit, CallsInit, ChampionsInv, PromotionInv, OneChampionInTurn, Closed
<1>2. ASSUME ChampionsInv, TurnsInv, [Next]_vars PROVE ChampionsInv'
  <2>1. CASE UNCHANGED vars
    BY <1>2, <2>1 DEF vars, ChampionsInv, PromotionInv, OneChampionInTurn, Champions
  <2>2. CASE Tick /\ UNCHANGED <<riskVars, modelVars, evidenceVars>>
    BY <1>2, <2>2 DEF Tick, modelVars, ChampionsInv, PromotionInv, OneChampionInTurn, Champions
  <2>3. ASSUME NEW w \in Workers, NEW t, IsACall(w, t),
               Rollback(w) \/ UNCHANGED modelVars, t.at \notin {"promoting", "archiving"}
        PROVE  ChampionsInv'
    BY <1>2, <2>3, NoPromotion DEF Rollback, modelVars
  <2>4. ASSUME NEW w \in Workers, NEW t, IsACall(w, t), ModelStep(w)
        PROVE  ChampionsInv'
    <3>1. ASSUME NEW r, Register(w, r) PROVE ChampionsInv'
      <4>1. \E s : IsACall(w, s) /\ s.at \in {"closed", "registering"} /\ UNCHANGED modelVars
        BY <3>1 DEF Register, IsACall, Closed
      <4> QED BY <1>2, <4>1, NoPromotion DEF modelVars
    <3>2. ASSUME NEW p, Log(w, p) PROVE ChampionsInv'
      <4>1. \E s : IsACall(w, s) /\ s.at \in {"closed", "logging"} /\ UNCHANGED modelVars
        BY <3>2 DEF Log, IsACall, Closed
      <4> QED BY <1>2, <4>1, NoPromotion DEF modelVars
    <3>3. CASE CommitPrediction(w)
      <4>1. IsACall(w, Closed) /\ Closed.at = "closed" /\ UNCHANGED <<versions, stage>>
        BY <3>3 DEF CommitPrediction, IsACall, Closed, End
      <4> QED BY <1>2, <4>1, NoPromotion
    <3> QED BY <1>2, <2>4, <3>1, <3>2, <3>3, CommitVersionKeeps, PromoteKeeps,
               CommitPromotionKeeps DEF ModelStep
  <2> QED BY <1>2, <2>1, <2>2, <2>3, <2>4, StepIsACall
<1>3. ChampionsInv => OneChampionInTurn
  BY DEF ChampionsInv
<1> QED BY <1>1, <1>2, <1>3, TablesAlways, PTL DEF Spec

-----------------------------------------------------------------------------
(* Audit events say what happened to the switch and to tokens. *)

AuditsInv ==
  /\ \E S : audits \in Seq(S)
  /\ \A i \in DOMAIN audits :
       IsChange(audits[i]) => audits[i].resource = <<"safety_state", "kill_switch">>
  /\ ControlsAreAudited

SwitchingInv(w) ==
  txn[w].at = "switching" =>
    /\ txn[w].request = [enabled |-> txn[w].request.enabled, by |-> txn[w].request.by]
    /\ overlap \/ txn[w].loaded = switch

ControlsInv == AuditsInv /\ \A w \in Workers : SwitchingInv(w)

(* One more event in the audit. *)
LEMMA OneMoreEvent ==
  ASSUME NEW S, NEW s \in Seq(S), NEW e
  PROVE  LET n == Len(s) + 1
             t == Append(s, e)
         IN /\ t \in Seq(S \cup {e})
            /\ DOMAIN t = DOMAIN s \cup {n} /\ n \notin DOMAIN s /\ t[n] = e
            /\ \A i \in DOMAIN s : t[i] = s[i] /\ i <= n
            /\ n <= n
<1>1. s \in Seq(S \cup {e})
  OBVIOUS
<1> QED BY <1>1

LEMMA CommitSwitchKeeps ==
  ASSUME ControlsInv, TurnsInv, TablesInv, NEW w \in Workers, CommitSwitch(w),
         UNCHANGED <<accessVars, modelVars>>
  PROVE  ControlsInv'
<1> DEFINE q == txn[w].request
           e == SwitchEvent(q)
           n == Len(audits) + 1
<1>1. /\ txn[w].at = "switching" /\ IsACall(w, Closed)
      /\ audits' = Append(audits, e) /\ revocations' = revocations
  BY DEF CommitSwitch, IsACall, End, Closed, Audit, accessVars
<1>2. /\ overlap' = overlap /\ txn'[w] = Closed
      /\ \A v \in Workers \ {w} : txn'[v] = txn[v] /\ (overlap \/ txn[v] = Closed)
  BY <1>1, TurnFacts
<1>3. /\ IsChange(e) /\ e.resource = <<"safety_state", "kill_switch">>
      /\ e.enabled = q.enabled /\ e.by = q.by
  BY DEF SwitchEvent, IsChange
<1>4. q = [enabled |-> q.enabled, by |-> q.by] /\ (overlap \/ txn[w].loaded = switch)
  BY <1>1 DEF ControlsInv, SwitchingInv
<1>5. PICK S : audits \in Seq(S)
  BY DEF ControlsInv, AuditsInv
<1> HIDE DEF e, n
<1>6. /\ audits' \in Seq(S \cup {e})
      /\ DOMAIN audits' = DOMAIN audits \cup {n} /\ n \notin DOMAIN audits /\ audits'[n] = e
      /\ \A i \in DOMAIN audits : audits'[i] = audits[i] /\ i <= n
      /\ n <= n
  BY <1>1, <1>5, OneMoreEvent DEF n
<1>7. RevocationsAreAudited'
  <2>1. ASSUME NEW i \in DOMAIN audits, ~IsChange(audits[i])
        PROVE  audits[i].resource # <<"safety_state", "kill_switch">>
    <3>1. PICK r \in revocations : audits[i] = RevocationEvent(r)
      BY <2>1 DEF ControlsInv, AuditsInv, ControlsAreAudited, RevocationsAreAudited
    <3>2. audits[i].resource[1] = "revocation"
      BY <3>1 DEF RevocationEvent, TablesInv, OfKind
    <3> QED BY <3>2
  <2>2. \A r \in revocations' : \E i \in DOMAIN audits' : audits'[i] = RevocationEvent(r)
    BY <1>1, <1>6 DEF ControlsInv, AuditsInv, ControlsAreAudited, RevocationsAreAudited
  <2>3. \A i, j \in DOMAIN audits' :
          ~IsChange(audits'[i]) /\ audits'[i].resource = audits'[j].resource => i = j
    BY <1>3, <1>6, <2>1 DEF ControlsInv, AuditsInv, ControlsAreAudited, RevocationsAreAudited
  <2>4. \A i \in DOMAIN audits' :
          IsChange(audits'[i]) \/ \E r \in revocations' : audits'[i] = RevocationEvent(r)
    BY <1>1, <1>3, <1>6 DEF ControlsInv, AuditsInv, ControlsAreAudited, RevocationsAreAudited
  <2> QED BY <2>2, <2>3, <2>4 DEF RevocationsAreAudited
<1>8. ASSUME ~overlap PROVE switch' = {[enabled |-> q.enabled, by |-> q.by]}
  <2>1. txn[w].loaded = switch
    BY <1>4, <1>8
  <2>2. CASE switch = NotConfigured
    BY <1>4, <2>1, <2>2 DEF CommitSwitch
  <2>3. CASE switch # NotConfigured
    <3>1. PICK l : switch = {l}
      BY <1>8, <2>3 DEF ControlsInv, AuditsInv, ControlsAreAudited, SwitchIsAsAudited
    <3>2. switch' = {UpdatedSwitch(l, l, q)}
      BY <2>1, <2>3, <3>1 DEF CommitSwitch
    <3> QED BY <3>2 DEF UpdatedSwitch, Written
  <2> QED BY <2>2, <2>3
<1>9. ~overlap => SwitchIsAsAudited'
  BY <1>3, <1>6, <1>8 DEF SwitchIsAsAudited, NotConfigured
<1>10. AuditsInv'
  BY <1>2, <1>3, <1>6, <1>7, <1>9 DEF ControlsInv, AuditsInv, ControlsAreAudited
<1>11. ASSUME NEW v \in Workers PROVE SwitchingInv(v)'
  <2>1. CASE v = w
    BY <1>2, <2>1 DEF SwitchingInv, Closed
  <2>2. CASE v # w
    BY <1>2, <2>2 DEF ControlsInv, SwitchingInv, Closed
  <2> QED BY <2>1, <2>2
<1> QED BY <1>10, <1>11 DEF ControlsInv

LEMMA CommitRevocationKeeps ==
  ASSUME ControlsInv, TurnsInv, TablesInv, NEW w \in Workers, CommitRevocation(w),
         UNCHANGED <<riskVars, modelVars>>
  PROVE  ControlsInv'
<1> DEFINE x == txn[w].record
           e == RevocationEvent(x)
           n == Len(audits) + 1
<1>1. /\ txn[w].at = "revoking" /\ IsACall(w, Closed) /\ Existing(revocations, x.key) = {}
      /\ audits' = Append(audits, e) /\ revocations' = revocations \cup {x}
      /\ switch' = switch
  BY DEF CommitRevocation, IsACall, End, Closed, Audit, riskVars
<1>2. /\ overlap' = overlap /\ txn'[w] = Closed
      /\ \A v \in Workers \ {w} : txn'[v] = txn[v] /\ (overlap \/ txn[v] = Closed)
  BY <1>1, TurnFacts
<1>3. /\ ~IsChange(e) /\ e.resource = x.key /\ x.key[1] = "revocation"
      /\ e = RevocationEvent(x)
  BY <1>1 DEF RevocationEvent, IsChange, TablesInv
<1>4. PICK S : audits \in Seq(S)
  BY DEF ControlsInv, AuditsInv
<1> HIDE DEF e, n, x
<1>5. /\ audits' \in Seq(S \cup {e})
      /\ DOMAIN audits' = DOMAIN audits \cup {n} /\ n \notin DOMAIN audits /\ audits'[n] = e
      /\ \A i \in DOMAIN audits : audits'[i] = audits[i] /\ i <= n
      /\ n <= n
  BY <1>1, <1>4, OneMoreEvent DEF n
<1>6. ASSUME NEW i \in DOMAIN audits PROVE audits[i].resource # x.key
  <2>1. CASE IsChange(audits[i])
    <3>1. audits[i].resource[1] = "safety_state"
      BY <2>1 DEF ControlsInv, AuditsInv
    <3> QED BY <1>3, <3>1
  <2>2. CASE ~IsChange(audits[i])
    <3>1. PICK r \in revocations : audits[i] = RevocationEvent(r)
      BY <2>2 DEF ControlsInv, AuditsInv, ControlsAreAudited, RevocationsAreAudited
    <3>2. audits[i].resource = r.key
      BY <3>1 DEF RevocationEvent
    <3> QED BY <1>1, <3>2 DEF Existing
  <2> QED BY <2>1, <2>2
<1>7. RevocationsAreAudited'
  <2>1. \A r \in revocations' : \E i \in DOMAIN audits' : audits'[i] = RevocationEvent(r)
    BY <1>1, <1>3, <1>5 DEF ControlsInv, AuditsInv, ControlsAreAudited, RevocationsAreAudited
  <2>2. \A i, j \in DOMAIN audits' :
          ~IsChange(audits'[i]) /\ audits'[i].resource = audits'[j].resource => i = j
    BY <1>3, <1>5, <1>6 DEF ControlsInv, AuditsInv, ControlsAreAudited, RevocationsAreAudited
  <2>3. \A i \in DOMAIN audits' :
          IsChange(audits'[i]) \/ \E r \in revocations' : audits'[i] = RevocationEvent(r)
    BY <1>1, <1>3, <1>5 DEF ControlsInv, AuditsInv, ControlsAreAudited, RevocationsAreAudited
  <2> QED BY <2>1, <2>2, <2>3 DEF RevocationsAreAudited
<1>8. ~overlap => SwitchIsAsAudited'
  BY <1>1, <1>3, <1>5 DEF ControlsInv, AuditsInv, ControlsAreAudited, SwitchIsAsAudited
<1>9. AuditsInv'
  BY <1>2, <1>3, <1>5, <1>7, <1>8 DEF ControlsInv, AuditsInv, ControlsAreAudited
<1>10. ASSUME NEW v \in Workers PROVE SwitchingInv(v)'
  <2>1. CASE v = w
    BY <1>2, <2>1 DEF SwitchingInv, Closed
  <2>2. CASE v # w
    BY <1>1, <1>2, <2>2 DEF ControlsInv, SwitchingInv
  <2> QED BY <2>1, <2>2
<1> QED BY <1>9, <1>10 DEF ControlsInv

(* Steps that commit neither. *)
LEMMA NoEventKeeps ==
  ASSUME ControlsInv, TurnsInv, NEW w \in Workers, NEW t, IsACall(w, t),
         UNCHANGED <<audits, switch, revocations>>,
         t.at = "switching" =>
           /\ t.request = [enabled |-> t.request.enabled, by |-> t.request.by]
           /\ overlap \/ t.loaded = switch
  PROVE  ControlsInv'
<1>1. /\ overlap' = overlap /\ txn'[w] = t
      /\ \A v \in Workers \ {w} : txn'[v] = txn[v]
  BY TurnFacts
<1>2. AuditsInv'
  BY <1>1 DEF ControlsInv, AuditsInv, ControlsAreAudited, SwitchIsAsAudited, RevocationsAreAudited
<1>3. ASSUME NEW v \in Workers PROVE SwitchingInv(v)'
  BY <1>1 DEF ControlsInv, SwitchingInv
<1> QED BY <1>2, <1>3 DEF ControlsInv

LEMMA ReadSwitchKeeps ==
  ASSUME ControlsInv, TurnsInv, NEW w \in Workers, NEW q, ReadSwitch(w, q),
         q = [enabled |-> q.enabled, by |-> q.by], UNCHANGED <<accessVars, modelVars>>
  PROVE  ControlsInv'
<1> DEFINE t == [at |-> "switching", request |-> q, loaded |-> switch]
<1>1. IsACall(w, t) /\ UNCHANGED <<audits, switch, revocations>>
  BY DEF ReadSwitch, IsACall, riskVars, accessVars
<1>2. t.request = q /\ t.loaded = switch
  OBVIOUS
<1> HIDE DEF t
<1> QED BY <1>1, <1>2, NoEventKeeps

LEMMA ControlsStep == ControlsInv /\ TablesInv /\ TurnsInv /\ [Next]_vars => ControlsInv'
<1> SUFFICES ASSUME ControlsInv, TablesInv, TurnsInv, [Next]_vars PROVE ControlsInv'
  OBVIOUS
<1>1. CASE UNCHANGED vars \/ (Tick /\ UNCHANGED <<riskVars, modelVars, evidenceVars>>)
  BY <1>1 DEF vars, Tick, riskVars, modelVars, ControlsInv, AuditsInv, SwitchingInv,
              ControlsAreAudited, SwitchIsAsAudited, RevocationsAreAudited
<1>2. ASSUME NEW w \in Workers, NEW t, IsACall(w, t), t.at # "switching",
             UNCHANGED <<audits, switch, revocations>>
      PROVE  ControlsInv'
  BY <1>2, NoEventKeeps
<1>3. ASSUME NEW w \in Workers, NEW t, IsACall(w, t), RiskStep(w),
             UNCHANGED <<accessVars, modelVars>>
      PROVE  ControlsInv'
  <2>1. ASSUME NEW request \in SwitchRequests, ReadSwitch(w, request) PROVE ControlsInv'
    BY <1>3, <2>1, ReadSwitchKeeps, ControlsAssumption
  <2>2. ASSUME NEW e, AutomaticKill(w, e.context) PROVE ControlsInv'
    BY <1>3, <2>2, ReadSwitchKeeps DEF AutomaticKill
  <2>3. CASE CommitSwitch(w)
    BY <1>3, <2>3, CommitSwitchKeeps
  <2>4. ASSUME NEW e, LoadConfiguration(w, e) PROVE ControlsInv'
    <3>1. \E s : IsACall(w, s) /\ s.at = "configured"
      BY <2>4 DEF LoadConfiguration, IsACall
    <3> QED BY <1>2, <1>3, <2>4, <3>1 DEF LoadConfiguration, riskVars, accessVars
  <2>5. CASE LookUpDecision(w)
    <3>1. \E s : IsACall(w, s) /\ s.at \in {"closed", "deciding"}
      BY <2>5 DEF LookUpDecision, IsACall, End, Closed
    <3> QED BY <1>2, <1>3, <2>5, <3>1 DEF LookUpDecision, riskVars, accessVars
  <2>6. CASE CommitDecision(w)
    <3>1. \E s : IsACall(w, s) /\ s.at = "closed"
      BY <2>6 DEF CommitDecision, IsACall, End, Closed
    <3> QED BY <1>2, <1>3, <2>6, <3>1 DEF CommitDecision, accessVars
  <2> QED BY <1>3, <2>1, <2>2, <2>3, <2>4, <2>5, <2>6 DEF RiskStep
<1>4. ASSUME NEW w \in Workers, NEW t, IsACall(w, t), AccessStep(w), t.at # "switching",
             UNCHANGED <<riskVars, modelVars>>
      PROVE  ControlsInv'
  BY <1>2, <1>4, CommitRevocationKeeps DEF AccessStep, Admit, LookUpRevocation, riskVars, accessVars
<1>5. ASSUME NEW w \in Workers, NEW t, IsACall(w, t), ModelStep(w), t.at # "switching",
             UNCHANGED <<riskVars, accessVars>>
      PROVE  ControlsInv'
  <2>1. audits' = audits
    BY <1>5 DEF ModelStep, Register, CommitVersion, Promote, FindChampions, CommitPromotion,
                Log, CommitPrediction
  <2> QED BY <1>2, <1>5, <2>1 DEF riskVars, accessVars
<1>6. ASSUME NEW w \in Workers, NEW t, IsACall(w, t), EvidenceStep(w), t.at # "switching",
             UNCHANGED <<riskVars, modelVars>>
      PROVE  ControlsInv'
  <2>1. UNCHANGED <<audits, accessVars>>
    BY <1>6 DEF EvidenceStep, Store, CommitDataset, CreateSession, CommitSession, ReadRaw,
                LookUpSnapshot, CommitChain, LatestAsOf
  <2> QED BY <1>2, <1>6, <2>1 DEF riskVars, accessVars
<1>7. ASSUME NEW w \in Workers, NEW t, IsACall(w, t), Rollback(w), t.at = "closed"
      PROVE  ControlsInv'
  BY <1>2, <1>7 DEF Rollback, riskVars, accessVars
<1> QED BY <1>1, <1>3, <1>4, <1>5, <1>6, <1>7, StepIsACall

LEMMA ControlsAlways == Spec => []ControlsInv
<1>1. Init => ControlsInv
  <2> SUFFICES ASSUME Init PROVE ControlsInv
    OBVIOUS
  <2>1. /\ audits = <<>> /\ switch = NotConfigured /\ revocations = {}
        /\ \A w \in Workers : txn[w].at = "closed"
    BY DEF Init, CallsInit, RiskInit, AccessInit, Closed
  <2>2. audits \in Seq({}) /\ DOMAIN audits = {}
    BY <2>1
  <2> QED BY <2>1, <2>2 DEF ControlsInv, AuditsInv, SwitchingInv, ControlsAreAudited,
                          SwitchIsAsAudited, RevocationsAreAudited
<1> QED BY <1>1, ControlsStep, TablesAlways, PTL DEF Spec

(* Every revocation has its one audit event, and the switch of callers who   *)
(* take turns is what the last audited change made it, for any number of     *)
(* changes and callers (risk_engine/persistence.py:217-286,                  *)
(* auth/persistence.py:15-61).                                               *)
THEOREM ControlsAudited == Spec => []ControlsAreAudited
<1>1. ControlsInv => ControlsAreAudited
  BY DEF ControlsInv, AuditsInv
<1> QED BY <1>1, ControlsAlways, PTL

-----------------------------------------------------------------------------
(* Under the switch. *)

LEMMA KillRejects ==
  ASSUME NEW intent, NEW context, NEW limits, NEW price, NEW stop,
         context.killSwitch = TRUE, ~intent.exit
  PROVE  ~Approves(EvaluateOrderRisk(intent, context, limits, price, stop))
<1>1. <<"KILL_SWITCH", context.killSwitch>> \in LockConditions(context, limits)
  BY DEF LockConditions
<1>2. "KILL_SWITCH" \in EntryLocks(context, limits)
  <2> DEFINE lock == <<"KILL_SWITCH", context.killSwitch>>
  <2>1. lock \in LockConditions(context, limits) /\ lock[1] = "KILL_SWITCH" /\ lock[2]
    BY <1>1
  <2> HIDE DEF lock
  <2> QED BY <2>1 DEF EntryLocks
<1>3. EvaluateEntry(intent, context, limits, price, stop) = Rejected(EntryLocks(context, limits))
  BY <1>2 DEF EvaluateEntry
<1>4. \A reasons : ~Approves(Rejected(reasons))
  BY DEF Approves, Rejected, Decision
<1> QED BY <1>3, <1>4 DEF EvaluateOrderRisk

UnderSwitch(w) ==
  txn[w].at \in {"configured", "deciding"} =>
    overlap \/ ~IsEngaged \/ txn[w].request.context.killSwitch = TRUE

KillInv ==
  /\ \A d \in decisions : \E e : d = Decided(e)
  /\ \A w \in Workers : UnderSwitch(w)

LEMMA KillKeeps ==
  ASSUME KillInv, TurnsInv, NEW w \in Workers, NEW t, IsACall(w, t),
         \A d \in decisions' \ decisions : \E e : d = Decided(e),
         switch' = switch \/ t.at = "closed",
         t.at \in {"configured", "deciding"} =>
           overlap \/ ~IsEngaged \/ t.request.context.killSwitch = TRUE
  PROVE  KillInv'
<1>1. /\ overlap' = overlap /\ txn'[w] = t
      /\ \A v \in Workers \ {w} : txn'[v] = txn[v] /\ (overlap \/ txn[v].at = "closed")
  BY TurnFacts DEF Closed
<1>2. ASSUME NEW v \in Workers PROVE UnderSwitch(v)'
  <2>1. CASE switch' = switch
    BY <1>1, <2>1 DEF KillInv, UnderSwitch, IsEngaged
  <2>2. CASE t.at = "closed"
    BY <1>1, <2>2 DEF KillInv, UnderSwitch
  <2> QED BY <2>1, <2>2
<1>3. \A d \in decisions' : \E e : d = Decided(e)
  BY DEF KillInv
<1> QED BY <1>2, <1>3 DEF KillInv, Decided, Entry, DecisionKey, Fingerprint

LEMMA LoadConfigurationKeeps ==
  ASSUME KillInv, TurnsInv, NEW w \in Workers, NEW e \in Evaluations, LoadConfiguration(w, e)
  PROVE  KillInv'
<1> DEFINE q == WithSwitch(e, IsEngaged)
           t == [at |-> "configured", request |-> q]
<1>1. IsACall(w, t) /\ decisions' = decisions /\ switch' = switch
  BY DEF LoadConfiguration, IsACall, riskVars
<1>2. IsEngaged => q.context.killSwitch = TRUE
  <2> SUFFICES ASSUME IsEngaged PROVE q.context.killSwitch = TRUE
    OBVIOUS
  <2>1. "context" \in DOMAIN e /\ "killSwitch" \in DOMAIN e.context
    BY ControlsAssumption
  <2>2. q.context = [e.context EXCEPT !.killSwitch = @ \/ IsEngaged]
    BY <2>1 DEF WithSwitch
  <2> QED BY <2>1, <2>2
<1>3. t.at = "configured" /\ t.request = q
  OBVIOUS
<1> HIDE DEF t, q
<1> QED BY <1>1, <1>2, <1>3, KillKeeps

LEMMA LookUpDecisionKeeps ==
  ASSUME KillInv, TurnsInv, NEW w \in Workers, LookUpDecision(w)
  PROVE  KillInv'
<1>1. /\ txn[w].at = "configured" /\ txn[w] # Closed /\ UNCHANGED <<decisions, switch>>
  BY DEF LookUpDecision, Closed, riskVars
<1>2. CASE Continue(w, Closed)
  BY <1>1, <1>2, KillKeeps DEF IsACall, Closed
<1>3. CASE Continue(w, [at |-> "deciding", request |-> txn[w].request])
  <2> DEFINE t == [at |-> "deciding", request |-> txn[w].request]
  <2>1. IsACall(w, t) /\ t.at = "deciding" /\ t.request = txn[w].request
    BY <1>1, <1>3 DEF IsACall
  <2> HIDE DEF t
  <2>2. UnderSwitch(w)
    BY DEF KillInv
  <2> QED BY <1>1, <2>1, <2>2, KillKeeps DEF UnderSwitch
<1> QED BY <1>2, <1>3 DEF LookUpDecision, End

LEMMA KillStep == KillInv /\ TurnsInv /\ [Next]_vars => KillInv'
<1> SUFFICES ASSUME KillInv, TurnsInv, [Next]_vars PROVE KillInv'
  OBVIOUS
<1>1. CASE UNCHANGED vars \/ (Tick /\ UNCHANGED <<riskVars, modelVars, evidenceVars>>)
  <2>1. UNCHANGED <<decisions, switch, txn, overlap>>
    BY <1>1 DEF vars, Tick, riskVars
  <2> QED BY <2>1 DEF KillInv, UnderSwitch, IsEngaged, Decided, Entry, DecisionKey, Fingerprint
<1>2. ASSUME NEW w \in Workers, NEW t, IsACall(w, t), t.at \notin {"configured", "deciding"},
             UNCHANGED riskVars
      PROVE  KillInv'
  BY <1>2, KillKeeps DEF riskVars
<1>3. ASSUME NEW w \in Workers, RiskStep(w) PROVE KillInv'
  <2>1. ASSUME NEW q, ReadSwitch(w, q) PROVE KillInv'
    <3>1. \E s : IsACall(w, s) /\ s.at = "switching"
      BY <2>1 DEF ReadSwitch, IsACall
    <3> QED BY <1>2, <2>1, <3>1 DEF ReadSwitch
  <2>2. CASE CommitSwitch(w)
    <3>1. IsACall(w, Closed) /\ Closed.at = "closed" /\ decisions' = decisions
      BY <2>2 DEF CommitSwitch, IsACall, End, Closed
    <3> QED BY <3>1, KillKeeps
  <2>3. CASE CommitDecision(w)
    <3>1. IsACall(w, Closed) /\ Closed.at = "closed" /\ switch' = switch
          /\ decisions' = decisions \cup {Decided(txn[w].request)}
      BY <2>3 DEF CommitDecision, IsACall, End, Closed
    <3>2. \A d \in decisions' \ decisions : d = Decided(txn[w].request)
      BY <3>1
    <3> QED BY <3>1, <3>2, KillKeeps
  <2> QED BY <1>3, <2>1, <2>2, <2>3, LoadConfigurationKeeps, LookUpDecisionKeeps
          DEF RiskStep, AutomaticKill
<1>4. ASSUME NEW w \in Workers, NEW t, IsACall(w, t), Rollback(w), t.at = "closed"
      PROVE  KillInv'
  BY <1>2, <1>4 DEF Rollback
<1> QED BY <1>1, <1>2, <1>3, <1>4, StepIsACall

(* A decision that is told is that of the call's inputs. *)
LEMMA ToldIsDecided ==
  ASSUME KillInv, TablesInv, Next, NEW r \in told', r.key[1] = "decision"
  PROVE  \E w \in Workers : /\ txn[w].at \in {"configured", "deciding"}
                            /\ r = Decided(txn[w].request)
<1>1. ASSUME NEW w \in Workers, LookUpDecision(w)
      PROVE  /\ txn[w].at = "configured"
             /\ r = Decided(txn[w].request)
  <2> DEFINE e == txn[w].request
  <2>1. r \in decisions /\ r.content.fingerprint = Decided(e).content.fingerprint
    BY <1>1 DEF LookUpDecision, Existing
  <2>2. PICK d : r = Decided(d)
    BY <2>1 DEF KillInv
  <2>3. \A x : Decided(x).content.fingerprint = <<x, Policy(x.context.now)>>
    BY DEF Decided, Entry, Fingerprint
  <2> HIDE DEF e
  <2>4. d = e
    BY <2>1, <2>2, <2>3
  <2> QED BY <1>1, <2>2, <2>4 DEF LookUpDecision, e
<1>2. ASSUME NEW w \in Workers, RiskStep(w)
      PROVE  /\ txn[w].at \in {"configured", "deciding"}
             /\ r = Decided(txn[w].request)
  <2>1. ASSUME NEW q, ReadSwitch(w, q) PROVE FALSE
    BY <2>1 DEF ReadSwitch
  <2>2. ASSUME NEW e, LoadConfiguration(w, e) PROVE FALSE
    BY <2>2 DEF LoadConfiguration
  <2>3. CASE CommitSwitch(w)
    BY <2>3 DEF CommitSwitch
  <2>4. CASE CommitDecision(w)
    BY <2>4 DEF CommitDecision
  <2> QED BY <1>1, <1>2, <2>1, <2>2, <2>3, <2>4 DEF RiskStep, AutomaticKill
<1>3. ASSUME NEW w \in Workers, AccessStep(w) PROVE FALSE
  BY <1>3 DEF AccessStep, Admit, LookUpRevocation, CommitRevocation, Existing, TablesInv, OfKind
<1>4. ASSUME NEW w \in Workers, ModelStep(w) PROVE FALSE
  <2>1. \A m : ModelKey(m)[1] = "model"
    BY DEF ModelKey
  <2>2. \A p : PredictionEntry(p).key[1] = "prediction"
    BY DEF PredictionEntry, Entry
  <2>3. \A key, content : Entry(key, content).key = key
    BY DEF Entry
  <2>4. ASSUME NEW m, Register(w, m) PROVE FALSE
    BY <2>1, <2>4 DEF Register, Existing
  <2>5. ASSUME NEW p, Log(w, p) PROVE FALSE
    BY <2>2, <2>5 DEF Log, Existing
  <2>6. CASE CommitVersion(w)
    BY <2>1, <2>3, <2>6 DEF CommitVersion
  <2>7. CASE CommitPrediction(w)
    BY <2>2, <2>7 DEF CommitPrediction
  <2> QED BY <1>4, <2>4, <2>5, <2>6, <2>7 DEF ModelStep, Promote, FindChampions, CommitPromotion
<1>5. ASSUME NEW w \in Workers, EvidenceStep(w) PROVE FALSE
  <2>1. ASSUME NEW x, Store(w, x) \/ CreateSession(w, x) PROVE FALSE
    BY <2>1 DEF Store, CreateSession, Existing, TablesInv, OfKind
  <2>2. ASSUME NEW x, ReadRaw(w, x) \/ LatestAsOf(w, x) \/ LookUpSnapshot(w) PROVE FALSE
    BY <2>2 DEF ReadRaw, LatestAsOf, LatestChains, KnownAt, LookUpSnapshot, Existing,
                      TablesInv, OfKind
  <2>3. \A x, y : Entry(x, y).key = x
    BY DEF Entry
  <2>4. /\ \A x : DatasetKey(x)[1] = "dataset"
        /\ \A x : SessionEntry(x).key[1] = "session"
        /\ \A x : ChainEntry(x).key[1] = "chain"
    BY <2>3 DEF DatasetKey, SessionEntry, ChainEntry
  <2>5. ASSUME CommitDataset(w) \/ CommitSession(w) \/ CommitChain(w) PROVE FALSE
    BY <2>3, <2>4, <2>5 DEF CommitDataset, CommitSession, CommitChain
  <2> QED BY <1>5, <2>1, <2>2, <2>5 DEF EvidenceStep
<1> QED BY <1>2, <1>3, <1>4, <1>5 DEF Next, Tick, Rollback

EntryUnderKill == ~overlap /\ IsEngaged => ~\E r \in told' : ApprovesEntry(r)

(* No caller who takes turns is told an approved entry under the switch, not  *)
(* even one approved before it was engaged, for any intent, limits and        *)
(* number of callers (risk_engine/persistence.py:79-132, engine.py).          *)
THEOREM NoEntryUnderKill == Spec => NoEntryUnderKillInTurn
<1>1. Init => KillInv
  BY DEF Init, CallsInit, RiskInit, Closed, KillInv, UnderSwitch
<1>2. ASSUME KillInv, TablesInv, Next PROVE EntryUnderKill
  <2> SUFFICES ASSUME ~overlap, IsEngaged, NEW r \in told', ApprovesEntry(r) PROVE FALSE
    BY DEF EntryUnderKill
  <2>1. PICK w \in Workers : /\ txn[w].at \in {"configured", "deciding"}
                            /\ r = Decided(txn[w].request)
    BY <1>2, ToldIsDecided DEF ApprovesEntry
  <2> DEFINE e == txn[w].request
  <2>2. e.context.killSwitch = TRUE
    BY <1>2, <2>1 DEF KillInv, UnderSwitch
  <2>3. \A x : /\ Decided(x).content.fingerprint[1] = x
               /\ Decided(x).content.decision =
                    EvaluateOrderRisk(x.intent, x.context, LimitsOf(Policy(x.context.now)),
                                      x.price, x.stop)
    BY DEF Decided, Entry, Fingerprint
  <2> HIDE DEF e
  <2>4. ~e.intent.exit /\ Approves(Decided(e).content.decision)
    BY <2>1, <2>3 DEF ApprovesEntry, e
  <2>5. ~Approves(EvaluateOrderRisk(e.intent, e.context, LimitsOf(Policy(e.context.now)),
                                    e.price, e.stop))
    BY <2>2, <2>4, KillRejects
  <2> QED BY <2>3, <2>4, <2>5
<1>3. KillInv /\ TablesInv /\ [Next]_vars => [EntryUnderKill]_vars
  BY <1>2
<1>4. Spec => [][EntryUnderKill]_vars
  BY <1>1, <1>3, KillStep, TablesAlways, PTL DEF Spec
<1> QED BY <1>4 DEF NoEntryUnderKillInTurn, EntryUnderKill
=============================================================================
