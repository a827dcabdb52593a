--------------------------- MODULE EvidenceTables ---------------------------
(***************************************************************************)
(* packages/replay/datasets.py, the creation of sessions in replay/          *)
(* persistence.py, and the chains of options/persistence.py: what replays    *)
(* and option studies refer to.  A digest stands for the candles it is of.   *)
(***************************************************************************)
EXTENDS AccessControl

CONSTANTS
  Datasets,         \* closed candles in order, of one instrument and timeframe
  SessionRequests,  \* [id, dataset]
  ChainEvents,      \* [source, event, chain, raw]; a chain is
                    \* [underlying, expiry, at, entries], an entry
                    \* [underlying, expiry, quoteAt, greeksAt]
  ChainQueries      \* [underlying, expiry, asOf]

VARIABLES
  datasets,   \* ReplayDatasetRecord
  sessions,   \* ReplaySessionRecord, without its progress
  chains      \* RawOptionChainRecord with its OptionChainSnapshotRecord

evidenceVars == <<datasets, sessions, chains>>

EvidenceInit == datasets = {} /\ sessions = {} /\ chains = {}

OperatorCalls == \E t \in Tokens : IsOperator(t)

-----------------------------------------------------------------------------
(* store: the same candles get the dataset that is there, with its time.     *)
DatasetKey(candles) == <<"dataset", candles>>

Store(w, candles) ==
  /\ OperatorCalls
  /\ LET existing == Existing(datasets, DatasetKey(candles))
     IN IF existing = {}
        THEN Begin(w, [at |-> "storing", candles |-> candles, time |-> now]) /\ told' = {}
        ELSE Begin(w, Closed) /\ told' = existing
  /\ UNCHANGED <<audits, accessVars, evidenceVars>>

(* The digest is the primary key. *)
CommitDataset(w) ==
  /\ txn[w].at = "storing"
  /\ LET record == Entry(DatasetKey(txn[w].candles), txn[w].time)
     IN /\ Existing(datasets, record.key) = {}
        /\ datasets' = datasets \cup {record}
        /\ told' = {record}
  /\ End(w)
  /\ UNCHANGED <<audits, accessVars, sessions, chains>>

-----------------------------------------------------------------------------
(* create: the dataset is loaded first; the same id with it gets the session *)
(* again, with another it is a conflict.                                     *)
SessionEntry(s) == Entry(<<"session", s.id>>, s.dataset)

CreateSession(w, s) ==
  /\ OperatorCalls
  /\ Existing(datasets, DatasetKey(s.dataset)) # {}
  /\ LET existing == Existing(sessions, SessionEntry(s).key)
     IN IF existing = {}
        THEN Begin(w, [at |-> "creating", request |-> s]) /\ told' = {}
        ELSE Begin(w, Closed) /\ told' = existing \cap {SessionEntry(s)}
  /\ UNCHANGED <<audits, accessVars, evidenceVars>>

CommitSession(w) ==
  /\ txn[w].at = "creating"
  /\ LET record == SessionEntry(txn[w].request)
     IN /\ Existing(sessions, record.key) = {}
        /\ sessions' = sessions \cup {record}
        /\ told' = {record}
  /\ End(w)
  /\ UNCHANGED <<audits, accessVars, datasets, chains>>

-----------------------------------------------------------------------------
(* _validate_chain: the entries are of the chain, and none is later.         *)
IsValid(chain) ==
  \A e \in chain.entries :
    /\ e.underlying = chain.underlying /\ e.expiry = chain.expiry
    /\ e.quoteAt <= chain.at /\ e.greeksAt <= chain.at

ChainEntry(c) == Entry(<<"chain", c.source, c.event>>, [chain |-> c.chain, raw |-> c.raw])

(* ingest: the raw events are read, *)
ReadRaw(w, c) ==
  /\ IsValid(c.chain)
  /\ Begin(w, [at |-> "ingesting", request |-> c,
               raw |-> Existing(chains, ChainEntry(c).key)])
  /\ told' = {}
  /\ UNCHANGED <<audits, accessVars, evidenceVars>>

(* then the snapshots: one without the other is refused, even if it was      *)
(* committed between the two reads.                                          *)
LookUpSnapshot(w) ==
  /\ txn[w].at = "ingesting"
  /\ LET t == txn[w]
         existing == Existing(chains, ChainEntry(t.request).key)
     IN IF existing = {} /\ t.raw = {}
        THEN Continue(w, [at |-> "adding", request |-> t.request]) /\ told' = {}
        ELSE /\ told' = {r \in existing : t.raw # {} /\ r = ChainEntry(t.request)}
             /\ End(w)
  /\ UNCHANGED <<audits, accessVars, evidenceVars>>

(* A source has one event by an id, and one chain of an expiry at a time.    *)
SameMoment(r, s) ==
  /\ r.key[2] = s.key[2]
  /\ \A part \in {"underlying", "expiry", "at"} : r.content.chain[part] = s.content.chain[part]

CommitChain(w) ==
  /\ txn[w].at = "adding"
  /\ LET record == ChainEntry(txn[w].request)
     IN /\ Existing(chains, record.key) = {}
        /\ \A r \in chains : ~SameMoment(r, record)
        /\ chains' = chains \cup {record}
        /\ told' = {record}
  /\ End(w)
  /\ UNCHANGED <<audits, accessVars, datasets, sessions>>

(* latest_as_of: of two sources with a chain of the same time, either.       *)
KnownAt(q) ==
  {r \in chains : /\ r.content.chain.underlying = q.underlying
                  /\ r.content.chain.expiry = q.expiry
                  /\ r.content.chain.at <= q.asOf}

LatestChains(q) ==
  {r \in KnownAt(q) : \A s \in KnownAt(q) : s.content.chain.at <= r.content.chain.at}

LatestAsOf(w, q) ==
  /\ Begin(w, Closed)
  /\ \E r \in LatestChains(q) : told' = {r}
  /\ UNCHANGED <<audits, accessVars, evidenceVars>>

EvidenceStep(w) ==
  \/ \E candles \in Datasets : Store(w, candles)
  \/ CommitDataset(w)
  \/ \E s \in SessionRequests : CreateSession(w, s)
  \/ CommitSession(w)
  \/ \E c \in ChainEvents : ReadRaw(w, c)
  \/ LookUpSnapshot(w)
  \/ CommitChain(w)
  \/ \E q \in ChainQueries : LatestAsOf(w, q)
=============================================================================
