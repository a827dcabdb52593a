---------------------------- MODULE AccessControl ----------------------------
(***************************************************************************)
(* packages/auth and the endpoints of apps/api/main.py: who is let in, and   *)
(* the operators who revoke tokens for good.  A token stands for its digest. *)
(***************************************************************************)
EXTENDS Transactions

CONSTANTS
  Tokens,        \* the configured tokens: [token, role, expires]
  Unlimited,     \* the expiry of a current token
  Deactivated,   \* tokens revoked by configuration
  Revocations,   \* what operators ask for: [token, reason, correlation]
  MaxTime        \* bound: the clock

ASSUME AccessAssumption ==
  /\ MaxTime \in Nat
  /\ \A s, t \in Tokens : s.token = t.token => s = t

VARIABLES
  now,          \* the clock of the API
  revocations   \* RevokedAPITokenRecord

accessVars == <<now, revocations>>

AccessInit == now = 0 /\ revocations = {}

Tick ==
  /\ now < MaxTime
  /\ now' = now + 1
  /\ told' = {}
  /\ UNCHANGED <<overlap, calls, txn, audits, revocations>>

(* TokenAuthenticator.authenticate: a rotated token is good until it expires. *)
Authenticates(t) ==
  /\ t.expires = Unlimited \/ now < t.expires
  /\ t.token \notin Deactivated

RevocationKey(token) == <<"revocation", token>>

IsRevoked(token, asOf) ==
  \E r \in Existing(revocations, RevocationKey(token)) : r.content.at <= asOf

(* operator_principal: anyone else is told 401 or 403. *)
IsOperator(t) == Authenticates(t) /\ ~IsRevoked(t.token, now) /\ t.role = "operator"

Admit(w, t, request) ==
  /\ IsOperator(t)
  /\ Begin(w, [at |-> "admitted", request |-> request])
  /\ told' = {}
  /\ UNCHANGED <<audits, accessVars>>

Evidence(request) ==
  [actor |-> "api:operator", reason |-> request.reason, correlation |-> request.correlation]

Revocation(request, at) ==
  Entry(RevocationKey(request.token), [evidence |-> Evidence(request), at |-> at])

(* revoke: the same evidence gets the first revocation again, other evidence *)
(* is a conflict.                                                            *)
LookUpRevocation(w) ==
  /\ txn[w].at = "admitted"
  /\ LET request == txn[w].request
         existing == Existing(revocations, RevocationKey(request.token))
     IN IF existing = {}
        THEN /\ Continue(w, [at |-> "revoking", record |-> Revocation(request, now)])
             /\ told' = {}
        ELSE /\ told' = {r \in existing : r.content.evidence = Evidence(request)}
             /\ End(w)
  /\ UNCHANGED <<audits, accessVars>>

RevocationEvent(record) ==
  [action |-> "api_token.revoke", resource |-> record.key, by |-> record.content.evidence]

(* A slip the runs must notice: a token that is taken by now is skipped.     *)
CommitRevocationIgnoring(w) ==
  /\ txn[w].at = "revoking"
  /\ LET record == txn[w].record
     IN /\ revocations' = IF Existing(revocations, record.key) = {}
                          THEN revocations \cup {record} ELSE revocations
        /\ Audit(RevocationEvent(record))
        /\ told' = Existing(revocations', record.key)
  /\ End(w)
  /\ UNCHANGED now

(* The digest is unique: the second of two revocations is told 503, and      *)
(* neither of its rows is there.                                             *)
CommitRevocation(w) ==
  /\ txn[w].at = "revoking"
  /\ LET record == txn[w].record
     IN /\ Existing(revocations, record.key) = {}
        /\ revocations' = revocations \cup {record}
        /\ Audit(RevocationEvent(record))
        /\ told' = {record}
  /\ End(w)
  /\ UNCHANGED now

AccessStep(w) ==
  \/ \E t \in Tokens, request \in Revocations : Admit(w, t, request)
  \/ LookUpRevocation(w)
  \/ CommitRevocation(w)
=============================================================================
