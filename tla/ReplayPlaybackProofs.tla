------------------------ MODULE ReplayPlaybackProofs ------------------------
(***************************************************************************)
(* What holds of the playbacks of a session for any number of processes,   *)
(* requests, candles and moves by hand, whatever crashes, races or fails.  *)
(* A writer that updated the row holds it until it commits, so that what   *)
(* it remembers of the session is the session; and a task that is live is  *)
(* the one its process owns.                                               *)
(***************************************************************************)
EXTENDS ReplayPlayback, FiniteSetTheorems, TLAPS

(* Where the transactions of tasks and of the operator can be. *)
TaskPlaces == Live \cup Ended \cup {"unused", "checked", "starting"}

PlacesInv ==
  /\ \A t \in Tasks : pc[t] \in TaskPlaces
  /\ pc[Operator] \in {"idle", "stepping", "updated"}

(* The row is the last change of the cursor, and what a writer remembers of  *)
(* it was the row when that many changes had been made.                      *)
SessionInv ==
  /\ row = [next |-> CursorAt(Len(history)), version |-> Len(history)]
  /\ \A w \in Writers : /\ base[w].version <= Len(history)
                        /\ base[w].next = CursorAt(base[w].version)

(* Whoever updated the row holds it, and nobody has committed since. *)
HolderInv ==
  /\ \A w \in Writers : pc[w] = "updated" <=> holder = w
  /\ \A w \in Writers : pc[w] = "updated" => base[w].version = row.version

(* What a process owns: the one task it runs, or one that is done. *)
ManagerInv ==
  /\ \A t \in Tasks : pc[t] \in Live => owned[plan[t].proc] = t
  /\ \A t \in Tasks : pc[t] = "starting" /\ owned[plan[t].proc] \in Tasks =>
       pc[owned[plan[t].proc]] = "done"
  /\ \A t, u \in Tasks : /\ pc[t] = "starting" /\ pc[u] = "starting"
                         /\ plan[t].proc = plan[u].proc
                         => t = u
  /\ \A p \in Procs : owned[p] \in Tasks =>
       plan[owned[p]].proc = p /\ pc[owned[p]] \in Live \cup {"done"}

(* What a task has written, and what it is about to write. *)
RowsInv(t) ==
  /\ pc[t] \in {"unused", "checked", "starting"} => runs[t] = Absent
  /\ pc[t] \in Live => runs[t] = Started
  /\ runs[t] = Started => pc[t] \in Live \/ t \in lost
  /\ pc[t] = "over" => result[t].outcome # "running"
  /\ pc[t] \in {"posted", "done"} => status[t].outcome # "running"

Looping == {"playing", "stepping", "updated"}

(* What the scheduler loop of a task relies on. *)
FramesInv(t) ==
  /\ pc[t] \in {"unused", "checked", "starting", "launched"} =>
       CommittedBy(t) = {} /\ emitted[t] = 0
  /\ pc[t] \in Looping =>
       /\ emitted[t] = Cardinality(CommittedBy(t)) /\ emitted[t] < plan[t].limit
       /\ base[t].version = plan[t].expected + emitted[t]
       /\ \A i \in CommittedBy(t) : i <= base[t].version
       /\ CommittedBy(t) # {} => base[t].version \in CommittedBy(t) /\ base[t].next # Total
  /\ pc[t] \in {"stepping", "updated"} => base[t].next # Total

Uninterrupted(t) ==
  \A i \in CommittedBy(t) :
    /\ history[i].next = CursorAt(i - 1) + 1
    /\ \A j \in CommittedBy(t) : \A k \in i .. j : history[k].by = t

Conclusive == {"complete", "stopped", "step_limit"}

(* Evidence of a run that did not fail is true, and stays so. *)
Sound(t, evidence) ==
  evidence.outcome \in Conclusive =>
    /\ pc[t] \in {"over", "posted", "done", "gone"}
    /\ evidence.version \in 0 .. Len(history)
    /\ EvidenceIsTrue(t, evidence)

EvidenceInv(t) == Sound(t, result[t]) /\ Sound(t, status[t]) /\ Sound(t, runs[t])

(* A task that was told to stop begins no frame. *)
StopInv(t) ==
  t \in stop =>
    /\ Cardinality(CommittedBy(t)) <= asked[t] + 1
    /\ pc[t] \in {"stepping", "updated"} => Cardinality(CommittedBy(t)) <= asked[t]

TaskInv(t) == FramesInv(t) /\ Uninterrupted(t) /\ EvidenceInv(t) /\ StopInv(t)

IInv ==
  /\ TypeOK /\ PlacesInv /\ SessionInv /\ HolderInv /\ ManagerInv
  /\ \A t \in Tasks : RowsInv(t) /\ TaskInv(t)

-----------------------------------------------------------------------------
(* The history of the cursor. *)

LEMMA CommittedFacts ==
  ASSUME history \in Seq([by : Writers, next : 0 .. Total]), NEW w
  PROVE  /\ \A i \in CommittedBy(w) : i \in 1 .. Len(history)
         /\ IsFiniteSet(CommittedBy(w)) /\ Cardinality(CommittedBy(w)) \in Nat
         /\ Cardinality(CommittedBy(w)) = 0 <=> CommittedBy(w) = {}
<1>1. CommittedBy(w) \subseteq 1 .. Len(history) /\ Len(history) \in Nat
  BY DEF CommittedBy
<1>2. IsFiniteSet(1 .. Len(history))
  BY <1>1, FS_Interval
<1>3. IsFiniteSet(CommittedBy(w))
  BY <1>1, <1>2, FS_Subset
<1> QED BY <1>1, <1>3, FS_CardinalityType, FS_EmptySet

(* A commit adds one change, and changes nothing that was there. *)
LEMMA CommitFacts ==
  ASSUME history \in Seq([by : Writers, next : 0 .. Total]),
         NEW w \in Writers, NEW n \in 0 .. Total,
         history' = Append(history, [by |-> w, next |-> n])
  PROVE  /\ history' \in Seq([by : Writers, next : 0 .. Total])
         /\ Len(history') = Len(history) + 1
         /\ \A i \in 1 .. Len(history) : history'[i] = history[i]
         /\ history'[Len(history) + 1] = [by |-> w, next |-> n]
         /\ \A v \in 0 .. Len(history) : CursorAt(v)' = CursorAt(v)
         /\ \A v : v = Len(history) + 1 => CursorAt(v)' = n
         /\ CommittedBy(w)' = CommittedBy(w) \cup {Len(history) + 1}
         /\ \A u : u # w => CommittedBy(u)' = CommittedBy(u)
         /\ Cardinality(CommittedBy(w))' = Cardinality(CommittedBy(w)) + 1
<1> DEFINE new == [by |-> w, next |-> n]
           N == Len(history)
<1>1. new \in [by : Writers, next : 0 .. Total] /\ new.by = w /\ new.next = n /\ N \in Nat
  OBVIOUS
<1> HIDE DEF new
<1>2. /\ history' \in Seq([by : Writers, next : 0 .. Total]) /\ Len(history') = N + 1
      /\ \A i \in 1 .. N : history'[i] = history[i]
      /\ history'[N + 1] = new
  BY <1>1 DEF new
<1>3. \A v \in 0 .. N : CursorAt(v)' = CursorAt(v)
  BY <1>1, <1>2 DEF CursorAt
<1>4. \A v : v = N + 1 => CursorAt(v)' = n
  BY <1>1, <1>2 DEF CursorAt
<1>5. DOMAIN history = 1 .. N /\ DOMAIN history' = 1 .. N + 1
  BY <1>1, <1>2
<1>6. 1 .. N + 1 = (1 .. N) \cup {N + 1} /\ N + 1 \notin 1 .. N
  BY <1>1
<1>7. CommittedBy(w)' = CommittedBy(w) \cup {N + 1}
  BY <1>1, <1>2, <1>5, <1>6 DEF CommittedBy
<1>8. \A u : u # w => CommittedBy(u)' = CommittedBy(u)
  BY <1>1, <1>2, <1>5, <1>6 DEF CommittedBy
<1>9. N + 1 \notin CommittedBy(w) /\ IsFiniteSet(CommittedBy(w))
  BY <1>6, CommittedFacts
<1>10. Cardinality(CommittedBy(w) \cup {N + 1}) = Cardinality(CommittedBy(w)) + 1
  BY <1>9, FS_AddElement
<1> QED BY <1>2, <1>3, <1>4, <1>7, <1>8, <1>10 DEF new

LEMMA HistoryKept ==
  ASSUME history' = history
  PROVE  /\ \A w : CommittedBy(w)' = CommittedBy(w)
         /\ \A v : CursorAt(v)' = CursorAt(v)
BY DEF CommittedBy, CursorAt

-----------------------------------------------------------------------------
(* Tasks that a step does not touch. *)

(* What a task knows. *)
View(t) ==
  <<pc[t], base[t], plan[t], emitted[t], result[t], status[t], runs[t], asked[t], t \in stop>>

(* The history stays, or somebody else than t commits. *)
CommitsElsewhere(t) ==
  \/ history' = history
  \/ \E w \in Writers \ {t}, n \in 0 .. Total :
       history' = Append(history, [by |-> w, next |-> n])

LEMMA ElsewhereFacts ==
  ASSUME history \in Seq([by : Writers, next : 0 .. Total]), NEW t \in Tasks, CommitsElsewhere(t)
  PROVE  /\ CommittedBy(t)' = CommittedBy(t)
         /\ Len(history) \in Nat /\ Len(history') \in Nat /\ Len(history) <= Len(history')
         /\ \A i \in 1 .. Len(history) : history'[i] = history[i]
         /\ \A v \in 0 .. Len(history) : CursorAt(v)' = CursorAt(v)
<1>1. CASE history' = history
  BY <1>1, HistoryKept
<1>2. CASE \E w \in Writers \ {t}, n \in 0 .. Total :
             history' = Append(history, [by |-> w, next |-> n])
  <2>1. PICK w \in Writers \ {t}, n \in 0 .. Total :
          history' = Append(history, [by |-> w, next |-> n])
    BY <1>2
  <2>2. t # w
    BY <2>1
  <2>3. /\ history' \in Seq([by : Writers, next : 0 .. Total])
        /\ Len(history') = Len(history) + 1
        /\ \A i \in 1 .. Len(history) : history'[i] = history[i]
        /\ \A v \in 0 .. Len(history) : CursorAt(v)' = CursorAt(v)
        /\ \A u : u # w => CommittedBy(u)' = CommittedBy(u)
    BY <2>1, CommitFacts
  <2>4. Len(history) \in Nat /\ Len(history') \in Nat
    BY <2>3
  <2> QED BY <2>2, <2>3, <2>4
<1> QED BY <1>1, <1>2 DEF CommitsElsewhere

LEMMA EvidenceKept ==
  ASSUME history \in Seq([by : Writers, next : 0 .. Total]), NEW t \in Tasks, CommitsElsewhere(t),
         plan'[t] = plan[t], t \in stop => t \in stop', NEW e, Sound(t, e),
         pc[t] \in {"over", "posted", "done", "gone"} =>
           pc'[t] \in {"over", "posted", "done", "gone"}
  PROVE  Sound(t, e)'
<1> SUFFICES ASSUME e.outcome \in Conclusive
             PROVE  /\ pc'[t] \in {"over", "posted", "done", "gone"}
                    /\ e.version \in 0 .. Len(history')
                    /\ EvidenceIsTrue(t, e)'
  BY DEF Sound
<1>1. /\ pc[t] \in {"over", "posted", "done", "gone"} /\ e.version \in 0 .. Len(history)
      /\ EvidenceIsTrue(t, e)
  BY DEF Sound
<1>2. CommittedBy(t)' = CommittedBy(t) /\ CursorAt(e.version)' = CursorAt(e.version)
      /\ e.version \in 0 .. Len(history')
  BY <1>1, ElsewhereFacts
<1>3. EvidenceIsTrue(t, e)'
  BY <1>1, <1>2 DEF EvidenceIsTrue
<1> QED BY <1>1, <1>2, <1>3

LEMMA UninterruptedKept ==
  ASSUME history \in Seq([by : Writers, next : 0 .. Total]), NEW t \in Tasks, CommitsElsewhere(t),
         Uninterrupted(t)
  PROVE  Uninterrupted(t)'
<1>1. /\ CommittedBy(t)' = CommittedBy(t)
      /\ \A i \in 1 .. Len(history) : history'[i] = history[i]
      /\ \A v \in 0 .. Len(history) : CursorAt(v)' = CursorAt(v)
      /\ \A i \in CommittedBy(t) : i \in 1 .. Len(history)
      /\ Len(history) \in Nat
  BY ElsewhereFacts, CommittedFacts
<1>2. ASSUME NEW i \in CommittedBy(t)
      PROVE  /\ history'[i].next = CursorAt(i - 1)' + 1
             /\ \A j \in CommittedBy(t) : \A k \in i .. j : history'[k].by = t
  <2>1. i \in 1 .. Len(history) /\ i - 1 \in 0 .. Len(history)
    BY <1>1
  <2>2. history'[i].next = CursorAt(i - 1)' + 1
    BY <1>1, <2>1 DEF Uninterrupted
  <2>3. ASSUME NEW j \in CommittedBy(t), NEW k \in i .. j PROVE history'[k].by = t
    <3>1. k \in 1 .. Len(history)
      BY <1>1, <2>1
    <3> QED BY <1>1, <3>1 DEF Uninterrupted
  <2> QED BY <2>2, <2>3
<1> QED BY <1>1, <1>2 DEF Uninterrupted

LEMMA OthersKept ==
  ASSUME history \in Seq([by : Writers, next : 0 .. Total]), NEW t \in Tasks, CommitsElsewhere(t),
         UNCHANGED View(t), TaskInv(t)
  PROVE  TaskInv(t)'
<1>1. /\ pc'[t] = pc[t] /\ base'[t] = base[t] /\ plan'[t] = plan[t] /\ emitted'[t] = emitted[t]
      /\ result'[t] = result[t] /\ status'[t] = status[t] /\ runs'[t] = runs[t]
      /\ asked'[t] = asked[t] /\ (t \in stop' <=> t \in stop)
  BY DEF View
<1>2. CommittedBy(t)' = CommittedBy(t)
  BY ElsewhereFacts
<1>3. FramesInv(t)'
  BY <1>1, <1>2 DEF TaskInv, FramesInv
<1>4. Uninterrupted(t)'
  BY UninterruptedKept DEF TaskInv
<1>5. EvidenceInv(t)'
  BY <1>1, EvidenceKept DEF TaskInv, EvidenceInv
<1>6. StopInv(t)'
  BY <1>1, <1>2 DEF TaskInv, StopInv
<1> QED BY <1>3, <1>4, <1>5, <1>6 DEF TaskInv

-----------------------------------------------------------------------------
(* What is durable and who holds it. *)

(* A task that commits its frame puts the cursor on the next candle. *)
LEMMA TaskCommitFacts ==
  ASSUME IInv, NEW t \in Tasks, pc[t] = "updated"
  PROVE  /\ base[t] = row /\ row \in Sessions /\ row.next + 1 \in 0 .. Total
         /\ row.version = Len(history) /\ row.next = CursorAt(Len(history))
<1>1. /\ t \in Writers /\ row \in Sessions /\ base[t] \in Sessions /\ Total \in Nat
  BY ReplayAssumption DEF IInv, TypeOK, Writers
<1>2. /\ row.version = Len(history) /\ row.next = CursorAt(Len(history))
      /\ base[t].version = row.version /\ base[t].next = CursorAt(base[t].version)
  BY <1>1 DEF IInv, SessionInv, HolderInv
<1>3. base[t].next # Total
  BY DEF IInv, TaskInv, FramesInv, Looping
<1>4. base[t] = row
  BY <1>1, <1>2 DEF Sessions
<1>5. row.next + 1 \in 0 .. Total
  BY <1>1, <1>3, <1>4 DEF Sessions
<1> QED BY <1>1, <1>2, <1>4, <1>5

(* What a writer may remember of the session after a step. *)
LEMMA SessionKept ==
  ASSUME IInv, UNCHANGED <<row, history>>,
         \A w \in Writers : base'[w] \in {base[w], row, NewSession}
  PROVE  SessionInv'
<1>1. \A v : CursorAt(v)' = CursorAt(v)
  BY HistoryKept
<1>2. Len(history) \in Nat
  BY DEF IInv, TypeOK
<1>3. SessionInv
  BY DEF IInv
<1>4. ASSUME NEW w \in Writers
      PROVE  base'[w].version <= Len(history) /\ base'[w].next = CursorAt(base'[w].version)
  <2>1. row.version = Len(history) /\ row.next = CursorAt(row.version)
    BY <1>3 DEF SessionInv
  <2>2. NewSession.version <= Len(history) /\ NewSession.next = CursorAt(NewSession.version)
    BY <1>2 DEF NewSession, CursorAt
  <2> QED BY <1>3, <2>1, <2>2 DEF SessionInv
<1>5. row' = [next |-> CursorAt(Len(history)), version |-> Len(history)]
  BY <1>3 DEF SessionInv
<1> QED BY <1>1, <1>4, <1>5 DEF SessionInv

LEMMA SessionCommitted ==
  ASSUME IInv, NEW w \in Writers, NEW n \in 0 .. Total,
         base[w].version = Len(history), Checkpoint(w, n),
         \A v \in Writers : base'[v] \in {base[v], row', NewSession}
  PROVE  SessionInv'
<1>1. /\ Len(history) \in Nat /\ history \in Seq([by : Writers, next : 0 .. Total])
  BY DEF IInv, TypeOK
<1>2. /\ history' = Append(history, [by |-> w, next |-> n])
      /\ row' = [next |-> n, version |-> Len(history) + 1]
  BY DEF Checkpoint
<1>3. /\ Len(history') = Len(history) + 1
      /\ \A v \in 0 .. Len(history) : CursorAt(v)' = CursorAt(v)
      /\ \A v : v = Len(history) + 1 => CursorAt(v)' = n
  BY <1>1, <1>2, CommitFacts
<1>4. row' = [next |-> CursorAt(Len(history))', version |-> Len(history')]
  BY <1>2, <1>3 DEF CursorAt
<1>5. ASSUME NEW v \in Writers
      PROVE  base'[v].version <= Len(history') /\ base'[v].next = CursorAt(base[v].version)'
  <2>1. base[v].version \in 0 .. Len(history) /\ base[v].next = CursorAt(base[v].version)
    BY <1>1 DEF IInv, SessionInv, TypeOK, Sessions
  <2>2. ASSUME base'[v] = base[v]
        PROVE  base'[v].version <= Len(history') /\ base'[v].next = CursorAt(base[v].version)'
    <3> DEFINE x == base[v].version
    <3>1. base'[v].version = x /\ base'[v].next = CursorAt(x) /\ x \in 0 .. Len(history)
      BY <2>1, <2>2
    <3>2. CursorAt(base[v].version)' = IF x = 0 THEN 0 ELSE history'[x].next
      BY <3>1 DEF CursorAt
    <3>3. CursorAt(x) = IF x = 0 THEN 0 ELSE history'[x].next
      <4> HIDE DEF x
      <4>1. \A i \in 0 .. Len(history) : CursorAt(i)' = IF i = 0 THEN 0 ELSE history'[i].next
        BY DEF CursorAt
      <4> QED BY <1>3, <3>1, <4>1
    <3> HIDE DEF x
    <3> QED BY <1>1, <1>3, <3>1, <3>2, <3>3
  <2>3. ASSUME base'[v] = row'
        PROVE  base'[v].version <= Len(history') /\ base'[v].next = CursorAt(base[v].version)'
    <3>1. base'[v].version = Len(history') /\ base'[v].next = n
      BY <1>2, <1>3, <2>3
    <3>2. CursorAt(base[v].version)' = n
      BY <1>1, <1>2, <1>3, <3>1 DEF CursorAt
    <3> QED BY <1>1, <1>3, <3>1, <3>2
  <2>4. ASSUME base'[v] = NewSession
        PROVE  base'[v].version <= Len(history') /\ base'[v].next = CursorAt(base[v].version)'
    BY <1>1, <1>3, <2>4 DEF CursorAt, NewSession
  <2> QED BY <2>2, <2>3, <2>4
<1> QED BY <1>4, <1>5 DEF SessionInv

-----------------------------------------------------------------------------
(* Types. *)

LEMMA StatusTypes ==
  ASSUME TypeOK
  PROVE  /\ Started \in Statuses /\ NewSession \in Sessions /\ row \in Sessions
         /\ \A t \in Tasks : FailedStatus(t) \in Statuses
         /\ \A t \in Tasks, o \in Outcomes, stored \in Sessions, n \in Nat :
              TaskStatus(o, n, stored.version) \in Statuses
<1>1. Started \in Statuses
  BY DEF Started, TaskStatus, Statuses, Outcomes
<1>2. NewSession \in Sessions /\ row \in Sessions
  BY ReplayAssumption DEF TypeOK, NewSession, Sessions
<1>3. \A t \in Tasks : FailedStatus(t) \in Statuses
  BY DEF TypeOK, FailedStatus, TaskStatus, Statuses, Outcomes
<1>4. ASSUME NEW o \in Outcomes, NEW stored \in Sessions, NEW n \in Nat
      PROVE  TaskStatus(o, n, stored.version) \in Statuses
  BY DEF TaskStatus, Statuses, Sessions
<1> QED BY <1>1, <1>2, <1>3, <1>4

Labels == Live \cup Ended \cup {"idle", "unused", "checked", "starting"}

LEMMA GotoType ==
  ASSUME TypeOK, NEW w \in Writers, NEW label \in Labels, Goto(w, label)
  PROVE  /\ pc' \in [Writers -> Labels] /\ pc'[w] = label
         /\ \A v \in Writers \ {w} : pc'[v] = pc[v]
<1>1. pc \in [Writers -> Labels]
  BY DEF TypeOK, Labels
<1> QED BY <1>1 DEF Goto

LEMMA ReadType ==
  ASSUME TypeOK, NEW w \in Writers, NEW stored \in Sessions, Read(w, stored)
  PROVE  /\ base' \in [Writers -> Sessions] /\ base'[w] = stored
         /\ \A v \in Writers \ {w} : base'[v] = base[v]
BY DEF TypeOK, Read

(* What the end of a runner writes. *)
LEMMA ReturnsType ==
  ASSUME TypeOK, NEW t \in Tasks, NEW o \in Outcomes, NEW n \in Nat, NEW stored \in Sessions,
         RunnerReturns(t, o, n, stored)
  PROVE  /\ result' \in [Tasks -> Statuses] /\ result'[t] = TaskStatus(o, n, stored.version)
         /\ \A u \in Tasks \ {t} : result'[u] = result[u]
         /\ base' \in [Writers -> Sessions] /\ base'[t] = NewSession
         /\ \A v \in Writers \ {t} : base'[v] = base[v]
         /\ pc' \in [Writers -> Labels] /\ pc'[t] = "over"
         /\ \A v \in Writers \ {t} : pc'[v] = pc[v]
<1>1. t \in Writers /\ NewSession \in Sessions /\ TaskStatus(o, n, stored.version) \in Statuses
  BY StatusTypes DEF Writers
<1>2. /\ result' = [result EXCEPT ![t] = TaskStatus(o, n, stored.version)]
      /\ Read(t, NewSession) /\ Goto(t, "over")
  BY DEF RunnerReturns
<1>3. "over" \in Labels
  BY DEF Labels, Live
<1>4. /\ result' \in [Tasks -> Statuses] /\ result'[t] = TaskStatus(o, n, stored.version)
      /\ \A u \in Tasks \ {t} : result'[u] = result[u]
  BY <1>1, <1>2 DEF TypeOK
<1> QED BY <1>1, <1>2, <1>3, <1>4, ReadType, GotoType

LEMMA FailsType ==
  ASSUME TypeOK, NEW t \in Tasks, RunnerFails(t)
  PROVE  /\ result' \in [Tasks -> Statuses] /\ result'[t] = FailedStatus(t)
         /\ \A u \in Tasks \ {t} : result'[u] = result[u]
         /\ base' \in [Writers -> Sessions] /\ base'[t] = NewSession
         /\ \A v \in Writers \ {t} : base'[v] = base[v]
         /\ pc' \in [Writers -> Labels] /\ pc'[t] = "over"
         /\ \A v \in Writers \ {t} : pc'[v] = pc[v]
<1>1. t \in Writers /\ NewSession \in Sessions /\ FailedStatus(t) \in Statuses
  BY StatusTypes DEF Writers
<1>2. /\ result' = [result EXCEPT ![t] = FailedStatus(t)]
      /\ Read(t, NewSession) /\ Goto(t, "over")
  BY DEF RunnerFails
<1>3. "over" \in Labels
  BY DEF Labels, Live
<1>4. /\ result' \in [Tasks -> Statuses] /\ result'[t] = FailedStatus(t)
      /\ \A u \in Tasks \ {t} : result'[u] = result[u]
  BY <1>1, <1>2 DEF TypeOK
<1> QED BY <1>1, <1>2, <1>3, <1>4, ReadType, GotoType

-----------------------------------------------------------------------------
(* A step of one writer that commits nothing. *)

(* The locks of the row. *)
Locks(w) ==
  \/ pc'[w] # "updated" /\ holder' = (IF holder = w THEN Nobody ELSE holder)
  \/ /\ pc'[w] = "updated" /\ pc[w] # "updated" /\ holder = Nobody /\ holder' = w
     /\ base'[w] = base[w] /\ base[w].version = row.version

LEMMA HolderKept ==
  ASSUME HolderInv, NEW w \in Writers, row' = row, Locks(w),
         \A v \in Writers \ {w} : pc'[v] = pc[v] /\ base'[v] = base[v]
  PROVE  HolderInv'
<1>1. Nobody \notin Writers
  BY ReplayAssumption
<1>2. CASE pc'[w] # "updated" /\ holder' = (IF holder = w THEN Nobody ELSE holder)
  BY <1>1, <1>2 DEF HolderInv
<1>3. CASE /\ pc'[w] = "updated" /\ holder = Nobody /\ holder' = w
           /\ base'[w] = base[w] /\ base[w].version = row.version
  BY <1>1, <1>3 DEF HolderInv
<1> QED BY <1>2, <1>3 DEF Locks

(* What a process owns while one of its tasks goes on. *)
LEMMA ManagerKept ==
  ASSUME ManagerInv, NEW w \in Writers, UNCHANGED <<plan, owned>>,
         \A v \in Writers \ {w} : pc'[v] = pc[v],
         pc'[w] \in Live => pc[w] \in Live,
         pc'[w] = "starting" => pc[w] = "starting",
         pc[w] \in Live => pc'[w] \in Live \cup {"done"},
         pc[w] = "done" => pc'[w] = "done"
  PROVE  ManagerInv'
<1>1. \A t \in Tasks : t \in Writers
  BY DEF Writers
<1>2. \A t \in Tasks : /\ pc'[t] \in Live => pc[t] \in Live
                       /\ pc'[t] = "starting" => pc[t] = "starting"
                       /\ pc[t] \in Live => pc'[t] \in Live \cup {"done"}
                       /\ pc[t] = "done" => pc'[t] = "done"
  BY <1>1
<1> HIDE DEF Live
<1> QED BY <1>2 DEF ManagerInv

LEMMA RowsKept ==
  ASSUME NEW t \in Tasks, RowsInv(t), UNCHANGED View(t), lost \subseteq lost'
  PROVE  RowsInv(t)'
BY DEF RowsInv, View

LEMMA QuietStep ==
  ASSUME IInv, TypeOK', NEW w \in Writers, UNCHANGED <<row, history>>,
         \A v \in Writers \ {w} : pc'[v] = pc[v] /\ base'[v] = base[v],
         base'[w] \in {base[w], row, NewSession},
         w = Operator => pc'[w] \in {"idle", "stepping", "updated"},
         w \in Tasks => pc'[w] \in TaskPlaces,
         Locks(w),
         \A u \in Tasks \ {w} : UNCHANGED View(u),
         lost \subseteq lost',
         ManagerInv',
         w \in Tasks => RowsInv(w)' /\ TaskInv(w)'
  PROVE  IInv'
<1>1. PlacesInv'
  <2>1. \A t \in Tasks : t \in Writers
    BY DEF Writers
  <2>2. Operator \in Writers /\ Operator \notin Tasks
    BY ReplayAssumption DEF Writers
  <2> QED BY <2>1, <2>2 DEF IInv, PlacesInv
<1>2. SessionInv'
  BY SessionKept
<1>3. HolderInv'
  BY HolderKept DEF IInv
<1>4. ASSUME NEW t \in Tasks PROVE RowsInv(t)' /\ TaskInv(t)'
  <2>1. CASE t = w
    BY <2>1
  <2>2. CASE t # w
    <3>1. UNCHANGED View(t) /\ RowsInv(t) /\ TaskInv(t)
      BY <2>2 DEF IInv
    <3>2. CommitsElsewhere(t)
      BY DEF CommitsElsewhere
    <3>3. history \in Seq([by : Writers, next : 0 .. Total])
      BY DEF IInv, TypeOK
    <3> QED BY <3>1, <3>2, <3>3, OthersKept, RowsKept
  <2> QED BY <2>1, <2>2
<1> QED BY <1>1, <1>2, <1>3, <1>4 DEF IInv

(* A step of one writer that commits. *)
LEMMA CommitStep ==
  ASSUME IInv, TypeOK', NEW w \in Writers, NEW n \in 0 .. Total, pc[w] = "updated",
         Checkpoint(w, n),
         \A v \in Writers \ {w} : pc'[v] = pc[v] /\ base'[v] = base[v],
         base'[w] \in {row', NewSession},
         w = Operator => pc'[w] = "idle",
         w \in Tasks => pc'[w] \in TaskPlaces \ {"updated"},
         \A u \in Tasks \ {w} : UNCHANGED View(u),
         lost \subseteq lost',
         ManagerInv',
         w \in Tasks => RowsInv(w)' /\ TaskInv(w)'
  PROVE  IInv'
<1>1. PlacesInv'
  <2>1. \A t \in Tasks : t \in Writers
    BY DEF Writers
  <2>2. Operator \in Writers /\ Operator \notin Tasks
    BY ReplayAssumption DEF Writers
  <2> QED BY <2>1, <2>2 DEF IInv, PlacesInv
<1>2. SessionInv'
  <2>1. base[w].version = Len(history)
    BY DEF IInv, SessionInv, HolderInv
  <2> QED BY <2>1, SessionCommitted
<1>3. HolderInv'
  <2>1. holder = w /\ holder' = Nobody /\ pc'[w] # "updated" /\ Nobody \notin Writers
    BY ReplayAssumption DEF IInv, HolderInv, Checkpoint, Writers
  <2> QED BY <2>1 DEF IInv, HolderInv
<1>4. ASSUME NEW t \in Tasks PROVE RowsInv(t)' /\ TaskInv(t)'
  <2>1. CASE t = w
    BY <2>1
  <2>2. CASE t # w
    <3>1. UNCHANGED View(t) /\ RowsInv(t) /\ TaskInv(t)
      BY <2>2 DEF IInv
    <3>2. CommitsElsewhere(t)
      BY <2>2 DEF CommitsElsewhere, Checkpoint
    <3>3. history \in Seq([by : Writers, next : 0 .. Total])
      BY DEF IInv, TypeOK
    <3> QED BY <3>1, <3>2, <3>3, OthersKept, RowsKept
  <2> QED BY <2>1, <2>2
<1> QED BY <1>1, <1>2, <1>3, <1>4 DEF IInv

-----------------------------------------------------------------------------
(* Steps of a task. *)

After == {"over", "posted", "done", "gone"}

(* What a task that goes on, and commits nothing, has to keep. *)
LEMMA ActorKept ==
  ASSUME IInv, NEW t \in Tasks, history' = history, plan'[t] = plan[t],
         t \in stop' <=> t \in stop, asked'[t] = asked[t],
         FramesInv(t)',
         pc[t] \in After => pc'[t] \in After,
         result'[t] = result[t] \/ Sound(t, result[t])',
         status'[t] = status[t] \/ Sound(t, status[t])',
         runs'[t] = runs[t] \/ Sound(t, runs[t])',
         pc'[t] \in {"stepping", "updated"} => pc[t] \in {"stepping", "updated"} \/ t \notin stop
  PROVE  TaskInv(t)'
<1>1. CommitsElsewhere(t) /\ history \in Seq([by : Writers, next : 0 .. Total])
  BY DEF CommitsElsewhere, IInv, TypeOK
<1>2. FramesInv(t) /\ Uninterrupted(t) /\ EvidenceInv(t) /\ StopInv(t)
  BY DEF IInv, TaskInv
<1>3. Uninterrupted(t)'
  BY <1>1, <1>2, UninterruptedKept
<1>4. \A e : Sound(t, e) => Sound(t, e)'
  BY <1>1, EvidenceKept DEF After
<1>5. EvidenceInv(t)'
  BY <1>2, <1>4 DEF EvidenceInv
<1>6. CommittedBy(t)' = CommittedBy(t)
  BY HistoryKept
<1>7. StopInv(t)'
  BY <1>2, <1>6 DEF StopInv
<1> QED BY <1>3, <1>5, <1>7 DEF TaskInv

(* A status of a run that goes on or failed is no evidence. *)
LEMMA Inconclusive ==
  ASSUME NEW t, NEW e, e.outcome \notin Conclusive
  PROVE  Sound(t, e) /\ Sound(t, e)'
BY DEF Sound

LEMMA StartedFacts ==
  /\ Started.outcome = "running" /\ Absent.outcome = "absent" /\ Started # Absent
  /\ \A t : FailedStatus(t).outcome = "failed"
  /\ \A o, n, v : TaskStatus(o, n, v).outcome = o /\ TaskStatus(o, n, v).frames = n
                  /\ TaskStatus(o, n, v).version = v
BY DEF Started, Absent, TaskStatus, FailedStatus

(* True evidence on the last step of a runner is sound. *)
LEMMA Concluded ==
  ASSUME NEW t \in Tasks, NEW e, EvidenceIsTrue(t, e), e.version \in 0 .. Len(history),
         history' = history, plan' = plan, stop' = stop, pc'[t] \in After
  PROVE  Sound(t, e)'
<1>1. CommittedBy(t)' = CommittedBy(t) /\ CursorAt(e.version)' = CursorAt(e.version)
  BY HistoryKept
<1>2. EvidenceIsTrue(t, e)'
  BY <1>1 DEF EvidenceIsTrue
<1> QED BY <1>2 DEF Sound, After

(* The runner of a task ends with an exception. *)
LEMMA FailKeeps ==
  ASSUME IInv, NEW t \in Tasks, pc[t] \in Playing, RunnerFails(t),
         UNCHANGED <<manager, target, emitted, row, history>>,
         holder' = (IF holder = t THEN Nobody ELSE holder)
  PROVE  IInv'
<1>1. /\ result' \in [Tasks -> Statuses] /\ result'[t] = FailedStatus(t)
      /\ \A u \in Tasks \ {t} : result'[u] = result[u]
      /\ base' \in [Writers -> Sessions] /\ base'[t] = NewSession
      /\ \A v \in Writers \ {t} : base'[v] = base[v]
      /\ pc' \in [Writers -> Labels] /\ pc'[t] = "over"
      /\ \A v \in Writers \ {t} : pc'[v] = pc[v]
  BY FailsType DEF IInv
<1>2. /\ UNCHANGED <<plan, status, owned, stop, runs, closing, asked, lost>>
      /\ UNCHANGED <<target, emitted, row, history>>
  BY DEF manager
<1>3. t \in Writers /\ t # Operator /\ TypeOK
  BY ReplayAssumption DEF IInv, Writers
<1>4. TypeOK'
  BY <1>1, <1>2, <1>3 DEF TypeOK, Labels
<1>5. \A u \in Tasks \ {t} : UNCHANGED View(u)
  BY <1>1, <1>2 DEF View, Writers
<1>6. Locks(t)
  BY <1>1 DEF Locks
<1>7. ManagerInv'
  BY <1>1, <1>2, <1>3, ManagerKept DEF IInv, Live, Playing
<1>8. RowsInv(t)'
  BY <1>1, <1>2, StartedFacts DEF IInv, RowsInv, Live, Playing
<1>9. FramesInv(t)'
  BY <1>1 DEF FramesInv, Looping
<1>10. Sound(t, result[t])'
  BY <1>1, StartedFacts, Inconclusive DEF Conclusive
<1>11. TaskInv(t)'
  BY <1>1, <1>2, <1>9, <1>10, ActorKept DEF After
<1>12. pc'[t] \in TaskPlaces
  BY <1>1 DEF TaskPlaces, Live
<1> QED BY <1>1, <1>2, <1>3, <1>4, <1>5, <1>6, <1>7, <1>8, <1>11, <1>12, QuietStep

(* The runner of a task ends between two frames. *)
LEMMA ReturnKeeps ==
  ASSUME IInv, NEW t \in Tasks, pc[t] = "playing", NEW o \in {"stopped", "complete"},
         RunnerReturns(t, o, emitted[t], base[t]),
         o = "stopped" => t \in stop, o = "complete" => base[t].next = Total,
         UNCHANGED <<session, manager, target, emitted>>
  PROVE  IInv'
<1>1. o \in Outcomes /\ emitted[t] \in Nat /\ base[t] \in Sessions /\ t \in Writers /\ t # Operator
      /\ TypeOK
  BY ReplayAssumption DEF Outcomes, IInv, TypeOK, Writers
<1>2. /\ result' \in [Tasks -> Statuses]
      /\ result'[t] = TaskStatus(o, emitted[t], base[t].version)
      /\ \A u \in Tasks \ {t} : result'[u] = result[u]
      /\ base' \in [Writers -> Sessions] /\ base'[t] = NewSession
      /\ \A v \in Writers \ {t} : base'[v] = base[v]
      /\ pc' \in [Writers -> Labels] /\ pc'[t] = "over"
      /\ \A v \in Writers \ {t} : pc'[v] = pc[v]
  BY <1>1, ReturnsType
<1>3. /\ UNCHANGED <<plan, status, owned, stop, runs, closing, asked, lost>>
      /\ UNCHANGED <<target, emitted, row, history, holder>>
  BY DEF manager, session
<1>4. TypeOK'
  BY <1>1, <1>2, <1>3 DEF TypeOK, Labels
<1>5. \A u \in Tasks \ {t} : UNCHANGED View(u)
  BY <1>2, <1>3 DEF View, Writers
<1>6. Locks(t)
  BY <1>1, <1>2, <1>3 DEF Locks, IInv, HolderInv
<1>7. ManagerInv'
  BY <1>1, <1>2, <1>3, ManagerKept DEF IInv, Live, Playing
<1>8. RowsInv(t)'
  BY <1>2, <1>3, StartedFacts DEF IInv, RowsInv, Live, Playing
<1>9. FramesInv(t)'
  BY <1>2 DEF FramesInv, Looping
<1>10. EvidenceIsTrue(t, TaskStatus(o, emitted[t], base[t].version))
  <2> DEFINE e == TaskStatus(o, emitted[t], base[t].version)
  <2>1. e.outcome = o /\ e.frames = emitted[t] /\ e.version = base[t].version
    BY StartedFacts
  <2> HIDE DEF e
  <2>2. /\ emitted[t] = Cardinality(CommittedBy(t)) /\ emitted[t] < plan[t].limit
        /\ base[t].version = plan[t].expected + emitted[t]
        /\ \A i \in CommittedBy(t) : i <= base[t].version
        /\ CommittedBy(t) # {} => base[t].next # Total
    BY DEF IInv, TaskInv, FramesInv, Looping
  <2>3. plan[t].limit \in Nat
    BY ReplayAssumption DEF IInv, TypeOK
  <2>4. base[t].next = CursorAt(base[t].version)
    BY <1>1 DEF IInv, SessionInv
  <2>5. /\ Cardinality(CommittedBy(t)) \in Nat
        /\ Cardinality(CommittedBy(t)) = 0 <=> CommittedBy(t) = {}
    <3>1. history \in Seq([by : Writers, next : 0 .. Total])
      BY <1>1 DEF TypeOK
    <3> QED BY <3>1, CommittedFacts
  <2>6. emitted[t] > 0 => CommittedBy(t) # {}
    BY <2>2, <2>5
  <2>7. /\ o = "complete" => CursorAt(e.version) = Total
        /\ emitted[t] > 0 => CursorAt(e.version) # Total
    BY <2>1, <2>2, <2>4, <2>6
  <2>8. emitted[t] <= plan[t].limit
    BY <1>1, <2>2, <2>3
  <2>9. EvidenceIsTrue(t, e)
    BY <2>1, <2>2, <2>7, <2>8 DEF EvidenceIsTrue
  <2> QED BY <2>9 DEF e
<1>11. Sound(t, result[t])'
  <2>1. base[t].version \in 0 .. Len(history)
    BY <1>1 DEF IInv, SessionInv, TypeOK, Sessions
  <2>2. TaskStatus(o, emitted[t], base[t].version).version = base[t].version
    BY StartedFacts
  <2> QED BY <1>2, <1>3, <1>10, <2>1, <2>2, Concluded DEF After
<1>12. TaskInv(t)'
  BY <1>2, <1>3, <1>9, <1>11, ActorKept DEF After
<1>13. pc'[t] \in TaskPlaces
  BY <1>2 DEF TaskPlaces, Live
<1> QED BY <1>1, <1>2, <1>3, <1>4, <1>5, <1>6, <1>7, <1>8, <1>12, <1>13, QuietStep

LEMMA GotoFacts ==
  ASSUME IInv, NEW w \in Writers, NEW label \in Labels, Goto(w, label)
  PROVE  /\ pc' \in [Writers -> Labels] /\ pc'[w] = label
         /\ \A v \in Writers \ {w} : pc'[v] = pc[v]
BY GotoType DEF IInv

LEMMA RequestKeeps ==
  ASSUME IInv, NEW t \in Tasks, NEW p \in Procs, NEW n \in StepLimits, RequestPlayback(t, p, n)
  PROVE  IInv'
<1>1. /\ pc[t] = "unused" /\ Goto(t, "checked")
      /\ plan' = [plan EXCEPT ![t] = [proc |-> p, expected |-> row.version, limit |-> n]]
      /\ UNCHANGED <<row, holder, history, base, target, emitted, result, status, owned, stop,
                     runs, closing, asked, lost>>
  BY DEF RequestPlayback, session, scheduler
<1>2. t \in Writers /\ t # Operator /\ TypeOK /\ "checked" \in Labels
  BY ReplayAssumption DEF IInv, Writers, Labels
<1>3. /\ pc' \in [Writers -> Labels] /\ pc'[t] = "checked"
      /\ \A v \in Writers \ {t} : pc'[v] = pc[v]
  BY <1>1, <1>2, GotoFacts
<1>4. /\ plan' \in [Tasks -> [proc : Procs, expected : Nat, limit : StepLimits]]
      /\ \A u \in Tasks \ {t} : plan'[u] = plan[u]
  BY <1>1, <1>2 DEF TypeOK, Sessions
<1>5. TypeOK'
  BY <1>1, <1>2, <1>3, <1>4 DEF TypeOK, Labels
<1>6. \A u \in Tasks \ {t} : UNCHANGED View(u)
  BY <1>1, <1>3, <1>4 DEF View, Writers
<1>7. Locks(t)
  BY <1>1, <1>2, <1>3 DEF Locks, IInv, HolderInv
<1>8. ManagerInv'
  <2>1. \A u \in Tasks : /\ pc'[u] \in Live => pc[u] \in Live /\ u # t
                         /\ pc'[u] = "starting" => pc[u] = "starting" /\ u # t
                         /\ pc[u] \in Live => pc'[u] \in Live
                         /\ pc[u] = "done" => pc'[u] = "done"
    BY <1>1, <1>3 DEF Live, Playing, Writers
  <2>2. \A q \in Procs : owned[q] \in Tasks => owned[q] # t
    BY <1>1 DEF IInv, ManagerInv, Live, Playing
  <2> HIDE DEF Live
  <2> QED BY <1>1, <1>4, <2>1, <2>2 DEF IInv, ManagerInv
<1>9. RowsInv(t)'
  BY <1>1, <1>3, StartedFacts DEF IInv, RowsInv, Live, Playing
<1>10. TaskInv(t)'
  <2>1. FramesInv(t) /\ Uninterrupted(t) /\ EvidenceInv(t) /\ StopInv(t)
    BY DEF IInv, TaskInv
  <2>2. CommittedBy(t)' = CommittedBy(t) /\ CommitsElsewhere(t)
        /\ history \in Seq([by : Writers, next : 0 .. Total])
    BY <1>1, <1>2, HistoryKept DEF CommitsElsewhere, TypeOK
  <2>3. FramesInv(t)'
    BY <1>1, <1>3, <2>1, <2>2 DEF FramesInv, Looping
  <2>4. Uninterrupted(t)'
    BY <2>1, <2>2, UninterruptedKept
  <2>5. \A e : Sound(t, e) => Sound(t, e)'
    BY <1>1 DEF Sound
  <2>6. EvidenceInv(t)'
    BY <1>1, <2>1, <2>5 DEF EvidenceInv
  <2>7. StopInv(t)'
    BY <1>1, <1>3, <2>1, <2>2 DEF StopInv
  <2> QED BY <2>3, <2>4, <2>6, <2>7 DEF TaskInv
<1>11. pc'[t] \in TaskPlaces
  BY <1>3 DEF TaskPlaces
<1> QED BY <1>1, <1>2, <1>3, <1>5, <1>6, <1>7, <1>8, <1>9, <1>10, <1>11, QuietStep

(* A task takes its next place, and with it at most its row and what its     *)
(* process owns change.                                                     *)
LEMMA PlaceKeeps ==
  ASSUME IInv, NEW t \in Tasks, NEW label \in TaskPlaces \ {"updated"}, Goto(t, label),
         UNCHANGED <<session, scheduler, plan, status, stop, closing, asked>>,
         owned' \in [Procs -> Tasks \cup {NoTask}], ManagerInv',
         runs' \in [Tasks -> Statuses \cup {Absent}],
         \A u \in Tasks \ {t} : runs'[u] = runs[u],
         lost \subseteq lost', lost' \subseteq Tasks,
         RowsInv(t)', FramesInv(t)',
         runs'[t] = runs[t] \/ Sound(t, runs[t])',
         pc[t] \in After => label \in After,
         label = "stepping" => t \notin stop, pc[t] # "updated"
  PROVE  IInv'
<1>1. UNCHANGED <<row, holder, history, base, target, emitted, result, plan, status, stop, closing,
                  asked>>
  BY DEF session, scheduler
<1>2. t \in Writers /\ t # Operator /\ TypeOK /\ label \in Labels
  BY ReplayAssumption DEF IInv, Writers, Labels, TaskPlaces
<1>3. /\ pc' \in [Writers -> Labels] /\ pc'[t] = label
      /\ \A v \in Writers \ {t} : pc'[v] = pc[v]
  BY <1>2, GotoFacts
<1>4. TypeOK'
  BY <1>1, <1>2, <1>3 DEF TypeOK, Labels
<1>5. \A u \in Tasks \ {t} : UNCHANGED View(u)
  BY <1>1, <1>3 DEF View, Writers
<1>6. Locks(t)
  BY <1>1, <1>2, <1>3 DEF Locks, IInv, HolderInv
<1>7. TaskInv(t)'
  BY <1>1, <1>3, ActorKept
<1> QED BY <1>1, <1>2, <1>3, <1>4, <1>5, <1>6, <1>7, QuietStep

LEMMA BeginStartKeeps ==
  ASSUME IInv, NEW t \in Tasks, BeginStart(t)
  PROVE  IInv'
<1> DEFINE existing == owned[plan[t].proc]
<1>1. /\ pc[t] = "checked" /\ LockFree(plan[t].proc)
      /\ \/ Goto(t, "refused")
         \/ Goto(t, "starting") /\ (existing # NoTask => pc[existing] = "done")
      /\ UNCHANGED <<session, scheduler, manager>>
  BY DEF BeginStart
<1>2. /\ UNCHANGED <<session, scheduler, plan, status, stop, closing, asked>>
      /\ owned' = owned /\ runs' = runs /\ lost' = lost /\ plan' = plan
  BY <1>1 DEF manager
<1>3. t \in Writers /\ TypeOK /\ NoTask \notin Tasks
  BY ReplayAssumption DEF IInv, Writers
<1>4. /\ owned' \in [Procs -> Tasks \cup {NoTask}] /\ runs' \in [Tasks -> Statuses \cup {Absent}]
      /\ lost' \subseteq Tasks
  BY <1>2, <1>3 DEF TypeOK
<1>5. CommittedBy(t)' = CommittedBy(t) /\ emitted' = emitted
  BY <1>1, HistoryKept DEF session, scheduler
<1>6. CASE Goto(t, "refused")
  <2>1. /\ pc'[t] = "refused" /\ "refused" \in TaskPlaces \ {"updated"}
        /\ \A v \in Writers \ {t} : pc'[v] = pc[v]
    BY <1>3, <1>6, GotoFacts DEF TaskPlaces, Labels, Ended
  <2>2. ManagerInv'
    BY <1>1, <1>2, <1>3, <2>1, ManagerKept DEF IInv, Live, Playing
  <2>3. RowsInv(t)'
    BY <1>1, <1>2, <2>1, StartedFacts DEF IInv, RowsInv, Live, Playing
  <2>4. FramesInv(t)'
    BY <2>1 DEF FramesInv, Looping
  <2> QED BY <1>1, <1>2, <1>4, <1>6, <2>1, <2>2, <2>3, <2>4, PlaceKeeps DEF After
<1>7. CASE Goto(t, "starting") /\ (existing # NoTask => pc[existing] = "done")
  <2>1. /\ pc'[t] = "starting" /\ "starting" \in TaskPlaces \ {"updated"}
        /\ \A v \in Writers \ {t} : pc'[v] = pc[v]
    BY <1>3, <1>7, GotoFacts DEF TaskPlaces, Labels
  <2>2. ManagerInv'
    <3>1. \A u \in Tasks : /\ pc'[u] \in Live <=> pc[u] \in Live
                           /\ pc'[u] = "starting" => pc[u] = "starting" \/ u = t
                           /\ pc'[u] = "done" <=> pc[u] = "done"
      BY <1>1, <2>1 DEF Live, Playing, Writers
    <3>2. \A u \in Tasks : pc[u] = "starting" => plan[u].proc # plan[t].proc
      BY <1>1 DEF LockFree
    <3>3. existing \in Tasks => pc[existing] = "done"
      BY <1>3, <1>7
    <3> HIDE DEF Live
    <3> QED BY <1>2, <3>1, <3>2, <3>3 DEF IInv, ManagerInv
  <2>3. RowsInv(t)'
    BY <1>1, <1>2, <2>1, StartedFacts DEF IInv, RowsInv, Live, Playing
  <2>4. FramesInv(t)'
    BY <1>1, <1>5, <2>1 DEF IInv, TaskInv, FramesInv, Looping
  <2> QED BY <1>1, <1>2, <1>4, <1>7, <2>1, <2>2, <2>3, <2>4, PlaceKeeps DEF After
<1> QED BY <1>1, <1>6, <1>7

LEMMA LaunchKeeps ==
  ASSUME IInv, NEW t \in Tasks, Launch(t)
  PROVE  IInv'
<1> DEFINE p == plan[t].proc
<1>1. /\ pc[t] = "starting" /\ Goto(t, "launched")
      /\ runs' = [runs EXCEPT ![t] = Started] /\ owned' = [owned EXCEPT ![p] = t]
      /\ UNCHANGED <<session, scheduler, plan, status, stop, closing, asked>> /\ lost' = lost
  BY DEF Launch
<1>2. t \in Writers /\ TypeOK /\ NoTask \notin Tasks /\ Started \in Statuses
  BY ReplayAssumption, StatusTypes DEF IInv, Writers
<1>3. p \in Procs /\ owned \in [Procs -> Tasks \cup {NoTask}]
  BY <1>2 DEF TypeOK
<1>4. /\ pc'[t] = "launched" /\ "launched" \in TaskPlaces \ {"updated"}
      /\ \A v \in Writers \ {t} : pc'[v] = pc[v]
  BY <1>1, <1>2, GotoFacts DEF TaskPlaces, Labels, Live, Playing
<1>5. /\ owned' \in [Procs -> Tasks \cup {NoTask}] /\ owned'[p] = t
      /\ \A q \in Procs \ {p} : owned'[q] = owned[q]
  BY <1>1, <1>3
<1>6. /\ runs' \in [Tasks -> Statuses \cup {Absent}] /\ runs'[t] = Started
      /\ \A u \in Tasks \ {t} : runs'[u] = runs[u]
      /\ lost' \subseteq Tasks
  BY <1>1, <1>2 DEF TypeOK
<1>7. ManagerInv'
  <2>1. /\ "launched" \in Live /\ "done" \notin Live /\ "starting" \notin Live
        /\ \A u \in Tasks \ {t} : pc'[u] = pc[u]
    BY <1>4 DEF Live, Playing, Writers
  <2>2. \A u \in Tasks : pc[u] \in Live /\ plan[u].proc = p => FALSE
    BY <1>1, <2>1 DEF IInv, ManagerInv
  <2>3. \A u \in Tasks \ {t} : pc[u] = "starting" => plan[u].proc # p
    BY <1>1 DEF IInv, ManagerInv
  <2>4. \A u \in Tasks : plan[u].proc \in Procs
    BY <1>2 DEF TypeOK
  <2>5. plan' = plan
    BY <1>1
  <2>6. \A q \in Procs : owned[q] = t => FALSE
    BY <1>1, <2>1 DEF IInv, ManagerInv
  <2> HIDE DEF Live, p
  <2>7. \A u \in Tasks : pc'[u] \in Live => owned'[plan[u].proc] = u
    BY <1>5, <2>1, <2>2, <2>4 DEF IInv, ManagerInv, p
  <2>8. \A u \in Tasks : pc'[u] = "starting" /\ owned'[plan[u].proc] \in Tasks =>
          pc'[owned'[plan[u].proc]] = "done"
    BY <1>4, <1>5, <2>1, <2>3, <2>4, <2>6 DEF IInv, ManagerInv
  <2>9. \A u, v \in Tasks : pc'[u] = "starting" /\ pc'[v] = "starting"
                            /\ plan[u].proc = plan[v].proc => u = v
    BY <1>4, <2>1 DEF IInv, ManagerInv
  <2>10. \A q \in Procs : owned'[q] \in Tasks =>
           plan[owned'[q]].proc = q /\ pc'[owned'[q]] \in Live \cup {"done"}
    BY <1>4, <1>5, <2>1, <2>6 DEF IInv, ManagerInv, p
  <2> QED BY <2>5, <2>7, <2>8, <2>9, <2>10 DEF ManagerInv
<1>8. RowsInv(t)'
  BY <1>4, <1>6 DEF RowsInv, Live, Playing
<1>9. FramesInv(t)'
  <2>1. CommittedBy(t)' = CommittedBy(t) /\ emitted' = emitted
    BY <1>1, HistoryKept DEF session, scheduler
  <2> QED BY <1>1, <1>4, <2>1 DEF IInv, TaskInv, FramesInv, Looping
<1>10. Sound(t, runs[t])'
  BY <1>6, StartedFacts, Inconclusive DEF Conclusive
<1> QED BY <1>1, <1>4, <1>5, <1>6, <1>7, <1>8, <1>9, <1>10, PlaceKeeps DEF After

LEMMA StartFailsKeeps ==
  ASSUME IInv, NEW t \in Tasks, StartFails(t)
  PROVE  IInv'
<1>1. /\ pc[t] = "starting" /\ Goto(t, "refused")
      /\ \/ UNCHANGED <<runs, lost>>
         \/ runs' = [runs EXCEPT ![t] = Started] /\ lost' = lost \cup {t}
      /\ UNCHANGED <<session, scheduler, plan, status, owned, stop, closing, asked>>
  BY DEF StartFails
<1>2. t \in Writers /\ TypeOK /\ Started \in Statuses
  BY StatusTypes DEF IInv, Writers
<1>3. /\ pc'[t] = "refused" /\ "refused" \in TaskPlaces \ {"updated"}
      /\ \A v \in Writers \ {t} : pc'[v] = pc[v]
  BY <1>1, <1>2, GotoFacts DEF TaskPlaces, Labels, Ended
<1>4. /\ owned' \in [Procs -> Tasks \cup {NoTask}] /\ owned' = owned /\ plan' = plan
  BY <1>1, <1>2 DEF TypeOK
<1>5. /\ runs' \in [Tasks -> Statuses \cup {Absent}]
      /\ runs'[t] = runs[t] \/ (runs'[t] = Started /\ t \in lost')
      /\ \A u \in Tasks \ {t} : runs'[u] = runs[u]
      /\ lost \subseteq lost' /\ lost' \subseteq Tasks
  BY <1>1, <1>2 DEF TypeOK
<1>6. ManagerInv'
  BY <1>1, <1>2, <1>3, <1>4, ManagerKept DEF IInv, Live, Playing
<1>7. RowsInv(t)'
  BY <1>1, <1>3, <1>5, StartedFacts DEF IInv, RowsInv, Live, Playing
<1>8. FramesInv(t)'
  BY <1>3 DEF FramesInv, Looping
<1>9. runs'[t] = runs[t] \/ Sound(t, runs[t])'
  BY <1>5, StartedFacts, Inconclusive DEF Conclusive
<1> QED BY <1>1, <1>3, <1>4, <1>5, <1>6, <1>7, <1>8, <1>9, PlaceKeeps DEF After

LEMMA RecordKeeps ==
  ASSUME IInv, NEW t \in Tasks, RecordOutcome(t) \/ RecordFails(t)
  PROVE  IInv'
<1>1. /\ pc[t] = "posted" /\ Goto(t, "done")
      /\ \/ runs' = [runs EXCEPT ![t] = status[t]] /\ lost' = lost
         \/ runs' = runs /\ lost' = lost \cup {t}
      /\ UNCHANGED <<session, scheduler, plan, status, owned, stop, closing, asked>>
  <2>1. pc[t] = "posted" => runs[t].outcome = "running"
    BY StartedFacts DEF IInv, RowsInv, Live
  <2>2. TypeOK
    BY DEF IInv
  <2> QED BY <2>1, <2>2 DEF RecordOutcome, RecordFails, TypeOK
<1>2. t \in Writers /\ TypeOK
  BY DEF IInv, Writers
<1>3. /\ pc'[t] = "done" /\ "done" \in TaskPlaces \ {"updated"}
      /\ \A v \in Writers \ {t} : pc'[v] = pc[v]
  BY <1>1, <1>2, GotoFacts DEF TaskPlaces, Labels, Ended
<1>4. /\ owned' \in [Procs -> Tasks \cup {NoTask}] /\ owned' = owned /\ plan' = plan
  BY <1>1, <1>2 DEF TypeOK
<1>5. /\ runs' \in [Tasks -> Statuses \cup {Absent}]
      /\ runs'[t] = status[t] \/ (runs'[t] = runs[t] /\ t \in lost')
      /\ \A u \in Tasks \ {t} : runs'[u] = runs[u]
      /\ lost \subseteq lost' /\ lost' \subseteq Tasks
  BY <1>1, <1>2 DEF TypeOK
<1>6. ManagerInv'
  BY <1>1, <1>2, <1>3, <1>4, ManagerKept DEF IInv, Live, Playing
<1>7. RowsInv(t)'
  BY <1>1, <1>3, <1>5, StartedFacts DEF IInv, RowsInv, Live, Playing
<1>8. FramesInv(t)'
  BY <1>3 DEF FramesInv, Looping
<1>9. runs'[t] = runs[t] \/ Sound(t, runs[t])'
  <2>1. CommitsElsewhere(t) /\ history \in Seq([by : Writers, next : 0 .. Total])
    BY <1>1, <1>2 DEF CommitsElsewhere, session, TypeOK
  <2>2. Sound(t, status[t])
    BY DEF IInv, TaskInv, EvidenceInv
  <2>3. \A e : Sound(t, e) => Sound(t, e)'
    BY <1>1, <1>3, <2>1, EvidenceKept
  <2> QED BY <1>5, <2>2, <2>3
<1> QED BY <1>1, <1>3, <1>4, <1>5, <1>6, <1>7, <1>8, <1>9, PlaceKeeps DEF After

LEMMA PostStatusKeeps ==
  ASSUME IInv, NEW t \in Tasks, PostStatus(t)
  PROVE  IInv'
<1>1. /\ pc[t] = "over" /\ Goto(t, "posted")
      /\ status' = [status EXCEPT ![t] = result[t]] /\ result' = [result EXCEPT ![t] = Started]
      /\ UNCHANGED <<row, holder, history, base, target, emitted, plan, owned, stop, runs, closing,
                     asked, lost>>
  BY DEF PostStatus, session
<1>2. t \in Writers /\ t # Operator /\ TypeOK /\ "posted" \in Labels /\ Started \in Statuses
  BY ReplayAssumption, StatusTypes DEF IInv, Writers, Labels, Live
<1>3. /\ pc' \in [Writers -> Labels] /\ pc'[t] = "posted"
      /\ \A v \in Writers \ {t} : pc'[v] = pc[v]
  BY <1>1, <1>2, GotoFacts
<1>4. /\ status' \in [Tasks -> Statuses] /\ status'[t] = result[t]
      /\ result' \in [Tasks -> Statuses] /\ result'[t] = Started
      /\ \A u \in Tasks \ {t} : status'[u] = status[u] /\ result'[u] = result[u]
  BY <1>1, <1>2 DEF TypeOK
<1>5. TypeOK'
  BY <1>1, <1>2, <1>3, <1>4 DEF TypeOK, Labels
<1>6. \A u \in Tasks \ {t} : UNCHANGED View(u)
  BY <1>1, <1>3, <1>4 DEF View, Writers
<1>7. Locks(t)
  BY <1>1, <1>2, <1>3 DEF Locks, IInv, HolderInv
<1>8. ManagerInv'
  BY <1>1, <1>2, <1>3, ManagerKept DEF IInv, Live, Playing
<1>9. RowsInv(t)'
  BY <1>1, <1>3, <1>4 DEF IInv, RowsInv, Live, Playing
<1>10. FramesInv(t)'
  BY <1>3 DEF FramesInv, Looping
<1>11. Sound(t, status[t])' /\ Sound(t, result[t])'
  <2>1. CommitsElsewhere(t) /\ history \in Seq([by : Writers, next : 0 .. Total])
    BY <1>1, <1>2 DEF CommitsElsewhere, TypeOK
  <2>2. Sound(t, result[t])
    BY DEF IInv, TaskInv, EvidenceInv
  <2>3. \A e : Sound(t, e) => Sound(t, e)'
    BY <1>1, <1>3, <2>1, EvidenceKept
  <2> QED BY <1>4, <2>2, <2>3, StartedFacts, Inconclusive DEF Conclusive
<1>12. TaskInv(t)'
  BY <1>1, <1>3, <1>10, <1>11, ActorKept DEF After
<1>13. pc'[t] \in TaskPlaces
  BY <1>3 DEF TaskPlaces, Live
<1> QED BY <1>1, <1>2, <1>3, <1>5, <1>6, <1>7, <1>8, <1>9, <1>12, <1>13, QuietStep

LEMMA SnapshotKeeps ==
  ASSUME IInv, NEW t \in Tasks, Snapshot(t)
  PROVE  IInv'
<1>1. pc[t] = "launched" /\ UNCHANGED <<session, manager, target, emitted>>
  BY DEF Snapshot
<1>2. t \in Writers /\ t # Operator /\ TypeOK /\ "playing" \in Labels
  BY ReplayAssumption DEF IInv, Writers, Labels, Live, Playing
<1>3. /\ UNCHANGED <<row, holder, history, target, emitted, plan, status, owned, stop, runs, closing,
                     asked, lost>>
  BY <1>1 DEF session, manager
<1>4. CASE RunnerFails(t)
  <2>1. holder # t
    BY <1>1, <1>2 DEF IInv, HolderInv
  <2> QED BY <1>1, <1>3, <1>4, <2>1, FailKeeps DEF Playing
<1>5. CASE /\ row.version = plan[t].expected
           /\ Read(t, row) /\ Goto(t, "playing") /\ result' = result
  <2>1. /\ pc' \in [Writers -> Labels] /\ pc'[t] = "playing"
        /\ \A v \in Writers \ {t} : pc'[v] = pc[v]
    BY <1>2, <1>5, GotoFacts
  <2>2. /\ base' \in [Writers -> Sessions] /\ base'[t] = row
        /\ \A v \in Writers \ {t} : base'[v] = base[v]
    BY <1>2, <1>5, ReadType, StatusTypes
  <2>3. TypeOK'
    BY <1>2, <1>3, <1>5, <2>1, <2>2 DEF TypeOK, Labels
  <2>4. \A u \in Tasks \ {t} : UNCHANGED View(u)
    BY <1>3, <1>5, <2>1, <2>2 DEF View, Writers
  <2>5. Locks(t)
    BY <1>1, <1>2, <1>3, <2>1 DEF Locks, IInv, HolderInv
  <2>6. ManagerInv'
    BY <1>1, <1>2, <1>3, <2>1, ManagerKept DEF IInv, Live, Playing
  <2>7. RowsInv(t)'
    BY <1>1, <1>3, <2>1 DEF IInv, RowsInv, Live, Playing
  <2>8. FramesInv(t)'
    <3>1. CommittedBy(t) = {} /\ emitted[t] = 0 /\ CommittedBy(t)' = CommittedBy(t)
      BY <1>1, <1>3, HistoryKept DEF IInv, TaskInv, FramesInv
    <3>2. plan[t].limit \in Nat \ {0} /\ plan[t].expected \in Nat
      BY <1>2, ReplayAssumption DEF TypeOK
    <3>3. Cardinality({}) = 0
      BY FS_EmptySet
    <3> QED BY <1>3, <1>5, <2>1, <2>2, <3>1, <3>2, <3>3 DEF FramesInv, Looping
  <2>9. TaskInv(t)'
    BY <1>1, <1>3, <1>5, <2>1, <2>8, ActorKept DEF After
  <2>10. pc'[t] \in TaskPlaces
    BY <2>1 DEF TaskPlaces, Live, Playing
  <2> QED BY <1>2, <1>3, <2>1, <2>2, <2>3, <2>4, <2>5, <2>6, <2>7, <2>9, <2>10, QuietStep
<1> QED BY <1>4, <1>5 DEF Snapshot

LEMMA PlayKeeps ==
  ASSUME IInv, NEW t \in Tasks, Play(t)
  PROVE  IInv'
<1>1. pc[t] = "playing" /\ UNCHANGED <<session, manager, target, emitted>>
  BY DEF Play
<1>2. t \in Writers /\ TypeOK
  BY DEF IInv, Writers
<1>3. /\ UNCHANGED <<row, holder, history, target, emitted, plan, status, owned, stop, runs, closing,
                     asked, lost>>
  BY <1>1 DEF session, manager
<1>4. base[t].version = row.version => base[t].next = row.next
  BY <1>2 DEF IInv, SessionInv
<1>5. CASE t \in stop /\ RunnerReturns(t, "stopped", emitted[t], base[t])
  BY <1>1, <1>5, ReturnKeeps
<1>6. CASE RunnerFails(t)
  <2>1. holder # t
    BY <1>1, <1>2 DEF IInv, HolderInv
  <2> QED BY <1>1, <1>3, <1>6, <2>1, FailKeeps DEF Playing
<1>7. CASE /\ row.version = base[t].version /\ row.next = Total
           /\ RunnerReturns(t, "complete", emitted[t], base[t])
  BY <1>1, <1>4, <1>7, ReturnKeeps
<1>8. CASE /\ t \notin stop /\ row.version = base[t].version /\ row.next # Total
           /\ Goto(t, "stepping") /\ UNCHANGED <<base, result>>
  <2>1. /\ pc'[t] = "stepping" /\ "stepping" \in TaskPlaces \ {"updated"}
        /\ \A v \in Writers \ {t} : pc'[v] = pc[v]
    BY <1>2, <1>8, GotoFacts DEF TaskPlaces, Labels, Live, Playing
  <2>2. UNCHANGED <<session, scheduler, plan, status, stop, closing, asked>>
    BY <1>1, <1>3, <1>8 DEF scheduler
  <2>3. /\ owned' \in [Procs -> Tasks \cup {NoTask}] /\ runs' \in [Tasks -> Statuses \cup {Absent}]
        /\ lost' \subseteq Tasks
    BY <1>2, <1>3 DEF TypeOK
  <2>4. ManagerInv'
    BY <1>1, <1>2, <1>3, <2>1, ManagerKept DEF IInv, Live, Playing
  <2>5. RowsInv(t)'
    BY <1>1, <1>3, <2>1 DEF IInv, RowsInv, Live, Playing
  <2>6. FramesInv(t)'
    <3>1. CommittedBy(t)' = CommittedBy(t)
      BY <1>3, HistoryKept
    <3> QED BY <1>1, <1>3, <1>4, <1>8, <2>1, <3>1 DEF IInv, TaskInv, FramesInv, Looping
  <2> QED BY <1>1, <1>3, <1>8, <2>1, <2>2, <2>3, <2>4, <2>5, <2>6, PlaceKeeps DEF After
<1> QED BY <1>5, <1>6, <1>7, <1>8 DEF Play

LEMMA UpdateKeeps ==
  ASSUME IInv, NEW t \in Tasks, UpdateSession(t)
  PROVE  IInv'
<1>1. pc[t] = "stepping" /\ holder = Nobody /\ UNCHANGED <<manager, target, emitted, row, history>>
  BY DEF UpdateSession
<1>2. t \in Writers /\ t # Operator /\ t # Nobody /\ TypeOK /\ "updated" \in Labels
  BY ReplayAssumption DEF IInv, Writers, Labels, Live, Playing
<1>3. UNCHANGED <<plan, status, owned, stop, runs, closing, asked, lost>>
  BY <1>1 DEF manager
<1>4. CASE RunnerFails(t) /\ UNCHANGED holder
  BY <1>1, <1>2, <1>4, FailKeeps DEF Playing
<1>5. CASE /\ base[t].version = row.version /\ holder' = t /\ Goto(t, "updated")
           /\ UNCHANGED <<base, result>>
  <2>1. /\ pc' \in [Writers -> Labels] /\ pc'[t] = "updated"
        /\ \A v \in Writers \ {t} : pc'[v] = pc[v]
    BY <1>2, <1>5, GotoFacts
  <2>2. TypeOK'
    BY <1>1, <1>2, <1>3, <1>5, <2>1 DEF TypeOK, Labels
  <2>3. \A u \in Tasks \ {t} : UNCHANGED View(u)
    BY <1>1, <1>3, <1>5, <2>1 DEF View, Writers
  <2>4. Locks(t)
    BY <1>1, <1>5, <2>1 DEF Locks
  <2>5. ManagerInv'
    BY <1>1, <1>2, <1>3, <2>1, ManagerKept DEF IInv, Live, Playing
  <2>6. RowsInv(t)'
    BY <1>1, <1>3, <2>1 DEF IInv, RowsInv, Live, Playing
  <2>7. FramesInv(t)'
    <3>1. CommittedBy(t)' = CommittedBy(t)
      BY <1>1, HistoryKept
    <3> QED BY <1>1, <1>3, <1>5, <2>1, <3>1 DEF IInv, TaskInv, FramesInv, Looping
  <2>8. TaskInv(t)'
    BY <1>1, <1>3, <1>5, <2>1, <2>7, ActorKept DEF After
  <2>9. pc'[t] \in TaskPlaces
    BY <2>1 DEF TaskPlaces, Live, Playing
  <2> QED BY <1>1, <1>2, <1>3, <1>5, <2>1, <2>2, <2>3, <2>4, <2>5, <2>6, <2>8, <2>9, QuietStep
<1> QED BY <1>4, <1>5 DEF UpdateSession, SaveMatches

(* What the commit of a frame makes of the history. *)
LEMMA FrameFacts ==
  ASSUME IInv, NEW t \in Tasks, pc[t] = "updated", Checkpoint(t, base[t].next + 1)
  PROVE  /\ row' \in Sessions /\ history' \in Seq([by : Writers, next : 0 .. Total])
         /\ holder = t /\ holder' = Nobody /\ base[t].next + 1 \in 0 .. Total
         /\ Uninterrupted(t)'
         /\ row'.version \in 0 .. Len(history') /\ row'.version \in CommittedBy(t)'
         /\ \A i \in CommittedBy(t)' : i <= row'.version
         /\ \A v : v = row'.version => CursorAt(v)' = row'.next
         /\ Cardinality(CommittedBy(t))' = Cardinality(CommittedBy(t)) + 1
         /\ Cardinality(CommittedBy(t)) = emitted[t]
         /\ row'.version = plan[t].expected + (emitted[t] + 1)
         /\ emitted[t] + 1 <= plan[t].limit
         /\ status[t].outcome \notin Conclusive /\ runs[t].outcome \notin Conclusive
<1> DEFINE N == Len(history)
           C == CommittedBy(t)
<1>1. /\ TypeOK /\ t \in Writers /\ history \in Seq([by : Writers, next : 0 .. Total]) /\ N \in Nat
      /\ emitted[t] \in Nat /\ plan[t].limit \in Nat /\ plan[t].expected \in Nat
  <2>1. TypeOK /\ t \in Writers
    BY DEF IInv, Writers
  <2>2. history \in Seq([by : Writers, next : 0 .. Total]) /\ N \in Nat
    BY <2>1 DEF TypeOK
  <2>3. plan[t] \in [proc : Procs, expected : Nat, limit : StepLimits] /\ emitted[t] \in Nat
    BY <2>1 DEF TypeOK
  <2>4. plan[t].limit \in Nat /\ plan[t].expected \in Nat
    BY <2>3, ReplayAssumption
  <2> QED BY <2>1, <2>2, <2>3, <2>4
<1>2. /\ base[t] = row /\ row \in Sessions /\ row.next + 1 \in 0 .. Total
      /\ row.version = N /\ row.next = CursorAt(N)
  BY TaskCommitFacts
<1>3. /\ row' = [next |-> row.next + 1, version |-> N + 1]
      /\ history' = Append(history, [by |-> t, next |-> row.next + 1])
      /\ holder' = Nobody
  BY <1>2 DEF Checkpoint
<1>4. /\ history' \in Seq([by : Writers, next : 0 .. Total])
      /\ Len(history') = N + 1
      /\ \A i \in 1 .. N : history'[i] = history[i]
      /\ history'[N + 1] = [by |-> t, next |-> row.next + 1]
      /\ \A v \in 0 .. N : CursorAt(v)' = CursorAt(v)
      /\ \A v : v = N + 1 => CursorAt(v)' = row.next + 1
      /\ CommittedBy(t)' = C \cup {N + 1}
      /\ Cardinality(CommittedBy(t))' = Cardinality(C) + 1
  BY <1>1, <1>2, <1>3, CommitFacts
<1>5. /\ emitted[t] = Cardinality(C) /\ emitted[t] < plan[t].limit
      /\ N = plan[t].expected + emitted[t]
      /\ \A i \in C : i <= N
      /\ C # {} => N \in C
      /\ Uninterrupted(t) /\ EvidenceInv(t)
  BY <1>2 DEF IInv, TaskInv, FramesInv, Looping
<1>6. \A i \in C : i \in 1 .. N
  BY <1>1, CommittedFacts
<1>7. Uninterrupted(t)'
  <2>1. ASSUME NEW i \in C
        PROVE  /\ history'[i].next = CursorAt(i - 1)' + 1
               /\ \A j \in C \cup {N + 1} : \A k \in i .. j : history'[k].by = t
    <3>1. i \in 1 .. N /\ i - 1 \in 0 .. N /\ N \in C
      BY <1>1, <1>5, <1>6
    <3>2. history'[i].next = CursorAt(i - 1)' + 1
      BY <1>4, <1>5, <3>1 DEF Uninterrupted
    <3>3. ASSUME NEW k \in i .. N PROVE history'[k].by = t
      <4>1. \A j \in C : \A m \in i .. j : history[m].by = t
        BY <1>5 DEF Uninterrupted
      <4>2. history[k].by = t /\ k \in 1 .. N
        BY <1>1, <3>1, <3>3, <4>1
      <4> QED BY <1>4, <4>2
    <3>4. history'[N + 1].by = t
      BY <1>4
    <3>5. ASSUME NEW j \in C \cup {N + 1}, NEW k \in i .. j PROVE history'[k].by = t
      <4>1. k \in i .. N \/ k = N + 1
        BY <1>1, <1>6, <3>1, <3>5
      <4> QED BY <3>3, <3>4, <4>1
    <3> QED BY <3>2, <3>5
  <2>2. \A v : v = N => CursorAt(v)' = row.next
    BY <1>1, <1>2, <1>4
  <2>3. \A v : v = N + 1 => history'[v].next = CursorAt(v - 1)' + 1
    BY <1>1, <1>4, <2>2
  <2>4. \A j \in C \cup {N + 1} : \A k \in N + 1 .. j : history'[k].by = t
    BY <1>1, <1>4, <1>6
  <2>5. ASSUME NEW i \in CommittedBy(t)'
        PROVE  /\ history'[i].next = CursorAt(i - 1)' + 1
               /\ \A j \in CommittedBy(t)' : \A k \in i .. j : history'[k].by = t
    <3>1. i \in C \/ i = N + 1
      BY <1>4, <2>5
    <3> QED BY <1>4, <2>1, <2>3, <2>4, <3>1
  <2> QED BY <2>5 DEF Uninterrupted
<1>8. status[t].outcome \notin Conclusive /\ runs[t].outcome \notin Conclusive
  BY <1>5 DEF EvidenceInv, Sound
<1>9. row'.version = N + 1 /\ row'.next = row.next + 1 /\ row' \in Sessions
  BY <1>1, <1>2, <1>3 DEF Sessions
<1>10. holder = t
  BY <1>1 DEF IInv, HolderInv
<1>11. /\ row'.version \in 0 .. Len(history') /\ row'.version \in CommittedBy(t)'
       /\ \A v : v = row'.version => CursorAt(v)' = row'.next
  BY <1>1, <1>4, <1>9
<1>12. \A i \in CommittedBy(t)' : i <= row'.version
  BY <1>1, <1>4, <1>6, <1>9
<1>13. row'.version = plan[t].expected + (emitted[t] + 1) /\ emitted[t] + 1 <= plan[t].limit
  BY <1>1, <1>5, <1>9
<1>14. base[t].next + 1 \in 0 .. Total
  BY <1>2
<1> QED BY <1>3, <1>4, <1>5, <1>7, <1>8, <1>9, <1>10, <1>11, <1>12, <1>13, <1>14

(* A frame is committed, and the loop goes on or is over. *)
LEMMA FrameKeeps ==
  ASSUME IInv, NEW t \in Tasks, pc[t] = "updated", Checkpoint(t, base[t].next + 1),
         UNCHANGED <<manager, target>>,
         pc' \in [Writers -> Labels], base' \in [Writers -> Sessions],
         result' \in [Tasks -> Statuses], emitted' \in [Tasks -> Nat],
         \A v \in Writers \ {t} : pc'[v] = pc[v] /\ base'[v] = base[v],
         \A u \in Tasks \ {t} : result'[u] = result[u] /\ emitted'[u] = emitted[u],
         base'[t] \in {row', NewSession},
         \/ /\ pc'[t] = "playing" /\ base'[t] = row' /\ row'.next # Total
            /\ emitted'[t] = emitted[t] + 1 /\ emitted'[t] # plan[t].limit
            /\ result'[t] = result[t]
         \/ /\ pc'[t] = "over" /\ result'[t].outcome # "running"
            /\ Sound(t, result[t])'
  PROVE  IInv'
<1>1. UNCHANGED <<plan, status, owned, stop, runs, closing, asked, lost, target>>
  BY DEF manager
<1>2. TypeOK /\ t \in Writers /\ t # Operator
  BY ReplayAssumption DEF IInv, Writers
<1>3. TypeOK'
  BY <1>1, <1>2, FrameFacts DEF TypeOK, Labels
<1>4. \A u \in Tasks \ {t} : UNCHANGED View(u)
  BY <1>1 DEF View, Writers
<1>5. /\ pc'[t] \in Live /\ pc'[t] # "starting" /\ pc[t] \in Live
      /\ pc'[t] \in TaskPlaces \ {"updated"}
  BY DEF Live, Playing, TaskPlaces
<1>6. ManagerInv'
  BY <1>1, <1>2, <1>5, ManagerKept DEF IInv
<1>7. RowsInv(t)'
  BY <1>1, <1>5 DEF IInv, RowsInv, Live, Playing
<1>8. FramesInv(t)'
  <2>1. CASE pc'[t] = "over"
    BY <2>1 DEF FramesInv, Looping
  <2>2. CASE /\ pc'[t] = "playing" /\ base'[t] = row' /\ row'.next # Total
             /\ emitted'[t] = emitted[t] + 1 /\ emitted'[t] # plan[t].limit
    <3>1. /\ row'.version \in CommittedBy(t)' /\ \A i \in CommittedBy(t)' : i <= row'.version
          /\ Cardinality(CommittedBy(t))' = emitted[t] + 1
          /\ row'.version = plan[t].expected + (emitted[t] + 1)
          /\ emitted[t] + 1 <= plan[t].limit
      BY FrameFacts
    <3>2. emitted[t] \in Nat /\ plan[t].limit \in Nat
      BY <1>2, ReplayAssumption DEF TypeOK
    <3>3. emitted'[t] < plan'[t].limit
      BY <1>1, <2>2, <3>1, <3>2
    <3> QED BY <1>1, <2>2, <3>1, <3>3 DEF FramesInv, Looping
  <2> QED BY <2>1, <2>2
<1>9. EvidenceInv(t)'
  <2>1. status'[t].outcome \notin Conclusive /\ runs'[t].outcome \notin Conclusive
    BY <1>1, FrameFacts
  <2>2. Sound(t, status[t])' /\ Sound(t, runs[t])'
    BY <2>1 DEF Sound
  <2>3. pc'[t] = "playing" => result'[t].outcome \notin Conclusive
    <3>1. EvidenceInv(t)
      BY DEF IInv, TaskInv
    <3>2. result[t].outcome \notin Conclusive
      BY <3>1 DEF EvidenceInv, Sound
    <3> QED BY <3>2
  <2>4. Sound(t, result[t])'
    BY <2>3 DEF Sound
  <2> QED BY <2>2, <2>4 DEF EvidenceInv
<1>10. StopInv(t)'
  <2>1. StopInv(t) /\ asked[t] \in Nat /\ emitted[t] \in Nat
    BY <1>2 DEF IInv, TaskInv, TypeOK
  <2>2. /\ Cardinality(CommittedBy(t))' = Cardinality(CommittedBy(t)) + 1
        /\ Cardinality(CommittedBy(t)) = emitted[t]
    BY FrameFacts
  <2>3. t \in stop => Cardinality(CommittedBy(t)) <= asked[t]
    BY <2>1 DEF StopInv
  <2>4. pc'[t] \notin {"stepping", "updated"}
    OBVIOUS
  <2>5. t \in stop => Cardinality(CommittedBy(t))' <= asked[t] + 1
    BY <2>1, <2>2, <2>3
  <2> QED BY <1>1, <2>4, <2>5 DEF StopInv
<1>11. TaskInv(t)'
  BY <1>8, <1>9, <1>10, FrameFacts DEF TaskInv
<1>12. base[t].next + 1 \in 0 .. Total
  BY FrameFacts
<1> QED BY <1>1, <1>2, <1>3, <1>4, <1>5, <1>6, <1>7, <1>11, <1>12, CommitStep

LEMMA UnansweredKeeps ==
  ASSUME IInv, NEW t \in Tasks, CommitUnanswered(t)
  PROVE  IInv'
<1>1. /\ pc[t] = "updated" /\ Checkpoint(t, base[t].next + 1) /\ RunnerFails(t)
      /\ UNCHANGED <<manager, target>> /\ emitted' = emitted
  BY DEF CommitUnanswered
<1>2. TypeOK /\ emitted' \in [Tasks -> Nat]
  BY <1>1 DEF IInv, TypeOK
<1>3. /\ result' \in [Tasks -> Statuses] /\ result'[t] = FailedStatus(t)
      /\ \A u \in Tasks \ {t} : result'[u] = result[u]
      /\ base' \in [Writers -> Sessions] /\ base'[t] = NewSession
      /\ \A v \in Writers \ {t} : base'[v] = base[v]
      /\ pc' \in [Writers -> Labels] /\ pc'[t] = "over"
      /\ \A v \in Writers \ {t} : pc'[v] = pc[v]
  BY <1>1, <1>2, FailsType
<1>4. result'[t].outcome = "failed"
  BY <1>3, StartedFacts
<1>5. Sound(t, result[t])'
  BY <1>4 DEF Sound, Conclusive
<1> QED BY <1>1, <1>2, <1>3, <1>4, <1>5, FrameKeeps

LEMMA CommitFrameKeeps ==
  ASSUME IInv, NEW t \in Tasks, CommitFrame(t)
  PROVE  IInv'
<1> DEFINE n == emitted[t] + 1
<1>1. /\ pc[t] = "updated" /\ Checkpoint(t, base[t].next + 1)
      /\ UNCHANGED <<manager, target>> /\ emitted' = [emitted EXCEPT ![t] = n]
  BY DEF CommitFrame
<1>2. TypeOK /\ t \in Writers /\ emitted \in [Tasks -> Nat]
  BY DEF IInv, TypeOK, Writers
<1>3. /\ emitted' \in [Tasks -> Nat] /\ emitted'[t] = n /\ n \in Nat
      /\ \A u \in Tasks \ {t} : emitted'[u] = emitted[u]
  BY <1>1, <1>2
<1>4. row' \in Sessions /\ plan' = plan /\ stop' = stop
  BY <1>1, FrameFacts DEF manager
<1> HIDE DEF n
<1>5. ASSUME NEW o \in {"complete", "step_limit"}, RunnerReturns(t, o, n, row'),
             (o = "complete") <=> (row'.next = Total), o = "step_limit" => n = plan[t].limit
      PROVE  IInv'
  <2>1. o \in Outcomes
    BY DEF Outcomes
  <2>2. /\ result' \in [Tasks -> Statuses] /\ result'[t] = TaskStatus(o, n, row'.version)
        /\ \A u \in Tasks \ {t} : result'[u] = result[u]
        /\ base' \in [Writers -> Sessions] /\ base'[t] = NewSession
        /\ \A v \in Writers \ {t} : base'[v] = base[v]
        /\ pc' \in [Writers -> Labels] /\ pc'[t] = "over"
        /\ \A v \in Writers \ {t} : pc'[v] = pc[v]
    BY <1>2, <1>3, <1>4, <1>5, <2>1, ReturnsType
  <2>3. result'[t].outcome = o /\ result'[t].frames = n /\ result'[t].version = row'.version
    BY <2>2, StartedFacts
  <2>4. /\ row'.version \in 0 .. Len(history')
        /\ \A i \in CommittedBy(t)' : i <= row'.version
        /\ \A v : v = row'.version => CursorAt(v)' = row'.next
        /\ Cardinality(CommittedBy(t))' = n
        /\ row'.version = plan[t].expected + n
        /\ n <= plan[t].limit
    BY <1>1, FrameFacts DEF n
  <2>5. EvidenceIsTrue(t, result[t])'
    BY <1>4, <1>5, <2>3, <2>4 DEF EvidenceIsTrue
  <2>6. Sound(t, result[t])'
    BY <2>2, <2>3, <2>4, <2>5 DEF Sound
  <2> QED BY <1>1, <1>3, <2>2, <2>3, <2>6, FrameKeeps
<1>6. ASSUME Read(t, row'), Goto(t, "playing"), result' = result, row'.next # Total,
             n # plan[t].limit
      PROVE  IInv'
  <2>1. "playing" \in Labels
    BY DEF Labels, Live, Playing
  <2>2. /\ pc' \in [Writers -> Labels] /\ pc'[t] = "playing"
        /\ \A v \in Writers \ {t} : pc'[v] = pc[v]
    BY <1>2, <1>6, <2>1, GotoFacts
  <2>3. /\ base' \in [Writers -> Sessions] /\ base'[t] = row'
        /\ \A v \in Writers \ {t} : base'[v] = base[v]
    BY <1>2, <1>4, <1>6, ReadType
  <2>4. result' \in [Tasks -> Statuses]
    BY <1>2, <1>6 DEF TypeOK
  <2> QED BY <1>1, <1>3, <1>6, <2>2, <2>3, <2>4, FrameKeeps DEF n
<1> QED BY <1>3, <1>5, <1>6 DEF CommitFrame

LEMMA RunnerRaisesKeeps ==
  ASSUME IInv, NEW t \in Tasks, RunnerRaises(t)
  PROVE  IInv'
BY FailKeeps DEF RunnerRaises

-----------------------------------------------------------------------------
(* Steps of a process. *)

(* A step that moves no transaction, and leaves what the tasks wrote. *)
LEMMA ProcessStep ==
  ASSUME IInv, TypeOK', ManagerInv',
         UNCHANGED <<session, scheduler, pc, plan, status, runs, lost>>,
         \A t \in Tasks : UNCHANGED <<asked[t], t \in stop>> \/ TaskInv(t)'
  PROVE  IInv'
<1>1. /\ UNCHANGED <<row, holder, history>> /\ UNCHANGED <<base, target, emitted, result>>
      /\ UNCHANGED <<pc, plan, status, runs, lost>>
  BY DEF session, scheduler
<1>2. PlacesInv'
  BY <1>1 DEF IInv, PlacesInv
<1>3. SessionInv'
  BY <1>1, SessionKept DEF IInv
<1>4. HolderInv'
  BY <1>1 DEF IInv, HolderInv
<1>5. ASSUME NEW t \in Tasks PROVE RowsInv(t)' /\ TaskInv(t)'
  <2>1. RowsInv(t)'
    BY <1>1 DEF IInv, RowsInv
  <2>2. ASSUME UNCHANGED <<asked[t], t \in stop>> PROVE TaskInv(t)'
    <3>1. UNCHANGED View(t)
      BY <1>1, <2>2 DEF View
    <3>2. CommitsElsewhere(t) /\ history \in Seq([by : Writers, next : 0 .. Total]) /\ TaskInv(t)
      BY <1>1 DEF CommitsElsewhere, IInv, TypeOK
    <3> QED BY <3>1, <3>2, OthersKept
  <2> QED BY <2>1, <2>2
<1> QED BY <1>2, <1>3, <1>4, <1>5 DEF IInv

(* A task is told to stop at most once, and starts counting there. *)
LEMMA ToldKeeps ==
  ASSUME IInv, NEW t \in Tasks, TellToStop(t), t \notin stop,
         UNCHANGED <<session, scheduler, pc, plan, status, runs, lost>>
  PROVE  /\ stop' \subseteq Tasks /\ asked' \in [Tasks -> Nat]
         /\ \A u \in Tasks : UNCHANGED <<asked[u], u \in stop>> \/ TaskInv(u)'
<1>1. /\ UNCHANGED <<row, holder, history>> /\ UNCHANGED <<base, target, emitted, result>>
      /\ UNCHANGED <<pc, plan, status, runs, lost>>
  BY DEF session, scheduler
<1>2. /\ asked \in [Tasks -> Nat] /\ stop \subseteq Tasks
      /\ history \in Seq([by : Writers, next : 0 .. Total])
  BY DEF IInv, TypeOK
<1>3. Cardinality(CommittedBy(t)) \in Nat
  BY <1>2, CommittedFacts
<1>4. /\ asked' \in [Tasks -> Nat] /\ asked'[t] = Cardinality(CommittedBy(t))
      /\ \A u \in Tasks \ {t} : asked'[u] = asked[u]
      /\ stop' = stop \cup {t}
  BY <1>2, <1>3 DEF TellToStop
<1>5. CommittedBy(t)' = CommittedBy(t)
  BY <1>1, HistoryKept
<1>6. FramesInv(t) /\ Uninterrupted(t) /\ EvidenceInv(t)
  BY DEF IInv, TaskInv
<1>7. CommitsElsewhere(t)
  BY <1>1 DEF CommitsElsewhere
<1>8. FramesInv(t)'
  BY <1>1, <1>5, <1>6 DEF FramesInv
<1>9. Uninterrupted(t)'
  BY <1>2, <1>6, <1>7, UninterruptedKept
<1>10. EvidenceInv(t)'
  BY <1>1, <1>2, <1>4, <1>6, <1>7, EvidenceKept DEF EvidenceInv
<1>11. StopInv(t)'
  BY <1>3, <1>4, <1>5 DEF StopInv
<1>12. TaskInv(t)'
  BY <1>8, <1>9, <1>10, <1>11 DEF TaskInv
<1> QED BY <1>2, <1>4, <1>12

LEMMA StopKeeps ==
  ASSUME IInv, NEW p \in Procs, StopPlayback(p)
  PROVE  IInv'
<1>1. /\ owned[p] \in Tasks /\ owned[p] \notin stop /\ TellToStop(owned[p])
      /\ UNCHANGED <<session, scheduler, pc, plan, status, owned, runs, closing, lost>>
  BY DEF StopPlayback, CanStop
<1>2. /\ stop' \subseteq Tasks /\ asked' \in [Tasks -> Nat]
      /\ \A u \in Tasks : UNCHANGED <<asked[u], u \in stop>> \/ TaskInv(u)'
  BY <1>1, ToldKeeps
<1>3. TypeOK'
  BY <1>1, <1>2 DEF IInv, TypeOK, session, scheduler
<1>4. ManagerInv'
  BY <1>1 DEF IInv, ManagerInv
<1> QED BY <1>1, <1>2, <1>3, <1>4, ProcessStep

LEMMA CloseKeeps ==
  ASSUME IInv, NEW p \in Procs, Close(p)
  PROVE  IInv'
<1>1. /\ closing' = closing \cup {p}
      /\ UNCHANGED <<session, scheduler, pc, plan, status, owned, runs, lost>>
  BY DEF Close
<1>2. ManagerInv'
  BY <1>1 DEF IInv, ManagerInv
<1>3. CASE CanStop(p)
  <2>1. owned[p] \in Tasks /\ owned[p] \notin stop /\ TellToStop(owned[p])
    BY <1>3 DEF Close, CanStop
  <2>2. /\ stop' \subseteq Tasks /\ asked' \in [Tasks -> Nat]
        /\ \A u \in Tasks : UNCHANGED <<asked[u], u \in stop>> \/ TaskInv(u)'
    BY <1>1, <2>1, ToldKeeps
  <2>3. TypeOK'
    BY <1>1, <2>2 DEF IInv, TypeOK, session, scheduler
  <2> QED BY <1>1, <1>2, <2>2, <2>3, ProcessStep
<1>4. CASE ~CanStop(p)
  <2>1. UNCHANGED <<stop, asked>>
    BY <1>4 DEF Close
  <2>2. TypeOK'
    BY <1>1, <2>1 DEF IInv, TypeOK, session, scheduler
  <2>3. \A u \in Tasks : UNCHANGED <<asked[u], u \in stop>>
    BY <2>1
  <2> QED BY <1>1, <1>2, <2>2, <2>3, ProcessStep
<1> QED BY <1>3, <1>4

(* What a process gives up when it ends has come to its end. *)
LEMMA ExitKeeps ==
  ASSUME IInv, NEW p \in Procs, Exit(p)
  PROVE  IInv'
<1>1. /\ closing' = closing \ {p} /\ owned' = [owned EXCEPT ![p] = NoTask]
      /\ owned[p] \in Tasks => pc[owned[p]] = "done"
      /\ UNCHANGED <<session, scheduler, pc, plan, status, stop, runs, asked, lost>>
  BY DEF Exit
<1>2. owned \in [Procs -> Tasks \cup {NoTask}] /\ closing \subseteq Procs
  BY DEF IInv, TypeOK
<1>3. /\ owned' \in [Procs -> Tasks \cup {NoTask}] /\ owned'[p] = NoTask /\ NoTask \notin Tasks
      /\ \A q \in Procs \ {p} : owned'[q] = owned[q]
  BY <1>1, <1>2, ReplayAssumption
<1>4. TypeOK'
  BY <1>1, <1>2, <1>3 DEF IInv, TypeOK, session, scheduler
<1>5. \A t \in Tasks : plan[t].proc \in Procs
  BY DEF IInv, TypeOK
<1>6. "done" \notin Live
  BY DEF Live, Playing
<1>7. ManagerInv
  BY DEF IInv
<1>8. ManagerInv'
  <2>1. \A t \in Tasks : pc'[t] \in Live => owned'[plan'[t].proc] = t
    BY <1>1, <1>3, <1>5, <1>6, <1>7 DEF ManagerInv
  <2>2. \A t \in Tasks : pc'[t] = "starting" /\ owned'[plan'[t].proc] \in Tasks =>
          pc'[owned'[plan'[t].proc]] = "done"
    BY <1>1, <1>3, <1>5, <1>7 DEF ManagerInv
  <2>3. \A q \in Procs : owned'[q] \in Tasks =>
          plan'[owned'[q]].proc = q /\ pc'[owned'[q]] \in Live \cup {"done"}
    BY <1>1, <1>3, <1>7 DEF ManagerInv
  <2> QED BY <1>1, <1>7, <2>1, <2>2, <2>3 DEF ManagerInv
<1>9. \A u \in Tasks : UNCHANGED <<asked[u], u \in stop>>
  BY <1>1
<1> QED BY <1>1, <1>4, <1>8, <1>9, ProcessStep

(* A process dies: its tasks hold nothing any more and commit nothing, and   *)
(* what they wrote stays as true as it was.                                  *)
LEMMA CrashKeeps ==
  ASSUME IInv, NEW p \in Procs, Crash(p)
  PROVE  IInv'
<1> DEFINE dying == {t \in Tasks : plan[t].proc = p /\ pc[t] \in Live \cup {"checked", "starting"}}
<1>1. PICK inserted \in SUBSET {t \in dying : pc[t] = "starting"} :
        /\ runs' = [t \in Tasks |-> IF t \in inserted THEN Started ELSE runs[t]]
        /\ lost' = lost \cup inserted \cup {t \in dying : pc[t] \in Live}
  BY DEF Crash
<1>2. /\ pc' = [w \in Writers |-> IF w \in dying THEN "gone" ELSE pc[w]]
      /\ holder' = IF holder \in dying THEN Nobody ELSE holder
      /\ owned' = [owned EXCEPT ![p] = NoTask]
      /\ closing' = closing \ {p}
      /\ base' = [w \in Writers |-> IF w \in dying THEN NewSession ELSE base[w]]
      /\ UNCHANGED <<row, history, target, emitted, result, plan, status, stop, asked>>
  BY DEF Crash
<1>3. /\ dying \subseteq Tasks /\ inserted \subseteq dying
      /\ \A t \in inserted : pc[t] = "starting"
      /\ \A t \in dying : plan[t].proc = p /\ pc[t] \in Live \cup {"checked", "starting"}
      /\ \A t \in Tasks \ dying : plan[t].proc = p => pc[t] \notin Live /\ pc[t] # "starting"
      /\ \A t \in dying : pc[t] \in Live => t \in lost'
      /\ lost \subseteq lost' /\ lost' \subseteq lost \cup dying
      /\ \A t \in inserted : t \in lost'
  BY <1>1
<1> HIDE DEF dying
<1>4. Tasks \subseteq Writers /\ Operator \in Writers \ dying /\ Nobody \notin Writers
      /\ NoTask \notin Tasks
  BY <1>3, ReplayAssumption DEF Writers
<1>5. /\ \A w \in dying : pc'[w] = "gone" /\ base'[w] = NewSession
      /\ \A w \in Writers \ dying : pc'[w] = pc[w] /\ base'[w] = base[w]
      /\ \A t \in Tasks \ inserted : runs'[t] = runs[t]
      /\ \A t \in inserted : runs'[t] = Started
  BY <1>1, <1>2, <1>3, <1>4
<1>6. TypeOK
  BY DEF IInv
<1>7. TypeOK'
  <2>1. NewSession \in Sessions /\ Started \in Statuses
    BY <1>6, StatusTypes
  <2>2. base' \in [Writers -> Sessions] /\ pc' \in [Writers -> Labels]
    BY <1>2, <1>6, <2>1 DEF TypeOK, Labels, Ended
  <2>3. runs' \in [Tasks -> Statuses \cup {Absent}]
    BY <1>1, <1>6, <2>1 DEF TypeOK
  <2>4. /\ holder' \in Writers \cup {Nobody} /\ owned' \in [Procs -> Tasks \cup {NoTask}]
        /\ closing' \subseteq Procs /\ lost' \subseteq Tasks
    BY <1>2, <1>3, <1>6 DEF TypeOK
  <2> QED BY <1>2, <1>6, <2>2, <2>3, <2>4 DEF TypeOK, Labels
<1>8. PlacesInv'
  <2>1. "gone" \in TaskPlaces
    BY DEF TaskPlaces, Ended
  <2>2. PlacesInv
    BY DEF IInv
  <2>3. \A t \in Tasks : pc'[t] \in TaskPlaces
    BY <1>4, <1>5, <2>1, <2>2 DEF PlacesInv
  <2>4. pc'[Operator] = pc[Operator]
    BY <1>4, <1>5
  <2> QED BY <2>2, <2>3, <2>4 DEF PlacesInv
<1>9. SessionInv'
  BY <1>2, <1>5, SessionKept
<1>10. HolderInv'
  <2>1. HolderInv
    BY DEF IInv
  <2>2. \A w \in Writers : pc'[w] = "updated" => w \notin dying
    BY <1>5
  <2>3. \A w \in Writers \ dying : pc'[w] = "updated" <=> holder' = w
    BY <1>2, <1>4, <1>5, <2>1 DEF HolderInv
  <2>4. \A w \in dying : w \in Writers /\ holder' # w
    BY <1>2, <1>3, <1>4
  <2>5. \A w \in Writers : pc'[w] = "updated" => base'[w].version = row'.version
    BY <1>2, <1>5, <2>1, <2>2 DEF HolderInv
  <2> QED BY <2>2, <2>3, <2>4, <2>5 DEF HolderInv
<1>11. ManagerInv'
  <2>1. /\ owned \in [Procs -> Tasks \cup {NoTask}] /\ ManagerInv
        /\ \A t \in Tasks : plan[t].proc \in Procs
    BY DEF IInv, TypeOK
  <2>2. owned'[p] = NoTask /\ \A q \in Procs \ {p} : owned'[q] = owned[q]
    BY <1>2, <2>1
  <2>3. "gone" \notin Live /\ "gone" # "starting"
    BY DEF Live, Playing
  <2>4. \A t \in Tasks : pc'[t] \in Live \/ pc'[t] = "starting" =>
          t \notin dying /\ plan[t].proc # p /\ pc'[t] = pc[t]
    BY <1>3, <1>4, <1>5, <2>3
  <2>5. \A t \in Tasks : plan[t].proc # p => pc'[t] = pc[t]
    BY <1>3, <1>4, <1>5
  <2>6. \A t \in Tasks : pc'[t] \in Live => owned'[plan'[t].proc] = t
    BY <1>2, <2>1, <2>2, <2>4 DEF ManagerInv
  <2>7. \A t \in Tasks : pc'[t] = "starting" /\ owned'[plan'[t].proc] \in Tasks =>
          pc'[owned'[plan'[t].proc]] = "done"
    <3>1. ASSUME NEW t \in Tasks, pc'[t] = "starting", owned'[plan'[t].proc] \in Tasks
          PROVE  pc'[owned'[plan'[t].proc]] = "done"
      <4> DEFINE q == plan[t].proc
                 u == owned[q]
      <4>1. q \in Procs /\ q # p /\ pc[t] = "starting"
        BY <2>1, <2>4, <3>1
      <4>2. plan'[t].proc = q /\ owned'[q] = u /\ u \in Tasks
        BY <1>2, <2>2, <3>1, <4>1
      <4>3. pc[u] = "done" /\ plan[u].proc = q
        BY <2>1, <4>1, <4>2 DEF ManagerInv
      <4> HIDE DEF q, u
      <4>4. pc'[u] = "done"
        BY <2>5, <4>1, <4>2, <4>3
      <4> QED BY <4>2, <4>4
    <3> QED BY <3>1
  <2>8. \A t, u \in Tasks : /\ pc'[t] = "starting" /\ pc'[u] = "starting"
                            /\ plan'[t].proc = plan'[u].proc
                            => t = u
    BY <1>2, <2>1, <2>4 DEF ManagerInv
  <2>9. \A q \in Procs : owned'[q] \in Tasks =>
          plan'[owned'[q]].proc = q /\ pc'[owned'[q]] \in Live \cup {"done"}
    BY <1>2, <1>4, <2>1, <2>2, <2>5 DEF ManagerInv
  <2> QED BY <2>6, <2>7, <2>8, <2>9 DEF ManagerInv
<1>12. ASSUME NEW t \in dying PROVE RowsInv(t)' /\ TaskInv(t)'
  <2>1. t \in Tasks /\ pc'[t] = "gone"
    BY <1>3, <1>5
  <2>2. RowsInv(t)'
    <3>1. RowsInv(t)
      BY <2>1 DEF IInv
    <3>2. runs'[t] = Started => t \in lost'
      BY <1>3, <1>5, <2>1, <3>1 DEF RowsInv
    <3> QED BY <2>1, <3>2 DEF RowsInv, Live, Playing
  <2>3. FramesInv(t)'
    BY <2>1 DEF FramesInv, Looping
  <2>4. runs'[t] = runs[t] \/ Sound(t, runs[t])'
    <3>1. ASSUME t \in inserted PROVE Sound(t, runs[t])'
      BY <1>5, <3>1, StartedFacts, Inconclusive DEF Conclusive
    <3> QED BY <1>5, <2>1, <3>1
  <2>5. TaskInv(t)'
    BY <1>2, <2>1, <2>3, <2>4, ActorKept DEF After
  <2> QED BY <2>2, <2>5
<1>13. ASSUME NEW t \in Tasks \ dying PROVE RowsInv(t)' /\ TaskInv(t)'
  <2>1. UNCHANGED View(t)
    BY <1>2, <1>3, <1>4, <1>5 DEF View
  <2>2. CommitsElsewhere(t) /\ RowsInv(t) /\ TaskInv(t)
    BY <1>2 DEF CommitsElsewhere, IInv
  <2>3. history \in Seq([by : Writers, next : 0 .. Total])
    BY <1>6 DEF TypeOK
  <2> QED BY <1>3, <2>1, <2>2, <2>3, OthersKept, RowsKept
<1>14. \A t \in Tasks : RowsInv(t)' /\ TaskInv(t)'
  BY <1>12, <1>13
<1> QED BY <1>7, <1>8, <1>9, <1>10, <1>11, <1>14 DEF IInv

-----------------------------------------------------------------------------
(* Steps by hand. *)

(* What the operator's requests leave alone. *)
LEMMA ByHandFacts ==
  ASSUME IInv, UNCHANGED manager, UNCHANGED <<emitted, result>>,
         NEW label \in {"idle", "stepping", "updated"}, Goto(Operator, label),
         \A v \in Writers \ {Operator} : base'[v] = base[v]
  PROVE  /\ Operator \in Writers /\ Operator \notin Tasks
         /\ pc' \in [Writers -> Labels] /\ pc'[Operator] = label
         /\ \A v \in Writers \ {Operator} : pc'[v] = pc[v]
         /\ \A u \in Tasks \ {Operator} : UNCHANGED View(u)
         /\ ManagerInv' /\ lost \subseteq lost'
<1>1. Operator \in Writers /\ Operator \notin Tasks /\ label \in Labels /\ TypeOK
  BY ReplayAssumption DEF Writers, Labels, Live, Playing, IInv
<1>2. /\ pc' \in [Writers -> Labels] /\ pc'[Operator] = label
      /\ \A v \in Writers \ {Operator} : pc'[v] = pc[v]
  BY <1>1, GotoType
<1>3. UNCHANGED <<plan, status, owned, stop, runs, closing, asked, lost>>
  BY DEF manager
<1>4. \A u \in Tasks : u \in Writers \ {Operator}
  BY <1>1 DEF Writers
<1>5. \A u \in Tasks \ {Operator} : UNCHANGED View(u)
  BY <1>2, <1>3, <1>4 DEF View
<1>6. \A u \in Tasks : pc'[u] = pc[u]
  BY <1>2, <1>4
<1>7. ManagerInv'
  <2> HIDE DEF Live
  <2> QED BY <1>3, <1>6 DEF IInv, ManagerInv
<1> QED BY <1>1, <1>2, <1>3, <1>5, <1>7

LEMMA MoveKeeps ==
  ASSUME IInv, NEW n \in Moves, MoveByHand(n)
  PROVE  IInv'
<1>1. /\ pc[Operator] = "idle" /\ Read(Operator, row) /\ target' = n /\ Goto(Operator, "stepping")
      /\ UNCHANGED session /\ UNCHANGED manager /\ UNCHANGED <<emitted, result>>
  BY DEF MoveByHand
<1>2. Operator \in Writers /\ row \in Sessions /\ TypeOK /\ n \in 0 .. Total
  BY ReplayAssumption DEF Writers, IInv, TypeOK
<1>3. /\ base' \in [Writers -> Sessions] /\ base'[Operator] = row
      /\ \A v \in Writers \ {Operator} : base'[v] = base[v]
  BY <1>1, <1>2, ReadType
<1>4. /\ Operator \in Writers /\ Operator \notin Tasks
      /\ pc' \in [Writers -> Labels] /\ pc'[Operator] = "stepping"
      /\ \A v \in Writers \ {Operator} : pc'[v] = pc[v]
      /\ \A u \in Tasks \ {Operator} : UNCHANGED View(u)
      /\ ManagerInv' /\ lost \subseteq lost'
  BY <1>1, <1>3, ByHandFacts
<1>5. TypeOK'
  BY <1>1, <1>2, <1>3, <1>4 DEF TypeOK, manager, session, Labels
<1>6. Locks(Operator)
  BY <1>1, <1>4 DEF Locks, session, IInv, HolderInv
<1> QED BY <1>1, <1>3, <1>4, <1>5, <1>6, QuietStep DEF session

LEMMA UpdateByHandKeeps ==
  ASSUME IInv, UpdateByHand
  PROVE  IInv'
<1>1. /\ pc[Operator] = "stepping" /\ holder = Nobody /\ SaveMatches(Operator) /\ holder' = Operator
      /\ Goto(Operator, "updated")
      /\ UNCHANGED manager /\ UNCHANGED <<base, target, emitted, result>>
      /\ UNCHANGED <<row, history>>
  BY DEF UpdateByHand, scheduler
<1>2. /\ Operator \in Writers /\ Operator \notin Tasks
      /\ pc' \in [Writers -> Labels] /\ pc'[Operator] = "updated"
      /\ \A v \in Writers \ {Operator} : pc'[v] = pc[v]
      /\ \A u \in Tasks \ {Operator} : UNCHANGED View(u)
      /\ ManagerInv' /\ lost \subseteq lost'
  BY <1>1, ByHandFacts
<1>3. TypeOK'
  BY <1>1, <1>2 DEF IInv, TypeOK, manager, Labels
<1>4. Locks(Operator)
  BY <1>1, <1>2 DEF Locks, SaveMatches
<1> QED BY <1>1, <1>2, <1>3, <1>4, QuietStep

(* How a request of the operator ends. *)
LEMMA EndFacts ==
  ASSUME IInv, EndByHand
  PROVE  /\ Operator \in Writers /\ Operator \notin Tasks
         /\ pc' \in [Writers -> Labels] /\ pc'[Operator] = "idle"
         /\ \A v \in Writers \ {Operator} : pc'[v] = pc[v]
         /\ \A u \in Tasks \ {Operator} : UNCHANGED View(u)
         /\ ManagerInv' /\ lost \subseteq lost'
         /\ base' \in [Writers -> Sessions] /\ base'[Operator] = NewSession
         /\ \A v \in Writers \ {Operator} : base'[v] = base[v]
<1>1. /\ Goto(Operator, "idle") /\ Read(Operator, NewSession)
      /\ UNCHANGED manager /\ UNCHANGED <<emitted, result>>
  BY DEF EndByHand
<1>2. Operator \in Writers /\ TypeOK /\ NewSession \in Sessions
  BY StatusTypes DEF Writers, IInv
<1>3. /\ base' \in [Writers -> Sessions] /\ base'[Operator] = NewSession
      /\ \A v \in Writers \ {Operator} : base'[v] = base[v]
  BY <1>1, <1>2, ReadType
<1>4. /\ Operator \in Writers /\ Operator \notin Tasks
      /\ pc' \in [Writers -> Labels] /\ pc'[Operator] = "idle"
      /\ \A v \in Writers \ {Operator} : pc'[v] = pc[v]
      /\ \A u \in Tasks \ {Operator} : UNCHANGED View(u)
      /\ ManagerInv' /\ lost \subseteq lost'
  BY <1>1, <1>3, ByHandFacts
<1> QED BY <1>3, <1>4

LEMMA CommitByHandKeeps ==
  ASSUME IInv, CommitByHand
  PROVE  IInv'
<1>1. /\ pc[Operator] = "updated" /\ Checkpoint(Operator, target) /\ EndByHand
      /\ target \in 0 .. Total /\ TypeOK
  BY DEF CommitByHand, IInv, TypeOK
<1>2. /\ Operator \in Writers /\ Operator \notin Tasks
      /\ pc' \in [Writers -> Labels] /\ pc'[Operator] = "idle"
      /\ \A v \in Writers \ {Operator} : pc'[v] = pc[v]
      /\ \A u \in Tasks \ {Operator} : UNCHANGED View(u)
      /\ ManagerInv' /\ lost \subseteq lost'
      /\ base' \in [Writers -> Sessions] /\ base'[Operator] = NewSession
      /\ \A v \in Writers \ {Operator} : base'[v] = base[v]
  BY <1>1, EndFacts
<1>3. TypeOK'
  <2>1. base[Operator] \in Sessions /\ Total \in Nat /\ 0 \in 0 .. Total
    BY <1>1, <1>2, ReplayAssumption DEF TypeOK
  <2>2. row' \in Sessions
    BY <1>1, <2>1 DEF Checkpoint, Sessions
  <2>3. history' \in Seq([by : Writers, next : 0 .. Total])
    BY <1>1, <1>2 DEF Checkpoint, TypeOK
  <2>4. holder' = Nobody /\ target' = 0 /\ UNCHANGED manager /\ UNCHANGED <<emitted, result>>
    BY <1>1 DEF Checkpoint, EndByHand
  <2> QED BY <1>1, <1>2, <2>1, <2>2, <2>3, <2>4 DEF TypeOK, manager, Labels
<1> QED BY <1>1, <1>2, <1>3, CommitStep

LEMMA RollbackKeeps ==
  ASSUME IInv, RollbackByHand
  PROVE  IInv'
<1>1. /\ EndByHand /\ holder' = (IF holder = Operator THEN Nobody ELSE holder)
      /\ UNCHANGED <<row, history>>
  BY DEF RollbackByHand
<1>2. /\ Operator \in Writers /\ Operator \notin Tasks
      /\ pc' \in [Writers -> Labels] /\ pc'[Operator] = "idle"
      /\ \A v \in Writers \ {Operator} : pc'[v] = pc[v]
      /\ \A u \in Tasks \ {Operator} : UNCHANGED View(u)
      /\ ManagerInv' /\ lost \subseteq lost'
      /\ base' \in [Writers -> Sessions] /\ base'[Operator] = NewSession
      /\ \A v \in Writers \ {Operator} : base'[v] = base[v]
  BY <1>1, EndFacts
<1>3. TypeOK'
  <2>1. Total \in Nat /\ 0 \in 0 .. Total
    BY ReplayAssumption
  <2>2. target' = 0 /\ UNCHANGED manager /\ UNCHANGED <<emitted, result>>
    BY <1>1 DEF EndByHand
  <2>3. holder' \in Writers \cup {Nobody}
    BY <1>1 DEF IInv, TypeOK
  <2> QED BY <1>1, <1>2, <2>1, <2>2, <2>3 DEF IInv, TypeOK, manager, Labels
<1>4. Locks(Operator)
  BY <1>1, <1>2 DEF Locks
<1> QED BY <1>1, <1>2, <1>3, <1>4, QuietStep

-----------------------------------------------------------------------------
(* The inductive invariant. *)

LEMMA InitInv == Init => IInv
<1> SUFFICES ASSUME Init PROVE IInv
  OBVIOUS
<1>1. /\ row = NewSession /\ holder = Nobody
      /\ pc = [w \in Writers |-> IF w = Operator THEN "idle" ELSE "unused"]
      /\ base = [w \in Writers |-> NewSession] /\ target = 0
      /\ emitted = [t \in Tasks |-> 0] /\ result = [t \in Tasks |-> Started]
      /\ status = [t \in Tasks |-> Started] /\ owned = [p \in Procs |-> NoTask]
      /\ stop = {} /\ runs = [t \in Tasks |-> Absent] /\ closing = {} /\ history = <<>>
      /\ asked = [t \in Tasks |-> 0] /\ lost = {}
  BY DEF Init
<1>2. plan \in [Tasks -> [proc : Procs, expected : Nat, limit : StepLimits]]
  <2>1. (CHOOSE p \in Procs : TRUE) \in Procs /\ (CHOOSE n \in StepLimits : TRUE) \in StepLimits
    BY ReplayAssumption
  <2> QED BY <2>1 DEF Init
<1>3. /\ Operator \in Writers /\ Operator \notin Tasks /\ Nobody \notin Writers /\ Total \in Nat
      /\ NoTask \notin Tasks /\ \A t \in Tasks : t \in Writers
  BY ReplayAssumption DEF Writers
<1>4. NewSession \in Sessions /\ NewSession.version = 0 /\ NewSession.next = 0
  BY <1>3 DEF NewSession, Sessions
<1>5. Started \in Statuses
  BY DEF Started, TaskStatus, Statuses, Outcomes
<1>6. Len(history) = 0 /\ CursorAt(0) = 0 /\ \A w : CommittedBy(w) = {}
  BY <1>1 DEF CursorAt, CommittedBy
<1>7. TypeOK
  <2>1. pc \in [Writers -> Labels] /\ base \in [Writers -> Sessions]
    BY <1>1, <1>4 DEF Labels
  <2>2. history \in Seq([by : Writers, next : 0 .. Total]) /\ target \in 0 .. Total
    BY <1>1, <1>3
  <2>3. /\ emitted \in [Tasks -> Nat] /\ asked \in [Tasks -> Nat]
        /\ result \in [Tasks -> Statuses] /\ status \in [Tasks -> Statuses]
        /\ owned \in [Procs -> Tasks \cup {NoTask}] /\ runs \in [Tasks -> Statuses \cup {Absent}]
    BY <1>1, <1>5
  <2> QED BY <1>1, <1>2, <1>4, <2>1, <2>2, <2>3 DEF TypeOK, Labels
<1>8. PlacesInv
  BY <1>1, <1>3 DEF PlacesInv, TaskPlaces
<1>9. SessionInv
  BY <1>1, <1>4, <1>6 DEF SessionInv, NewSession
<1>10. HolderInv
  BY <1>1, <1>3 DEF HolderInv
<1>11. \A t \in Tasks : pc[t] = "unused"
  BY <1>1, <1>3
<1>12. "unused" \notin Live
  BY DEF Live, Playing
<1>13. ManagerInv
  BY <1>1, <1>3, <1>11, <1>12 DEF ManagerInv
<1>14. ASSUME NEW t \in Tasks PROVE RowsInv(t) /\ TaskInv(t)
  <2>1. RowsInv(t)
    BY <1>1, <1>11, <1>12, StartedFacts DEF RowsInv
  <2>2. FramesInv(t)
    BY <1>1, <1>6, <1>11 DEF FramesInv, Looping
  <2>3. Uninterrupted(t)
    BY <1>6 DEF Uninterrupted
  <2>4. EvidenceInv(t)
    BY <1>1, StartedFacts DEF EvidenceInv, Sound, Conclusive
  <2>5. StopInv(t)
    BY <1>1 DEF StopInv
  <2> QED BY <2>1, <2>2, <2>3, <2>4, <2>5 DEF TaskInv
<1> QED BY <1>7, <1>8, <1>9, <1>10, <1>13, <1>14 DEF IInv

LEMMA StutterKeeps ==
  ASSUME IInv, UNCHANGED vars
  PROVE  IInv'
<1>1. /\ UNCHANGED <<session, scheduler, pc, plan, status, runs, lost>>
      /\ UNCHANGED <<owned, stop, closing, asked>>
  BY DEF vars, session, scheduler
<1>2. TypeOK'
  BY <1>1 DEF IInv, TypeOK, session, scheduler
<1>3. ManagerInv'
  BY <1>1 DEF IInv, ManagerInv
<1>4. \A t \in Tasks : UNCHANGED <<asked[t], t \in stop>>
  BY <1>1
<1> QED BY <1>1, <1>2, <1>3, <1>4, ProcessStep

LEMMA StepKeeps == IInv /\ [Next]_vars => IInv'
<1> SUFFICES ASSUME IInv, [Next]_vars PROVE IInv'
  OBVIOUS
<1>1. ASSUME NEW t \in Tasks, Start(t) PROVE IInv'
  BY <1>1, RequestKeeps, BeginStartKeeps, LaunchKeeps, StartFailsKeeps DEF Start
<1>2. ASSUME NEW t \in Tasks, Run(t) PROVE IInv'
  <2>1. ASSUME Snapshot(t) PROVE IInv'
    BY <2>1, SnapshotKeeps
  <2>2. ASSUME Play(t) PROVE IInv'
    BY <2>2, PlayKeeps
  <2>3. ASSUME UpdateSession(t) PROVE IInv'
    BY <2>3, UpdateKeeps
  <2>4. ASSUME CommitFrame(t) PROVE IInv'
    BY <2>4, CommitFrameKeeps
  <2>5. ASSUME CommitUnanswered(t) PROVE IInv'
    BY <2>5, UnansweredKeeps
  <2>6. ASSUME RunnerRaises(t) PROVE IInv'
    BY <2>6, RunnerRaisesKeeps
  <2>7. ASSUME PostStatus(t) PROVE IInv'
    BY <2>7, PostStatusKeeps
  <2>8. ASSUME RecordOutcome(t) \/ RecordFails(t) PROVE IInv'
    BY <2>8, RecordKeeps
  <2> QED BY <1>2, <2>1, <2>2, <2>3, <2>4, <2>5, <2>6, <2>7, <2>8 DEF Run
<1>3. ASSUME NEW p \in Procs, StopPlayback(p) \/ Close(p) \/ Exit(p) \/ Crash(p) PROVE IInv'
  BY <1>3, StopKeeps, CloseKeeps, ExitKeeps, CrashKeeps
<1>4. ASSUME ByHand PROVE IInv'
  BY <1>4, MoveKeeps, UpdateByHandKeeps, CommitByHandKeeps, RollbackKeeps DEF ByHand
<1>5. ASSUME UNCHANGED vars PROVE IInv'
  BY <1>5, StutterKeeps
<1> QED BY <1>1, <1>2, <1>3, <1>4, <1>5 DEF Next

LEMMA InvariantHolds == Spec => []IInv
BY InitInv, StepKeeps, PTL DEF Spec

-----------------------------------------------------------------------------
(* Every variable stays in its type, and the cursor in the dataset. *)
THEOREM ReplayTypeCorrect == Spec => []TypeOK
<1>1. IInv => TypeOK
  BY DEF IInv
<1> QED BY <1>1, InvariantHolds, PTL

(* The frames of a playback are consecutive candles, and nobody moves the    *)
(* cursor between them (scheduler.py:73-82, persistence.py:87-108).          *)
THEOREM RunsUninterrupted == Spec => []RunsAreUninterrupted
<1>1. IInv => RunsAreUninterrupted
  BY DEF IInv, TaskInv, Uninterrupted, RunsAreUninterrupted
<1> QED BY <1>1, InvariantHolds, PTL

(* A process runs or starts at most one task of the session (tasks.py:76-90). *)
THEOREM OneTask == Spec => []OneTaskPerProcess
<1>1. IInv => OneTaskPerProcess
  <2> SUFFICES ASSUME IInv, NEW t \in Tasks, NEW u \in Tasks,
                      pc[t] \in Live \cup {"starting"}, pc[u] \in Live \cup {"starting"},
                      plan[t].proc = plan[u].proc
               PROVE  t = u
    BY DEF OneTaskPerProcess
  <2>1. ManagerInv
    BY DEF IInv
  <2>2. "done" \notin Live
    BY DEF Live, Playing
  <2>3. ASSUME pc[t] \in Live, pc[u] \in Live PROVE t = u
    BY <2>1, <2>3 DEF ManagerInv
  <2>4. ASSUME pc[t] = "starting", pc[u] = "starting" PROVE t = u
    BY <2>1, <2>4 DEF ManagerInv
  <2>5. ASSUME NEW v \in Tasks, NEW w \in Tasks, pc[v] = "starting", pc[w] \in Live,
               plan[v].proc = plan[w].proc
        PROVE  FALSE
    BY <2>1, <2>2, <2>5 DEF ManagerInv
  <2> QED BY <2>3, <2>4, <2>5
<1> QED BY <1>1, InvariantHolds, PTL

(* What a run that did not fail leaves behind is what it did                 *)
(* (scheduler.py:66-86, tasks.py:116-127, task_persistence.py:40-59).        *)
THEOREM EvidenceTrue == Spec => []RunsTellWhatHappened
<1>1. IInv => RunsTellWhatHappened
  BY DEF IInv, TaskInv, EvidenceInv, Sound, Conclusive, RunsTellWhatHappened
<1> QED BY <1>1, InvariantHolds, PTL

(* A task runs only with its RUNNING row, a RUNNING row has a live or a lost *)
(* task, and what is owned and reported as running is alive                  *)
(* (tasks.py:82-98, 109-114, 139-149).                                       *)
THEOREM RowsFollow == Spec => []RowsFollowTasks
<1>1. IInv => RowsFollowTasks
  <2> SUFFICES ASSUME IInv PROVE RowsFollowTasks
    OBVIOUS
  <2>1. /\ \A t \in Tasks : RowsInv(t)
        /\ \A p \in Procs : owned[p] \in Tasks => pc[owned[p]] \in Live \cup {"done"}
    BY DEF IInv, ManagerInv
  <2> HIDE DEF Live
  <2> QED BY <2>1 DEF RowsInv, RowsFollowTasks
<1> QED BY <1>1, InvariantHolds, PTL

(* A playback that was told to stop commits at most the frame it was in      *)
(* (scheduler.py:67-72, tasks.py:99-107).                                    *)
THEOREM StopPrompt == Spec => []StopIsPrompt
<1>1. IInv => StopIsPrompt
  <2> SUFFICES ASSUME IInv PROVE StopIsPrompt
    OBVIOUS
  <2>1. stop \subseteq Tasks /\ \A t \in Tasks : StopInv(t)
    BY DEF IInv, TypeOK, TaskInv
  <2> QED BY <2>1 DEF StopInv, StopIsPrompt
<1> QED BY <1>1, InvariantHolds, PTL

=============================================================================
