--------------------------- MODULE ReplayPlayback ---------------------------
(***************************************************************************)
(* Server-side playback of one replay session: the task manager of each    *)
(* process (packages/replay/tasks.py), the scheduler loop it owns          *)
(* (scheduler.py), the coordinator's optimistic checkpoints (service.py,   *)
(* persistence.py), the durable run rows (task_persistence.py), and the    *)
(* operators who step and seek the same session by hand (apps/api).        *)
(* Several processes share the database and nothing else.                  *)
(***************************************************************************)
EXTENDS Integers, FiniteSets, Sequences

CONSTANTS
  Procs,           \* application processes
  MaxTasks,        \* bound: playback requests, numbered in order of arrival
  Serves(_),       \* the processes that may be sent the request of a task
  Total,           \* candles of the dataset
  StepLimits,      \* the maximum_steps a request may carry
  MaxMoves,        \* bound: steps and seeks made by hand
  Moves,           \* the cursors they may ask for
  Operator, Nobody, NoTask, NoVersion

Tasks == 1 .. MaxTasks
Writers == Tasks \cup {Operator}

ASSUME ReplayAssumption ==
  /\ MaxTasks \in Nat /\ MaxMoves \in Nat /\ Total \in Nat \ {0}
  /\ StepLimits \subseteq Nat \ {0} /\ StepLimits # {} /\ Procs # {}
  /\ \A t \in Tasks : Serves(t) \subseteq Procs
  /\ Moves \subseteq 0 .. Total
  /\ Operator \notin Tasks /\ Nobody \notin Writers /\ NoTask \notin Tasks
  /\ NoVersion \notin Nat

VARIABLES
  row,       \* the durable session: cursor and optimistic version
  holder,    \* the transaction that holds the lock of the session row
  pc,        \* where each writer is
  base,      \* the session each writer last read or saved
  target,    \* the cursor an operator is about to save
  plan,      \* each task's process, expected version and step limit
  emitted,   \* frames each task's scheduler has counted
  result,    \* what each task's runner came to
  status,    \* the in-memory status of each task
  owned,     \* the task each process owns for the session
  stop,      \* the tasks that were told to stop
  runs,      \* the durable run row of each task
  closing,   \* the processes that are shutting down
  history,   \* auxiliary: every committed change of the cursor, in order
  asked,     \* auxiliary: frames a task had committed when told to stop
  lost       \* auxiliary: tasks whose terminal write failed or never came

manager == <<plan, status, owned, stop, runs, closing, asked, lost>>
scheduler == <<base, target, emitted, result>>
session == <<row, holder, history>>
vars == <<row, holder, pc, base, target, plan, emitted, result, status, owned,
          stop, runs, closing, history, asked, lost>>

Outcomes == {"running", "complete", "stopped", "step_limit", "failed"}
Sessions == [next : 0 .. Total, version : Nat]
Statuses == [outcome : Outcomes, frames : Nat, version : Nat \cup {NoVersion}]
Absent == [outcome |-> "absent", frames |-> 0, version |-> NoVersion]

TaskStatus(outcome, frames, version) ==
  [outcome |-> outcome, frames |-> frames, version |-> version]

(* ReplayTaskManager.start builds this status, and a run row begins as it. *)
Started == TaskStatus("running", 0, NoVersion)

(* A slip the runs must notice: the status of a failed task stays RUNNING. *)
FailedStatusUnchanged(t) == status[t]

(* _execute copies the counters of the current in-memory status, which is   *)
(* still the one start() made.                                              *)
FailedStatus(t) == TaskStatus("failed", status[t].frames, status[t].version)

Playing == {"launched", "playing", "stepping", "updated"}
Live == Playing \cup {"over", "posted"}
Ended == {"done", "gone", "refused"}

CommittedBy(w) == {i \in DOMAIN history : history[i].by = w}
CursorAt(v) == IF v = 0 THEN 0 ELSE history[v].next

NewSession == [next |-> 0, version |-> 0]

Init ==
  /\ row = NewSession
  /\ holder = Nobody
  /\ pc = [w \in Writers |-> IF w = Operator THEN "idle" ELSE "unused"]
  /\ base = [w \in Writers |-> NewSession]
  /\ target = 0
  /\ plan = [t \in Tasks |-> [proc |-> CHOOSE p \in Procs : TRUE, expected |-> 0,
                              limit |-> CHOOSE n \in StepLimits : TRUE]]
  /\ emitted = [t \in Tasks |-> 0]
  /\ result = [t \in Tasks |-> Started]
  /\ status = [t \in Tasks |-> Started]
  /\ owned = [p \in Procs |-> NoTask]
  /\ stop = {}
  /\ runs = [t \in Tasks |-> Absent]
  /\ closing = {}
  /\ history = <<>>
  /\ asked = [t \in Tasks |-> 0]
  /\ lost = {}

Goto(w, label) == pc' = [pc EXCEPT ![w] = label]

(* start() keeps the manager's lock while the RUNNING row is written. *)
LockFree(p) == \A t \in Tasks : ~(pc[t] = "starting" /\ plan[t].proc = p)

-----------------------------------------------------------------------------
(* Starting. *)

(* The handler reads the session and refuses a stale expected_version. *)
RequestPlayback(t, p, n) ==
  /\ pc[t] = "unused"
  /\ \A u \in Tasks : u < t => pc[u] # "unused"
  /\ p \in Serves(t) \ closing
  /\ plan' = [plan EXCEPT ![t] = [proc |-> p, expected |-> row.version, limit |-> n]]
  /\ Goto(t, "checked")
  /\ UNCHANGED <<session, scheduler, status, owned, stop, runs, closing, asked, lost>>

(* A slip the runs must notice: start() without the manager's lock. *)
BeginStartUnlocked(t) ==
  /\ pc[t] = "checked"
  /\ LET existing == owned[plan[t].proc]
     IN IF existing # NoTask /\ pc[existing] # "done"
        THEN Goto(t, "refused") ELSE Goto(t, "starting")
  /\ UNCHANGED <<session, scheduler, manager>>

(* start() takes the lock; a task of the session that is not done refuses. *)
BeginStart(t) ==
  /\ pc[t] = "checked"
  /\ LockFree(plan[t].proc)
  /\ LET existing == owned[plan[t].proc]
     IN IF existing # NoTask /\ pc[existing] # "done"
        THEN Goto(t, "refused") ELSE Goto(t, "starting")
  /\ UNCHANGED <<session, scheduler, manager>>

(* The RUNNING row is committed, then the task is created and owned. *)
Launch(t) ==
  /\ pc[t] = "starting"
  /\ runs' = [runs EXCEPT ![t] = Started]
  /\ owned' = [owned EXCEPT ![plan[t].proc] = t]
  /\ Goto(t, "launched")
  /\ UNCHANGED <<session, scheduler, plan, status, stop, closing, asked, lost>>

(* The status observer raises, before or after its commit took effect. *)
StartFails(t) ==
  /\ pc[t] = "starting"
  /\ \/ UNCHANGED <<runs, lost>>
     \/ runs' = [runs EXCEPT ![t] = Started] /\ lost' = lost \cup {t}
  /\ Goto(t, "refused")
  /\ UNCHANGED <<session, scheduler, plan, status, owned, stop, closing, asked>>

-----------------------------------------------------------------------------
(* The scheduler loop.  RunnerReturns ends it; a raised exception also ends *)
(* the database session, so that an update not committed is rolled back.    *)

Read(w, stored) == base' = [base EXCEPT ![w] = stored]

RunnerReturns(t, outcome, frames, stored) ==
  /\ result' = [result EXCEPT ![t] = TaskStatus(outcome, frames, stored.version)]
  /\ Read(t, NewSession)
  /\ Goto(t, "over")

RunnerFails(t) ==
  /\ result' = [result EXCEPT ![t] = FailedStatus(t)]
  /\ Read(t, NewSession)
  /\ Goto(t, "over")

(* A slip the runs must notice: any version will do to begin with. *)
SnapshotUnchecked(t) ==
  /\ pc[t] = "launched"
  /\ Read(t, row)
  /\ Goto(t, "playing")
  /\ UNCHANGED <<session, manager, target, emitted, result>>

(* run(): the first snapshot must still show the expected version. *)
Snapshot(t) ==
  /\ pc[t] = "launched"
  /\ \/ /\ row.version = plan[t].expected
        /\ Read(t, row)
        /\ Goto(t, "playing")
        /\ UNCHANGED result
     \/ row.version # plan[t].expected /\ RunnerFails(t)
  /\ UNCHANGED <<session, manager, target, emitted>>

(* A slip the runs must notice: a loop that ignores a stop request.         *)
PlayUnstoppable(t) ==
  /\ pc[t] = "playing"
  /\ IF row.version # base[t].version THEN RunnerFails(t)
     ELSE IF row.next = Total THEN RunnerReturns(t, "complete", emitted[t], base[t])
     ELSE Goto(t, "stepping") /\ UNCHANGED <<base, result>>
  /\ UNCHANGED <<session, manager, target, emitted>>

(* The loop head: a stop request, or ReplayCoordinator.step reads again. *)
Play(t) ==
  /\ pc[t] = "playing"
  /\ CASE t \in stop -> RunnerReturns(t, "stopped", emitted[t], base[t])
       [] t \notin stop /\ row.version # base[t].version -> RunnerFails(t)
       [] t \notin stop /\ row.version = base[t].version /\ row.next = Total ->
            RunnerReturns(t, "complete", emitted[t], base[t])
       [] OTHER -> Goto(t, "stepping") /\ UNCHANGED <<base, result>>
  /\ UNCHANGED <<session, manager, target, emitted>>

(* A slip the runs must notice: the UPDATE has no version in its WHERE. *)
SaveAlways(w) == TRUE

(* save(): UPDATE ... WHERE version = expected_version, under the row lock. *)
SaveMatches(w) == row.version = base[w].version

UpdateSession(t) ==
  /\ pc[t] = "stepping"
  /\ holder = Nobody
  /\ IF SaveMatches(t)
     THEN holder' = t /\ Goto(t, "updated") /\ UNCHANGED <<base, result>>
     ELSE RunnerFails(t) /\ UNCHANGED holder
  /\ UNCHANGED <<manager, target, emitted, row, history>>

(* What a commit of w makes durable. *)
Checkpoint(w, next) ==
  /\ row' = [next |-> next, version |-> base[w].version + 1]
  /\ history' = Append(history, [by |-> w, next |-> next])
  /\ holder' = Nobody

CommitFrame(t) ==
  /\ pc[t] = "updated"
  /\ Checkpoint(t, base[t].next + 1)
  /\ emitted' = [emitted EXCEPT ![t] = @ + 1]
  /\ CASE row'.next = Total -> RunnerReturns(t, "complete", emitted'[t], row')
       [] row'.next # Total /\ emitted'[t] = plan[t].limit ->
            RunnerReturns(t, "step_limit", emitted'[t], row')
       [] OTHER -> Read(t, row') /\ Goto(t, "playing") /\ UNCHANGED result
  /\ UNCHANGED <<manager, target>>

(* The commit took effect, but its caller got an error for an answer. *)
CommitUnanswered(t) ==
  /\ pc[t] = "updated"
  /\ Checkpoint(t, base[t].next + 1)
  /\ RunnerFails(t)
  /\ UNCHANGED <<manager, target, emitted>>

(* The database raises: nothing of the current transaction stays. *)
RunnerRaises(t) ==
  /\ pc[t] \in Playing
  /\ RunnerFails(t)
  /\ holder' = IF holder = t THEN Nobody ELSE holder
  /\ UNCHANGED <<manager, target, emitted, row, history>>

-----------------------------------------------------------------------------
(* Ending: _execute posts the status under the lock, then the row follows. *)

PostStatus(t) ==
  /\ pc[t] = "over"
  /\ LockFree(plan[t].proc)
  /\ status' = [status EXCEPT ![t] = result[t]]
  /\ result' = [result EXCEPT ![t] = Started]
  /\ Goto(t, "posted")
  /\ UNCHANGED <<session, base, target, emitted, plan, owned, stop, runs, closing, asked, lost>>

(* A slip the runs must notice: failures are not written. *)
RecordSuccess(t) ==
  /\ pc[t] = "posted"
  /\ runs' = [runs EXCEPT ![t] = IF status[t].outcome # "failed" THEN status[t] ELSE @]
  /\ Goto(t, "done")
  /\ UNCHANGED <<session, scheduler, plan, status, owned, stop, closing, asked, lost>>

(* UPDATE ... WHERE outcome = 'running', committed by the observer. *)
RecordOutcome(t) ==
  /\ pc[t] = "posted"
  /\ runs' = [runs EXCEPT ![t] = IF @.outcome = "running" THEN status[t] ELSE @]
  /\ Goto(t, "done")
  /\ UNCHANGED <<session, scheduler, plan, status, owned, stop, closing, asked, lost>>

(* The observer raises; _execute logs it and ends. *)
RecordFails(t) ==
  /\ pc[t] = "posted"
  /\ lost' = lost \cup {t}
  /\ Goto(t, "done")
  /\ UNCHANGED <<session, scheduler, plan, status, owned, stop, runs, closing, asked>>

-----------------------------------------------------------------------------
(* Stopping. *)

TellToStop(t) ==
  /\ stop' = stop \cup {t}
  /\ asked' = [asked EXCEPT ![t] = Cardinality(CommittedBy(t))]

(* A stop event that can still make a difference. *)
CanStop(p) == owned[p] \in Tasks \ stop /\ pc[owned[p]] \in Live

(* stop() finds the owned task under the lock and sets its stop event. *)
StopPlayback(p) ==
  /\ p \notin closing
  /\ LockFree(p)
  /\ CanStop(p)
  /\ TellToStop(owned[p])
  /\ UNCHANGED <<session, scheduler, pc, plan, status, owned, runs, closing, lost>>

(* close() does the same to what the process owns, ... *)
Close(p) ==
  /\ p \notin closing
  /\ owned[p] # NoTask
  /\ \A t \in Tasks : plan[t].proc = p => pc[t] \notin {"checked", "starting"}
  /\ closing' = closing \cup {p}
  /\ IF CanStop(p) THEN TellToStop(owned[p]) ELSE UNCHANGED <<stop, asked>>
  /\ UNCHANGED <<session, scheduler, pc, plan, status, owned, runs, lost>>

(* ... gathers it, and the process ends; a new one owns nothing. *)
Exit(p) ==
  /\ p \in closing
  /\ owned[p] \in Tasks => pc[owned[p]] = "done"
  /\ closing' = closing \ {p}
  /\ owned' = [owned EXCEPT ![p] = NoTask]
  /\ UNCHANGED <<session, scheduler, pc, plan, status, stop, runs, asked, lost>>

(* The process dies: its transactions roll back and its tasks are gone.  A  *)
(* RUNNING row being inserted may just have been committed.                 *)
Crash(p) ==
  LET dying == {t \in Tasks : plan[t].proc = p /\ pc[t] \in Live \cup {"checked", "starting"}}
      inserting == {t \in dying : pc[t] = "starting"}
  IN /\ dying # {}
     /\ pc' = [w \in Writers |-> IF w \in dying THEN "gone" ELSE pc[w]]
     /\ \E inserted \in SUBSET inserting :
          /\ runs' = [t \in Tasks |-> IF t \in inserted THEN Started ELSE runs[t]]
          /\ lost' = lost \cup inserted \cup {t \in dying : pc[t] \in Live}
     /\ holder' = IF holder \in dying THEN Nobody ELSE holder
     /\ owned' = [owned EXCEPT ![p] = NoTask]
     /\ closing' = closing \ {p}
     /\ base' = [w \in Writers |-> IF w \in dying THEN NewSession ELSE base[w]]
     /\ UNCHANGED <<row, history, target, emitted, result, plan, status, stop, asked>>

-----------------------------------------------------------------------------
(* The step and seek endpoints: read, check the version, save, commit. *)

MoveByHand(next) ==
  /\ pc[Operator] = "idle"
  /\ Cardinality(CommittedBy(Operator)) < MaxMoves
  /\ next # row.next
  /\ Read(Operator, row)
  /\ target' = next
  /\ Goto(Operator, "stepping")
  /\ UNCHANGED <<session, manager, emitted, result>>

EndByHand ==
  /\ Goto(Operator, "idle")
  /\ Read(Operator, NewSession)
  /\ target' = 0
  /\ UNCHANGED <<manager, emitted, result>>

UpdateByHand ==
  /\ pc[Operator] = "stepping"
  /\ holder = Nobody
  /\ SaveMatches(Operator)
  /\ holder' = Operator
  /\ Goto(Operator, "updated")
  /\ UNCHANGED <<manager, scheduler, row, history>>

CommitByHand ==
  /\ pc[Operator] = "updated"
  /\ Checkpoint(Operator, target)
  /\ EndByHand

(* The save matches no row, or anything else raises: 409 or 503. *)
RollbackByHand ==
  /\ pc[Operator] # "idle"
  /\ holder' = IF holder = Operator THEN Nobody ELSE holder
  /\ EndByHand
  /\ UNCHANGED <<row, history>>

-----------------------------------------------------------------------------
Start(t) ==
  \/ \E p \in Procs, n \in StepLimits : RequestPlayback(t, p, n)
  \/ BeginStart(t)
  \/ Launch(t)
  \/ StartFails(t)

Run(t) ==
  \/ Snapshot(t)
  \/ Play(t)
  \/ UpdateSession(t)
  \/ CommitFrame(t)
  \/ CommitUnanswered(t)
  \/ RunnerRaises(t)
  \/ PostStatus(t)
  \/ RecordOutcome(t)
  \/ RecordFails(t)

ByHand ==
  \/ \E next \in Moves : MoveByHand(next)
  \/ UpdateByHand
  \/ CommitByHand
  \/ RollbackByHand

Next ==
  \/ \E t \in Tasks : Start(t) \/ Run(t)
  \/ \E p \in Procs : StopPlayback(p) \/ Close(p) \/ Exit(p) \/ Crash(p)
  \/ ByHand

Spec == Init /\ [][Next]_vars

(* The event loop runs every task that waits for nothing but the database,  *)
(* which answers every statement; row locks queue first come first served;  *)
(* and a request that holds the session row ends its transaction.           *)
Proceed(t) ==
  \/ Launch(t)
  \/ StartFails(t)
  \/ Snapshot(t)
  \/ Play(t)
  \/ CommitFrame(t)
  \/ CommitUnanswered(t)
  \/ PostStatus(t)
  \/ RecordOutcome(t)
  \/ RecordFails(t)

Fairness ==
  /\ \A t \in Tasks : WF_vars(Proceed(t)) /\ SF_vars(UpdateSession(t))
  /\ WF_vars(pc[Operator] = "updated" /\ (CommitByHand \/ RollbackByHand))

FairSpec == Spec /\ Fairness

-----------------------------------------------------------------------------
(* Every variable stays in its type. *)
TypeOK ==
  /\ row \in Sessions
  /\ holder \in Writers \cup {Nobody}
  /\ pc \in [Writers -> Live \cup Ended \cup {"idle", "unused", "checked", "starting"}]
  /\ base \in [Writers -> Sessions]
  /\ target \in 0 .. Total
  /\ plan \in [Tasks -> [proc : Procs, expected : Nat, limit : StepLimits]]
  /\ emitted \in [Tasks -> Nat]
  /\ result \in [Tasks -> Statuses]
  /\ status \in [Tasks -> Statuses]
  /\ owned \in [Procs -> Tasks \cup {NoTask}]
  /\ stop \subseteq Tasks /\ lost \subseteq Tasks /\ closing \subseteq Procs
  /\ runs \in [Tasks -> Statuses \cup {Absent}]
  /\ history \in Seq([by : Writers, next : 0 .. Total])
  /\ asked \in [Tasks -> Nat]

(* A playback shows consecutive candles: nobody else moves the cursor       *)
(* between two of its frames, in this process or another, each frame is the *)
(* candle right after the one before, and no candle is skipped or shown     *)
(* twice (scheduler.py:73-82, persistence.py:87-108).                       *)
RunsAreUninterrupted ==
  \A t \in Tasks : \A i \in CommittedBy(t) :
    /\ history[i].next = CursorAt(i - 1) + 1
    /\ \A j \in CommittedBy(t) : \A k \in i .. j : history[k].by = t

(* A process runs at most one task of the session at any time, though       *)
(* requests race and start() waits for the database in the middle           *)
(* (tasks.py:76-90).                                                        *)
OneTaskPerProcess ==
  \A t, u \in Tasks :
    /\ pc[t] \in Live \cup {"starting"} /\ pc[u] \in Live \cup {"starting"}
    /\ plan[t].proc = plan[u].proc
    => t = u

(* The durable evidence of a run that did not fail is what happened: the    *)
(* frames it committed, the version the last of them made, and why it ended *)
(* (scheduler.py:66-86, tasks.py:116-127, task_persistence.py:40-59).       *)
EvidenceIsTrue(t, evidence) ==
  LET frames == CommittedBy(t)
  IN /\ evidence.frames = Cardinality(frames)
     /\ evidence.frames <= plan[t].limit
     /\ evidence.version = plan[t].expected + evidence.frames
     /\ \A i \in frames : i <= evidence.version
     /\ evidence.outcome = "complete" => CursorAt(evidence.version) = Total
     /\ evidence.frames > 0 /\ CursorAt(evidence.version) = Total =>
          evidence.outcome = "complete"
     /\ evidence.outcome = "step_limit" => evidence.frames = plan[t].limit
     /\ evidence.outcome = "stopped" => t \in stop

RunsTellWhatHappened ==
  \A t \in Tasks :
    runs[t].outcome \in {"complete", "stopped", "step_limit"} => EvidenceIsTrue(t, runs[t])

(* Rows and tasks follow each other: a task runs only with its RUNNING row  *)
(* committed, a row is still RUNNING only if its task is alive or was lost, *)
(* and a process that shut down in order loses none; what a process reports *)
(* as running and owned by itself is alive (tasks.py:82-98, 109-114,        *)
(* 139-149; apps/api/replay.py:284-286).                                    *)
RowsFollowTasks ==
  /\ \A t \in Tasks :
       /\ pc[t] \in Live => runs[t] = Started
       /\ runs[t] = Started => pc[t] \in Live \/ t \in lost
  /\ \A p \in Procs : owned[p] \in Tasks /\ status[owned[p]].outcome = "running" =>
       pc[owned[p]] \in Live

(* Once told to stop, a playback shows at most the frame it was about to    *)
(* commit (scheduler.py:67-72, tasks.py:99-107).                            *)
StopIsPrompt == \A t \in stop : Cardinality(CommittedBy(t)) <= asked[t] + 1

(* Every run reaches a terminal row, unless its process dies or the         *)
(* database refuses the row (tasks.py:116-149).                             *)
RunsAreRecorded ==
  \A t \in Tasks : (runs[t] = Started) ~> (runs[t] # Started \/ t \in lost)

=============================================================================
