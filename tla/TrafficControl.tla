--------------------------- MODULE TrafficControl ---------------------------
(***************************************************************************)
(* Who runs the traffic collector: requests that turn recording on or off  *)
(* (backend/api/traffic.py set_recording, backend/traffic/prefs.py), the    *)
(* reconciliation that starts or stops the task (backend/main.py), and the  *)
(* life of each task between its lock and the release of it                 *)
(* (backend/traffic/collector.py run).  What a running task does to the     *)
(* ledger is TrafficCollector's subject.                                    *)
(*                                                                          *)
(* Everything runs on one event loop: an action is what happens between two *)
(* awaits, and requests interleave at every await.                          *)
(***************************************************************************)
EXTENDS Naturals, Sequences

CONSTANTS
  Requests,     \* toggle requests
  LockTries,    \* attempts to take the lock (lock_retries)
  Faults        \* may a task die of an exception, or a read of the setting fail?

ASSUME LockTriesPositive == LockTries \in Nat \ {0}

VARIABLES
  setting,  \* the effective setting: the stored choice, or the default
  task,     \* app.state.traffic_collector_task: an index of tasks, or 0
  tasks,    \* every task created so far
  lock,     \* the task that holds the advisory lock, or 0
  request   \* the toggle requests

vars == <<setting, task, tasks, lock, request>>

-----------------------------------------------------------------------------

NewTask == [at |-> "locking", stop |-> FALSE, tries |-> LockTries]

Idle == [at |-> "idle", seen |-> FALSE, held |-> 0]

(* lifespan: the collector starts with the application when it is enabled.  *)
Init ==
  /\ setting \in BOOLEAN
  /\ tasks = IF setting THEN <<NewTask>> ELSE <<>>
  /\ task = Len(tasks)
  /\ lock = 0
  /\ request = [r \in Requests |-> Idle]

Ended(t) == t.at \in {"ended", "denied", "failed"}
Writing(t) == t.at \in {"seeding", "running", "final"}

Become(k, state) == tasks' = [tasks EXCEPT ![k].at = state]

(* The task is over; a lock it holds is released (run: finally).            *)
Finish(k, state) ==
  /\ Become(k, state)
  /\ lock' = IF lock = k THEN 0 ELSE lock

-----------------------------------------------------------------------------
(* A collector task *)

(* Mutant: the lock is not looked at. *)
TakeLockAnyway(k) ==
  /\ tasks[k].at = "locking"
  /\ lock' = k
  /\ Become(k, "seeding")
  /\ UNCHANGED <<setting, task, request>>

TakeLock(k) ==
  /\ tasks[k].at = "locking"
  /\ lock = 0
  /\ lock' = k
  /\ Become(k, "seeding")
  /\ UNCHANGED <<setting, task, request>>

MissLock(k) ==
  /\ tasks[k].at = "locking"
  /\ lock # 0
  /\ tasks' = IF tasks[k].tries > 1
              THEN [tasks EXCEPT ![k].tries = @ - 1]
              ELSE [tasks EXCEPT ![k].at = "denied"]
  /\ UNCHANGED <<setting, task, lock, request>>

(* _reseed is done; a task asked to stop goes on to its last snapshot.      *)
EnterLoop(k) ==
  /\ tasks[k].at = "seeding"
  /\ Become(k, IF tasks[k].stop THEN "final" ELSE "running")
  /\ UNCHANGED <<setting, task, lock, request>>

LeaveLoop(k) ==
  /\ tasks[k].at = "running"
  /\ tasks[k].stop
  /\ Become(k, "final")
  /\ UNCHANGED <<setting, task, lock, request>>

FinalSnapshotEnds(k) ==
  /\ tasks[k].at = "final"
  /\ Finish(k, "ended")
  /\ UNCHANGED <<setting, task, request>>

(* An exception that run does not catch: opening the lock file, _reseed, or *)
(* a reader that fails in another way than the two a tick expects.          *)
TaskDies(k) ==
  /\ Faults
  /\ tasks[k].at \in {"locking", "seeding", "running"}
  /\ Finish(k, "failed")
  /\ UNCHANGED <<setting, task, request>>

TaskStep(k) ==
  \/ TakeLock(k) \/ MissLock(k) \/ EnterLoop(k) \/ LeaveLoop(k)
  \/ FinalSnapshotEnds(k) \/ TaskDies(k)

-----------------------------------------------------------------------------
(* A toggle request *)

InFlight == {r \in Requests : request[r].at \in {"saved", "read", "stopping"}}

(* set_collector_enabled commits the choice. *)
SaveChoice(r) ==
  /\ request[r].at = "idle"
  /\ setting' \in BOOLEAN
  /\ request' = [request EXCEPT ![r].at = "saved"]
  /\ UNCHANGED <<task, tasks, lock>>

(* effective_collector_enabled reads it back; the request resumes later.    *)
ReadSetting(r) ==
  /\ request[r].at = "saved"
  /\ request' = [request EXCEPT ![r] = [@ EXCEPT !.at = "read", !.seen = setting]]
  /\ UNCHANGED <<setting, task, tasks, lock>>

(* The read fails: the choice stays committed, and nothing is reconciled.   *)
ReadFails(r) ==
  /\ Faults
  /\ request[r].at = "saved"
  /\ request' = [request EXCEPT ![r].at = "raised"]
  /\ UNCHANGED <<setting, task, tasks, lock>>

AlreadyAsSeen(r) == request[r].seen <=> task # 0

ReconcileNothing(r) ==
  /\ request[r].at = "read"
  /\ AlreadyAsSeen(r)
  /\ request' = [request EXCEPT ![r].at = "done"]
  /\ UNCHANGED <<setting, task, tasks, lock>>

ReconcileStarts(r) ==
  /\ request[r].at = "read"
  /\ request[r].seen /\ task = 0
  /\ tasks' = Append(tasks, NewTask)
  /\ task' = Len(tasks) + 1
  /\ request' = [request EXCEPT ![r].at = "done"]
  /\ UNCHANGED <<setting, lock>>

(* Mutant: the task is waited for but not asked to stop. *)
ReconcileStopsUnasked(r) ==
  /\ request[r].at = "read"
  /\ ~request[r].seen /\ task # 0
  /\ request' = [request EXCEPT ![r] = [@ EXCEPT !.at = "stopping", !.held = task]]
  /\ UNCHANGED <<setting, task, tasks, lock>>

(* _stop_traffic_collector asks the task to stop and waits for it. *)
ReconcileStops(r) ==
  /\ request[r].at = "read"
  /\ ~request[r].seen /\ task # 0
  /\ tasks' = [tasks EXCEPT ![task].stop = TRUE]
  /\ request' = [request EXCEPT ![r] = [@ EXCEPT !.at = "stopping", !.held = task]]
  /\ UNCHANGED <<setting, task, lock>>

(* The wait is over before the task: it is cancelled, at whatever await.    *)
StopTimesOut(r) ==
  /\ request[r].at = "stopping"
  /\ ~Ended(tasks[request[r].held])
  /\ Finish(request[r].held, "ended")
  /\ UNCHANGED <<setting, task, request>>

(* Mutant: the application does not forget the task that ended. *)
StopReturnsKeepingTask(r) ==
  /\ request[r].at = "stopping"
  /\ tasks[request[r].held].at \in {"ended", "denied"}
  /\ request' = [request EXCEPT ![r].at = "done"]
  /\ UNCHANGED <<setting, task, tasks, lock>>

(* The task ended, by itself or cancelled: the application forgets it.      *)
StopReturns(r) ==
  /\ request[r].at = "stopping"
  /\ tasks[request[r].held].at \in {"ended", "denied"}
  /\ task' = 0
  /\ request' = [request EXCEPT ![r].at = "done"]
  /\ UNCHANGED <<setting, tasks, lock>>

(* The task died of an exception, which awaiting it raises again here: the  *)
(* application keeps the dead task.                                         *)
StopRaises(r) ==
  /\ request[r].at = "stopping"
  /\ tasks[request[r].held].at = "failed"
  /\ request' = [request EXCEPT ![r].at = "raised"]
  /\ UNCHANGED <<setting, task, tasks, lock>>

RequestStep(r) ==
  \/ ReadSetting(r) \/ ReadFails(r)
  \/ ReconcileNothing(r) \/ ReconcileStarts(r) \/ ReconcileStops(r)
  \/ StopTimesOut(r) \/ StopReturns(r) \/ StopRaises(r)

-----------------------------------------------------------------------------

Quiet == InFlight = {}

Next ==
  \/ \E r \in Requests : SaveChoice(r) \/ RequestStep(r)
  \/ \E k \in DOMAIN tasks : TaskStep(k)

Spec == Init /\ [][Next]_vars
-----------------------------------------------------------------------------
(* Properties *)

TaskStates == {"locking", "seeding", "running", "final", "ended", "denied", "failed"}

TaskRecords == [at : TaskStates, stop : BOOLEAN, tries : 1 .. LockTries]

RequestStates == {"idle", "saved", "read", "stopping", "done", "raised"}

RequestRecords == [at : RequestStates, seen : BOOLEAN, held : Nat]

(* Types, and what the indices mean: the lock and the application refer to  *)
(* tasks that exist, and a stopping request to one that was asked to stop   *)
(* (app.state, _stop_traffic_collector).                                    *)
ControlTypeOK ==
  /\ setting \in BOOLEAN
  /\ tasks \in Seq(TaskRecords)
  /\ task \in 0 .. Len(tasks)
  /\ lock \in 0 .. Len(tasks)
  /\ request \in [Requests -> RequestRecords]
  /\ \A r \in Requests :
       request[r].at = "stopping" =>
         request[r].held \in DOMAIN tasks /\ tasks[request[r].held].stop

(* However requests interleave, at most one task reads its baseline or      *)
(* writes the ledger, and it is the one that holds the lock                 *)
(* (_acquire_lock, run).                                                    *)
SingleWriter ==
  \A k \in DOMAIN tasks : Writing(tasks[k]) <=> lock = k

(* When no request is in flight a collector is alive exactly if recording   *)
(* is set (reconcile_traffic_collector: "so the running state matches the   *)
(* effective setting").                                                     *)
RecordingFollowsSetting ==
  Quiet => (setting <=> \E k \in DOMAIN tasks : ~Ended(tasks[k]))

=============================================================================
