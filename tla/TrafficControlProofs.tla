------------------------ MODULE TrafficControlProofs ------------------------
(* The theorems about the control of the collector, for any number of       *)
(* requests in any interleaving and any number of tasks.                    *)
EXTENDS TrafficToggles, SequenceTheorems, TLAPS

(* The inductive invariant.                                                 *)
IInv == ControlTypeOK /\ SingleWriter

-----------------------------------------------------------------------------
(* Steps that change one task, or one request                               *)

(* A task changes to another that was asked to stop if the first was, and   *)
(* nothing else but the lock changes.                                       *)
LEMMA TaskChangeType ==
  ASSUME ControlTypeOK, NEW k \in DOMAIN tasks, NEW t \in TaskRecords,
         tasks[k].stop => t.stop,
         tasks' = [tasks EXCEPT ![k] = t],
         lock' \in 0 .. Len(tasks),
         UNCHANGED <<setting, task, request>>
  PROVE  /\ ControlTypeOK'
         /\ DOMAIN tasks' = DOMAIN tasks
         /\ \A j \in DOMAIN tasks : tasks'[j] = IF j = k THEN t ELSE tasks[j]
<1>1. k \in 1 .. Len(tasks)
  BY DEF ControlTypeOK
<1>2. /\ tasks' \in Seq(TaskRecords)
      /\ Len(tasks') = Len(tasks)
      /\ \A j \in 1 .. Len(tasks) : tasks'[j] = IF j = k THEN t ELSE tasks[j]
  BY <1>1, ExceptSeq DEF ControlTypeOK
<1>3. DOMAIN tasks' = DOMAIN tasks /\ DOMAIN tasks = 1 .. Len(tasks)
  BY <1>2 DEF ControlTypeOK
<1>4. \A r \in Requests :
        request'[r].at = "stopping" =>
          request'[r].held \in DOMAIN tasks' /\ tasks'[request'[r].held].stop
  BY <1>2, <1>3 DEF ControlTypeOK
<1> QED BY <1>2, <1>3, <1>4 DEF ControlTypeOK

(* The state of a task changes: to one in which it writes only with the     *)
(* lock.                                                                    *)
LEMMA BecomeStep ==
  ASSUME IInv, NEW k \in DOMAIN tasks, NEW state \in TaskStates, Become(k, state),
         lock' \in 0 .. Len(tasks),
         UNCHANGED <<setting, task, request>>,
         state \in {"seeding", "running", "final"} <=> lock' = k,
         \A j \in DOMAIN tasks \ {k} : lock' = j <=> lock = j
  PROVE  IInv'
<1> DEFINE t == [tasks[k] EXCEPT !.at = state]
<1>1. tasks[k] \in TaskRecords
  BY DEF IInv, ControlTypeOK
<1>2. /\ t \in TaskRecords /\ t.stop = tasks[k].stop /\ t.at = state
  BY <1>1 DEF TaskRecords
<1>3. tasks' = [tasks EXCEPT ![k] = t]
  BY DEF Become
<1>4. /\ ControlTypeOK'
      /\ DOMAIN tasks' = DOMAIN tasks
      /\ \A j \in DOMAIN tasks : tasks'[j] = IF j = k THEN t ELSE tasks[j]
  <2> HIDE DEF t
  <2> QED BY <1>2, <1>3, TaskChangeType DEF IInv
<1>5. SingleWriter'
  <2> SUFFICES ASSUME NEW j \in DOMAIN tasks
               PROVE  Writing(tasks'[j]) <=> lock' = j
    BY <1>4 DEF SingleWriter
  <2>1. CASE j = k
    <3>1. tasks'[j].at = state
      BY <1>2, <1>4, <2>1
    <3> QED BY <2>1, <3>1 DEF Writing
  <2>2. CASE j # k
    <3>1. tasks'[j] = tasks[j] /\ (lock' = j <=> lock = j)
      BY <1>4, <2>2
    <3> QED BY <3>1 DEF IInv, SingleWriter
  <2> QED BY <2>1, <2>2
<1> QED BY <1>4, <1>5 DEF IInv

(* A request changes to one that does not wait for a task.                  *)
LEMMA RequestStepType ==
  ASSUME IInv, NEW r \in Requests, NEW record \in RequestRecords,
         record.at # "stopping",
         request' = [request EXCEPT ![r] = record],
         setting' \in BOOLEAN, task' \in 0 .. Len(tasks),
         UNCHANGED <<tasks, lock>>
  PROVE  IInv'
<1>1. request' \in [Requests -> RequestRecords]
  BY DEF IInv, ControlTypeOK
<1>2. \A q \in Requests :
        request'[q].at = "stopping" =>
          request'[q].held \in DOMAIN tasks' /\ tasks'[request'[q].held].stop
  BY DEF IInv, ControlTypeOK
<1>3. ControlTypeOK'
  BY <1>1, <1>2 DEF IInv, ControlTypeOK
<1> QED BY <1>3 DEF IInv, SingleWriter

-----------------------------------------------------------------------------
(* The steps of a task                                                      *)

LEMMA TaskStepInv ==
  ASSUME IInv, NEW k \in DOMAIN tasks, TaskStep(k)
  PROVE  IInv'
<1> USE DEF IInv
<1>1. /\ k \in 1 .. Len(tasks) /\ lock \in 0 .. Len(tasks) /\ Len(tasks) \in Nat
      /\ tasks[k] \in TaskRecords
  BY DEF ControlTypeOK
<1>2. Writing(tasks[k]) <=> lock = k
  BY DEF SingleWriter
<1>3. CASE TakeLock(k)
  <2>1. lock' \in 0 .. Len(tasks) /\ lock = 0 /\ lock' = k
    BY <1>1, <1>3 DEF TakeLock
  <2>2. \A j \in DOMAIN tasks \ {k} : lock' = j <=> lock = j
    BY <1>1, <2>1 DEF ControlTypeOK
  <2> QED BY <1>3, <2>1, <2>2, BecomeStep DEF TakeLock, TaskStates
<1>4. CASE MissLock(k)
  <2> DEFINE fewer == [tasks[k] EXCEPT !.tries = @ - 1]
             denied == [tasks[k] EXCEPT !.at = "denied"]
  <2>1. /\ tasks[k].tries > 1 => fewer \in TaskRecords
        /\ fewer.stop = tasks[k].stop /\ fewer.at = tasks[k].at
        /\ denied \in TaskRecords /\ denied.stop = tasks[k].stop /\ denied.at = "denied"
    BY <1>1, LockTriesPositive DEF TaskRecords, TaskStates
  <2>2. PICK t \in {fewer, denied} :
          /\ tasks' = [tasks EXCEPT ![k] = t]
          /\ t \in TaskRecords /\ t.stop = tasks[k].stop
          /\ t.at \in {"locking", "denied"}
    BY <1>4, <2>1 DEF MissLock
  <2>3. /\ ControlTypeOK'
        /\ DOMAIN tasks' = DOMAIN tasks
        /\ \A j \in DOMAIN tasks : tasks'[j] = IF j = k THEN t ELSE tasks[j]
    <3> HIDE DEF fewer, denied
    <3> QED BY <1>1, <1>4, <2>2, TaskChangeType DEF MissLock
  <2>4. lock # k
    BY <1>2, <1>4 DEF MissLock, Writing
  <2>5. SingleWriter'
    BY <1>4, <2>2, <2>3, <2>4 DEF MissLock, SingleWriter, Writing
  <2> QED BY <2>3, <2>5
<1>5. CASE EnterLoop(k)
  <2>1. PICK state \in {"final", "running"} : Become(k, state)
    BY <1>5 DEF EnterLoop
  <2>2. lock = k
    BY <1>2, <1>5 DEF EnterLoop, Writing
  <2> QED BY <1>1, <1>5, <2>1, <2>2, BecomeStep DEF EnterLoop, TaskStates
<1>6. CASE LeaveLoop(k)
  <2>1. lock = k
    BY <1>2, <1>6 DEF LeaveLoop, Writing
  <2> QED BY <1>1, <1>6, <2>1, BecomeStep DEF LeaveLoop, TaskStates
<1>7. ASSUME NEW state \in {"ended", "failed"}, Finish(k, state),
             UNCHANGED <<setting, task, request>>
      PROVE  IInv'
  <2>1. lock' \in 0 .. Len(tasks) /\ lock' # k
    BY <1>1, <1>7 DEF Finish
  <2>2. \A j \in DOMAIN tasks \ {k} : lock' = j <=> lock = j
    BY <1>1, <1>7 DEF Finish, ControlTypeOK
  <2> QED BY <1>7, <2>1, <2>2, BecomeStep DEF Finish, TaskStates
<1>8. CASE FinalSnapshotEnds(k)
  BY <1>7, <1>8 DEF FinalSnapshotEnds
<1>9. CASE TaskDies(k)
  BY <1>7, <1>9 DEF TaskDies
<1> QED BY <1>3, <1>4, <1>5, <1>6, <1>8, <1>9 DEF TaskStep

-----------------------------------------------------------------------------
(* The steps of a request                                                   *)

LEMMA RequestStepInv ==
  ASSUME IInv, NEW r \in Requests, SaveChoice(r) \/ RequestStep(r)
  PROVE  IInv'
<1> USE DEF IInv
<1>1. /\ request[r] \in RequestRecords /\ request \in [Requests -> RequestRecords]
      /\ setting \in BOOLEAN /\ task \in 0 .. Len(tasks) /\ lock \in 0 .. Len(tasks)
      /\ tasks \in Seq(TaskRecords) /\ DOMAIN tasks = 1 .. Len(tasks) /\ Len(tasks) \in Nat
  BY DEF ControlTypeOK
<1>3. ASSUME NEW state \in RequestStates \ {"stopping"}
      PROVE  LET record == [request[r] EXCEPT !.at = state]
             IN record \in RequestRecords /\ record.at # "stopping"
  BY <1>1 DEF RequestRecords
<1>4. CASE SaveChoice(r)
  BY <1>1, <1>4, <1>3, RequestStepType DEF SaveChoice, RequestStates
<1>5. CASE ReadSetting(r)
  <2> DEFINE record == [request[r] EXCEPT !.at = "read", !.seen = setting]
  <2>1. /\ record \in RequestRecords /\ record.at # "stopping"
        /\ request' = [request EXCEPT ![r] = record]
    BY <1>1, <1>5 DEF ReadSetting, RequestRecords, RequestStates
  <2>2. /\ setting' \in BOOLEAN /\ task' \in 0 .. Len(tasks)
        /\ UNCHANGED <<tasks, lock>>
    BY <1>1, <1>5 DEF ReadSetting
  <2> HIDE DEF record
  <2> QED BY <2>1, <2>2, RequestStepType
<1>6. CASE ReconcileNothing(r)
  BY <1>1, <1>6, <1>3, RequestStepType DEF ReconcileNothing, RequestStates
<1>7. CASE ReconcileStarts(r)
  <2>1. NewTask \in TaskRecords /\ ~Writing(NewTask)
    BY LockTriesPositive DEF NewTask, TaskRecords, TaskStates, Writing
  <2>2. tasks' = Append(tasks, NewTask)
    BY <1>7 DEF ReconcileStarts
  <2>3. /\ tasks' \in Seq(TaskRecords)
        /\ Len(tasks') = Len(tasks) + 1
        /\ \A j \in 1 .. Len(tasks) : tasks'[j] = tasks[j]
        /\ tasks'[Len(tasks) + 1] = NewTask
    <3> HIDE DEF NewTask
    <3> QED BY <1>1, <2>1, <2>2, AppendProperties
  <2>4. DOMAIN tasks' = 1 .. Len(tasks) + 1
    BY <2>3
  <2>5. request' \in [Requests -> RequestRecords]
    BY <1>1, <1>3, <1>7 DEF ReconcileStarts, RequestStates
  <2>6. \A q \in Requests :
          request'[q].at = "stopping" =>
            request'[q].held \in DOMAIN tasks' /\ tasks'[request'[q].held].stop
    <3> TAKE q \in Requests
    <3> HAVE request'[q].at = "stopping"
    <3>1. q # r /\ request'[q] = request[q]
      BY <1>1, <1>7 DEF ReconcileStarts
    <3>2. request[q].held \in 1 .. Len(tasks) /\ tasks[request[q].held].stop
      BY <1>1, <3>1 DEF ControlTypeOK
    <3> QED BY <1>1, <2>3, <2>4, <3>1, <3>2
  <2>7. ControlTypeOK'
    BY <1>1, <1>7, <2>3, <2>5, <2>6 DEF ReconcileStarts, ControlTypeOK
  <2>8. SingleWriter'
    <3> SUFFICES ASSUME NEW j \in 1 .. Len(tasks) + 1
                 PROVE  Writing(tasks'[j]) <=> lock' = j
      BY <2>4 DEF SingleWriter
    <3>1. CASE j \in 1 .. Len(tasks)
      BY <1>1, <1>7, <2>3, <3>1 DEF ReconcileStarts, SingleWriter
    <3>2. CASE j = Len(tasks) + 1
      BY <1>1, <1>7, <2>1, <2>3, <3>2 DEF ReconcileStarts
    <3> QED BY <1>1, <3>1, <3>2
  <2> QED BY <2>7, <2>8
<1>8. CASE ReconcileStops(r)
  <2> DEFINE t == [tasks[task] EXCEPT !.stop = TRUE]
  <2>1. task \in DOMAIN tasks /\ tasks[task] \in TaskRecords
    BY <1>1, <1>8 DEF ReconcileStops
  <2>2. t \in TaskRecords /\ t.stop /\ t.at = tasks[task].at
    BY <2>1 DEF TaskRecords
  <2>3. tasks' = [tasks EXCEPT ![task] = t]
    BY <1>8 DEF ReconcileStops
  <2>4. /\ tasks' \in Seq(TaskRecords)
        /\ Len(tasks') = Len(tasks)
        /\ \A j \in 1 .. Len(tasks) : tasks'[j] = IF j = task THEN t ELSE tasks[j]
    <3> HIDE DEF t
    <3> QED BY <1>1, <2>1, <2>2, <2>3, ExceptSeq
  <2>5. DOMAIN tasks' = DOMAIN tasks
    BY <1>1, <2>4
  <2> DEFINE record == [request[r] EXCEPT !.at = "stopping", !.held = task]
  <2>6. /\ request' = [request EXCEPT ![r] = record]
        /\ record \in RequestRecords /\ record.held = task
    <3>1. request' = [request EXCEPT ![r] = record]
      BY <1>8 DEF ReconcileStops
    <3>2. task \in Nat
      BY <1>1
    <3> QED BY <1>1, <3>1, <3>2 DEF RequestRecords, RequestStates
  <2>7. request' \in [Requests -> RequestRecords]
    BY <1>1, <2>6
  <2>8. \A q \in Requests :
          request'[q].at = "stopping" =>
            request'[q].held \in DOMAIN tasks' /\ tasks'[request'[q].held].stop
    <3> HIDE DEF t, record
    <3> TAKE q \in Requests
    <3> HAVE request'[q].at = "stopping"
    <3>1. CASE q = r
      BY <1>1, <2>1, <2>2, <2>4, <2>5, <2>6, <3>1
    <3>2. CASE q # r
      <4>1. request'[q] = request[q]
        BY <1>1, <2>6, <3>2
      <4>2. request[q].held \in 1 .. Len(tasks) /\ tasks[request[q].held].stop
        BY <1>1, <4>1 DEF ControlTypeOK
      <4> QED BY <1>1, <2>2, <2>4, <2>5, <4>1, <4>2
    <3> QED BY <3>1, <3>2
  <2>9. ControlTypeOK'
    BY <1>1, <1>8, <2>4, <2>7, <2>8 DEF ReconcileStops, ControlTypeOK
  <2>10. SingleWriter'
    BY <1>1, <1>8, <2>2, <2>4, <2>5 DEF ReconcileStops, SingleWriter, Writing
  <2> QED BY <2>9, <2>10
<1>9. CASE StopTimesOut(r)
  <2> DEFINE k == request[r].held
  <2>1. k \in DOMAIN tasks
    BY <1>9 DEF StopTimesOut, ControlTypeOK
  <2>2. /\ Become(k, "ended") /\ lock' = (IF lock = k THEN 0 ELSE lock)
        /\ UNCHANGED <<setting, task, request>>
    BY <1>9 DEF StopTimesOut, Finish
  <2>3. lock' \in 0 .. Len(tasks) /\ lock' # k
    BY <1>1, <2>1, <2>2
  <2>4. \A j \in DOMAIN tasks \ {k} : lock' = j <=> lock = j
    BY <1>1, <2>2
  <2> HIDE DEF k
  <2> QED BY <2>1, <2>2, <2>3, <2>4, BecomeStep DEF TaskStates
<1>10. CASE StopReturns(r)
  <2> DEFINE record == [request[r] EXCEPT !.at = "done"]
  <2>1. /\ record \in RequestRecords /\ record.at # "stopping"
        /\ request' = [request EXCEPT ![r] = record]
    BY <1>1, <1>10 DEF StopReturns, RequestRecords, RequestStates
  <2>2. /\ setting' \in BOOLEAN /\ task' \in 0 .. Len(tasks)
        /\ UNCHANGED <<tasks, lock>>
    BY <1>1, <1>10 DEF StopReturns
  <2> HIDE DEF record
  <2> QED BY <2>1, <2>2, RequestStepType
<1>11. CASE StopRaises(r)
  BY <1>1, <1>11, <1>3, RequestStepType DEF StopRaises, RequestStates
<1>12. CASE ReadFails(r)
  BY <1>1, <1>12, <1>3, RequestStepType DEF ReadFails, RequestStates
<1> QED BY <1>4, <1>5, <1>6, <1>7, <1>8, <1>9, <1>10, <1>11, <1>12 DEF RequestStep

-----------------------------------------------------------------------------
(* The theorems                                                             *)

LEMMA InitInv == Init => IInv
<1> SUFFICES ASSUME Init PROVE IInv
  OBVIOUS
<1>1. NewTask \in TaskRecords /\ ~Writing(NewTask)
  BY LockTriesPositive DEF NewTask, TaskRecords, TaskStates, Writing
<1>2. /\ tasks \in Seq(TaskRecords) /\ Len(tasks) \in Nat
      /\ \A k \in DOMAIN tasks : k # 0 /\ tasks[k] = NewTask
  BY <1>1 DEF Init
<1>3. request \in [Requests -> RequestRecords] /\ \A r \in Requests : request[r].at = "idle"
  BY DEF Init, Idle, RequestRecords, RequestStates
<1>4. ControlTypeOK
  BY <1>2, <1>3 DEF Init, ControlTypeOK
<1>5. SingleWriter
  BY <1>1, <1>2 DEF Init, SingleWriter
<1> QED BY <1>4, <1>5 DEF IInv

LEMMA NextInv == IInv /\ [Next]_vars => IInv'
<1> SUFFICES ASSUME IInv, [Next]_vars PROVE IInv'
  OBVIOUS
<1>1. CASE UNCHANGED vars
  BY <1>1 DEF vars, IInv, ControlTypeOK, SingleWriter
<1>2. ASSUME NEW r \in Requests, SaveChoice(r) \/ RequestStep(r) PROVE IInv'
  BY <1>2, RequestStepInv
<1>3. ASSUME NEW k \in DOMAIN tasks, TaskStep(k) PROVE IInv'
  BY <1>3, TaskStepInv
<1> QED BY <1>1, <1>2, <1>3 DEF Next

(* The control of the collector keeps to its types, and a stopping request  *)
(* always waits for a task that was asked to stop (app.state,               *)
(* _stop_traffic_collector).                                                *)
THEOREM TypeCorrect == Spec => []ControlTypeOK
<1>1. IInv => ControlTypeOK
  BY DEF IInv
<1> QED BY <1>1, InitInv, NextInv, PTL DEF Spec

(* However many requests interleave, and wherever tasks die or are          *)
(* cancelled, a task reads its baseline or writes the ledger exactly while  *)
(* it holds the lock, so at most one does (_acquire_lock, run).             *)
THEOREM OneWriter == Spec => []SingleWriter
<1>1. IInv => SingleWriter
  BY DEF IInv
<1> QED BY <1>1, InitInv, NextInv, PTL DEF Spec

-----------------------------------------------------------------------------
(* One request after the other                                              *)

NoneStops == \A r \in Requests : request[r].at # "stopping"

OneAlive ==
  \A k \in DOMAIN tasks :
    /\ ~Ended(tasks[k]) => k = task
    /\ tasks[k].at # "denied" /\ tasks[k].tries = LockTries

WaitsForTheTask ==
  \A r \in Requests :
    /\ request[r].at = "stopping" => request[r].held = task /\ ~setting
    /\ request[r].at = "read" => (request[r].seen <=> setting)

(* Unless it is being stopped, the task of the application goes on.         *)
Unasked ==
  NoneStops /\ task # 0 =>
    tasks[task].at \in {"locking", "seeding", "running"} /\ ~tasks[task].stop

TaskFollowsSetting == Quiet => (setting <=> task # 0)

(* What is so as long as requests come one after the other and no task      *)
(* dies: only the task of the application is alive, and it is as set except *)
(* while the one request in flight changes it.                              *)
Calm ==
  Alone /\ NoneDied /\ OneAlive /\ WaitsForTheTask /\ Unasked /\ TaskFollowsSetting

(* A task changes from one state to another. *)
LEMMA BecomeShape ==
  ASSUME ControlTypeOK, NEW k \in DOMAIN tasks, NEW state \in TaskStates, Become(k, state)
  PROVE  /\ DOMAIN tasks' = DOMAIN tasks
         /\ \A j \in DOMAIN tasks :
              /\ tasks'[j].at = IF j = k THEN state ELSE tasks[j].at
              /\ tasks'[j].stop = tasks[j].stop /\ tasks'[j].tries = tasks[j].tries
<1> DEFINE t == [tasks[k] EXCEPT !.at = state]
<1>1. tasks[k] \in TaskRecords /\ k \in 1 .. Len(tasks) /\ tasks \in Seq(TaskRecords)
  BY DEF ControlTypeOK
<1>2. /\ t \in TaskRecords /\ t.at = state
      /\ t.stop = tasks[k].stop /\ t.tries = tasks[k].tries
  BY <1>1 DEF TaskRecords
<1>3. tasks' = [tasks EXCEPT ![k] = t]
  BY DEF Become
<1> HIDE DEF t
<1>4. /\ Len(tasks') = Len(tasks) /\ tasks' \in Seq(TaskRecords)
      /\ \A j \in 1 .. Len(tasks) : tasks'[j] = IF j = k THEN t ELSE tasks[j]
  BY <1>1, <1>2, <1>3, ExceptSeq
<1> QED BY <1>1, <1>2, <1>4

(* The task of the application changes its state, and starts its last       *)
(* snapshot or ends only if a request is stopping it.                       *)
LEMMA CalmBecome ==
  ASSUME IInv, Calm, NEW k \in DOMAIN tasks, ~Ended(tasks[k]),
         NEW state \in TaskStates \ {"denied", "failed"}, Become(k, state),
         NoneStops => state \in {"locking", "seeding", "running"},
         UNCHANGED <<setting, task, request>>
  PROVE  Calm'
<1>1. k = task
  BY DEF Calm, OneAlive
<1>2. /\ DOMAIN tasks' = DOMAIN tasks
      /\ \A j \in DOMAIN tasks :
           /\ tasks'[j].at = IF j = k THEN state ELSE tasks[j].at
           /\ tasks'[j].stop = tasks[j].stop /\ tasks'[j].tries = tasks[j].tries
  BY BecomeShape DEF IInv
<1>3. (NoneStops <=> NoneStops') /\ InFlight' = InFlight
  BY DEF NoneStops, InFlight
<1>4. Alone' /\ NoneDied' /\ TaskFollowsSetting' /\ WaitsForTheTask'
  BY <1>2, <1>3 DEF Calm, Alone, NoneDied, TaskFollowsSetting, WaitsForTheTask, Quiet
<1>5. OneAlive'
  BY <1>1, <1>2 DEF Calm, OneAlive, Ended
<1>6. Unasked'
  BY <1>1, <1>2, <1>3 DEF Calm, Unasked
<1> QED BY <1>4, <1>5, <1>6 DEF Calm

(* The task of the application goes on as it would: the others are over,    *)
(* and none of them holds the lock.                                         *)
LEMMA CalmTaskStep ==
  ASSUME IInv, Calm, NEW k \in DOMAIN tasks, TaskStep(k), NoneDied'
  PROVE  Calm'
<1>1. ASSUME NEW state \in TaskStates \ {"denied"}, Become(k, state), ~Ended(tasks[k]),
             NoneStops => state \in {"locking", "seeding", "running", "failed"},
             UNCHANGED <<setting, task, request>>
      PROVE  Calm'
  <2>1. DOMAIN tasks' = DOMAIN tasks /\ tasks'[k].at = state
    BY <1>1, BecomeShape DEF IInv
  <2>2. state # "failed"
    BY <2>1 DEF NoneDied
  <2> QED BY <1>1, <2>2, CalmBecome
<1>2. ~Ended(tasks[k]) => k = task
  BY DEF Calm, OneAlive
<1>3. CASE TakeLock(k)
  BY <1>1, <1>3 DEF TakeLock, Ended, TaskStates
<1>4. CASE MissLock(k)
  <2>1. lock \in DOMAIN tasks /\ Writing(tasks[lock])
    BY <1>4 DEF MissLock, IInv, ControlTypeOK, SingleWriter
  <2>2. lock = task
    BY <2>1 DEF Writing, Ended, Calm, OneAlive
  <2> QED BY <1>2, <1>4, <2>1, <2>2 DEF MissLock, Writing, Ended
<1>5. CASE EnterLoop(k)
  <2>1. NoneStops => ~tasks[k].stop
    BY <1>2, <1>5 DEF EnterLoop, Ended, Calm, Unasked, IInv, ControlTypeOK
  <2> QED BY <1>1, <1>5, <2>1 DEF EnterLoop, Ended, TaskStates
<1>6. CASE LeaveLoop(k)
  <2>1. ~NoneStops
    BY <1>2, <1>6 DEF LeaveLoop, Ended, Calm, Unasked, IInv, ControlTypeOK
  <2> QED BY <1>1, <1>6, <2>1 DEF LeaveLoop, Ended, TaskStates
<1>7. CASE FinalSnapshotEnds(k)
  <2>1. ~NoneStops
    BY <1>2, <1>7 DEF FinalSnapshotEnds, Ended, Calm, Unasked, IInv, ControlTypeOK
  <2> QED BY <1>1, <1>7, <2>1 DEF FinalSnapshotEnds, Finish, Ended, TaskStates
<1>8. CASE TaskDies(k)
  BY <1>1, <1>8 DEF TaskDies, Finish, Ended, TaskStates
<1> QED BY <1>3, <1>4, <1>5, <1>6, <1>7, <1>8 DEF TaskStep

(* A request moves on, with the tasks as they are. *)
LEMMA CalmRequest ==
  ASSUME Calm, Alone', UNCHANGED <<task, tasks>>,
         WaitsForTheTask', Unasked', TaskFollowsSetting'
  PROVE  Calm'
<1>1. NoneDied' /\ OneAlive'
  BY DEF Calm, NoneDied, OneAlive
<1> QED BY <1>1 DEF Calm

(* Of the requests at most one is in flight, and the task is as set between *)
(* two of them.                                                             *)
LEMMA CalmRequestStep ==
  ASSUME IInv, Calm, NEW r \in Requests, SaveChoice(r) \/ RequestStep(r), Alone', NoneRaised'
  PROVE  Calm'
<1>1. /\ request[r] \in RequestRecords /\ request \in [Requests -> RequestRecords]
      /\ setting \in BOOLEAN /\ task \in 0 .. Len(tasks) /\ Len(tasks) \in Nat
      /\ tasks \in Seq(TaskRecords) /\ DOMAIN tasks = 1 .. Len(tasks)
  BY DEF IInv, ControlTypeOK
<1>2. \A q \in InFlight : r \in InFlight => q = r
  BY DEF Calm, Alone
<1>3. ASSUME NEW record, request' = [request EXCEPT ![r] = record]
      PROVE  \A q \in Requests : request'[q] = IF q = r THEN record ELSE request[q]
  BY <1>1, <1>3
<1>4. CASE SaveChoice(r)
  <2>1. /\ request'[r].at = "saved" /\ \A q \in Requests \ {r} : request'[q] = request[q]
        /\ UNCHANGED <<task, tasks, lock>>
    BY <1>1, <1>4 DEF SaveChoice, RequestRecords
  <2>2. r \in InFlight' /\ \A q \in Requests \ {r} : q \notin InFlight'
    BY <2>1 DEF InFlight, Alone
  <2>3. \A q \in Requests \ {r} : request'[q].at \notin {"saved", "read", "stopping"}
    BY <2>2 DEF InFlight
  <2>4. NoneStops /\ request[r].at = "idle"
    BY <1>4, <2>1, <2>3 DEF NoneStops, SaveChoice
  <2>5. WaitsForTheTask' /\ TaskFollowsSetting'
    BY <2>1, <2>2, <2>3 DEF WaitsForTheTask, TaskFollowsSetting, Quiet
  <2>6. Unasked'
    BY <2>1, <2>4 DEF Calm, Unasked
  <2> QED BY <2>1, <2>5, <2>6, CalmRequest
<1>5. CASE ReadSetting(r)
  <2> DEFINE record == [request[r] EXCEPT !.at = "read", !.seen = setting]
  <2>1. /\ record.at = "read" /\ record.seen = setting
        /\ request' = [request EXCEPT ![r] = record]
    BY <1>1, <1>5 DEF ReadSetting, RequestRecords
  <2> HIDE DEF record
  <2>2. /\ \A q \in Requests : request'[q] = IF q = r THEN record ELSE request[q]
        /\ UNCHANGED <<setting, task, tasks, lock>> /\ request[r].at = "saved"
    BY <1>5, <1>3, <2>1 DEF ReadSetting
  <2>3. InFlight' = InFlight /\ (NoneStops <=> NoneStops')
    BY <2>1, <2>2 DEF InFlight, NoneStops
  <2>4. WaitsForTheTask' /\ TaskFollowsSetting' /\ Unasked'
    BY <2>1, <2>2, <2>3 DEF Calm, WaitsForTheTask, TaskFollowsSetting, Quiet, Unasked
  <2> QED BY <2>2, <2>4, CalmRequest
<1>6. CASE ReconcileNothing(r)
  <2>1. /\ request'[r].at = "done" /\ \A q \in Requests \ {r} : request'[q] = request[q]
        /\ UNCHANGED <<setting, task, tasks, lock>> /\ request[r].at = "read"
    BY <1>1, <1>6 DEF ReconcileNothing, RequestRecords
  <2>2. NoneStops <=> NoneStops'
    BY <2>1 DEF NoneStops
  <2>3. setting <=> task # 0
    BY <1>6, <2>1 DEF Calm, WaitsForTheTask, ReconcileNothing, AlreadyAsSeen
  <2>4. WaitsForTheTask' /\ TaskFollowsSetting' /\ Unasked'
    BY <2>1, <2>2, <2>3 DEF Calm, WaitsForTheTask, TaskFollowsSetting, Unasked
  <2> QED BY <2>1, <2>4, CalmRequest
<1>7. CASE ReconcileStarts(r)
  <2>1. NewTask \in TaskRecords
    BY LockTriesPositive DEF NewTask, TaskRecords, TaskStates
  <2>2. /\ Len(tasks') = Len(tasks) + 1 /\ tasks' \in Seq(TaskRecords)
        /\ \A j \in 1 .. Len(tasks) : tasks'[j] = tasks[j]
        /\ tasks'[Len(tasks) + 1] = NewTask
    <3>1. tasks' = Append(tasks, NewTask)
      BY <1>7 DEF ReconcileStarts
    <3> HIDE DEF NewTask
    <3> QED BY <1>1, <2>1, <3>1, AppendProperties
  <2>3. DOMAIN tasks' = 1 .. Len(tasks) + 1 /\ task = 0 /\ task' = Len(tasks) + 1
    BY <1>7, <2>2 DEF ReconcileStarts
  <2>4. NewTask.at = "locking" /\ ~NewTask.stop /\ NewTask.tries = LockTries
    BY DEF NewTask
  <2>5. /\ request'[r].at = "done" /\ \A q \in Requests \ {r} : request'[q] = request[q]
        /\ request[r].at = "read" /\ request[r].seen /\ UNCHANGED setting
    BY <1>1, <1>7 DEF ReconcileStarts, RequestRecords
  <2>6. \A j \in 1 .. Len(tasks) : j # task /\ Ended(tasks[j])
    BY <1>1, <2>3 DEF Calm, OneAlive
  <2>7. OneAlive' /\ NoneDied'
    <3> SUFFICES ASSUME NEW j \in 1 .. Len(tasks) + 1
                 PROVE  /\ ~Ended(tasks'[j]) => j = task'
                        /\ tasks'[j].at \notin {"denied", "failed"}
                        /\ tasks'[j].tries = LockTries
      BY <2>3 DEF OneAlive, NoneDied
    <3>1. CASE j \in 1 .. Len(tasks)
      BY <1>1, <2>2, <2>6, <3>1 DEF Calm, OneAlive, NoneDied
    <3>2. CASE j = Len(tasks) + 1
      BY <2>2, <2>3, <2>4, <3>2
    <3> QED BY <1>1, <3>1, <3>2
  <2>8. setting /\ r \in InFlight
    BY <2>5 DEF Calm, WaitsForTheTask, InFlight
  <2>9. \A q \in Requests : request'[q].at \notin {"saved", "read", "stopping"}
    BY <1>2, <2>5, <2>8 DEF InFlight
  <2>10. WaitsForTheTask' /\ TaskFollowsSetting'
    BY <1>1, <2>3, <2>5, <2>8, <2>9 DEF WaitsForTheTask, TaskFollowsSetting
  <2>11. Unasked'
    BY <2>2, <2>3, <2>4 DEF Unasked
  <2> QED BY <2>7, <2>10, <2>11 DEF Calm
<1>8. CASE ReconcileStops(r)
  <2> DEFINE record == [request[r] EXCEPT !.at = "stopping", !.held = task]
             t == [tasks[task] EXCEPT !.stop = TRUE]
  <2>1. /\ record.at = "stopping" /\ record.held = task
        /\ request' = [request EXCEPT ![r] = record]
    BY <1>1, <1>8 DEF ReconcileStops, RequestRecords
  <2>2. /\ t \in TaskRecords /\ t.at = tasks[task].at /\ t.tries = tasks[task].tries
        /\ tasks' = [tasks EXCEPT ![task] = t] /\ task \in 1 .. Len(tasks)
    <3>1. task \in 1 .. Len(tasks) /\ tasks[task] \in TaskRecords
      BY <1>1, <1>8 DEF ReconcileStops
    <3>2. tasks' = [tasks EXCEPT ![task] = t]
      BY <1>8 DEF ReconcileStops
    <3> QED BY <3>1, <3>2 DEF TaskRecords
  <2> HIDE DEF record, t
  <2>3. /\ Len(tasks') = Len(tasks) /\ tasks' \in Seq(TaskRecords)
        /\ \A j \in 1 .. Len(tasks) : tasks'[j] = IF j = task THEN t ELSE tasks[j]
    BY <1>1, <2>2, ExceptSeq
  <2>4. /\ \A q \in Requests : request'[q] = IF q = r THEN record ELSE request[q]
        /\ UNCHANGED <<setting, task>> /\ request[r].at = "read" /\ ~request[r].seen
    BY <1>3, <1>8, <2>1 DEF ReconcileStops
  <2>5. DOMAIN tasks' = DOMAIN tasks
    BY <1>1, <2>3
  <2>6. OneAlive' /\ NoneDied'
    BY <1>1, <2>2, <2>3, <2>4, <2>5 DEF Calm, OneAlive, NoneDied, Ended
  <2>7. ~setting /\ \A q \in Requests \ {r} : request'[q].at # "stopping"
    BY <1>2, <2>4 DEF Calm, WaitsForTheTask, InFlight
  <2>8. WaitsForTheTask'
    BY <2>1, <2>4, <2>7 DEF Calm, WaitsForTheTask
  <2>9. ~NoneStops' /\ r \in InFlight'
    BY <2>1, <2>4 DEF NoneStops, InFlight
  <2>10. Unasked' /\ TaskFollowsSetting'
    BY <2>9 DEF Unasked, TaskFollowsSetting, Quiet
  <2> QED BY <2>6, <2>8, <2>10 DEF Calm
<1>9. CASE StopTimesOut(r)
  <2> DEFINE k == request[r].held
  <2>1. /\ k \in DOMAIN tasks /\ ~Ended(tasks[k]) /\ Become(k, "ended")
        /\ UNCHANGED <<setting, task, request>> /\ ~NoneStops
    BY <1>9 DEF StopTimesOut, Finish, NoneStops, IInv, ControlTypeOK
  <2> HIDE DEF k
  <2> QED BY <2>1, CalmBecome DEF TaskStates
<1>10. CASE StopReturns(r)
  <2>1. /\ request'[r].at = "done" /\ \A q \in Requests \ {r} : request'[q] = request[q]
        /\ UNCHANGED <<setting, tasks, lock>> /\ request[r].at = "stopping" /\ task' = 0
        /\ Ended(tasks[request[r].held])
    BY <1>1, <1>10 DEF StopReturns, RequestRecords, Ended
  <2>2. Ended(tasks[task]) /\ ~setting /\ r \in InFlight
    BY <2>1 DEF Calm, WaitsForTheTask, InFlight
  <2>3. OneAlive' /\ NoneDied'
    BY <2>1, <2>2 DEF Calm, OneAlive, NoneDied
  <2>4. \A q \in Requests : request'[q].at \notin {"saved", "read", "stopping"}
    BY <1>2, <2>1, <2>2 DEF InFlight
  <2>5. WaitsForTheTask' /\ TaskFollowsSetting' /\ Unasked'
    BY <2>1, <2>2, <2>4 DEF WaitsForTheTask, TaskFollowsSetting, Unasked
  <2> QED BY <2>3, <2>5 DEF Calm
<1>11. CASE StopRaises(r)
  <2>1. request[r].held \in DOMAIN tasks /\ tasks[request[r].held].at = "failed"
    BY <1>11 DEF StopRaises, IInv, ControlTypeOK
  <2> QED BY <2>1 DEF Calm, NoneDied
<1>12. CASE ReadFails(r)
  BY <1>1, <1>12 DEF ReadFails, NoneRaised
<1> QED BY <1>4, <1>5, <1>6, <1>7, <1>8, <1>9, <1>10, <1>11, <1>12 DEF RequestStep

(* The inductive invariant of the history: calm states are as described.    *)
CalmInv == IInv /\ (calm => Calm)

LEMMA CalmInvInit == CalmInit => CalmInv
<1> SUFFICES ASSUME CalmInit PROVE CalmInv
  OBVIOUS
<1>1. IInv
  BY InitInv DEF CalmInit
<1>2. NewTask \in TaskRecords
  BY LockTriesPositive DEF NewTask, TaskRecords, TaskStates
<1>3. /\ task = Len(tasks) /\ (setting => task = 1) /\ (~setting => task = 0)
      /\ \A k \in DOMAIN tasks : k = task /\ tasks[k] = NewTask
      /\ task # 0 => task \in DOMAIN tasks
  BY <1>2 DEF CalmInit, Init
<1>4. \A r \in Requests : request[r].at = "idle"
  BY DEF CalmInit, Init, Idle
<1>5. Alone /\ NoneDied /\ OneAlive
  BY <1>3, <1>4 DEF Alone, InFlight, NoneDied, OneAlive, NewTask
<1>6. WaitsForTheTask /\ Unasked /\ TaskFollowsSetting
  BY <1>3, <1>4 DEF WaitsForTheTask, Unasked, TaskFollowsSetting, NewTask
<1> QED BY <1>1, <1>5, <1>6 DEF CalmInv, Calm

LEMMA CalmInvStep == CalmInv /\ [CalmNext]_<<vars, calm>> => CalmInv'
<1> SUFFICES ASSUME CalmInv, [CalmNext]_<<vars, calm>> PROVE CalmInv'
  OBVIOUS
<1>1. IInv'
  BY NextInv DEF CalmInv, CalmNext
<1>2. CASE UNCHANGED <<vars, calm>>
  <2>1. Calm => Calm'
    BY <1>2 DEF vars, Calm, Alone, InFlight, NoneDied, OneAlive, Ended, WaitsForTheTask, Unasked,
       NoneStops, TaskFollowsSetting, Quiet
  <2> QED BY <1>1, <1>2, <2>1 DEF CalmInv
<1>3. ASSUME CalmNext, calm' PROVE Calm'
  <2>1. IInv /\ Calm /\ Alone' /\ NoneDied' /\ NoneRaised'
    BY <1>3 DEF CalmInv, CalmNext
  <2>2. ASSUME NEW r \in Requests, SaveChoice(r) \/ RequestStep(r) PROVE Calm'
    BY <2>1, <2>2, CalmRequestStep
  <2>3. ASSUME NEW k \in DOMAIN tasks, TaskStep(k) PROVE Calm'
    BY <2>1, <2>3, CalmTaskStep
  <2> QED BY <1>3, <2>2, <2>3 DEF CalmNext, Next
<1> QED BY <1>1, <1>2, <1>3 DEF CalmInv

(* However many requests come one after the other, as long as no task dies  *)
(* and no read fails: between two of them a collector is alive exactly if   *)
(* recording is set, and a new collector never meets the lock of the one    *)
(* before (reconcile_traffic_collector, _stop_traffic_collector).           *)
THEOREM TogglesOneByOne == CalmSpec => []CalmTogglesWork
<1>1. ASSUME CalmInv, calm PROVE RecordingFollowsSetting /\ Calm
  <2>1. Calm
    BY <1>1 DEF CalmInv
  <2>2. ASSUME Quiet PROVE setting <=> \E k \in DOMAIN tasks : ~Ended(tasks[k])
    <3>1. NoneStops /\ (setting <=> task # 0)
      BY <2>1, <2>2 DEF Calm, TaskFollowsSetting, Quiet, InFlight, NoneStops
    <3>2. task # 0 => task \in DOMAIN tasks /\ ~Ended(tasks[task])
      BY <1>1, <2>1, <3>1 DEF Calm, Unasked, Ended, CalmInv, IInv, ControlTypeOK
    <3>3. \A k \in DOMAIN tasks : ~Ended(tasks[k]) => task # 0
      BY <1>1, <2>1 DEF Calm, OneAlive, CalmInv, IInv, ControlTypeOK
    <3> QED BY <3>1, <3>2, <3>3
  <2> QED BY <2>1, <2>2 DEF RecordingFollowsSetting
<1>2. CalmInv => CalmTogglesWork
  BY <1>1 DEF CalmTogglesWork, CalmRecordingFollowsSetting, NeverDenied, Calm, OneAlive
<1> QED BY <1>2, CalmInvInit, CalmInvStep, PTL DEF CalmSpec
=============================================================================
