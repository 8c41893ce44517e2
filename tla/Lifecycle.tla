----------------------------- MODULE Lifecycle -----------------------------
(***************************************************************************)
(* Updates and restores as the dashboard starts them.  The API             *)
(* (backend/api/update.py, backend/api/backup.py) runs a launcher through   *)
(* sudo (ccc-update-apply apply, ccc-restore-apply apply) and waits for one *)
(* line; the launcher takes the lifecycle lock, sweeps what dead attempts   *)
(* left, records its own attempt (backend/priv_state.py) and starts a       *)
(* worker in a transient unit of a fixed name; the worker does the work and *)
(* publishes a status.  What an update or a restore does to the host is     *)
(* not this module's subject.                                               *)
(*                                                                          *)
(* The attempt of an operation bears its name.  A unit is in flight exactly *)
(* when a worker of its kind is.                                            *)
(***************************************************************************)
EXTENDS Naturals, FiniteSets

CONSTANTS
  Updates,         \* update requests
  Restores,        \* restore requests
  Late,            \* may a queued unit start where a launcher's look misses it?
  MaxRequests,     \* bound: requests made
  MaxFaults        \* bound: stops of the service from outside, power losses,
                   \* deaths of a worker and calls of systemctl that fail

ASSUME KindsDisjoint == Updates \cap Restores = {}
ASSUME MaxFaultsNat == MaxFaults \in Nat

VARIABLES
  client,    \* what the API told whoever asked
  launcher,  \* the helper the API started
  worker,    \* the process in the transient unit
  ack,       \* the line in a restore's acknowledgement FIFO
  lock,      \* the holder of lifecycle.lock, as a set of at most one
  record,    \* the attempts with an ownership record
  work,      \* the attempts with a work tree
  status,    \* the published documents, by kind
  reported,  \* the operations a document called over: a history
  faults,    \* how many there were
  blind      \* has systemctl failed a launcher that had a unit to see or to stop?

vars == <<client, launcher, worker, ack, lock, record, work, status, reported,
          faults, blind>>
files == <<record, work>>
published == <<status, reported>>
mishaps == <<faults, blind>>

Operations == Updates \cup Restores
KindOf(o) == IF o \in Updates THEN "update" ELSE "restore"

-----------------------------------------------------------------------------

Inert == {"none", "finished", "abandoned", "unauthorized", "unpublished", "silent",
          "killed", "cut"}
InFlight(o) == worker[o] \notin Inert
Active(o) == InFlight(o) /\ worker[o] # "queued"

Alive(o) == launcher[o] \notin {"none", "gone", "unsure", "killed"}

(* Mutant: only the unit of updates is looked at. *)
UpdateUnitBusy == \E o \in Updates : Active(o)

(* _unit_busy: is-active says inactive of a unit that is only queued. *)
UnitBusy == \E o \in Operations : Active(o)

Init ==
  /\ client = [o \in Operations |-> "none"]
  /\ launcher = [o \in Operations |-> "none"]
  /\ worker = [o \in Operations |-> "none"]
  /\ ack = [o \in Restores |-> "none"]
  /\ lock = {}
  /\ record = {} /\ work = {}
  /\ status = [k \in {"update", "restore"} |-> [state |-> "idle", op |-> {}]]
  /\ reported = {}
  /\ faults = 0 /\ blind = FALSE

(* A process goes on to its next state; the other kind of process stays.    *)
LauncherGoes(o, state) ==
  /\ launcher' = [launcher EXCEPT ![o] = state]
  /\ UNCHANGED worker

WorkerGoes(o, state) ==
  /\ worker' = [worker EXCEPT ![o] = state]
  /\ UNCHANGED launcher

Release(role, o) == lock' = lock \ {<<role, o>>}

(* The launcher exits: its lock goes with it.  It is "unsure" when it has   *)
(* seen neither its own unit active nor its launch fail for certain.        *)
LeaveAs(o, state) == LauncherGoes(o, state) /\ Release("launcher", o)
Leave(o) == LeaveAs(o, "gone")
LeaveUnit(o) == LeaveAs(o, IF worker[o] = "queued" THEN "unsure" ELSE "gone")

Publish(o, state) ==
  /\ status' = [status EXCEPT ![KindOf(o)] = [state |-> state, op |-> {o}]]
  /\ reported' = IF state = "over" THEN reported \cup {o} ELSE reported

-----------------------------------------------------------------------------
(* priv_state.py: the tree of an attempt goes first, then its record.       *)

RemoveTree(o) ==
  /\ o \in record \cap work
  /\ work' = work \ {o}
  /\ UNCHANGED record

RemoveRecord(o) ==
  /\ o \in record \ work
  /\ record' = record \ {o}
  /\ UNCHANGED work

CleanupStep(o) == RemoveTree(o) \/ RemoveRecord(o)

-----------------------------------------------------------------------------
(* The API *)

(* get_status reports an update in progress only while its worker lives.    *)
UpdateReported ==
  /\ status["update"].state = "in_progress"
  /\ \E o \in status["update"].op : Active(o)

Request(o) ==
  /\ client[o] = "none"
  /\ Cardinality({a \in Operations : client[a] # "none"}) < MaxRequests
  /\ o \in Updates => ~UpdateReported
  /\ client' = [client EXCEPT ![o] = "waiting"]
  /\ LauncherGoes(o, "locking")
  /\ UNCHANGED <<ack, lock, files, published, mishaps>>

ClientGoes(o, from, to) ==
  /\ client[o] \in from
  /\ client' = [client EXCEPT ![o] = to]
  /\ UNCHANGED <<launcher, worker, ack, lock, files, published, mishaps>>

HearsExit(o) == ~Alive(o) /\ ClientGoes(o, {"waiting"}, "refused")

(* The deadline passes, and the client is told that the operation could not *)
(* be started. The launcher is root's: the kill does not reach it.          *)
GivesUp(o) == ClientGoes(o, {"waiting"}, "gave_up")

(* The launcher writes its line. The pipe is open while the API waits, and  *)
(* for a time after it gave up.                                             *)
Acknowledge(o, next) ==
  /\ launcher[o] = "acking"
  /\ client[o] \in {"waiting", "gave_up"}
  /\ client' = [client EXCEPT ![o] = IF @ = "waiting" THEN "accepted" ELSE @]
  /\ IF next = "gone" THEN Leave(o) ELSE LauncherGoes(o, next) /\ UNCHANGED lock
  /\ UNCHANGED <<ack, files, published, mishaps>>

PipeBreaks(o, next) ==
  /\ launcher[o] = "acking"
  /\ client[o] = "gave_up"
  /\ IF next = "gone" THEN Leave(o) ELSE LauncherGoes(o, next) /\ UNCHANGED lock
  /\ UNCHANGED <<client, ack, files, published, mishaps>>

ClientStep(o) == HearsExit(o) \/ GivesUp(o)

-----------------------------------------------------------------------------
(* Both launchers, up to their own attempt *)

(* Mutant: the lock is not exclusive. *)
TakesLockTwice(o) ==
  /\ launcher[o] = "locking"
  /\ lock' = lock \cup {<<"launcher", o>>}
  /\ LauncherGoes(o, "checking")
  /\ UNCHANGED <<client, ack, files, published, mishaps>>

TakesLock(o) ==
  /\ launcher[o] = "locking"
  /\ lock = {}
  /\ lock' = {<<"launcher", o>>}
  /\ LauncherGoes(o, "checking")
  /\ UNCHANGED <<client, ack, files, published, mishaps>>

FindsLocked(o) ==
  /\ launcher[o] = "locking"
  /\ lock # {}
  /\ Leave(o)
  /\ UNCHANGED <<client, ack, files, published, mishaps>>

FindsBusy(o) ==
  /\ launcher[o] = "checking"
  /\ UnitBusy
  /\ Leave(o)
  /\ UNCHANGED <<client, ack, files, published, mishaps>>

FindsIdle(o) ==
  /\ launcher[o] = "checking"
  /\ ~UnitBusy
  /\ LauncherGoes(o, "sweeping")
  /\ UNCHANGED <<client, ack, lock, files, published, mishaps>>

Sweeps(o) ==
  /\ launcher[o] = "sweeping"
  /\ \E a \in record : CleanupStep(a)
  /\ UNCHANGED <<client, launcher, worker, ack, lock, published, mishaps>>

(* Everything recorded is gone, or an update leaves what it cannot remove.  *)
SweepEnds(o) ==
  /\ launcher[o] = "sweeping"
  /\ record = {} \/ o \in Updates
  /\ LauncherGoes(o, "recording")
  /\ UNCHANGED <<client, ack, lock, files, published, mishaps>>

(* A restore does not start over what it cannot remove. *)
SweepFails(o) ==
  /\ o \in Restores
  /\ launcher[o] = "sweeping"
  /\ record # {}
  /\ Leave(o)
  /\ UNCHANGED <<client, ack, files, published, mishaps>>

Records(o) ==
  /\ launcher[o] = "recording"
  /\ record' = record \cup {o}
  /\ LauncherGoes(o, "making")
  /\ UNCHANGED <<client, ack, lock, work, published, mishaps>>

MakesWork(o) ==
  /\ launcher[o] = "making"
  /\ work' = work \cup {o}
  /\ LauncherGoes(o, IF o \in Updates THEN "ingesting" ELSE "launching")
  /\ UNCHANGED <<client, ack, lock, record, published, mishaps>>

RecordFails(o) ==
  /\ launcher[o] = "recording"
  /\ Leave(o)
  /\ UNCHANGED <<client, ack, files, published, mishaps>>

(* An update leaves what it made to the next sweep.                         *)
MakeFails(o) ==
  /\ launcher[o] = "making"
  /\ IF o \in Updates THEN Leave(o) /\ UNCHANGED work
     ELSE /\ LauncherGoes(o, "cleaning") /\ UNCHANGED lock
          /\ work' \in {work, work \cup {o}}
  /\ UNCHANGED <<client, ack, record, published, mishaps>>

Cleans(o) ==
  /\ launcher[o] = "cleaning"
  /\ CleanupStep(o)
  /\ UNCHANGED <<client, launcher, worker, ack, lock, published, mishaps>>

(* Nothing is left, or what is left cannot be removed. *)
CleanEnds(o) ==
  /\ launcher[o] = "cleaning"
  /\ Leave(o)
  /\ UNCHANGED <<client, ack, files, published, mishaps>>

(* systemd-run: the fixed name admits one unit of a kind. *)
Registers(o) ==
  /\ \A a \in Operations : KindOf(a) = KindOf(o) => ~InFlight(a)
  /\ worker' = [worker EXCEPT ![o] = "queued"]

LauncherStart(o) ==
  \/ TakesLock(o) \/ FindsLocked(o) \/ FindsBusy(o) \/ FindsIdle(o)
  \/ Sweeps(o) \/ SweepEnds(o) \/ SweepFails(o) \/ Records(o) \/ RecordFails(o)
  \/ MakesWork(o) \/ MakeFails(o)
  \/ Cleans(o) \/ CleanEnds(o)

-----------------------------------------------------------------------------
(* ccc-update-apply: the launcher acknowledges first, launches after, and   *)
(* keeps the lock until the unit shows.                                     *)

(* A payload that is no release leaves its attempt to the next sweep; a     *)
(* release that is too old is cleaned up at once.                           *)
Ingests(o) ==
  /\ launcher[o] = "ingesting"
  /\ \/ Leave(o)
     \/ \E next \in {"cleaning", "acking"} : LauncherGoes(o, next) /\ UNCHANGED lock
  /\ UNCHANGED <<client, ack, files, published, mishaps>>

AcknowledgesUpdate(o) == Acknowledge(o, "launching")

LaunchesUpdate(o) ==
  /\ launcher[o] = "launching"
  /\ Registers(o)
  /\ launcher' = [launcher EXCEPT ![o] = "waiting"]
  /\ UNCHANGED <<client, ack, lock, files, published, mishaps>>

(* systemd-run fails: the unit is not there, or is there all the same.      *)
LaunchFails(o) ==
  /\ launcher[o] = "launching"
  /\ launcher' = [launcher EXCEPT ![o] = IF o \in Updates THEN "querying" ELSE "settling"]
  /\ Registers(o) \/ UNCHANGED worker
  /\ IF o \in Updates THEN UNCHANGED lock ELSE Release("launcher", o)
  /\ UNCHANGED <<client, ack, files, published, mishaps>>

(* The unit is active, or its state unavailable: the attempt is left to     *)
(* whatever worker there is.                                                *)
Queries(o) ==
  /\ launcher[o] = "querying"
  /\ \/ LeaveAs(o, "unsure")
     \/ /\ \A a \in Updates : ~InFlight(a) \/ (Late /\ ~Active(a))
        /\ LauncherGoes(o, "reporting")
        /\ UNCHANGED lock
  /\ UNCHANGED <<client, ack, files, published, mishaps>>

ReportsFailure(o) ==
  /\ launcher[o] = "reporting"
  /\ Publish(o, "over")
  /\ LauncherGoes(o, "cleaning")
  /\ UNCHANGED <<client, ack, lock, files, mishaps>>

(* The document cannot be written: the launcher ends where it is.           *)
ReportFails(o) ==
  /\ launcher[o] = "reporting"
  /\ LeaveAs(o, "unsure")
  /\ UNCHANGED <<client, ack, files, published, mishaps>>

SeesUnit(o) ==
  /\ launcher[o] = "waiting"
  /\ UnitBusy
  /\ LeaveUnit(o)
  /\ UNCHANGED <<client, ack, files, published, mishaps>>

(* Mutant: the launcher waits until it sees a unit. *)
WaitsForUnit(o) == FALSE

(* _ACTIVE_WAIT_S: the worker may be over before the launcher looks.        *)
WaitExpires(o) ==
  /\ launcher[o] = "waiting"
  /\ worker[o] = "queued" => Late
  /\ LeaveUnit(o)
  /\ UNCHANGED <<client, ack, files, published, mishaps>>

UpdateLauncherStep(o) ==
  \/ Ingests(o) \/ AcknowledgesUpdate(o) \/ PipeBreaks(o, "gone")
  \/ LaunchesUpdate(o) \/ LaunchFails(o) \/ Queries(o) \/ ReportsFailure(o)
  \/ ReportFails(o) \/ SeesUnit(o) \/ WaitExpires(o)

-----------------------------------------------------------------------------
(* ccc-restore-apply: the launcher hands the backup over through one FIFO,  *)
(* gives up the lock and reads the worker's answer from another, which it   *)
(* holds open throughout; all within one deadline.                          *)

Listens(o) == launcher[o] \in {"connecting", "handing", "listening", "stopping"}

LaunchesRestore(o) ==
  /\ launcher[o] = "launching"
  /\ Registers(o)
  /\ launcher' = [launcher EXCEPT ![o] = "connecting"]
  /\ UNCHANGED <<client, ack, lock, files, published, mishaps>>

HandsOver(o) ==
  /\ launcher[o] = "connecting"
  /\ worker[o] = "reading"
  /\ launcher' = [launcher EXCEPT ![o] = "handing"]
  /\ worker' = [worker EXCEPT ![o] = "parsing"]
  /\ UNCHANGED <<client, ack, lock, files, published, mishaps>>

ReleasesLock(o) ==
  /\ launcher[o] = "handing"
  /\ LauncherGoes(o, "listening")
  /\ Release("launcher", o)
  /\ UNCHANGED <<client, ack, files, published, mishaps>>

ReadsAnswer(o) ==
  /\ launcher[o] = "listening"
  /\ ack[o] # "none"
  /\ LauncherGoes(o, IF ack[o] = "accepted" THEN "acking" ELSE "settling")
  /\ UNCHANGED <<client, ack, lock, files, published, mishaps>>

(* Mutant: the unit is left running when the deadline passes. *)
DeadlineLeavesUnit(o) ==
  /\ launcher[o] \in {"connecting", "listening"}
  /\ LauncherGoes(o, "settling")
  /\ Release("launcher", o)
  /\ UNCHANGED <<client, ack, files, published, mishaps>>

(* An answer that comes with the deadline may go unread, but one that lies  *)
(* there does not.                                                          *)
DeadlinePasses(o) ==
  /\ launcher[o] \in {"connecting", "listening"}
  /\ Late \/ ack[o] = "none" \/ InFlight(o)
  /\ LauncherGoes(o, "stopping")
  /\ UNCHANGED <<client, ack, lock, files, published, mishaps>>

(* systemctl stop names the unit, whichever operation it now works for.     *)
StopsUnit(o) ==
  /\ launcher[o] = "stopping"
  /\ launcher' = [launcher EXCEPT ![o] = "settling"]
  /\ worker' = [a \in Operations |->
                  IF a \in Restores /\ InFlight(a) THEN "killed" ELSE worker[a]]
  /\ lock' = lock \ ({<<"launcher", o>>} \cup ({"worker"} \X Restores))
  /\ UNCHANGED <<client, ack, files, published, mishaps>>

AnswersRestore(o) == Acknowledge(o, "gone")

(* Mutant: the attempt is removed whatever its unit does. *)
SettlesBlindly(o) ==
  /\ launcher[o] = "settling"
  /\ LauncherGoes(o, "cleaning")
  /\ UNCHANGED <<client, ack, lock, files, published, mishaps>>

Settles(o) ==
  /\ launcher[o] = "settling"
  /\ IF \E a \in Restores : Active(a) THEN Leave(o)
                                      ELSE LauncherGoes(o, "cleaning") /\ UNCHANGED lock
  /\ UNCHANGED <<client, ack, files, published, mishaps>>

RestoreLauncherStep(o) ==
  \/ LaunchesRestore(o) \/ LaunchFails(o) \/ HandsOver(o) \/ ReleasesLock(o)
  \/ ReadsAnswer(o) \/ DeadlinePasses(o) \/ StopsUnit(o)
  \/ AnswersRestore(o) \/ PipeBreaks(o, "settling") \/ Settles(o)

-----------------------------------------------------------------------------
(* Both workers: the record of the attempt authorizes them.                 *)

(* A launcher that looked at the unit while it was queued has removed what  *)
(* it removes, or stopped what it stops, before the unit starts: unless     *)
(* units may be Late.                                                       *)
UnitStarts(o) ==
  /\ worker[o] = "queued"
  /\ Late \/ \A a \in Operations :
                launcher[a] \notin {"sweeping", "reporting", "cleaning", "stopping"}
  /\ WorkerGoes(o, "starting")
  /\ UNCHANGED <<client, ack, lock, files, published, mishaps>>

FindsRecord(o) ==
  /\ worker[o] = "starting"
  /\ WorkerGoes(o, IF o \in record \cap work
                   THEN IF o \in Updates THEN "validating" ELSE "reading"
                   ELSE IF o \in Updates THEN "unauthorized" ELSE "abandoning")
  /\ UNCHANGED <<client, ack, lock, files, published, mishaps>>

(* A worker that removes its attempt, and what it then is.                  *)
Ending == {"finishing", "abandoning", "quitting"}
Ended(state) ==
  CASE state = "finishing" -> "finished"
    [] state = "abandoning" -> "abandoned"
    [] state = "quitting" -> "unpublished"

WorkerCleans(o) ==
  /\ worker[o] \in Ending
  /\ CleanupStep(o)
  /\ UNCHANGED <<client, launcher, worker, ack, lock, published, mishaps>>

(* Nothing is left, or what is left cannot be removed. *)
WorkerEnds(o) ==
  /\ worker[o] \in Ending
  /\ WorkerGoes(o, Ended(worker[o]))
  /\ UNCHANGED <<client, ack, lock, files, published, mishaps>>

WorkerFrame(o) == UnitStarts(o) \/ FindsRecord(o) \/ WorkerCleans(o) \/ WorkerEnds(o)

(* conduit-cc.service stops with all its processes: the API, its launchers. *)
EndService ==
  /\ launcher' = [o \in Operations |-> IF Alive(o) THEN "killed" ELSE launcher[o]]
  /\ client' = [o \in Operations |->
                  IF client[o] \in {"waiting", "gave_up"} THEN "lost"
                                                          ELSE client[o]]

LaunchersLock == {"launcher"} \X Operations

-----------------------------------------------------------------------------
(* The worker of an update *)

Rejects(o) ==
  /\ worker[o] = "validating"
  /\ Publish(o, "over")
  /\ WorkerGoes(o, "finishing")
  /\ UNCHANGED <<client, ack, lock, files, mishaps>>

Begins(o) ==
  /\ worker[o] = "validating"
  /\ o \in work
  /\ Publish(o, "in_progress")
  /\ WorkerGoes(o, "running")
  /\ UNCHANGED <<client, ack, lock, files, mishaps>>

(* update.sh stops the service. *)
UpdateStopsService(o) ==
  /\ worker[o] = "running"
  /\ EndService
  /\ lock' = lock \ LaunchersLock
  /\ UNCHANGED <<worker, ack, files, published, mishaps>>

(* update.sh is over, whatever it came to, or could not be started. *)
Concludes(o) ==
  /\ worker[o] = "running"
  /\ Publish(o, "over")
  /\ WorkerGoes(o, "finishing")
  /\ UNCHANGED <<client, ack, lock, files, mishaps>>

UpdateWorkerStep(o) ==
  WorkerFrame(o) \/ Rejects(o) \/ Begins(o) \/ UpdateStopsService(o) \/ Concludes(o)

-----------------------------------------------------------------------------
(* The worker of a restore *)

Parses(o) ==
  /\ worker[o] = "parsing"
  /\ \E next \in {"locking", "declining"} : WorkerGoes(o, next)
  /\ UNCHANGED <<client, ack, lock, files, published, mishaps>>

LocksWorker(o) ==
  /\ worker[o] = "locking"
  /\ lock = {}
  /\ lock' = {<<"worker", o>>}
  /\ WorkerGoes(o, "opening")
  /\ UNCHANGED <<client, ack, files, published, mishaps>>

Opens(o) ==
  /\ worker[o] = "opening"
  /\ \E next \in {"accepting", "declining"} : WorkerGoes(o, next)
  /\ UNCHANGED <<client, ack, lock, files, published, mishaps>>

(* _worker_ack blocks while no launcher holds the other end of the FIFO, and *)
(* fails when the FIFO is gone, and with it whom to answer.                 *)
Accepts(o) ==
  /\ worker[o] = "accepting"
  /\ o \in work => Listens(o)
  /\ ack' = [ack EXCEPT ![o] = IF o \in work THEN "accepted" ELSE @]
  /\ WorkerGoes(o, IF o \in work THEN "announcing" ELSE "abandoning")
  /\ IF o \in work THEN UNCHANGED lock ELSE Release("worker", o)
  /\ UNCHANGED <<client, files, published, mishaps>>

Declines(o) ==
  /\ worker[o] = "declining"
  /\ o \in work => Listens(o)
  /\ ack' = [ack EXCEPT ![o] = IF o \in work THEN "error" ELSE @]
  /\ WorkerGoes(o, "abandoning")
  /\ Release("worker", o)
  /\ UNCHANGED <<client, files, published, mishaps>>

Announces(o) ==
  /\ worker[o] = "announcing"
  /\ Publish(o, "in_progress")
  /\ WorkerGoes(o, "grace")
  /\ UNCHANGED <<client, ack, lock, files, mishaps>>

(* A launcher's stop takes less than the worker's grace. *)
RestoreStopsService(o) ==
  /\ worker[o] = "grace"
  /\ launcher[o] # "stopping"
  /\ EndService
  /\ worker' = [worker EXCEPT ![o] = "changing"]
  /\ lock' = lock \ LaunchersLock
  /\ UNCHANGED <<ack, files, published, mishaps>>

(* Restored, rolled back, or neither: every path produces an outcome.       *)
Finishes(o) ==
  /\ worker[o] = "changing"
  /\ Publish(o, "over")
  /\ WorkerGoes(o, "finishing")
  /\ Release("worker", o)
  /\ UNCHANGED <<client, ack, files, mishaps>>

(* The document cannot be written, before the change or after it: the       *)
(* worker gives up its lock to say so in the FIFO, in which it may have     *)
(* answered already.                                                        *)
PublicationFails(o) ==
  /\ worker[o] \in {"announcing", "changing"}
  /\ WorkerGoes(o, "complaining")
  /\ Release("worker", o)
  /\ UNCHANGED <<client, ack, files, published, mishaps>>

(* It blocks as every answer does; the launcher reads the first one only.   *)
Complains(o) ==
  /\ worker[o] = "complaining"
  /\ o \in work => Listens(o)
  /\ WorkerGoes(o, "quitting")
  /\ UNCHANGED <<client, ack, lock, files, published, mishaps>>

RestoreWorkerStep(o) ==
  \/ WorkerFrame(o) \/ Parses(o) \/ LocksWorker(o) \/ Opens(o) \/ Accepts(o)
  \/ Declines(o) \/ Announces(o) \/ RestoreStopsService(o)
  \/ Finishes(o) \/ PublicationFails(o) \/ Complains(o)

-----------------------------------------------------------------------------
(* Faults *)

ServiceStops ==
  /\ faults < MaxFaults
  /\ faults' = faults + 1
  /\ EndService
  /\ lock' = lock \ LaunchersLock
  /\ UNCHANGED <<worker, ack, files, published, blind>>

(* No process is left; records, trees and documents are on the disk.        *)
PowerLoss ==
  /\ faults < MaxFaults
  /\ faults' = faults + 1
  /\ EndService
  /\ worker' = [o \in Operations |-> IF InFlight(o) THEN "cut" ELSE worker[o]]
  /\ lock' = {}
  /\ UNCHANGED <<ack, files, published, blind>>

(* A worker ends without a word and without its cleanup: it cannot load the *)
(* library of the attempts, cannot read the installed version, cannot write *)
(* the document of an update, or is killed.                                 *)
WorkerDies(o) ==
  /\ faults < MaxFaults
  /\ faults' = faults + 1
  /\ Active(o)
  /\ WorkerGoes(o, "silent")
  /\ Release("worker", o)
  /\ UNCHANGED <<client, ack, files, published, blind>>

(* systemctl cannot be run, or answers nothing: the launcher goes on as if  *)
(* it had seen no unit, or had stopped what there was.                      *)
Blinded ==
  /\ faults < MaxFaults
  /\ faults' = faults + 1
  /\ blind' = TRUE

FindsNothing(o) ==
  /\ Blinded
  /\ launcher[o] = "checking"
  /\ UnitBusy
  /\ LauncherGoes(o, "sweeping")
  /\ UNCHANGED <<client, ack, lock, files, published>>

SettlesUnseen(o) ==
  /\ Blinded
  /\ launcher[o] = "settling"
  /\ \E a \in Restores : Active(a)
  /\ LauncherGoes(o, "cleaning")
  /\ UNCHANGED <<client, ack, lock, files, published>>

StopsNothing(o) ==
  /\ Blinded
  /\ launcher[o] = "stopping"
  /\ \E a \in Restores : InFlight(a)
  /\ LauncherGoes(o, "settling")
  /\ Release("launcher", o)
  /\ UNCHANGED <<client, ack, files, published>>

BlindStep(o) == FindsNothing(o) \/ SettlesUnseen(o) \/ StopsNothing(o)

-----------------------------------------------------------------------------

LauncherStep(o) ==
  \/ LauncherStart(o)
  \/ o \in Updates /\ UpdateLauncherStep(o)
  \/ o \in Restores /\ RestoreLauncherStep(o)

WorkerStep(o) ==
  \/ o \in Updates /\ UpdateWorkerStep(o)
  \/ o \in Restores /\ RestoreWorkerStep(o)

Next ==
  \/ \E o \in Operations : Request(o) \/ ClientStep(o) \/ LauncherStep(o) \/ WorkerStep(o)
  \/ \E o \in Operations : WorkerDies(o) \/ BlindStep(o)
  \/ ServiceStops \/ PowerLoss

Spec == Init /\ [][Next]_vars

(* Every process is scheduled; requests, deadlines of the API and faults    *)
(* need never come.                                                         *)
LiveSpec ==
  /\ Spec
  /\ \A o \in Operations : WF_vars(LauncherStep(o)) /\ WF_vars(WorkerStep(o))

-----------------------------------------------------------------------------

ClientStates == {"none", "waiting", "gave_up", "accepted", "refused", "lost"}
LauncherStates ==
  {"none", "locking", "checking", "sweeping", "recording", "making", "ingesting",
   "acking", "launching", "querying", "reporting", "cleaning", "waiting",
   "connecting", "handing", "listening", "stopping", "settling", "gone", "unsure",
   "killed"}
WorkerStates ==
  Inert \cup {"queued", "starting", "validating", "running", "reading", "parsing",
              "locking", "opening", "accepting", "declining", "announcing", "grace",
              "changing", "complaining"} \cup Ending

(* The type of every variable: one holder of the lock at the most.          *)
LifecycleTypeOK ==
  /\ client \in [Operations -> ClientStates]
  /\ launcher \in [Operations -> LauncherStates]
  /\ worker \in [Operations -> WorkerStates]
  /\ ack \in [Restores -> {"none", "accepted", "error"}]
  /\ lock \subseteq {"launcher", "worker"} \X Operations
  /\ Cardinality(lock) <= 1
  /\ record \subseteq Operations /\ work \subseteq Operations
  /\ status \in [{"update", "restore"} ->
                  [state: {"idle", "in_progress", "over"}, op: SUBSET Operations]]
  /\ reported \subseteq Operations
  /\ faults \in 0..MaxFaults /\ blind \in BOOLEAN

Changing(o) == worker[o] \in {"running", "changing"}

(* No two operations change the host at once.  An update's worker holds no  *)
(* lock, and a restore's takes it after its launcher gave it up: the look   *)
(* at the units and the order of locking and launching keep them apart, as  *)
(* long as systemctl answers: the launchers take no answer for "no unit".   *)
NoOverlap == ~blind => \A a, b \in Operations : Changing(a) /\ Changing(b) => a = b

(* However an attempt is interrupted, by the death of any process or of all *)
(* of them, its tree has a record: a later sweep can remove it.             *)
WorkIsRecorded == work \subseteq record

(* Nobody removes the tree or the record of an attempt whose worker is at   *)
(* work on it: sweeps, failed launches and deadlines keep clear of it.      *)
WorkerKeepsTree ==
  \A o \in Operations :
    worker[o] \notin Inert \cup {"queued", "starting"} \cup Ending =>
      o \in record \cap work

(* A tree is never without the record by which it can be removed, and there *)
(* as long as its worker needs it, if systemctl answered whoever asked.     *)
TreesAreKept == WorkIsRecorded /\ (~blind => WorkerKeepsTree)

(* A restore's worker ended without a word: its launcher waits all the same *)
(* for its answer, without the lock, and stops the unit at its deadline,    *)
(* whichever restore it works for by then.                                  *)
Died == \E a \in Restores : worker[a] = "silent"

(* Who was told "accepted" gets an outcome, though the launcher of an       *)
(* update says so before it launches anything.  The exceptions: power was   *)
(* lost; the worker ended without a word, or could not write its document,  *)
(* or was stopped in the place of one that ended so; the launcher was       *)
(* killed before it saw its unit, or left without seeing it: its launch     *)
(* failed and it could not tell whether there was a unit, or could not      *)
(* report the failure, or it took the other unit for its own.               *)
AcceptedIsCarriedOut ==
  \A o \in Operations :
    client[o] = "accepted" /\ ~Alive(o) /\ ~InFlight(o) =>
      \/ o \in reported
      \/ worker[o] \in {"cut", "silent", "unpublished"}
      \/ Died /\ worker[o] = "killed"
      \/ /\ launcher[o] \in {"killed", "unsure"}
         /\ worker[o] \in {"none", "unauthorized"}

(* Who was refused by the exit of the launcher finds the host unchanged,    *)
(* then and later: the worker of a restore that timed out is not left to go *)
(* on.  It does not hold of whom the API's own deadline told that the       *)
(* operation could not be started: the launcher may go on all the same.     *)
RefusedChangesNothing ==
  \A o \in Operations :
    client[o] = "refused" => ~Changing(o) /\ (o \in Restores => o \notin reported)

(* A change of the host has an outcome, whatever the client was told:       *)
(* nobody stops a worker that changes the host, and one that ends in its    *)
(* own time, but for one that cannot write it, has published it.            *)
ChangeHasOutcome ==
  /\ \A o \in Operations : worker[o] = "finished" => o \in reported
  /\ \A l, a \in Restores : launcher[l] = "stopping" => ~Changing(a)

(* What a client was told of its request holds, and what nobody was told of *)
(* is in a document, if systemctl answered whoever asked.                   *)
AnswersHold ==
  ~blind => AcceptedIsCarriedOut /\ RefusedChangesNothing /\ ChangeHasOutcome

(* The worker of a restore waits for a launcher that is gone.              *)
Orphaned ==
  \E o \in Restores :
    \/ worker[o] = "reading" /\ launcher[o] # "connecting"
    \/ /\ worker[o] \in {"accepting", "declining", "complaining"}
       /\ o \in work /\ ~Listens(o)

(* The lock and the units become free again, whatever the operations came   *)
(* to, so that the next one is not turned away for ever: unless a restore's *)
(* worker lost its launcher during the handoff, or cannot write its         *)
(* document and waits for a launcher, long gone, to hear of it.             *)
HostBecomesAvailable == []<>((lock = {} /\ ~UnitBusy) \/ Orphaned)
=============================================================================
