-------------------------- MODULE LifecycleProofs --------------------------
(***************************************************************************)
(* What holds of updates and restores whatever requests are made, for any   *)
(* number of them, whenever launchers, workers, the service or the host     *)
(* die, and however late units start.                                       *)
(***************************************************************************)
EXTENDS Lifecycle, FiniteSetTheorems, TLAPS

Types ==
  /\ client \in [Operations -> ClientStates]
  /\ launcher \in [Operations -> LauncherStates]
  /\ worker \in [Operations -> WorkerStates]
  /\ ack \in [Restores -> {"none", "accepted", "error"}]
  /\ lock \subseteq {"launcher", "worker"} \X Operations
  /\ record \subseteq Operations /\ work \subseteq Operations
  /\ status \in [{"update", "restore"} ->
                  [state: {"idle", "in_progress", "over"}, op: SUBSET Operations]]
  /\ reported \subseteq Operations
  /\ faults \in 0..MaxFaults /\ blind \in BOOLEAN

(* What a launcher does before it launches it does alone.                   *)
Alone == {"checking", "sweeping", "recording", "making"}
AloneHasLock == \A o \in Operations : launcher[o] \in Alone => lock = {<<"launcher", o>>}
OneHolder == \A g, h \in lock : g = h

(* Nothing of an operation exists before its launcher starts, and no worker *)
(* before it launches.                                                      *)
NothingBefore ==
  \A o \in Operations :
    /\ client[o] = "none" => launcher[o] = "none"
    /\ launcher[o] \in {"none", "locking"} \cup Alone => worker[o] = "none"

(* Between the record and the tree of an attempt nobody removes the record. *)
RecordFirst ==
  /\ \A o \in Operations : launcher[o] = "making" => o \in record
  /\ WorkIsRecorded

Attempts == Types /\ OneHolder /\ AloneHasLock /\ NothingBefore /\ RecordFirst

USE DEF Attempts, Types, OneHolder, AloneHasLock, Alone, NothingBefore, RecordFirst,
        WorkIsRecorded, LauncherStates, WorkerStates, ClientStates, Inert,
        files, published, mishaps, Operations, Ending, Ended

(* Up to its own attempt, whichever the launcher. *)
LEMMA LauncherStarts ==
  ASSUME NEW o \in Operations, Attempts, LauncherStart(o)
  PROVE  Attempts'
<1>1. CASE TakesLock(o)
  <2>1. \A a \in Operations : launcher[a] \notin Alone
    BY <1>1 DEF TakesLock
  <2>2. AloneHasLock' /\ OneHolder'
    BY <1>1, <2>1 DEF TakesLock, LauncherGoes
  <2>3. Types' /\ NothingBefore' /\ RecordFirst'
    BY <1>1 DEF TakesLock, LauncherGoes
  <2> QED
    BY <2>2, <2>3
<1>2. CASE FindsLocked(o)
  BY <1>2 DEF FindsLocked, Leave, LeaveAs, LauncherGoes, Release
<1>3. CASE FindsBusy(o)
  BY <1>3 DEF FindsBusy, Leave, LeaveAs, LauncherGoes, Release
<1>4. CASE FindsIdle(o)
  BY <1>4 DEF FindsIdle, LauncherGoes
<1>5. CASE Sweeps(o)
  <2>1. \A a \in Operations : launcher[a] # "making"
    <3> SUFFICES ASSUME NEW a \in Operations, launcher[a] = "making" PROVE FALSE
      OBVIOUS
    <3>1. lock = {<<"launcher", a>>} /\ lock = {<<"launcher", o>>}
      BY <1>5 DEF Sweeps
    <3>2. a = o
      BY <3>1
    <3> QED
      BY <1>5, <3>2 DEF Sweeps
  <2>2. Types' /\ WorkIsRecorded'
    BY <1>5 DEF Sweeps, CleanupStep, RemoveTree, RemoveRecord
  <2>3. RecordFirst'
    BY <1>5, <2>1, <2>2 DEF Sweeps
  <2>4. OneHolder' /\ AloneHasLock' /\ NothingBefore'
    BY <1>5 DEF Sweeps
  <2> QED
    BY <2>2, <2>3, <2>4
<1>6. CASE SweepEnds(o)
  BY <1>6 DEF SweepEnds, LauncherGoes
<1>7. CASE SweepFails(o)
  BY <1>7 DEF SweepFails, Leave, LeaveAs, LauncherGoes, Release
<1>8. CASE Records(o)
  BY <1>8 DEF Records, LauncherGoes
<1>9. CASE RecordFails(o)
  BY <1>9 DEF RecordFails, Leave, LeaveAs, LauncherGoes, Release
<1>10. CASE MakesWork(o)
  BY <1>10 DEF MakesWork, LauncherGoes
<1>11. CASE MakeFails(o)
  BY <1>11 DEF MakeFails, LauncherGoes, Leave, LeaveAs, Release
<1>12. CASE Cleans(o)
  BY <1>12 DEF Cleans, CleanupStep, RemoveTree, RemoveRecord
<1>13. CASE CleanEnds(o)
  BY <1>13 DEF CleanEnds, Leave, LeaveAs, LauncherGoes, Release
<1> QED
  BY <1>1, <1>2, <1>3, <1>4, <1>5, <1>6, <1>7, <1>8, <1>9, <1>10, <1>11, <1>12, <1>13 DEF LauncherStart

(* What the API does. *)
LEMMA ClientPreserves ==
  ASSUME NEW o \in Operations, Attempts, Request(o) \/ ClientStep(o)
  PROVE  Attempts'
<1>1. CASE Request(o)
  BY <1>1 DEF Request, LauncherGoes
<1>2. CASE HearsExit(o)
  BY <1>2 DEF HearsExit, ClientGoes, Alive
<1>3. CASE GivesUp(o)
  BY <1>3 DEF GivesUp, ClientGoes
<1> QED
  BY <1>1, <1>2, <1>3 DEF ClientStep

(* The rest of an update's launcher. *)
LEMMA UpdateLauncherPreserves ==
  ASSUME NEW o \in Updates, Attempts, UpdateLauncherStep(o)
  PROVE  Attempts'
<1>1. CASE Ingests(o)
  BY <1>1 DEF Ingests, LauncherGoes, Leave, LeaveAs, Release
<1>2. CASE AcknowledgesUpdate(o)
  BY <1>2 DEF AcknowledgesUpdate, Acknowledge, LauncherGoes, Leave, LeaveAs, Release
<1>3. CASE PipeBreaks(o, "gone")
  BY <1>3 DEF PipeBreaks, LauncherGoes, Leave, LeaveAs, Release
<1>4. CASE LaunchesUpdate(o)
  BY <1>4 DEF LaunchesUpdate, Registers, KindOf, InFlight
<1>5. CASE LaunchFails(o)
  BY <1>5 DEF LaunchFails, Release, Registers, KindOf, InFlight
<1>6. CASE Queries(o)
  BY <1>6 DEF Queries, LauncherGoes, LeaveAs, Release, InFlight
<1>7. CASE ReportsFailure(o)
  BY <1>7 DEF ReportsFailure, LauncherGoes, Publish, KindOf
<1>8. CASE SeesUnit(o)
  BY <1>8 DEF SeesUnit, LeaveUnit, LeaveAs, LauncherGoes, Release
<1>9. CASE WaitExpires(o)
  BY <1>9 DEF WaitExpires, LeaveUnit, LeaveAs, LauncherGoes, Release
<1>10. CASE ReportFails(o)
  BY <1>10 DEF ReportFails, LeaveAs, LauncherGoes, Release
<1> QED
  BY <1>1, <1>2, <1>3, <1>4, <1>5, <1>6, <1>7, <1>8, <1>9, <1>10 DEF UpdateLauncherStep

(* The rest of a restore's launcher. *)
LEMMA RestoreLauncherPreserves ==
  ASSUME NEW o \in Restores, Attempts, RestoreLauncherStep(o)
  PROVE  Attempts'
<1>1. CASE LaunchesRestore(o)
  BY <1>1 DEF LaunchesRestore, Registers, KindOf, InFlight
<1>2. CASE LaunchFails(o)
  BY <1>2 DEF LaunchFails, Release, Registers, KindOf, InFlight
<1>3. CASE HandsOver(o)
  BY <1>3 DEF HandsOver
<1>4. CASE ReleasesLock(o)
  BY <1>4 DEF ReleasesLock, LauncherGoes, Release
<1>5. CASE ReadsAnswer(o)
  BY <1>5 DEF ReadsAnswer, LauncherGoes
<1>6. CASE DeadlinePasses(o)
  BY <1>6 DEF DeadlinePasses, LauncherGoes, InFlight
<1>7. CASE StopsUnit(o)
  BY <1>7 DEF StopsUnit, InFlight
<1>8. CASE AnswersRestore(o)
  BY <1>8 DEF AnswersRestore, Acknowledge, LauncherGoes, Leave, LeaveAs, Release
<1>9. CASE PipeBreaks(o, "settling")
  BY <1>9 DEF PipeBreaks, LauncherGoes, Leave, LeaveAs, Release
<1>10. CASE Settles(o)
  BY <1>10 DEF Settles, LauncherGoes, Leave, LeaveAs, Release
<1> QED
  BY <1>1, <1>2, <1>3, <1>4, <1>5, <1>6, <1>7, <1>8, <1>9, <1>10 DEF RestoreLauncherStep

(* The worker of an update. *)
LEMMA UpdateWorkerPreserves ==
  ASSUME NEW o \in Updates, Attempts, UpdateWorkerStep(o)
  PROVE  Attempts'
<1>1. CASE UnitStarts(o)
  BY <1>1 DEF UnitStarts, WorkerGoes
<1>2. CASE FindsRecord(o)
  BY <1>2 DEF FindsRecord, WorkerGoes
<1>3. CASE WorkerCleans(o)
  BY <1>3 DEF WorkerCleans, CleanupStep, RemoveTree, RemoveRecord
<1>4. CASE WorkerEnds(o)
  BY <1>4 DEF WorkerEnds, WorkerGoes
<1>5. CASE Rejects(o)
  BY <1>5 DEF Rejects, WorkerGoes, Publish, KindOf
<1>6. CASE Begins(o)
  BY <1>6 DEF Begins, WorkerGoes, Publish, KindOf
<1>7. CASE UpdateStopsService(o)
  BY <1>7 DEF UpdateStopsService, EndService, Alive, LaunchersLock
<1>8. CASE Concludes(o)
  BY <1>8 DEF Concludes, WorkerGoes, Publish, KindOf
<1> QED
  BY <1>1, <1>2, <1>3, <1>4, <1>5, <1>6, <1>7, <1>8 DEF UpdateWorkerStep, WorkerFrame

(* The worker of a restore. *)
LEMMA RestoreWorkerPreserves ==
  ASSUME NEW o \in Restores, Attempts, RestoreWorkerStep(o)
  PROVE  Attempts'
<1>1. CASE UnitStarts(o)
  BY <1>1 DEF UnitStarts, WorkerGoes
<1>2. CASE FindsRecord(o)
  BY <1>2 DEF FindsRecord, WorkerGoes
<1>3. CASE WorkerCleans(o)
  BY <1>3 DEF WorkerCleans, CleanupStep, RemoveTree, RemoveRecord
<1>4. CASE WorkerEnds(o)
  BY <1>4 DEF WorkerEnds, WorkerGoes
<1>5. CASE Parses(o)
  BY <1>5 DEF Parses, WorkerGoes
<1>6. CASE LocksWorker(o)
  <2>1. \A a \in Operations : launcher[a] \notin Alone
    BY <1>6 DEF LocksWorker
  <2>2. AloneHasLock' /\ OneHolder'
    BY <1>6, <2>1 DEF LocksWorker, WorkerGoes
  <2>3. Types' /\ NothingBefore' /\ RecordFirst'
    BY <1>6 DEF LocksWorker, WorkerGoes
  <2> QED
    BY <2>2, <2>3
<1>7. CASE Opens(o)
  BY <1>7 DEF Opens, WorkerGoes
<1>8. CASE Accepts(o)
  BY <1>8 DEF Accepts, WorkerGoes, Release
<1>9. CASE Declines(o)
  BY <1>9 DEF Declines, WorkerGoes, Release
<1>10. CASE Announces(o)
  BY <1>10 DEF Announces, WorkerGoes, Publish, KindOf
<1>11. CASE RestoreStopsService(o)
  BY <1>11 DEF RestoreStopsService, EndService, Alive, LaunchersLock
<1>12. CASE Finishes(o)
  BY <1>12 DEF Finishes, WorkerGoes, Release, Publish, KindOf
<1>13. CASE PublicationFails(o)
  BY <1>13 DEF PublicationFails, WorkerGoes, Release
<1>14. CASE Complains(o)
  BY <1>14 DEF Complains, WorkerGoes
<1> QED
  BY <1>1, <1>2, <1>3, <1>4, <1>5, <1>6, <1>7, <1>8, <1>9, <1>10, <1>11, <1>12, <1>13, <1>14
  DEF RestoreWorkerStep, WorkerFrame

(* Processes die; locks go, files stay. *)
LEMMA FaultsPreserve ==
  ASSUME Attempts, ServiceStops \/ PowerLoss
  PROVE  Attempts'
<1>1. CASE ServiceStops
  BY <1>1, MaxFaultsNat DEF ServiceStops, EndService, LaunchersLock, Alive
<1>2. CASE PowerLoss
  BY <1>2, MaxFaultsNat DEF PowerLoss, EndService, InFlight, Alive
<1> QED
  BY <1>1, <1>2

(* A worker dies; its lock goes, its attempt stays.                        *)
LEMMA DeathsPreserve ==
  ASSUME NEW o \in Operations, Attempts, WorkerDies(o)
  PROVE  Attempts'
  BY MaxFaultsNat DEF WorkerDies, WorkerGoes, Release, Active, InFlight

(* A launcher that systemctl fails goes on, or leaves.                      *)
LEMMA BlindPreserves ==
  ASSUME NEW o \in Operations, Attempts, BlindStep(o)
  PROVE  Attempts'
<1>1. CASE FindsNothing(o)
  BY <1>1, MaxFaultsNat DEF FindsNothing, Blinded, LauncherGoes
<1>2. CASE SettlesUnseen(o)
  BY <1>2, MaxFaultsNat DEF SettlesUnseen, Blinded, LauncherGoes
<1>3. CASE StopsNothing(o)
  BY <1>3, MaxFaultsNat DEF StopsNothing, Blinded, LauncherGoes, Release
<1> QED
  BY <1>1, <1>2, <1>3 DEF BlindStep


(* Nothing is there at first. *)
LEMMA AttemptsInitially == Init => Attempts
<1> SUFFICES ASSUME Init PROVE Attempts
  OBVIOUS
<1>1. blind \in BOOLEAN
  BY DEF Init
<1>2. Types
  BY <1>1, MaxFaultsNat DEF Init
<1>3. OneHolder /\ AloneHasLock /\ NothingBefore /\ RecordFirst
  BY DEF Init
<1> QED
  BY <1>2, <1>3

(* The invariant is inductive. *)
LEMMA AttemptsPreserved == Attempts /\ [Next]_vars => Attempts'
<1> SUFFICES ASSUME Attempts, [Next]_vars PROVE Attempts'
  OBVIOUS
<1>1. CASE UNCHANGED vars
  BY <1>1 DEF vars
<1>2. ASSUME NEW o \in Operations, Request(o) \/ ClientStep(o) PROVE Attempts'
  BY <1>2, ClientPreserves
<1>3. ASSUME NEW o \in Operations, LauncherStep(o) PROVE Attempts'
  BY <1>3, LauncherStarts, UpdateLauncherPreserves, RestoreLauncherPreserves
  DEF LauncherStep
<1>4. ASSUME NEW o \in Operations, WorkerStep(o) PROVE Attempts'
  BY <1>4, UpdateWorkerPreserves, RestoreWorkerPreserves DEF WorkerStep
<1>5. CASE ServiceStops \/ PowerLoss
  BY <1>5, FaultsPreserve
<1>6. ASSUME NEW o \in Operations, WorkerDies(o) PROVE Attempts'
  BY <1>6, DeathsPreserve
<1>7. ASSUME NEW o \in Operations, BlindStep(o) PROVE Attempts'
  BY <1>7, BlindPreserves
<1> QED
  BY <1>1, <1>2, <1>3, <1>4, <1>5, <1>6, <1>7 DEF Next

(* No step takes back that systemctl failed a launcher.                     *)
LEMMA BlindForGood == Attempts /\ blind /\ [Next]_vars => blind'
<1> SUFFICES ASSUME blind, [Next]_vars PROVE blind'
  OBVIOUS
<1>1. CASE UNCHANGED vars
  BY <1>1 DEF vars
<1>2. ASSUME NEW o \in Operations, Request(o) \/ ClientStep(o) PROVE blind'
  BY <1>2 DEF Request, ClientStep, HearsExit, GivesUp, ClientGoes
<1>3. ASSUME NEW o \in Operations, LauncherStep(o) PROVE blind'
  <2>1. CASE LauncherStart(o)
    BY <2>1 DEF LauncherStart, TakesLock, FindsLocked, FindsBusy, FindsIdle, Sweeps, SweepEnds,
                SweepFails, Records, RecordFails, MakesWork, MakeFails, Cleans, CleanEnds
  <2>2. CASE UpdateLauncherStep(o)
    BY <2>2 DEF UpdateLauncherStep, Ingests, AcknowledgesUpdate, Acknowledge, PipeBreaks,
                LaunchesUpdate, LaunchFails, Queries, ReportsFailure, ReportFails, SeesUnit,
                WaitExpires
  <2>3. CASE RestoreLauncherStep(o)
    BY <2>3 DEF RestoreLauncherStep, LaunchesRestore, LaunchFails, HandsOver, ReleasesLock,
                ReadsAnswer, DeadlinePasses, StopsUnit, AnswersRestore, Acknowledge, PipeBreaks,
                Settles
  <2> QED
    BY <1>3, <2>1, <2>2, <2>3 DEF LauncherStep
<1>4. ASSUME NEW o \in Operations, WorkerStep(o) PROVE blind'
  <2>1. CASE WorkerFrame(o)
    BY <2>1 DEF WorkerFrame, UnitStarts, FindsRecord, WorkerCleans, WorkerEnds
  <2>2. CASE UpdateWorkerStep(o)
    BY <2>1, <2>2 DEF UpdateWorkerStep, Rejects, Begins, UpdateStopsService, Concludes
  <2>3. CASE RestoreWorkerStep(o)
    BY <2>1, <2>3 DEF RestoreWorkerStep, Parses, LocksWorker, Opens, Accepts, Declines, Announces,
                      RestoreStopsService, Finishes, PublicationFails, Complains
  <2> QED
    BY <1>4, <2>2, <2>3 DEF WorkerStep
<1>5. CASE ServiceStops \/ PowerLoss
  BY <1>5 DEF ServiceStops, PowerLoss
<1>6. ASSUME NEW o \in Operations, WorkerDies(o) PROVE blind'
  BY <1>6 DEF WorkerDies
<1>7. ASSUME NEW o \in Operations, BlindStep(o) PROVE blind'
  BY <1>7 DEF BlindStep, FindsNothing, SettlesUnseen, StopsNothing, Blinded
<1> QED
  BY <1>1, <1>2, <1>3, <1>4, <1>5, <1>6, <1>7 DEF Next

(* The invariant holds, Late or not. *)
THEOREM AttemptsAlways == Spec => []Attempts
  BY AttemptsInitially, AttemptsPreserved, PTL DEF Spec

(* Every variable keeps its type, and the lock has one holder at the most.  *)
THEOREM LifecycleTypes == Spec => []LifecycleTypeOK
<1>1. Attempts => LifecycleTypeOK
  <2> SUFFICES ASSUME Attempts PROVE Cardinality(lock) <= 1
    BY DEF LifecycleTypeOK
  <2>1. CASE lock = {}
    BY <2>1, FS_EmptySet
  <2>2. CASE lock # {}
    <3> PICK h \in lock : lock = {h}
      BY <2>2
    <3>1. Cardinality({h}) = 1
      BY FS_Singleton
    <3> QED
      BY <3>1
  <2> QED
    BY <2>1, <2>2
<1> QED
  BY <1>1, AttemptsAlways, PTL

(* Whenever processes die, every tree of an attempt has a record: nothing   *)
(* is left that a later sweep does not know of.                             *)
THEOREM EveryTreeIsRecorded == Spec => []WorkIsRecorded
<1>1. Attempts => WorkIsRecorded
  OBVIOUS
<1> QED
  BY <1>1, AttemptsAlways, PTL

-----------------------------------------------------------------------------
(* No two operations change the host at once, if units are not Late.        *)

UpdateHolding == Alone \cup {"ingesting", "acking", "launching", "querying",
                             "reporting", "cleaning", "waiting"}
RestoreHolding == Alone \cup {"launching", "connecting", "handing"}
Handed == {"parsing", "locking", "opening", "accepting", "declining",
           "announcing", "grace", "changing"}

HoldersHaveLock ==
  /\ \A u \in Updates : launcher[u] \in UpdateHolding => lock = {<<"launcher", u>>}
  /\ \A r \in Restores : launcher[r] \in RestoreHolding => lock = {<<"launcher", r>>}

(* The fixed name of the unit. *)
OneUnit ==
  \A a, b \in Operations : KindOf(a) = KindOf(b) /\ InFlight(a) /\ InFlight(b) => a = b

(* A restore that has swept, until its worker is over, is alone: the update *)
(* that still could start is not authorized, and none is being started.     *)
SweptUpdates ==
  \A r \in Restores, u \in Updates :
    \/ launcher[r] \in {"recording", "making", "launching", "connecting", "handing"}
    \/ worker[r] \in Handed
    => /\ worker[u] \notin {"validating", "running"}
       /\ worker[u] \in {"queued", "starting"} => u \notin record
IdleUpdates ==
  \A r \in Restores, u \in Updates :
    launcher[r] = "sweeping" => worker[u] \in Inert \cup {"queued"}
NoLaunch ==
  \A r \in Restores, u \in Updates :
    worker[r] \in Handed => launcher[u] \notin UpdateHolding \ {"checking"}

KindsOfWork ==
  /\ \A u \in Updates : worker[u] \notin Handed
  /\ \A r \in Restores : worker[r] \notin {"validating", "running"}

Separate ==
  /\ KindsOfWork /\ HoldersHaveLock /\ OneUnit
  /\ SweptUpdates /\ IdleUpdates /\ NoLaunch

USE DEF Separate, KindsOfWork, HoldersHaveLock, OneUnit, SweptUpdates, IdleUpdates, NoLaunch,
        UpdateHolding, RestoreHolding, Handed, InFlight, KindOf

(* Whoever looks at the units while a restore is handed over finds it busy. *)
LEMMA LauncherStartSeparates ==
  ASSUME NEW o \in Operations, Attempts, Separate, ~Late, LauncherStart(o)
  PROVE  Separate'
<1> USE KindsDisjoint
<1>1. CASE TakesLock(o)
  <2>1. /\ \A u \in Updates : launcher[u] \notin UpdateHolding
        /\ \A r \in Restores : launcher[r] \notin RestoreHolding
    <3>1. lock = {} /\ HoldersHaveLock
      BY <1>1 DEF TakesLock
    <3> HIDE DEF Attempts, Separate, UpdateHolding, RestoreHolding
    <3> QED BY <3>1
  <2>2. KindsOfWork'
    BY <1>1 DEF TakesLock, LauncherGoes
  <2>4. HoldersHaveLock'
    BY <1>1, <2>1 DEF TakesLock, LauncherGoes
  <2>3. OneUnit' /\ SweptUpdates' /\ IdleUpdates' /\ NoLaunch'
    BY <1>1, <2>1 DEF TakesLock, LauncherGoes
  <2> QED
    BY <2>2, <2>3, <2>4
<1>2. CASE FindsLocked(o)
  BY <1>2 DEF FindsLocked, Leave, LeaveAs, LauncherGoes, Release
<1>3. CASE FindsBusy(o)
  BY <1>3 DEF FindsBusy, Leave, LeaveAs, LauncherGoes, Release, UnitBusy, Active
<1>4. CASE FindsIdle(o)
  BY <1>4 DEF FindsIdle, LauncherGoes, UnitBusy, Active
<1>5. CASE Sweeps(o)
  BY <1>5 DEF Sweeps, CleanupStep, RemoveTree, RemoveRecord
<1>6. CASE SweepEnds(o)
  BY <1>6 DEF SweepEnds, LauncherGoes
<1>7. CASE SweepFails(o)
  BY <1>7 DEF SweepFails, Leave, LeaveAs, LauncherGoes, Release
<1>8. CASE Records(o)
  BY <1>8 DEF Records, LauncherGoes
<1>9. CASE RecordFails(o)
  BY <1>9 DEF RecordFails, Leave, LeaveAs, LauncherGoes, Release
<1>10. CASE MakesWork(o)
  BY <1>10 DEF MakesWork, LauncherGoes
<1>11. CASE MakeFails(o)
  BY <1>11 DEF MakeFails, LauncherGoes, Leave, LeaveAs, Release
<1>12. CASE Cleans(o)
  BY <1>12 DEF Cleans, CleanupStep, RemoveTree, RemoveRecord
<1>13. CASE CleanEnds(o)
  BY <1>13 DEF CleanEnds, Leave, LeaveAs, LauncherGoes, Release
<1> QED
  BY <1>1, <1>2, <1>3, <1>4, <1>5, <1>6, <1>7, <1>8, <1>9, <1>10, <1>11, <1>12, <1>13 DEF LauncherStart

(* The API starts launchers and nothing else. *)
LEMMA ClientSeparates ==
  ASSUME NEW o \in Operations, Attempts, Separate, ~Late, Request(o) \/ ClientStep(o)
  PROVE  Separate'
<1> USE KindsDisjoint
<1>1. CASE Request(o)
  BY <1>1 DEF Request, LauncherGoes
<1>2. CASE HearsExit(o)
  BY <1>2 DEF HearsExit, ClientGoes, Alive
<1>3. CASE GivesUp(o)
  BY <1>3 DEF GivesUp, ClientGoes
<1> QED
  BY <1>1, <1>2, <1>3 DEF ClientStep

(* An update is launched under the lock, so no restore is being handed over. *)
LEMMA UpdateLauncherSeparates ==
  ASSUME NEW o \in Updates, Attempts, Separate, ~Late, UpdateLauncherStep(o)
  PROVE  Separate'
<1> USE KindsDisjoint
<1>1. CASE Ingests(o)
  BY <1>1 DEF Ingests, LauncherGoes, Leave, LeaveAs, Release
<1>2. CASE AcknowledgesUpdate(o)
  BY <1>2 DEF AcknowledgesUpdate, Acknowledge, LauncherGoes, Leave, LeaveAs, Release
<1>3. CASE PipeBreaks(o, "gone")
  BY <1>3 DEF PipeBreaks, LauncherGoes, Leave, LeaveAs, Release
<1>4. CASE LaunchesUpdate(o)
  <2>1. \A r \in Restores : launcher[r] \notin RestoreHolding
    <3> SUFFICES ASSUME NEW r \in Restores, launcher[r] \in RestoreHolding PROVE FALSE
      OBVIOUS
    <3>1. lock = {<<"launcher", r>>} /\ lock = {<<"launcher", o>>}
      BY <1>4 DEF LaunchesUpdate
    <3>2. r = o
      BY <3>1
    <3> QED
      BY <3>2
  <2>2. \A r \in Restores : worker[r] \notin Handed
    BY <1>4 DEF LaunchesUpdate
  <2>3. KindsOfWork' /\ HoldersHaveLock'
    BY <1>4, <2>1 DEF LaunchesUpdate, Registers
  <2>4. OneUnit'
    BY <1>4 DEF LaunchesUpdate, Registers
  <2>5. SweptUpdates' /\ IdleUpdates'
    BY <1>4, <2>1, <2>2 DEF LaunchesUpdate, Registers
  <2>6. NoLaunch'
    BY <1>4, <2>2 DEF LaunchesUpdate, Registers
  <2> QED
    BY <2>3, <2>4, <2>5, <2>6
<1>5. CASE LaunchFails(o)
  <2>1. \A r \in Restores : launcher[r] \notin RestoreHolding
    <3> SUFFICES ASSUME NEW r \in Restores, launcher[r] \in RestoreHolding PROVE FALSE
      OBVIOUS
    <3>1. lock = {<<"launcher", r>>} /\ lock = {<<"launcher", o>>}
      BY <1>5 DEF LaunchFails
    <3>2. r = o
      BY <3>1
    <3> QED
      BY <3>2
  <2>2. \A r \in Restores : worker[r] \notin Handed
    BY <1>5 DEF LaunchFails
  <2>3. KindsOfWork' /\ HoldersHaveLock'
    BY <1>5, <2>1 DEF LaunchFails, Registers, Release
  <2>4. OneUnit'
    BY <1>5 DEF LaunchFails, Registers, Release
  <2>5. SweptUpdates' /\ IdleUpdates'
    BY <1>5, <2>1, <2>2 DEF LaunchFails, Registers, Release
  <2>6. NoLaunch'
    BY <1>5, <2>2 DEF LaunchFails, Registers, Release
  <2> QED
    BY <2>3, <2>4, <2>5, <2>6
<1>6. CASE Queries(o)
  BY <1>6 DEF Queries, LauncherGoes, LeaveAs, Release, Active
<1>7. CASE ReportsFailure(o)
  BY <1>7 DEF ReportsFailure, LauncherGoes, Publish
<1>8. CASE SeesUnit(o)
  BY <1>8 DEF SeesUnit, LeaveUnit, LeaveAs, LauncherGoes, Release, UnitBusy, Active
<1>9. CASE WaitExpires(o)
  BY <1>9 DEF WaitExpires, LeaveUnit, LeaveAs, LauncherGoes, Release
<1>10. CASE ReportFails(o)
  BY <1>10 DEF ReportFails, LeaveAs, LauncherGoes, Release
<1> QED
  BY <1>1, <1>2, <1>3, <1>4, <1>5, <1>6, <1>7, <1>8, <1>9, <1>10 DEF UpdateLauncherStep

(* A restore is handed over under the lock, after its sweep. *)
LEMMA RestoreLauncherSeparates ==
  ASSUME NEW o \in Restores, Attempts, Separate, ~Late, RestoreLauncherStep(o)
  PROVE  Separate'
<1> USE KindsDisjoint
<1>1. CASE LaunchesRestore(o)
  BY <1>1 DEF LaunchesRestore, Registers
<1>2. CASE LaunchFails(o)
  BY <1>2 DEF LaunchFails, Release, Registers
<1>3. CASE HandsOver(o)
  <2>1. \A u \in Updates : launcher[u] \notin UpdateHolding
    <3> SUFFICES ASSUME NEW u \in Updates, launcher[u] \in UpdateHolding PROVE FALSE
      OBVIOUS
    <3>1. lock = {<<"launcher", u>>} /\ lock = {<<"launcher", o>>}
      BY <1>3 DEF HandsOver
    <3>2. u = o
      BY <3>1
    <3> QED
      BY <3>2
  <2>2. KindsOfWork' /\ HoldersHaveLock' /\ NoLaunch'
    BY <1>3, <2>1 DEF HandsOver
  <2>3. OneUnit'
    BY <1>3 DEF HandsOver
  <2>4. SweptUpdates' /\ IdleUpdates'
    BY <1>3 DEF HandsOver
  <2> QED
    BY <2>2, <2>3, <2>4
<1>4. CASE ReleasesLock(o)
  BY <1>4 DEF ReleasesLock, LauncherGoes, Release
<1>5. CASE ReadsAnswer(o)
  BY <1>5 DEF ReadsAnswer, LauncherGoes
<1>6. CASE DeadlinePasses(o)
  BY <1>6 DEF DeadlinePasses, LauncherGoes
<1>7. CASE StopsUnit(o)
  BY <1>7 DEF StopsUnit
<1>8. CASE AnswersRestore(o)
  BY <1>8 DEF AnswersRestore, Acknowledge, LauncherGoes, Leave, LeaveAs, Release
<1>9. CASE PipeBreaks(o, "settling")
  BY <1>9 DEF PipeBreaks, LauncherGoes, Leave, LeaveAs, Release
<1>10. CASE Settles(o)
  BY <1>10 DEF Settles, LauncherGoes, Leave, LeaveAs, Release, Active
<1> QED
  BY <1>1, <1>2, <1>3, <1>4, <1>5, <1>6, <1>7, <1>8, <1>9, <1>10 DEF RestoreLauncherStep

(* An update that a restore swept is not authorized any more. *)
LEMMA UpdateWorkerSeparates ==
  ASSUME NEW o \in Updates, Attempts, Separate, ~Late, UpdateWorkerStep(o)
  PROVE  Separate'
<1> USE KindsDisjoint
<1>1. CASE UnitStarts(o)
  BY <1>1 DEF UnitStarts, WorkerGoes
<1>2. CASE FindsRecord(o)
  BY <1>2 DEF FindsRecord, WorkerGoes
<1>3. CASE WorkerCleans(o)
  BY <1>3 DEF WorkerCleans, CleanupStep, RemoveTree, RemoveRecord
<1>4. CASE WorkerEnds(o)
  BY <1>4 DEF WorkerEnds, WorkerGoes
<1>5. CASE Rejects(o)
  BY <1>5 DEF Rejects, WorkerGoes, Publish
<1>6. CASE Begins(o)
  BY <1>6 DEF Begins, WorkerGoes, Publish
<1>7. CASE UpdateStopsService(o)
  BY <1>7 DEF UpdateStopsService, EndService, Alive, LaunchersLock
<1>8. CASE Concludes(o)
  BY <1>8 DEF Concludes, WorkerGoes, Publish
<1> QED
  BY <1>1, <1>2, <1>3, <1>4, <1>5, <1>6, <1>7, <1>8 DEF UpdateWorkerStep, WorkerFrame

(* A restore's worker goes on alone. *)
LEMMA RestoreWorkerSeparates ==
  ASSUME NEW o \in Restores, Attempts, Separate, ~Late, RestoreWorkerStep(o)
  PROVE  Separate'
<1> USE KindsDisjoint
<1>1. CASE UnitStarts(o)
  BY <1>1 DEF UnitStarts, WorkerGoes
<1>2. CASE FindsRecord(o)
  BY <1>2 DEF FindsRecord, WorkerGoes
<1>3. CASE WorkerCleans(o)
  BY <1>3 DEF WorkerCleans, CleanupStep, RemoveTree, RemoveRecord
<1>4. CASE WorkerEnds(o)
  BY <1>4 DEF WorkerEnds, WorkerGoes
<1>5. CASE Parses(o)
  BY <1>5 DEF Parses, WorkerGoes
<1>6. CASE LocksWorker(o)
  <2>1. /\ \A u \in Updates : launcher[u] \notin UpdateHolding
        /\ \A r \in Restores : launcher[r] \notin RestoreHolding
    <3>1. lock = {} /\ HoldersHaveLock
      BY <1>6 DEF LocksWorker
    <3> HIDE DEF Attempts, Separate, UpdateHolding, RestoreHolding
    <3> QED BY <3>1
  <2>2. KindsOfWork'
    BY <1>6 DEF LocksWorker, WorkerGoes
  <2>4. HoldersHaveLock'
    BY <1>6, <2>1 DEF LocksWorker, WorkerGoes
  <2>3. OneUnit' /\ SweptUpdates' /\ IdleUpdates' /\ NoLaunch'
    BY <1>6, <2>1 DEF LocksWorker, WorkerGoes
  <2> QED
    BY <2>2, <2>3, <2>4
<1>7. CASE Opens(o)
  BY <1>7 DEF Opens, WorkerGoes
<1>8. CASE Accepts(o)
  BY <1>8 DEF Accepts, WorkerGoes, Release
<1>9. CASE Declines(o)
  BY <1>9 DEF Declines, WorkerGoes, Release
<1>10. CASE Announces(o)
  BY <1>10 DEF Announces, WorkerGoes, Publish
<1>11. CASE RestoreStopsService(o)
  BY <1>11 DEF RestoreStopsService, EndService, Alive, LaunchersLock
<1>12. CASE Finishes(o)
  BY <1>12 DEF Finishes, WorkerGoes, Release, Publish
<1>13. CASE PublicationFails(o)
  BY <1>13 DEF PublicationFails, WorkerGoes, Release
<1>14. CASE Complains(o)
  BY <1>14 DEF Complains, WorkerGoes
<1> QED
  BY <1>1, <1>2, <1>3, <1>4, <1>5, <1>6, <1>7, <1>8, <1>9, <1>10, <1>11, <1>12, <1>13, <1>14
  DEF RestoreWorkerStep, WorkerFrame

(* The dead do not change the host. *)
LEMMA FaultsSeparate ==
  ASSUME Attempts, Separate, ServiceStops \/ PowerLoss
  PROVE  Separate'
<1>1. CASE ServiceStops
  BY <1>1 DEF ServiceStops, EndService, LaunchersLock, Alive
<1>2. CASE PowerLoss
  BY <1>2 DEF PowerLoss, EndService, Alive
<1> QED
  BY <1>1, <1>2

(* Nor does a dead worker.                                                 *)
LEMMA DeathsSeparate ==
  ASSUME NEW o \in Operations, Attempts, Separate, ~Late, WorkerDies(o)
  PROVE  Separate'
  BY KindsDisjoint DEF WorkerDies, WorkerGoes, Release

(* Nothing is there at first. *)
LEMMA SeparateInitially == Init => Separate
  BY DEF Init

(* Separate is inductive relative to Attempts. *)
LEMMA SeparatePreserved ==
  ASSUME ~Late
  PROVE  Attempts /\ Separate /\ [Next]_vars => Separate' \/ blind'
<1> SUFFICES ASSUME Attempts, Separate, [Next]_vars PROVE Separate' \/ blind'
  OBVIOUS
<1>1. CASE UNCHANGED vars
  BY <1>1 DEF vars
<1>2. ASSUME NEW o \in Operations, Request(o) \/ ClientStep(o) PROVE Separate'
  BY <1>2, ClientSeparates
<1>3. ASSUME NEW o \in Operations, LauncherStep(o) PROVE Separate'
  BY <1>3, LauncherStartSeparates, UpdateLauncherSeparates, RestoreLauncherSeparates
  DEF LauncherStep
<1>4. ASSUME NEW o \in Operations, WorkerStep(o) PROVE Separate'
  BY <1>4, UpdateWorkerSeparates, RestoreWorkerSeparates DEF WorkerStep
<1>5. CASE ServiceStops \/ PowerLoss
  BY <1>5, FaultsSeparate
<1>6. ASSUME NEW o \in Operations, WorkerDies(o) PROVE Separate'
  BY <1>6, DeathsSeparate
<1>7. ASSUME NEW o \in Operations, BlindStep(o) PROVE blind'
  BY <1>7 DEF BlindStep, FindsNothing, SettlesUnseen, StopsNothing, Blinded
<1> QED
  BY <1>1, <1>2, <1>3, <1>4, <1>5, <1>6, <1>7 DEF Next

(* However many updates and restores are asked for and whatever dies, no    *)
(* two of them change the host at once, if no unit starts where a           *)
(* launcher's look misses it, and until systemctl fails a launcher that had *)
(* a unit to see or to stop.                                                *)
THEOREM OneChangesTheHost ==
  ASSUME ~Late
  PROVE  Spec => []NoOverlap
<1>1. Separate \/ blind => NoOverlap
  <2> SUFFICES ASSUME Separate, NEW a \in Operations, NEW b \in Operations,
                      Changing(a), Changing(b)
               PROVE  a = b
    BY DEF NoOverlap
  <2>1. InFlight(a) /\ InFlight(b)
    BY DEF Changing
  <2>2. CASE KindOf(a) = KindOf(b)
    BY <2>1, <2>2
  <2>3. CASE KindOf(a) # KindOf(b)
    BY <2>3, KindsDisjoint DEF Changing
  <2> QED
    BY <2>2, <2>3
<1>2. Attempts /\ (Separate \/ blind) /\ [Next]_vars => (Separate \/ blind)'
  BY SeparatePreserved, BlindForGood
<1> QED
  BY <1>1, <1>2, SeparateInitially, AttemptsAlways, PTL DEF Spec

-----------------------------------------------------------------------------
(* What becomes of an update or a restore that was asked for, whatever      *)
(* dies: its tree is there while its worker needs it, and what its client   *)
(* was told holds.  For any number of requests, if no unit starts where a   *)
(* launcher's look misses it.                                               *)

HIDE DEF Separate, KindsOfWork, HoldersHaveLock, OneUnit, SweptUpdates, IdleUpdates, NoLaunch,
         UpdateHolding, RestoreHolding, Handed

(* An operation whose launcher may yet start the unit: an update is         *)
(* acknowledged before, a restore after.                                    *)
ToLaunch(o) ==
  \/ launcher[o] \in {"ingesting", "launching"}
  \/ (o \in Updates /\ launcher[o] = "acking")

(* Whoever removes trees has seen no unit of theirs at work.                *)
SweepsClear == \A a, o \in Operations : launcher[a] = "sweeping" => ~Active(o)
CleansClear == \A o \in Operations : launcher[o] \in {"cleaning", "reporting"} => ~Active(o)
NotYetLaunched == \A o \in Operations : ToLaunch(o) => worker[o] = "none"

Clear == SweepsClear /\ CleansClear /\ NotYetLaunched /\ WorkerKeepsTree

USE DEF Active
USE DEF Clear, SweepsClear, CleansClear, NotYetLaunched, WorkerKeepsTree, ToLaunch

(* A sweep starts where no unit is active. *)
LEMMA LauncherStartClear ==
  ASSUME NEW o \in Operations, Attempts, Clear, ~Late, LauncherStart(o)
  PROVE  Clear'
<1> USE KindsDisjoint
<1>1. CASE TakesLock(o)
  BY <1>1 DEF TakesLock, LauncherGoes
<1>2. CASE FindsLocked(o)
  BY <1>2 DEF FindsLocked, Leave, LeaveAs, LauncherGoes, Release
<1>3. CASE FindsBusy(o)
  BY <1>3 DEF FindsBusy, Leave, LeaveAs, LauncherGoes, Release
<1>4. CASE FindsIdle(o)
  BY <1>4 DEF FindsIdle, LauncherGoes, UnitBusy
<1>5. CASE Sweeps(o)
  BY <1>5 DEF Sweeps, CleanupStep, RemoveTree, RemoveRecord
<1>6. CASE SweepEnds(o)
  BY <1>6 DEF SweepEnds, LauncherGoes
<1>7. CASE SweepFails(o)
  BY <1>7 DEF SweepFails, Leave, LeaveAs, LauncherGoes, Release
<1>8. CASE Records(o)
  BY <1>8 DEF Records, LauncherGoes
<1>9. CASE RecordFails(o)
  BY <1>9 DEF RecordFails, Leave, LeaveAs, LauncherGoes, Release
<1>10. CASE MakesWork(o)
  BY <1>10 DEF MakesWork, LauncherGoes
<1>11. CASE MakeFails(o)
  BY <1>11 DEF MakeFails, Leave, LeaveAs, LauncherGoes, Release
<1>12. CASE Cleans(o)
  BY <1>12 DEF Cleans, CleanupStep, RemoveTree, RemoveRecord
<1>13. CASE CleanEnds(o)
  BY <1>13 DEF CleanEnds, Leave, LeaveAs, LauncherGoes, Release
<1> QED
  BY <1>1, <1>2, <1>3, <1>4, <1>5, <1>6, <1>7, <1>8, <1>9, <1>10, <1>11, <1>12, <1>13 DEF LauncherStart

(* What the API does. *)
LEMMA ClientClear ==
  ASSUME NEW o \in Operations, Attempts, Clear, ~Late, Request(o) \/ ClientStep(o)
  PROVE  Clear'
<1> USE KindsDisjoint
<1>1. CASE Request(o)
  BY <1>1 DEF Request, LauncherGoes
<1>2. CASE HearsExit(o)
  BY <1>2 DEF HearsExit, ClientGoes, Alive
<1>3. CASE GivesUp(o)
  BY <1>3 DEF GivesUp, ClientGoes
<1> QED
  BY <1>1, <1>2, <1>3 DEF ClientStep

(* A failed launch is cleaned up after a look at the units. *)
LEMMA UpdateLauncherClear ==
  ASSUME NEW o \in Updates, Attempts, Clear, ~Late, UpdateLauncherStep(o)
  PROVE  Clear'
<1> USE KindsDisjoint
<1>1. CASE Ingests(o)
  BY <1>1 DEF Ingests, Leave, LeaveAs, LauncherGoes, Release
<1>2. CASE AcknowledgesUpdate(o)
  BY <1>2 DEF AcknowledgesUpdate, Acknowledge, Leave, LeaveAs, LauncherGoes, Release
<1>3. CASE PipeBreaks(o, "gone")
  BY <1>3 DEF PipeBreaks, Leave, LeaveAs, LauncherGoes, Release
<1>4. CASE LaunchesUpdate(o)
  BY <1>4 DEF LaunchesUpdate, Registers
<1>5. CASE LaunchFails(o)
  BY <1>5 DEF LaunchFails, Registers, Release
<1>6. CASE Queries(o)
  BY <1>6 DEF Queries, LauncherGoes, LeaveAs, Release
<1>7. CASE ReportsFailure(o)
  BY <1>7 DEF ReportsFailure, LauncherGoes, Publish
<1>8. CASE SeesUnit(o)
  BY <1>8 DEF SeesUnit, LeaveUnit, LeaveAs, LauncherGoes, Release
<1>9. CASE WaitExpires(o)
  BY <1>9 DEF WaitExpires, LeaveUnit, LeaveAs, LauncherGoes, Release
<1>10. CASE ReportFails(o)
  BY <1>10 DEF ReportFails, LeaveAs, LauncherGoes, Release
<1> QED
  BY <1>1, <1>2, <1>3, <1>4, <1>5, <1>6, <1>7, <1>8, <1>9, <1>10 DEF UpdateLauncherStep

(* A launcher settles after the stop, where no unit is active. *)
LEMMA RestoreLauncherClear ==
  ASSUME NEW o \in Restores, Attempts, Clear, ~Late, RestoreLauncherStep(o)
  PROVE  Clear'
<1> USE KindsDisjoint
<1>1. CASE LaunchesRestore(o)
  BY <1>1 DEF LaunchesRestore, Registers
<1>2. CASE LaunchFails(o)
  BY <1>2 DEF LaunchFails, Registers, Release
<1>3. CASE HandsOver(o)
  BY <1>3 DEF HandsOver
<1>4. CASE ReleasesLock(o)
  BY <1>4 DEF ReleasesLock, LauncherGoes, Release
<1>5. CASE ReadsAnswer(o)
  BY <1>5 DEF ReadsAnswer, LauncherGoes
<1>6. CASE DeadlinePasses(o)
  BY <1>6 DEF DeadlinePasses, LauncherGoes
<1>7. CASE StopsUnit(o)
  BY <1>7 DEF StopsUnit
<1>8. CASE AnswersRestore(o)
  BY <1>8 DEF AnswersRestore, Acknowledge, Leave, LeaveAs, LauncherGoes, Release
<1>9. CASE PipeBreaks(o, "settling")
  BY <1>9 DEF PipeBreaks, Leave, LeaveAs, LauncherGoes, Release
<1>10. CASE Settles(o)
  BY <1>10 DEF Settles, Leave, LeaveAs, LauncherGoes, Release
<1> QED
  BY <1>1, <1>2, <1>3, <1>4, <1>5, <1>6, <1>7, <1>8, <1>9, <1>10 DEF RestoreLauncherStep

(* A unit starts where nobody is removing trees. *)
LEMMA UpdateWorkerClear ==
  ASSUME NEW o \in Updates, Attempts, Clear, ~Late, UpdateWorkerStep(o)
  PROVE  Clear'
<1> USE KindsDisjoint
<1>1. CASE UnitStarts(o)
  BY <1>1 DEF UnitStarts, WorkerGoes
<1>2. CASE FindsRecord(o)
  BY <1>2 DEF FindsRecord, WorkerGoes
<1>3. CASE WorkerCleans(o)
  BY <1>3 DEF WorkerCleans, CleanupStep, RemoveTree, RemoveRecord
<1>4. CASE WorkerEnds(o)
  BY <1>4 DEF WorkerEnds, WorkerGoes
<1>5. CASE Rejects(o)
  BY <1>5 DEF Rejects, WorkerGoes, Publish
<1>6. CASE Begins(o)
  BY <1>6 DEF Begins, WorkerGoes, Publish
<1>7. CASE UpdateStopsService(o)
  BY <1>7 DEF UpdateStopsService, EndService, LaunchersLock, Alive
<1>8. CASE Concludes(o)
  BY <1>8 DEF Concludes, WorkerGoes, Publish
<1> QED
  BY <1>1, <1>2, <1>3, <1>4, <1>5, <1>6, <1>7, <1>8 DEF UpdateWorkerStep, WorkerFrame

(* The same of the worker of a restore. *)
LEMMA RestoreWorkerClear ==
  ASSUME NEW o \in Restores, Attempts, Clear, ~Late, RestoreWorkerStep(o)
  PROVE  Clear'
<1> USE KindsDisjoint
<1>1. CASE UnitStarts(o)
  BY <1>1 DEF UnitStarts, WorkerGoes
<1>2. CASE FindsRecord(o)
  BY <1>2 DEF FindsRecord, WorkerGoes
<1>3. CASE WorkerCleans(o)
  BY <1>3 DEF WorkerCleans, CleanupStep, RemoveTree, RemoveRecord
<1>4. CASE WorkerEnds(o)
  BY <1>4 DEF WorkerEnds, WorkerGoes
<1>5. CASE Parses(o)
  BY <1>5 DEF Parses, WorkerGoes
<1>6. CASE LocksWorker(o)
  BY <1>6 DEF LocksWorker, WorkerGoes
<1>7. CASE Opens(o)
  BY <1>7 DEF Opens, WorkerGoes
<1>8. CASE Accepts(o)
  BY <1>8 DEF Accepts, WorkerGoes, Release
<1>9. CASE Declines(o)
  BY <1>9 DEF Declines, WorkerGoes, Release
<1>10. CASE Announces(o)
  BY <1>10 DEF Announces, WorkerGoes, Publish
<1>11. CASE RestoreStopsService(o)
  BY <1>11 DEF RestoreStopsService, EndService, LaunchersLock, Alive
<1>12. CASE Finishes(o)
  BY <1>12 DEF Finishes, WorkerGoes, Release, Publish
<1>13. CASE PublicationFails(o)
  BY <1>13 DEF PublicationFails, WorkerGoes, Release
<1>14. CASE Complains(o)
  BY <1>14 DEF Complains, WorkerGoes
<1> QED
  BY <1>1, <1>2, <1>3, <1>4, <1>5, <1>6, <1>7, <1>8, <1>9, <1>10, <1>11, <1>12, <1>13, <1>14
  DEF RestoreWorkerStep, WorkerFrame

(* The dead remove nothing. *)
LEMMA FaultsClear ==
  ASSUME Attempts, Clear, ~Late, ServiceStops \/ PowerLoss
  PROVE  Clear'
<1> USE KindsDisjoint
<1>1. CASE ServiceStops
  BY <1>1 DEF ServiceStops, EndService, LaunchersLock, Alive
<1>2. CASE PowerLoss
  BY <1>2 DEF PowerLoss, EndService, Alive
<1> QED
  BY <1>1, <1>2

(* Nor does a dead worker.                                                 *)
LEMMA DeathsClear ==
  ASSUME NEW o \in Operations, Attempts, Clear, ~Late, WorkerDies(o)
  PROVE  Clear'
  BY KindsDisjoint DEF WorkerDies, WorkerGoes, Release

(* Nothing is there at first. *)
LEMMA ClearInitially == Init => Clear
  BY DEF Init

(* Clear is inductive relative to Attempts. *)
LEMMA ClearPreserved ==
  ASSUME ~Late
  PROVE  Attempts /\ Clear /\ [Next]_vars => Clear' \/ blind'
<1> SUFFICES ASSUME Attempts, Clear, [Next]_vars PROVE Clear' \/ blind'
  OBVIOUS
<1>1. CASE UNCHANGED vars
  BY <1>1 DEF vars
<1>2. ASSUME NEW o \in Operations, Request(o) \/ ClientStep(o) PROVE Clear'
  BY <1>2, ClientClear
<1>3. ASSUME NEW o \in Operations, LauncherStep(o) PROVE Clear'
  BY <1>3, LauncherStartClear, UpdateLauncherClear, RestoreLauncherClear
  DEF LauncherStep
<1>4. ASSUME NEW o \in Operations, WorkerStep(o) PROVE Clear'
  BY <1>4, UpdateWorkerClear, RestoreWorkerClear DEF WorkerStep
<1>5. CASE ServiceStops \/ PowerLoss
  BY <1>5, FaultsClear
<1>6. ASSUME NEW o \in Operations, WorkerDies(o) PROVE Clear'
  BY <1>6, DeathsClear
<1>7. ASSUME NEW o \in Operations, BlindStep(o) PROVE blind'
  BY <1>7 DEF BlindStep, FindsNothing, SettlesUnseen, StopsNothing, Blinded
<1> QED
  BY <1>1, <1>2, <1>3, <1>4, <1>5, <1>6, <1>7 DEF Next

(* Sweeps, failed launches and deadlines remove no tree whose worker is at  *)
(* work on it until systemctl fails a launcher; no tree is ever without its *)
(* record.                                                                  *)
THEOREM TreesStay ==
  ASSUME ~Late
  PROVE  Spec => []TreesAreKept
<1>1. Attempts /\ (Clear \/ blind) => TreesAreKept
  BY DEF TreesAreKept
<1>2. Attempts /\ (Clear \/ blind) /\ [Next]_vars => (Clear \/ blind)'
  BY ClearPreserved, BlindForGood
<1> QED
  BY <1>1, <1>2, ClearInitially, AttemptsAlways, PTL DEF Spec

-----------------------------------------------------------------------------
(* What the client of an update was told.                                   *)

(* Not answered yet, or refused: no unit was started for it.                *)
UnansweredUpdate ==
  \A u \in Updates : client[u] \in {"waiting", "refused"} =>
    /\ worker[u] = "none"
    /\ launcher[u] \in Alone \cup {"locking", "ingesting", "acking", "cleaning", "gone"}
    /\ client[u] = "refused" => launcher[u] = "gone"

(* From its tree to the look at its unit an update is authorized.           *)
Prepared == {"ingesting", "acking", "launching", "querying", "waiting"}
PreparedUpdate ==
  \A u \in Updates : launcher[u] \in Prepared =>
    /\ \/ u \in record /\ u \in work
       \/ worker[u] \in {"finishing", "finished", "silent", "cut"}
    /\ worker[u] # "unauthorized"
    /\ launcher[u] = "waiting" => worker[u] # "none"

(* Accepted: it is launched, or reported as failed; a launcher that leaves  *)
(* sure of its unit leaves one that is authorized.                          *)
AcceptedUpdate ==
  \A u \in Updates : client[u] = "accepted" =>
    /\ launcher[u] \in {"launching", "querying", "reporting", "cleaning", "waiting",
                        "gone", "unsure", "killed"}
    /\ launcher[u] = "cleaning" => u \in reported
    /\ launcher[u] = "gone" =>
         \/ u \in reported
         \/ worker[u] \in {"validating", "running", "silent", "cut"}
         \/ (worker[u] = "starting" /\ u \in record /\ u \in work)

(* An update's worker is not stopped, and ends with a report or dies.       *)
WorkOfUpdate ==
  \A u \in Updates :
    /\ worker[u] \in {"none", "unauthorized", "silent", "cut", "queued", "starting",
                      "validating", "running", "finishing", "finished"}
    /\ worker[u] \in {"finishing", "finished"} => u \in reported

UpdateAnswers == UnansweredUpdate /\ PreparedUpdate /\ AcceptedUpdate /\ WorkOfUpdate

USE DEF Separate, KindsOfWork, HoldersHaveLock, OneUnit,
        UpdateHolding, RestoreHolding, Handed
USE DEF UpdateAnswers, UnansweredUpdate, Prepared, PreparedUpdate, AcceptedUpdate, WorkOfUpdate

(* Nobody sweeps while another attempt is prepared: both hold the lock. *)
LEMMA LauncherStartAnswersUpdate ==
  ASSUME NEW o \in Operations, Attempts, Separate, Clear, UpdateAnswers, ~Late, LauncherStart(o)
  PROVE  UpdateAnswers'
<1> USE KindsDisjoint
<1>1. CASE TakesLock(o)
  BY <1>1 DEF TakesLock, LauncherGoes
<1>2. CASE FindsLocked(o)
  BY <1>2 DEF FindsLocked, Leave, LeaveAs, LauncherGoes, Release
<1>3. CASE FindsBusy(o)
  BY <1>3 DEF FindsBusy, Leave, LeaveAs, LauncherGoes, Release
<1>4. CASE FindsIdle(o)
  BY <1>4 DEF FindsIdle, LauncherGoes, UnitBusy
<1>5. CASE Sweeps(o)
  <2>1. \A u \in Updates : launcher[u] \notin Prepared
    <3> SUFFICES ASSUME NEW u \in Updates, launcher[u] \in Prepared PROVE FALSE
      OBVIOUS
    <3>1. lock = {<<"launcher", u>>} /\ lock = {<<"launcher", o>>}
      BY <1>5 DEF Sweeps
    <3>2. u = o
      BY <3>1
    <3> QED
      BY <1>5, <3>2 DEF Sweeps
  <2> QED
    BY <1>5, <2>1 DEF Sweeps, CleanupStep, RemoveTree, RemoveRecord
<1>6. CASE SweepEnds(o)
  BY <1>6 DEF SweepEnds, LauncherGoes
<1>7. CASE SweepFails(o)
  BY <1>7 DEF SweepFails, Leave, LeaveAs, LauncherGoes, Release
<1>8. CASE Records(o)
  BY <1>8 DEF Records, LauncherGoes
<1>9. CASE RecordFails(o)
  BY <1>9 DEF RecordFails, Leave, LeaveAs, LauncherGoes, Release
<1>10. CASE MakesWork(o)
  BY <1>10 DEF MakesWork, LauncherGoes
<1>11. CASE MakeFails(o)
  BY <1>11 DEF MakeFails, Leave, LeaveAs, LauncherGoes, Release
<1>12. CASE Cleans(o)
  BY <1>12 DEF Cleans, CleanupStep, RemoveTree, RemoveRecord
<1>13. CASE CleanEnds(o)
  BY <1>13 DEF CleanEnds, Leave, LeaveAs, LauncherGoes, Release
<1> QED
  BY <1>1, <1>2, <1>3, <1>4, <1>5, <1>6, <1>7, <1>8, <1>9, <1>10, <1>11, <1>12, <1>13 DEF LauncherStart

(* A request is refused when its launcher is gone. *)
LEMMA ClientAnswersUpdate ==
  ASSUME NEW o \in Operations, Attempts, Separate, Clear, UpdateAnswers, ~Late, Request(o) \/ ClientStep(o)
  PROVE  UpdateAnswers'
<1> USE KindsDisjoint
<1>1. CASE Request(o)
  BY <1>1 DEF Request, LauncherGoes
<1>2. CASE HearsExit(o)
  BY <1>2 DEF HearsExit, ClientGoes, Alive
<1>3. CASE GivesUp(o)
  BY <1>3 DEF GivesUp, ClientGoes
<1> QED
  BY <1>1, <1>2, <1>3 DEF ClientStep

(* The launcher acknowledges, launches and looks. *)
LEMMA UpdateLauncherAnswersUpdate ==
  ASSUME NEW o \in Updates, Attempts, Separate, Clear, UpdateAnswers, ~Late, UpdateLauncherStep(o)
  PROVE  UpdateAnswers'
<1> USE KindsDisjoint
<1>1. CASE Ingests(o)
  BY <1>1 DEF Ingests, Leave, LeaveAs, LauncherGoes, Release
<1>2. CASE AcknowledgesUpdate(o)
  BY <1>2 DEF AcknowledgesUpdate, Acknowledge, Leave, LeaveAs, LauncherGoes, Release
<1>3. CASE PipeBreaks(o, "gone")
  BY <1>3 DEF PipeBreaks, Leave, LeaveAs, LauncherGoes, Release
<1>4. CASE LaunchesUpdate(o)
  BY <1>4 DEF LaunchesUpdate, Registers
<1>5. CASE LaunchFails(o)
  BY <1>5 DEF LaunchFails, Registers, Release
<1>6. CASE Queries(o)
  BY <1>6 DEF Queries, LauncherGoes, LeaveAs, Release
<1>7. CASE ReportsFailure(o)
  BY <1>7 DEF ReportsFailure, LauncherGoes, Publish
<1>8. CASE SeesUnit(o)
  BY <1>8 DEF SeesUnit, LeaveUnit, LeaveAs, LauncherGoes, Release
<1>9. CASE WaitExpires(o)
  BY <1>9 DEF WaitExpires, LeaveUnit, LeaveAs, LauncherGoes, Release
<1>10. CASE ReportFails(o)
  BY <1>10 DEF ReportFails, LeaveAs, LauncherGoes, Release
<1> QED
  BY <1>1, <1>2, <1>3, <1>4, <1>5, <1>6, <1>7, <1>8, <1>9, <1>10 DEF UpdateLauncherStep

(* A restore's launcher keeps clear of updates. *)
LEMMA RestoreLauncherAnswersUpdate ==
  ASSUME NEW o \in Restores, Attempts, Separate, Clear, UpdateAnswers, ~Late, RestoreLauncherStep(o)
  PROVE  UpdateAnswers'
<1> USE KindsDisjoint
<1>1. CASE LaunchesRestore(o)
  BY <1>1 DEF LaunchesRestore, Registers
<1>2. CASE LaunchFails(o)
  BY <1>2 DEF LaunchFails, Registers, Release
<1>3. CASE HandsOver(o)
  BY <1>3 DEF HandsOver
<1>4. CASE ReleasesLock(o)
  BY <1>4 DEF ReleasesLock, LauncherGoes, Release
<1>5. CASE ReadsAnswer(o)
  BY <1>5 DEF ReadsAnswer, LauncherGoes
<1>6. CASE DeadlinePasses(o)
  BY <1>6 DEF DeadlinePasses, LauncherGoes
<1>7. CASE StopsUnit(o)
  BY <1>7 DEF StopsUnit
<1>8. CASE AnswersRestore(o)
  BY <1>8 DEF AnswersRestore, Acknowledge, Leave, LeaveAs, LauncherGoes, Release
<1>9. CASE PipeBreaks(o, "settling")
  BY <1>9 DEF PipeBreaks, Leave, LeaveAs, LauncherGoes, Release
<1>10. CASE Settles(o)
  BY <1>10 DEF Settles, Leave, LeaveAs, LauncherGoes, Release
<1> QED
  BY <1>1, <1>2, <1>3, <1>4, <1>5, <1>6, <1>7, <1>8, <1>9, <1>10 DEF RestoreLauncherStep

(* The worker reports before it finishes. *)
LEMMA UpdateWorkerAnswersUpdate ==
  ASSUME NEW o \in Updates, Attempts, Separate, Clear, UpdateAnswers, ~Late, UpdateWorkerStep(o)
  PROVE  UpdateAnswers'
<1> USE KindsDisjoint
<1>1. CASE UnitStarts(o)
  BY <1>1 DEF UnitStarts, WorkerGoes
<1>2. CASE FindsRecord(o)
  BY <1>2 DEF FindsRecord, WorkerGoes
<1>3. CASE WorkerCleans(o)
  BY <1>3 DEF WorkerCleans, CleanupStep, RemoveTree, RemoveRecord
<1>4. CASE WorkerEnds(o)
  BY <1>4 DEF WorkerEnds, WorkerGoes
<1>5. CASE Rejects(o)
  BY <1>5 DEF Rejects, WorkerGoes, Publish
<1>6. CASE Begins(o)
  BY <1>6 DEF Begins, WorkerGoes, Publish
<1>7. CASE UpdateStopsService(o)
  BY <1>7 DEF UpdateStopsService, EndService, LaunchersLock, Alive
<1>8. CASE Concludes(o)
  BY <1>8 DEF Concludes, WorkerGoes, Publish
<1> QED
  BY <1>1, <1>2, <1>3, <1>4, <1>5, <1>6, <1>7, <1>8 DEF UpdateWorkerStep, WorkerFrame

(* So does a restore's worker, beyond the stop of the service. *)
LEMMA RestoreWorkerAnswersUpdate ==
  ASSUME NEW o \in Restores, Attempts, Separate, Clear, UpdateAnswers, ~Late, RestoreWorkerStep(o)
  PROVE  UpdateAnswers'
<1> USE KindsDisjoint
<1>1. CASE UnitStarts(o)
  BY <1>1 DEF UnitStarts, WorkerGoes
<1>2. CASE FindsRecord(o)
  BY <1>2 DEF FindsRecord, WorkerGoes
<1>3. CASE WorkerCleans(o)
  BY <1>3 DEF WorkerCleans, CleanupStep, RemoveTree, RemoveRecord
<1>4. CASE WorkerEnds(o)
  BY <1>4 DEF WorkerEnds, WorkerGoes
<1>5. CASE Parses(o)
  BY <1>5 DEF Parses, WorkerGoes
<1>6. CASE LocksWorker(o)
  BY <1>6 DEF LocksWorker, WorkerGoes
<1>7. CASE Opens(o)
  BY <1>7 DEF Opens, WorkerGoes
<1>8. CASE Accepts(o)
  BY <1>8 DEF Accepts, WorkerGoes, Release
<1>9. CASE Declines(o)
  BY <1>9 DEF Declines, WorkerGoes, Release
<1>10. CASE Announces(o)
  BY <1>10 DEF Announces, WorkerGoes, Publish
<1>11. CASE RestoreStopsService(o)
  BY <1>11 DEF RestoreStopsService, EndService, LaunchersLock, Alive
<1>12. CASE Finishes(o)
  BY <1>12 DEF Finishes, WorkerGoes, Release, Publish
<1>13. CASE PublicationFails(o)
  BY <1>13 DEF PublicationFails, WorkerGoes, Release
<1>14. CASE Complains(o)
  BY <1>14 DEF Complains, WorkerGoes
<1> QED
  BY <1>1, <1>2, <1>3, <1>4, <1>5, <1>6, <1>7, <1>8, <1>9, <1>10, <1>11, <1>12, <1>13, <1>14
  DEF RestoreWorkerStep, WorkerFrame

(* The launchers die, or everything does. *)
LEMMA FaultsAnswersUpdate ==
  ASSUME Attempts, Separate, Clear, UpdateAnswers, ~Late, ServiceStops \/ PowerLoss
  PROVE  UpdateAnswers'
<1> USE KindsDisjoint
<1>1. CASE ServiceStops
  BY <1>1 DEF ServiceStops, EndService, LaunchersLock, Alive
<1>2. CASE PowerLoss
  BY <1>2 DEF PowerLoss, EndService, Alive
<1> QED
  BY <1>1, <1>2

(* A worker that ends without a word is named in the answers.              *)
LEMMA DeathsAnswersUpdate ==
  ASSUME NEW o \in Operations, Attempts, Separate, Clear, UpdateAnswers, ~Late, WorkerDies(o)
  PROVE  UpdateAnswers'
<1> USE KindsDisjoint
<1>1. CASE o \in Restores
  BY <1>1 DEF WorkerDies, WorkerGoes
<1>2. CASE o \in Updates
  <2>1. UnansweredUpdate' /\ WorkOfUpdate'
    BY <1>2 DEF WorkerDies, WorkerGoes
  <2>2. PreparedUpdate'
    BY <1>2 DEF WorkerDies, WorkerGoes
  <2>3. AcceptedUpdate'
    BY <1>2 DEF WorkerDies, WorkerGoes
  <2> QED
    BY <2>1, <2>2, <2>3
<1> QED
  BY <1>1, <1>2
-----------------------------------------------------------------------------
(* What the client of a restore was told.                                   *)

(* A worker that has not answered has put nothing into the FIFO; one that   *)
(* answered with an error does nothing more.                                *)
WorkOfRestore ==
  \A r \in Restores :
    /\ worker[r] \notin {"validating", "running", "unauthorized"}
    /\ launcher[r] \notin {"ingesting", "querying", "reporting", "waiting", "unsure"}
    /\ worker[r] \in {"none", "queued", "starting", "reading", "parsing", "locking",
                      "opening", "accepting", "declining"} => ack[r] = "none"
    /\ ack[r] = "error" => worker[r] \in {"abandoning", "abandoned", "silent", "killed", "cut"}
    /\ worker[r] \in {"finishing", "finished"} => r \in reported
    /\ worker[r] = "changing" => \A l \in Restores : ~Listens(l)

(* A launcher that stops the unit stops no other operation's worker, beyond *)
(* one that has not started, unless its own worker died.                    *)
OneStopped ==
  \A r, b \in Restores : r # b =>
    /\ launcher[r] = "connecting" => ~InFlight(b)
    /\ launcher[r] = "stopping" => ~Active(b) \/ Died

(* Launcher and worker from the handoff to the acknowledgement.             *)
ListenedTo ==
  \A r \in Restores :
    /\ launcher[r] \in {"handing", "listening"} /\ ack[r] = "none" =>
         \/ worker[r] \in {"parsing", "locking", "opening", "accepting", "declining", "silent"}
         \/ Died /\ worker[r] = "killed"
    /\ launcher[r] \in {"handing", "listening"} => worker[r] # "queued"
    /\ launcher[r] \in {"handing", "listening", "acking"} /\ ack[r] = "accepted" =>
         \/ worker[r] \in {"announcing", "grace", "complaining", "quitting", "unpublished",
                          "silent"}
         \/ Died /\ worker[r] = "killed"
    /\ launcher[r] = "acking" => ack[r] = "accepted"

(* Accepted: what keeps the worker from its report.                         *)
AcceptedRestore ==
  \A r \in Restores : client[r] = "accepted" =>
    /\ launcher[r] = "gone"
    /\ \/ worker[r] \in {"announcing", "grace", "changing", "finishing", "finished",
                          "complaining", "quitting", "unpublished", "silent", "cut"}
       \/ Died /\ worker[r] = "killed"

(* Not answered yet, or refused: the worker has changed nothing, and once   *)
(* its launcher settles it never will.                                      *)
UnansweredRestore ==
  \A r \in Restores :
    /\ client[r] = "none" => r \notin reported
    /\ client[r] \in {"waiting", "refused"} =>
       /\ r \notin reported
       /\ worker[r] \notin {"changing", "finishing", "finished"}
       /\ launcher[r] # "killed" /\ launcher[r] # "none"
       /\ launcher[r] \in {"settling", "cleaning", "gone"} =>
            worker[r] \in {"none", "queued", "starting", "reading", "abandoning",
                           "abandoned", "unpublished", "silent", "killed", "cut"}
    /\ client[r] = "refused" => launcher[r] = "gone"

RestoreAnswers ==
  WorkOfRestore /\ OneStopped /\ ListenedTo /\ AcceptedRestore /\ UnansweredRestore

USE DEF RestoreAnswers, WorkOfRestore, OneStopped, ListenedTo, AcceptedRestore,
        UnansweredRestore, Listens, Died

(* Up to its own attempt no restore has a worker. *)
LEMMA LauncherStartAnswersRestore ==
  ASSUME NEW o \in Operations, Attempts, Separate, Clear, RestoreAnswers, ~Late, LauncherStart(o)
  PROVE  RestoreAnswers'
<1> USE KindsDisjoint
<1>1. CASE TakesLock(o)
  BY <1>1 DEF TakesLock, LauncherGoes
<1>2. CASE FindsLocked(o)
  BY <1>2 DEF FindsLocked, Leave, LeaveAs, LauncherGoes, Release
<1>3. CASE FindsBusy(o)
  BY <1>3 DEF FindsBusy, Leave, LeaveAs, LauncherGoes, Release
<1>4. CASE FindsIdle(o)
  BY <1>4 DEF FindsIdle, LauncherGoes, UnitBusy
<1>5. CASE Sweeps(o)
  BY <1>5 DEF Sweeps, CleanupStep, RemoveTree, RemoveRecord
<1>6. CASE SweepEnds(o)
  BY <1>6 DEF SweepEnds, LauncherGoes
<1>7. CASE SweepFails(o)
  BY <1>7 DEF SweepFails, Leave, LeaveAs, LauncherGoes, Release
<1>8. CASE Records(o)
  BY <1>8 DEF Records, LauncherGoes
<1>9. CASE RecordFails(o)
  BY <1>9 DEF RecordFails, Leave, LeaveAs, LauncherGoes, Release
<1>10. CASE MakesWork(o)
  BY <1>10 DEF MakesWork, LauncherGoes
<1>11. CASE MakeFails(o)
  BY <1>11 DEF MakeFails, Leave, LeaveAs, LauncherGoes, Release
<1>12. CASE Cleans(o)
  BY <1>12 DEF Cleans, CleanupStep, RemoveTree, RemoveRecord
<1>13. CASE CleanEnds(o)
  BY <1>13 DEF CleanEnds, Leave, LeaveAs, LauncherGoes, Release
<1> QED
  BY <1>1, <1>2, <1>3, <1>4, <1>5, <1>6, <1>7, <1>8, <1>9, <1>10, <1>11, <1>12, <1>13 DEF LauncherStart

(* A request is refused when its launcher is gone. *)
LEMMA ClientAnswersRestore ==
  ASSUME NEW o \in Operations, Attempts, Separate, Clear, RestoreAnswers, ~Late, Request(o) \/ ClientStep(o)
  PROVE  RestoreAnswers'
<1> USE KindsDisjoint
<1>1. CASE Request(o)
  BY <1>1 DEF Request, LauncherGoes
<1>2. CASE HearsExit(o)
  BY <1>2 DEF HearsExit, ClientGoes, Alive
<1>3. CASE GivesUp(o)
  BY <1>3 DEF GivesUp, ClientGoes
<1> QED
  BY <1>1, <1>2, <1>3 DEF ClientStep

(* An update's launcher keeps clear of restores. *)
LEMMA UpdateLauncherAnswersRestore ==
  ASSUME NEW o \in Updates, Attempts, Separate, Clear, RestoreAnswers, ~Late, UpdateLauncherStep(o)
  PROVE  RestoreAnswers'
<1> USE KindsDisjoint
<1>1. CASE Ingests(o)
  BY <1>1 DEF Ingests, Leave, LeaveAs, LauncherGoes, Release
<1>2. CASE AcknowledgesUpdate(o)
  BY <1>2 DEF AcknowledgesUpdate, Acknowledge, Leave, LeaveAs, LauncherGoes, Release
<1>3. CASE PipeBreaks(o, "gone")
  BY <1>3 DEF PipeBreaks, Leave, LeaveAs, LauncherGoes, Release
<1>4. CASE LaunchesUpdate(o)
  BY <1>4 DEF LaunchesUpdate, Registers
<1>5. CASE LaunchFails(o)
  BY <1>5 DEF LaunchFails, Registers, Release
<1>6. CASE Queries(o)
  BY <1>6 DEF Queries, LauncherGoes, LeaveAs, Release
<1>7. CASE ReportsFailure(o)
  BY <1>7 DEF ReportsFailure, LauncherGoes, Publish
<1>8. CASE SeesUnit(o)
  BY <1>8 DEF SeesUnit, LeaveUnit, LeaveAs, LauncherGoes, Release
<1>9. CASE WaitExpires(o)
  BY <1>9 DEF WaitExpires, LeaveUnit, LeaveAs, LauncherGoes, Release
<1>10. CASE ReportFails(o)
  BY <1>10 DEF ReportFails, LeaveAs, LauncherGoes, Release
<1> QED
  BY <1>1, <1>2, <1>3, <1>4, <1>5, <1>6, <1>7, <1>8, <1>9, <1>10 DEF UpdateLauncherStep

(* The launcher hands over, listens, and answers, or stops the unit. *)
LEMMA RestoreLauncherAnswersRestore ==
  ASSUME NEW o \in Restores, Attempts, Separate, Clear, RestoreAnswers, ~Late, RestoreLauncherStep(o)
  PROVE  RestoreAnswers'
<1> USE KindsDisjoint
<1>1. CASE LaunchesRestore(o)
  <2>1. \A r \in Restores : launcher[r] # "connecting"
    <3> SUFFICES ASSUME NEW r \in Restores, launcher[r] = "connecting" PROVE FALSE
      OBVIOUS
    <3>1. lock = {<<"launcher", r>>} /\ lock = {<<"launcher", o>>}
      BY <1>1 DEF LaunchesRestore
    <3>2. r = o
      BY <3>1
    <3> QED
      BY <1>1, <3>2 DEF LaunchesRestore
  <2> QED
    BY <1>1, <2>1 DEF LaunchesRestore, Registers
<1>2. CASE LaunchFails(o)
  <2>1. \A r \in Restores : launcher[r] # "connecting"
    <3> SUFFICES ASSUME NEW r \in Restores, launcher[r] = "connecting" PROVE FALSE
      OBVIOUS
    <3>1. lock = {<<"launcher", r>>} /\ lock = {<<"launcher", o>>}
      BY <1>2 DEF LaunchFails
    <3>2. r = o
      BY <3>1
    <3> QED
      BY <1>2, <3>2 DEF LaunchFails
  <2> QED
    BY <1>2, <2>1 DEF LaunchFails, Registers, Release
<1>3. CASE HandsOver(o)
  BY <1>3 DEF HandsOver
<1>4. CASE ReleasesLock(o)
  BY <1>4 DEF ReleasesLock, LauncherGoes, Release
<1>5. CASE ReadsAnswer(o)
  BY <1>5 DEF ReadsAnswer, LauncherGoes
<1>6. CASE DeadlinePasses(o)
  BY <1>6 DEF DeadlinePasses, LauncherGoes
<1>7. CASE StopsUnit(o)
  BY <1>7 DEF StopsUnit
<1>8. CASE AnswersRestore(o)
  BY <1>8 DEF AnswersRestore, Acknowledge, Leave, LeaveAs, LauncherGoes, Release
<1>9. CASE PipeBreaks(o, "settling")
  BY <1>9 DEF PipeBreaks, Leave, LeaveAs, LauncherGoes, Release
<1>10. CASE Settles(o)
  BY <1>10 DEF Settles, Leave, LeaveAs, LauncherGoes, Release
<1> QED
  BY <1>1, <1>2, <1>3, <1>4, <1>5, <1>6, <1>7, <1>8, <1>9, <1>10 DEF RestoreLauncherStep

(* An update that runs stops the service with its launchers. *)
LEMMA UpdateWorkerAnswersRestore ==
  ASSUME NEW o \in Updates, Attempts, Separate, Clear, RestoreAnswers, ~Late, UpdateWorkerStep(o)
  PROVE  RestoreAnswers'
<1> USE KindsDisjoint
<1>1. CASE UnitStarts(o)
  BY <1>1 DEF UnitStarts, WorkerGoes
<1>2. CASE FindsRecord(o)
  BY <1>2 DEF FindsRecord, WorkerGoes
<1>3. CASE WorkerCleans(o)
  BY <1>3 DEF WorkerCleans, CleanupStep, RemoveTree, RemoveRecord
<1>4. CASE WorkerEnds(o)
  BY <1>4 DEF WorkerEnds, WorkerGoes
<1>5. CASE Rejects(o)
  BY <1>5 DEF Rejects, WorkerGoes, Publish
<1>6. CASE Begins(o)
  BY <1>6 DEF Begins, WorkerGoes, Publish
<1>7. CASE UpdateStopsService(o)
  BY <1>7 DEF UpdateStopsService, EndService, LaunchersLock, Alive
<1>8. CASE Concludes(o)
  BY <1>8 DEF Concludes, WorkerGoes, Publish
<1> QED
  BY <1>1, <1>2, <1>3, <1>4, <1>5, <1>6, <1>7, <1>8 DEF UpdateWorkerStep, WorkerFrame

(* The worker answers before it changes anything. *)
LEMMA RestoreWorkerAnswersRestore ==
  ASSUME NEW o \in Restores, Attempts, Separate, Clear, RestoreAnswers, ~Late, RestoreWorkerStep(o)
  PROVE  RestoreAnswers'
<1> USE KindsDisjoint
<1>1. CASE UnitStarts(o)
  BY <1>1 DEF UnitStarts, WorkerGoes
<1>2. CASE FindsRecord(o)
  BY <1>2 DEF FindsRecord, WorkerGoes
<1>3. CASE WorkerCleans(o)
  BY <1>3 DEF WorkerCleans, CleanupStep, RemoveTree, RemoveRecord
<1>4. CASE WorkerEnds(o)
  BY <1>4 DEF WorkerEnds, WorkerGoes
<1>5. CASE Parses(o)
  BY <1>5 DEF Parses, WorkerGoes
<1>6. CASE LocksWorker(o)
  BY <1>6 DEF LocksWorker, WorkerGoes
<1>7. CASE Opens(o)
  BY <1>7 DEF Opens, WorkerGoes
<1>8. CASE Accepts(o)
  BY <1>8 DEF Accepts, WorkerGoes, Release
<1>9. CASE Declines(o)
  BY <1>9 DEF Declines, WorkerGoes, Release
<1>10. CASE Announces(o)
  BY <1>10 DEF Announces, WorkerGoes, Publish
<1>11. CASE RestoreStopsService(o)
  BY <1>11 DEF RestoreStopsService, EndService, LaunchersLock, Alive
<1>12. CASE Finishes(o)
  BY <1>12 DEF Finishes, WorkerGoes, Release, Publish
<1>13. CASE PublicationFails(o)
  BY <1>13 DEF PublicationFails, WorkerGoes, Release
<1>14. CASE Complains(o)
  BY <1>14 DEF Complains, WorkerGoes
<1> QED
  BY <1>1, <1>2, <1>3, <1>4, <1>5, <1>6, <1>7, <1>8, <1>9, <1>10, <1>11, <1>12, <1>13, <1>14
  DEF RestoreWorkerStep, WorkerFrame

(* The launchers die, or everything does. *)
LEMMA FaultsAnswersRestore ==
  ASSUME Attempts, Separate, Clear, RestoreAnswers, ~Late, ServiceStops \/ PowerLoss
  PROVE  RestoreAnswers'
<1> USE KindsDisjoint
<1>1. CASE ServiceStops
  BY <1>1 DEF ServiceStops, EndService, LaunchersLock, Alive
<1>2. CASE PowerLoss
  BY <1>2 DEF PowerLoss, EndService, Alive
<1> QED
  BY <1>1, <1>2

(* A worker that ends without a word is named in the answers.              *)
LEMMA DeathsAnswersRestore ==
  ASSUME NEW o \in Operations, Attempts, Separate, Clear, RestoreAnswers, ~Late, WorkerDies(o)
  PROVE  RestoreAnswers'
  BY KindsDisjoint DEF WorkerDies, WorkerGoes, Release
-----------------------------------------------------------------------------

(* Nothing is there at first. *)
LEMMA AnswersInitially == Init => UpdateAnswers /\ RestoreAnswers
  BY KindsDisjoint DEF Init

(* What the invariants say of a client that has its answer. *)
LEMMA AnswersFollow ==
  ASSUME UpdateAnswers, RestoreAnswers
  PROVE  AnswersHold
<1>1. AcceptedIsCarriedOut
  <2>1. SUFFICES ASSUME NEW o \in Operations, client[o] = "accepted", ~Alive(o), ~InFlight(o)
                 PROVE  \/ o \in reported
                        \/ worker[o] \in {"cut", "silent", "unpublished"}
                        \/ Died /\ worker[o] = "killed"
                        \/ /\ launcher[o] \in {"killed", "unsure"}
                           /\ worker[o] \in {"none", "unauthorized"}
    BY DEF AcceptedIsCarriedOut
  <2>2. CASE o \in Updates
    BY <2>1, <2>2 DEF Alive
  <2>3. CASE o \in Restores
    BY <2>1, <2>3 DEF Alive
  <2> QED
    BY <2>2, <2>3
<1>2. RefusedChangesNothing
  <2>1. SUFFICES ASSUME NEW o \in Operations, client[o] = "refused"
                 PROVE  ~Changing(o) /\ (o \in Restores => o \notin reported)
    BY DEF RefusedChangesNothing
  <2>2. CASE o \in Updates
    BY <2>1, <2>2, KindsDisjoint DEF Changing
  <2>3. CASE o \in Restores
    BY <2>1, <2>3 DEF Changing
  <2> QED
    BY <2>2, <2>3
<1>3. ChangeHasOutcome
  <2>1. ASSUME NEW o \in Operations, worker[o] = "finished" PROVE o \in reported
    BY <2>1
  <2>2. ASSUME NEW l \in Restores, NEW a \in Restores, launcher[l] = "stopping"
        PROVE  ~Changing(a)
    BY <2>2 DEF Changing
  <2> QED
    BY <2>1, <2>2 DEF ChangeHasOutcome
<1> QED
  BY <1>1, <1>2, <1>3 DEF AnswersHold

HIDE DEF Attempts, Separate, Clear, UpdateAnswers, RestoreAnswers

(* Both are inductive relative to what was proved of locks and trees. *)
LEMMA AnswersPreserved ==
  ASSUME ~Late
  PROVE  Attempts /\ Separate /\ Clear /\ UpdateAnswers /\ RestoreAnswers /\ [Next]_vars
           => (UpdateAnswers /\ RestoreAnswers)' \/ blind'
<1> SUFFICES ASSUME Attempts, Separate, Clear, UpdateAnswers, RestoreAnswers, [Next]_vars
             PROVE  (UpdateAnswers' /\ RestoreAnswers') \/ blind'
  OBVIOUS
<1>1. CASE UNCHANGED vars
  BY <1>1 DEF vars, UpdateAnswers, RestoreAnswers
<1>2. ASSUME NEW o \in Operations, Request(o) \/ ClientStep(o)
      PROVE  UpdateAnswers' /\ RestoreAnswers'
  BY <1>2, ClientAnswersUpdate, ClientAnswersRestore
<1>3. ASSUME NEW o \in Operations, LauncherStep(o)
      PROVE  UpdateAnswers' /\ RestoreAnswers'
  <2>1. CASE LauncherStart(o)
    BY <2>1, LauncherStartAnswersUpdate, LauncherStartAnswersRestore
  <2>2. CASE o \in Updates /\ UpdateLauncherStep(o)
    BY <2>2, UpdateLauncherAnswersUpdate, UpdateLauncherAnswersRestore
  <2>3. CASE o \in Restores /\ RestoreLauncherStep(o)
    BY <2>3, RestoreLauncherAnswersUpdate, RestoreLauncherAnswersRestore
  <2> QED
    BY <1>3, <2>1, <2>2, <2>3 DEF LauncherStep
<1>4. ASSUME NEW o \in Operations, WorkerStep(o)
      PROVE  UpdateAnswers' /\ RestoreAnswers'
  <2>1. CASE o \in Updates /\ UpdateWorkerStep(o)
    BY <2>1, UpdateWorkerAnswersUpdate, UpdateWorkerAnswersRestore
  <2>2. CASE o \in Restores /\ RestoreWorkerStep(o)
    BY <2>2, RestoreWorkerAnswersUpdate, RestoreWorkerAnswersRestore
  <2> QED
    BY <1>4, <2>1, <2>2 DEF WorkerStep
<1>5. CASE ServiceStops \/ PowerLoss
  BY <1>5, FaultsAnswersUpdate, FaultsAnswersRestore
<1>6. ASSUME NEW o \in Operations, WorkerDies(o)
      PROVE  UpdateAnswers' /\ RestoreAnswers'
  BY <1>6, DeathsAnswersUpdate, DeathsAnswersRestore
<1>7. ASSUME NEW o \in Operations, BlindStep(o) PROVE blind'
  BY <1>7 DEF BlindStep, FindsNothing, SettlesUnseen, StopsNothing, Blinded
<1> QED
  BY <1>1, <1>2, <1>3, <1>4, <1>5, <1>6, <1>7 DEF Next

(* Who was told "accepted" gets an outcome, but for the named losses of     *)
(* power, launchers, workers and documents; who was refused by the exit of  *)
(* the launcher finds nothing changed by that operation, then and later;    *)
(* and what changed the host was not stopped and has an outcome: until      *)
(* systemctl fails a launcher that had a unit to see or to stop.            *)
THEOREM WhatClientsWereTold ==
  ASSUME ~Late
  PROVE  Spec => []AnswersHold
<1> DEFINE Known == (Separate /\ Clear /\ UpdateAnswers /\ RestoreAnswers) \/ blind
<1>1. Init => Known
  BY SeparateInitially, ClearInitially, AnswersInitially
<1>2. Attempts /\ Known /\ [Next]_vars => Known'
  BY SeparatePreserved, ClearPreserved, AnswersPreserved, BlindForGood
<1>3. Known => AnswersHold
  BY AnswersFollow DEF AnswersHold
<1> HIDE DEF Known
<1> QED
  BY <1>1, <1>2, <1>3, AttemptsAlways, PTL DEF Spec
=============================================================================
