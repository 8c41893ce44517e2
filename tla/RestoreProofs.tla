--------------------------- MODULE RestoreProofs ---------------------------
(***************************************************************************)
(* Theorems about Restore: types, and that it implements RestorePromise.   *)
(***************************************************************************)
EXTENDS Restore, TLAPS

-----------------------------------------------------------------------------
(* Types *)

Names == Required \cup Optional

(* Only the settings of conduit are ever recorded as missing. *)
Backups ==
  {items \in UNION {[names -> Data \ {Key}] : names \in SUBSET Names} :
     \A n \in DOMAIN items : items[n] = Absent => n = "conduit_settings.json"}

Known == Uploads \cup {Packed(items) : items \in Backups}

EngineSteps == {"config", "database", "journal", "env", "validate"}
Backwards == {"undo", "back", "recover"}

Places ==
  {"idle", "announce", "stop", "checkpoint", "engine", "start", "restart", "revive",
   "settings", "finish"} \cup EngineSteps \cup Backwards

Workers ==
  [at : Places, archive : Known, before : Disks \cup {None},
   left : SUBSET {"db", "journal", "env", "config", "gone"}, spent : BOOLEAN,
   verdict : Verdicts \cup {"none"}, ok : BOOLEAN, recovering : BOOLEAN]

Services == [up : BOOLEAN, cached : [env : Data, config : Data]]

TypeInv ==
  /\ disk \in Disks
  /\ service \in Services
  /\ backup \in [at : {"none", "viewed", "snapshot", "made"}, items : Backups]
  /\ worker \in Workers
  /\ HoldsNoKey(worker.archive)
  /\ worker.at \in EngineSteps => NamesAreValid(worker.archive)
  /\ outcome \in [state : {"idle", "in_progress"} \cup Verdicts, ok : BOOLEAN]
  /\ restores \in 0 .. MaxRestores /\ faults \in 0 .. MaxFaults /\ strayed \subseteq Strays

LEMMA DataIsDisjoint == Own \subseteq Found /\ Torn \in Found /\ Absent \in Data /\ Found \subseteq Data
BY RestoreConstants DEF Found, Data, Absent, Torn, Key

LEMMA EmptyBackup == [name \in {} |-> Absent] \in Backups
BY DEF Backups

LEMMA NoArchiveKnown == NoArchive \in Known /\ HoldsNoKey(NoArchive)
BY EmptyBackup DEF NoArchive, Known, HoldsNoKey, Packed

LEMMA ItemType ==
  ASSUME NEW a \in Known, HoldsNoKey(a), NEW name
  PROVE  Item(a, name) \in Data \ {Key}
<1>1. CASE name \notin DOMAIN a.items
  BY <1>1 DEF Item, Data, Absent, Key
<1>2. CASE name \in DOMAIN a.items /\ a \in Uploads
  BY <1>2 DEF Item, Data, HoldsNoKey
<1>3. ASSUME name \in DOMAIN a.items, NEW items \in Backups, a = Packed(items)
      PROVE  Item(a, name) \in Data \ {Key}
  BY <1>3 DEF Item, Packed, Backups
<1> QED
  BY <1>1, <1>2, <1>3 DEF Known

(* An archive with all that is required has something under each name. *)
LEMMA RequiredItems ==
  ASSUME NEW a \in Known, HoldsNoKey(a), NamesAreValid(a), NEW name \in Required
  PROVE  Item(a, name) \in Found
<1>1. name \in DOMAIN a.items
  BY DEF NamesAreValid
<1>2. CASE a \in Uploads
  BY <1>1, <1>2, ItemType, RestoreConstants DEF Item, Found
<1>3. ASSUME NEW items \in Backups, a = Packed(items)
      PROVE  Item(a, name) \in Found
  BY <1>1, <1>3, ItemType DEF Item, Packed, Backups, Found, Required
<1> QED
  BY <1>2, <1>3 DEF Known

LEMMA DatabaseType ==
  ASSUME NEW d \in Disks
  PROVE  Database(d) \in Found /\ Folded(d) \in Disks /\ Database(Folded(d)) = Database(d)
BY DataIsDisjoint DEF Database, Folded, Disks, NoJournal
-----------------------------------------------------------------------------
(* Where the worker stands and what it holds there: a checkpoint from the   *)
(* engine on, an outcome that says so from the announcement on, a verdict   *)
(* from the end of the engine on.                                           *)
Early == {"idle", "announce", "stop", "checkpoint"}
Late == {"engine", "start", "restart", "settings"} \cup EngineSteps \cup Backwards

Stands(w) ==
  /\ w.at \in Early => w.before = None
  /\ w.at \in Late => w.before # None
  /\ w.at \in {"revive", "finish"} /\ w.before = None => w.recovering
  /\ w.at = "finish" => w.spent /\ w.verdict \in Verdicts
  /\ w.at = "start" => w.verdict \in Verdicts

Shape ==
  /\ Stands(worker)
  /\ worker.at \notin {"idle", "announce"} => outcome.state = "in_progress"

(* What the worker goes on with keeps its archive and its checkpoint, and   *)
(* is no engine step.                                                       *)
Onward(w) ==
  /\ w \in Workers /\ w.archive = worker.archive /\ w.before = worker.before
  /\ w.at \notin EngineSteps \cup {"idle", "announce"}
  /\ Stands(w)

LEMMA PuttingBackType ==
  ASSUME worker \in Workers, worker.before # None, NEW place \in Backwards
  PROVE  Onward(PuttingBack(place))
<1> DEFINE w == PuttingBack(place)
<1>1. /\ w.at = place /\ w.archive = worker.archive /\ w.before = worker.before
      /\ place \in {"undo", "back", "recover"}
  BY DEF PuttingBack, Workers, Backwards
<1>2. w \in Workers
  <2>1. Captured(worker.before) \in SUBSET {"db", "journal", "env", "config", "gone"}
    BY DEF Captured
  <2>2. place \in Places
    BY DEF Places
  <2> QED
    BY <2>1, <2>2 DEF PuttingBack, Workers
<1> HIDE DEF w
<1> QED
  BY <1>1, <1>2 DEF Onward, Stands, Early, EngineSteps, w

LEMMA EndingType ==
  ASSUME worker \in Workers, worker.before = None => worker.recovering,
         NEW verdict \in Verdicts, NEW ok \in BOOLEAN
  PROVE  Onward(Ending(verdict, ok))
<1> DEFINE w == Ending(verdict, ok)
<1>1. /\ w.at = "finish" /\ w.archive = worker.archive /\ w.before = worker.before
      /\ w.spent /\ w.verdict = verdict /\ w.recovering = worker.recovering
  BY DEF Ending, Workers
<1>2. w \in Workers
  BY DEF Ending, Workers, Places
<1> HIDE DEF w
<1> QED
  BY <1>1, <1>2 DEF Onward, Stands, Early, Late, Backwards, EngineSteps, w

LEMMA FlagType ==
  ASSUME worker \in Workers, NEW w, Onward(w)
  PROVE  Onward([w EXCEPT !.recovering = TRUE])
BY DEF Onward, Stands, Workers

LEMMA RecoveringType ==
  ASSUME worker \in Workers
  PROVE  Onward(Recovering)
<1>1. CASE worker.before = None
  <2> DEFINE w == [worker EXCEPT !.recovering = TRUE]
  <2>1. w \in Workers /\ w.archive = worker.archive /\ w.before = None /\ w.recovering
    BY <1>1 DEF Workers
  <2>2. Recovering = [w EXCEPT !.at = "revive"]
    BY <1>1, <2>1 DEF Recovering
  <2> HIDE DEF w
  <2> QED
    BY <1>1, <2>1, <2>2
    DEF Onward, Stands, Workers, Places, Early, Late, Backwards, EngineSteps
<1>2. CASE worker.before # None /\ worker.spent
  <2> DEFINE e == Ending("rollback_failed", FALSE)
  <2>1. Recovering = [e EXCEPT !.recovering = TRUE]
    BY <1>2 DEF Recovering, Workers
  <2> HIDE DEF e
  <2> QED
    BY <1>2, <2>1, EndingType, FlagType DEF Verdicts, e
<1>3. CASE worker.before # None /\ ~worker.spent
  <2> DEFINE e == PuttingBack("recover")
  <2>1. Recovering = [e EXCEPT !.recovering = TRUE]
    BY <1>3 DEF Recovering, Workers
  <2> HIDE DEF e
  <2> QED
    BY <1>3, <2>1, PuttingBackType, FlagType DEF Backwards, e
<1> QED
  BY <1>1, <1>2, <1>3

LEMMA JudgedCases ==
  /\ At("start") /\ worker.verdict = "restored" =>
       /\ Judged(TRUE) = [worker EXCEPT !.at = "settings"]
       /\ Judged(FALSE) = PuttingBack("back")
  /\ At("start") /\ worker.verdict # "restored" =>
       /\ Judged(TRUE) = Ending(worker.verdict, TRUE)
       /\ Judged(FALSE) = Ending(worker.verdict, FALSE)
  /\ At("restart") =>
       /\ Judged(TRUE) = Ending("rolled_back", TRUE)
       /\ Judged(FALSE) = Ending("rolled_back", FALSE)
  /\ At("revive") =>
       /\ Judged(TRUE) = Ending("rolled_back", TRUE)
       /\ Judged(FALSE) = Ending("rollback_failed", FALSE)
BY DEF Judged, At

LEMMA JudgedType ==
  ASSUME worker \in Workers, Starting, Stands(worker), NEW healthy \in {TRUE, FALSE}
  PROVE  Onward(Judged(healthy))
<1> USE DEF Stands, At, Starting, Late, Verdicts
<1>1. CASE At("start") /\ worker.verdict = "restored"
  <2>1. Onward([worker EXCEPT !.at = "settings"])
    BY <1>1 DEF Onward, Workers, Places, Early, EngineSteps, Backwards
  <2> QED
    BY <1>1, <2>1, JudgedCases, PuttingBackType DEF Backwards
<1>2. CASE At("start") /\ worker.verdict # "restored"
  BY <1>2, JudgedCases, EndingType
<1>3. CASE ~At("start")
  BY <1>3, JudgedCases, EndingType
<1> QED
  BY <1>1, <1>2, <1>3

LEMMA DownType == Down \in Services
BY DataIsDisjoint DEF Down, Services

LEMMA IdleType == Idle \in Workers /\ HoldsNoKey(Idle.archive) /\ Idle.at \notin EngineSteps
BY NoArchiveKnown DEF Idle, Workers, Places, EngineSteps

LEMMA RunsType ==
  ASSUME disk \in Disks, service \in Services, NEW up \in BOOLEAN, Runs(up)
  PROVE  disk' \in {disk, Folded(disk)} /\ disk' \in Disks /\ service' \in Services
<1>1. Cached(disk) \in [env : Data, config : Data] /\ Down \in Services
  BY DataIsDisjoint DEF Cached, Down, Disks, Services
<1>2. CASE service.up \/ ~up
  <2>1. disk' = disk /\ (service' = service \/ service' = Down)
    BY <1>2 DEF Runs
  <2> QED
    BY <1>1, <2>1
<1>3. CASE ~(service.up \/ ~up)
  <2>1. disk' = Folded(disk) /\ service' = [up |-> TRUE, cached |-> Cached(disk)]
    BY <1>3 DEF Runs
  <2> QED
    BY <1>1, <2>1, DatabaseType DEF Services
<1> QED
  BY <1>2, <1>3

-----------------------------------------------------------------------------
LEMMA NoneIsNoDisk == None \notin Disks
BY DEF None, Disks

LEMMA InitType == RestoreInit => TypeInv /\ Shape
<1> SUFFICES ASSUME RestoreInit PROVE TypeInv /\ Shape
  OBVIOUS
<1>1. disk \in Disks
  BY RestoreConstants, DataIsDisjoint DEF RestoreInit, Disks, Absent, Key, Found
<1>2. service \in Services
  BY <1>1, DataIsDisjoint DEF RestoreInit, Services, Cached, Disks
<1>3. worker \in Workers /\ HoldsNoKey(worker.archive)
  BY NoArchiveKnown DEF RestoreInit, Workers, Idle, Places
<1> QED
  BY <1>1, <1>2, <1>3, EmptyBackup, RestoreConstants
  DEF RestoreInit, TypeInv, Shape, Stands, Idle, EngineSteps, Early, Late, Backwards, At, Strays

LEMMA WithType ==
  ASSUME NEW items \in Backups, NEW name \in Names, NEW data \in Data \ {Key, Absent}
  PROVE  With(items, name, data) \in Backups
<1> DEFINE more == With(items, name, data)
<1>1. PICK names \in SUBSET Names : items \in [names -> Data \ {Key}]
  BY DEF Backups
<1>2. names \cup {name} \in SUBSET Names /\ more \in [names \cup {name} -> Data \ {Key}]
  BY <1>1 DEF With
<1>3. \A n \in DOMAIN more : more[n] = Absent => n = "conduit_settings.json"
  BY <1>1 DEF With, Backups
<1> HIDE DEF more
<1> QED
  BY <1>2, <1>3 DEF Backups, more

LEMMA BackupTypes ==
  ASSUME TypeInv, BackupStep
  PROVE  backup' \in [at : {"none", "viewed", "snapshot", "made"}, items : Backups]
<1>1. CASE BackupViewsConduit
  <2>1. PICK seen \in {disk.dropin, Absent} :
          backup' = [at |-> "viewed", items |-> [name \in {"conduit_settings.json"} |-> seen]]
    BY <1>1 DEF BackupViewsConduit
  <2> DEFINE items == [name \in {"conduit_settings.json"} |-> seen]
  <2>2. seen \in Data \ {Key}
    BY DataIsDisjoint DEF TypeInv, Disks, Found, Key, Absent
  <2>3. items \in [{"conduit_settings.json"} -> Data \ {Key}] /\ {"conduit_settings.json"} \in SUBSET Names
    BY <2>2 DEF Names, Optional
  <2>4. items \in Backups
    BY <2>3 DEF Backups
  <2> QED
    BY <2>1, <2>4
<1>2. CASE BackupSnapshots
  BY <1>2, WithType, DatabaseType DEF BackupSnapshots, TypeInv, Found, Names, Required
<1>3. CASE BackupCollects
  <2> DEFINE items == With(backup.items, "env.subset", disk.env)
  <2>1. items \in Backups
    BY WithType DEF TypeInv, Disks, Found, Names, Required
  <2>2. disk.config # Absent => With(items, "config.json", disk.config) \in Backups
    BY <2>1, WithType DEF TypeInv, Disks, Names, Optional
  <2> HIDE DEF items
  <2> QED
    BY <1>3, <2>1, <2>2 DEF BackupCollects, items
<1> QED
  BY <1>1, <1>2, <1>3 DEF BackupStep

LEMMA UserTypes ==
  ASSUME TypeInv, Shape, UserStep
  PROVE  TypeInv' /\ Shape'
<1> USE DEF At, Serving
<1>1. CASE Writes
  <2>1. disk' \in Disks
    BY <1>1, DataIsDisjoint, RestoreConstants DEF Writes, TypeInv, Disks
  <2> QED
    BY <1>1, <2>1 DEF Writes, TypeInv, Shape
<1>2. CASE ChangesPassword
  <2>1. disk' \in Disks /\ service' \in Services
    BY <1>2, DataIsDisjoint, RestoreConstants DEF ChangesPassword, TypeInv, Disks, Services
  <2> QED
    BY <1>2, <2>1 DEF ChangesPassword, TypeInv, Shape
<1>3. CASE BackupStep
  <2>1. backup' \in [at : {"none", "viewed", "snapshot", "made"}, items : Backups]
    BY <1>3, BackupTypes
  <2> QED
    BY <1>3, <2>1 DEF BackupStep, BackupViewsConduit, BackupSnapshots, BackupCollects, TypeInv, Shape
<1>4. CASE Accepted
  <2>1. PICK a \in Archives : Opens(a, Passphrase) /\ worker' = [Idle EXCEPT !.at = "announce", !.archive = a]
    BY <1>4 DEF Accepted
  <2>2. a \in Known /\ HoldsNoKey(a)
    BY <2>1 DEF Archives, Known, Opens, TypeInv
  <2>3. worker' \in Workers /\ worker'.at = "announce" /\ worker'.archive = a /\ worker'.before = None
    BY <2>1, <2>2, NoArchiveKnown DEF Workers, Idle, Places
  <2>4. restores' \in 0 .. MaxRestores
    BY <1>4, RestoreConstants DEF Accepted, TypeInv
  <2> QED
    BY <1>4, <2>2, <2>3, <2>4 DEF Accepted, TypeInv, Shape, Stands, Early, Late, EngineSteps, Backwards
<1> QED
  BY <1>1, <1>2, <1>3, <1>4 DEF UserStep

LEMMA WorkerTypes ==
  ASSUME TypeInv, Shape, WorkerStep
  PROVE  TypeInv'
<1> USE DEF At, Goes
<1>1. CASE Announces
  BY <1>1 DEF Announces, TypeInv, Workers, Places, EngineSteps
<1>2. CASE StopsService
  <2>1. disk' \in Disks /\ service' \in Services
    BY <1>2, DatabaseType, DataIsDisjoint DEF StopsService, TypeInv, Services, Down
  <2> QED
    BY <1>2, <2>1 DEF StopsService, TypeInv, Workers, Places, EngineSteps
<1>3. CASE TakesCheckpoint
  BY <1>3 DEF TakesCheckpoint, TypeInv, Workers, Places, EngineSteps
<1>4. CASE EngineBegins
  BY <1>4 DEF EngineBegins, TypeInv, Workers, Places, EngineSteps
<1>5. CASE EngineRefuses
  BY <1>5, RecoveringType DEF EngineRefuses, TypeInv, Onward
<1>6. CASE WritesConfig
  <2>1. disk' \in Disks
    BY <1>6, ItemType DEF WritesConfig, TypeInv, Disks, Workers
  <2> QED
    BY <1>6, <2>1 DEF WritesConfig, TypeInv, Workers, Places, EngineSteps
<1>7. CASE WritesDatabase
  <2>1. disk' \in Disks
    BY <1>7, RequiredItems DEF WritesDatabase, TypeInv, Disks, Workers, Required, EngineSteps
  <2> QED
    BY <1>7, <2>1 DEF WritesDatabase, TypeInv, Workers, Places, EngineSteps
<1>8. CASE DropsJournal
  BY <1>8 DEF DropsJournal, TypeInv, Disks, Workers, Places, EngineSteps
<1>9. CASE WritesEnv
  <2>1. disk' \in Disks
    BY <1>9, RequiredItems DEF WritesEnv, TypeInv, Disks, Workers, Required, EngineSteps
  <2> QED
    BY <1>9, <2>1 DEF WritesEnv, TypeInv, Workers, Places, EngineSteps
<1>10. CASE Validates
  BY <1>10 DEF Validates, TypeInv, Workers, Places, EngineSteps, Verdicts
<1>11. CASE Unreadable
  BY <1>11, PuttingBackType DEF Unreadable, TypeInv, Shape, Stands, Late, EngineSteps, Backwards, Onward
<1>12. CASE PutsBack
  <2>1. PICK file \in worker.left :
          /\ disk' = PutBack(disk, worker.before, file)
          /\ worker' = [worker EXCEPT !.left = @ \ {file}, !.spent = @ \/ ~At("undo")]
    BY <1>12 DEF PutsBack
  <2>2. worker.before \in Disks /\ file \in {"db", "journal", "env", "config", "gone"}
    BY <1>12 DEF PutsBack, Shape, Stands, Late, Backwards, TypeInv, Workers
  <2>3. disk' \in Disks
    BY <2>1, <2>2 DEF PutBack, TypeInv, Disks
  <2>4. worker' \in Workers /\ worker'.archive = worker.archive /\ worker'.at = worker.at
    BY <2>1 DEF TypeInv, Workers
  <2>5. strayed' \subseteq Strays
    BY <1>12 DEF PutsBack, TypeInv, Strays
  <2> QED
    BY <1>12, <2>3, <2>4, <2>5 DEF PutsBack, TypeInv
<1>13. CASE IsBack
  <2>1. /\ worker' \in Workers /\ worker'.archive = worker.archive
        /\ worker'.at \in {"start", "restart", "revive"}
    BY <1>13 DEF IsBack, TypeInv, Workers, Places, Verdicts
  <2> QED
    BY <1>13, <2>1 DEF IsBack, TypeInv, EngineSteps
<1>14. CASE Starts \/ StartsUnhealthy
  <2>1. PICK up \in BOOLEAN, healthy \in {TRUE, FALSE} : Runs(up) /\ worker' = Judged(healthy)
    BY <1>14 DEF Starts, StartsUnhealthy
  <2>2. disk' \in Disks /\ service' \in Services
    BY <2>1, RunsType DEF TypeInv
  <2>3. Onward(worker')
    BY <1>14, <2>1, JudgedType DEF Starts, StartsUnhealthy, TypeInv, Shape
  <2>4. faults' \in 0 .. MaxFaults
    <3>1. faults' = faults \/ (faults < MaxFaults /\ faults' = faults + 1)
      <4>1. CASE Starts
        BY <4>1 DEF Starts
      <4>2. CASE StartsUnhealthy /\ Servable(disk)
        BY <4>2 DEF StartsUnhealthy
      <4>3. CASE StartsUnhealthy /\ ~Servable(disk)
        BY <4>3 DEF StartsUnhealthy
      <4> QED
        BY <1>14, <4>1, <4>2, <4>3
    <3> QED
      BY <3>1, RestoreConstants DEF TypeInv
  <2>5. UNCHANGED <<backup, outcome, restores, strayed>>
    BY <1>14 DEF Starts, StartsUnhealthy
  <2> QED
    BY <2>2, <2>3, <2>4, <2>5 DEF TypeInv, Onward
<1>15. CASE AppliesSettings
  <2>1. disk' \in Disks
    BY <1>15, ItemType DEF AppliesSettings, TypeInv, Disks, Workers, Found
  <2> QED
    BY <1>15, <2>1, EndingType DEF AppliesSettings, TypeInv, Shape, Stands, Late, Verdicts, Onward
<1>16. CASE Finishes
  <2>1. outcome' \in [state : {"idle", "in_progress"} \cup Verdicts, ok : BOOLEAN]
    BY <1>16 DEF Finishes, TypeInv, Shape, Stands, Workers
  <2> QED
    BY <1>16, <2>1, NoArchiveKnown DEF Finishes, TypeInv, Workers, Idle, Places, EngineSteps
<1> QED
  BY <1>1, <1>2, <1>3, <1>4, <1>5, <1>6, <1>7, <1>8, <1>9, <1>10, <1>11, <1>12, <1>13,
     <1>14, <1>15, <1>16 DEF WorkerStep

LEMMA FaultTypes ==
  ASSUME TypeInv, Shape, FaultStep
  PROVE  TypeInv'
<1> USE DEF At, Goes
<1>0. Fault => faults' \in 0 .. MaxFaults
  BY RestoreConstants DEF Fault, TypeInv
<1>1. CASE AnnounceFails
  BY <1>0, <1>1, NoArchiveKnown DEF AnnounceFails, TypeInv, Workers, Idle, Places, EngineSteps
<1>2. CASE StopFails
  <2>1. service' \in Services
    <3>1. service' = service \/ service' = Down
      BY <1>2 DEF StopFails
    <3> QED
      BY <3>1, DownType DEF TypeInv
  <2>2. backup' \in [at : {"none", "viewed", "snapshot", "made"}, items : Backups]
    BY <1>2 DEF StopFails, TypeInv
  <2> QED
    BY <1>0, <1>2, <2>1, <2>2, RecoveringType DEF StopFails, TypeInv, Onward
<1>3. CASE EngineFails
  <2>1. disk' \in Disks
    BY <1>3, RequiredItems DEF EngineFails, TypeInv, Disks, Workers, Required, EngineSteps
  <2> QED
    BY <1>0, <1>3, <2>1, PuttingBackType
    DEF EngineFails, TypeInv, Shape, Stands, Late, EngineSteps, Backwards, Onward
<1>4. CASE PutBackFails
  <2>1. Onward(worker')
    <3>1. CASE At("undo")
      BY <1>4, <3>1 DEF PutBackFails, Onward, TypeInv, Shape, Stands, Workers, Places, Verdicts,
                       Early, Late, Backwards, EngineSteps
    <3>2. CASE ~At("undo")
      BY <1>4, <3>2, RecoveringType, EndingType
      DEF PutBackFails, TypeInv, Shape, Stands, Late, Backwards, Verdicts
    <3> QED
      BY <3>1, <3>2
  <2> QED
    BY <1>0, <1>4, <2>1 DEF PutBackFails, TypeInv, Onward, Strays
<1>5. CASE StartRaises
  BY <1>0, <1>5, RecoveringType, EndingType
  DEF StartRaises, TypeInv, Shape, Stands, Starting, Late, Verdicts, Onward
<1>6. CASE FinishFails
  <2>1. Onward(worker') \/ worker' = Idle
    BY <1>6, RecoveringType DEF FinishFails, TypeInv
  <2>2. worker' \in Workers /\ HoldsNoKey(worker'.archive) /\ worker'.at \notin EngineSteps
    BY <2>1, IdleType DEF TypeInv, Onward
  <2> QED
    BY <1>0, <1>6, <2>2 DEF FinishFails, TypeInv
<1>7. CASE WorkerKilled \/ PowerLost
  <2>1. worker' = Idle /\ faults' \in 0 .. MaxFaults /\ strayed' \subseteq Strays
    BY <1>0, <1>7 DEF WorkerKilled, PowerLost, Ends, TypeInv, Strays
  <2>2. disk' \in Disks /\ service' \in Services
    <3>1. CASE WorkerKilled
      BY <3>1 DEF WorkerKilled, TypeInv
    <3>2. CASE PowerLost
      <4>1. Cached(disk) \in [env : Data, config : Data]
        BY DataIsDisjoint DEF TypeInv, Cached, Disks
      <4> QED
        BY <3>2, <4>1, DatabaseType DEF PowerLost, TypeInv, Services
    <3> QED
      BY <1>7, <3>1, <3>2
  <2>3. backup' \in [at : {"none", "viewed", "snapshot", "made"}, items : Backups]
    BY <1>7 DEF WorkerKilled, PowerLost, TypeInv
  <2>4. UNCHANGED <<outcome, restores>>
    BY <1>7 DEF WorkerKilled, PowerLost
  <2> QED
    BY <2>1, <2>2, <2>3, <2>4, IdleType DEF TypeInv
<1>8. CASE CheckpointFails \/ EngineRaises
  BY <1>0, <1>8, RecoveringType DEF CheckpointFails, EngineRaises, TypeInv, Onward
<1> QED
  BY <1>1, <1>2, <1>3, <1>4, <1>5, <1>6, <1>7, <1>8 DEF FaultStep

LEMMA WorkerShape ==
  ASSUME TypeInv, Shape, WorkerStep
  PROVE  Shape'
<1> USE DEF At, Goes
<1> DEFINE Keeps == Stands(worker') /\ worker'.at \notin {"idle", "announce"}
<1>0. worker \in Workers
  BY DEF TypeInv
<1>1. CASE Announces
  BY <1>1 DEF Announces, TypeInv, Workers, Shape, Stands, Early, Late, Backwards, EngineSteps
<1>2. CASE StopsService \/ TakesCheckpoint
  <2>1. Keeps
    <3>1. CASE StopsService
      BY <1>0, <3>1
      DEF StopsService, Workers, Shape, Stands, Early, Late, Backwards, EngineSteps
    <3>2. CASE TakesCheckpoint
      <4>1. worker'.at = "engine" /\ worker'.before # None
        BY <1>0, <3>2, NoneIsNoDisk DEF TakesCheckpoint, TypeInv, Workers
      <4> QED
        BY <4>1 DEF Stands, Early
    <3> QED
      BY <1>2, <3>1, <3>2
  <2> QED
    BY <1>2, <2>1 DEF StopsService, TakesCheckpoint, Shape
<1>3. CASE EngineBegins \/ WritesConfig \/ WritesDatabase \/ DropsJournal \/ WritesEnv \/ Validates
  <2>1. Keeps
    <3>1. /\ worker.at \in {"engine"} \cup EngineSteps
          /\ worker'.at \in {"start"} \cup EngineSteps
          /\ worker'.before = worker.before
          /\ worker'.at = "start" => worker'.verdict = "restored"
      BY <1>0, <1>3 DEF EngineBegins, WritesConfig, WritesDatabase, DropsJournal, WritesEnv,
                        Validates, Workers, EngineSteps
    <3> QED
      BY <3>1 DEF Shape, Stands, Early, Late, EngineSteps, Verdicts
  <2>2. outcome' = outcome
    BY <1>3 DEF EngineBegins, WritesConfig, WritesDatabase, DropsJournal, WritesEnv, Validates
  <2>3. worker.at \notin {"idle", "announce"}
    BY <1>3 DEF EngineBegins, WritesConfig, WritesDatabase, DropsJournal, WritesEnv, Validates
  <2> QED
    BY <2>1, <2>2, <2>3 DEF Shape
<1>4. CASE EngineRefuses
  BY <1>0, <1>4, RecoveringType DEF EngineRefuses, Onward, Shape
<1>5. CASE Unreadable
  BY <1>0, <1>5, PuttingBackType
  DEF Unreadable, Onward, Shape, Stands, Late, EngineSteps, Backwards
<1>6. CASE PutsBack
  <2>1. PICK file \in worker.left :
          worker' = [worker EXCEPT !.left = @ \ {file}, !.spent = @ \/ ~At("undo")]
    BY <1>6 DEF PutsBack
  <2>2. Keeps
    BY <1>0, <1>6, <2>1
    DEF PutsBack, Workers, Shape, Stands, Early, Late, Backwards, EngineSteps
  <2> QED
    BY <1>6, <2>2 DEF PutsBack, Shape
<1>7. CASE IsBack
  <2>1. Keeps
    BY <1>0, <1>7 DEF IsBack, Workers, Shape, Stands, Early, Late, Backwards, EngineSteps, Verdicts
  <2> QED
    BY <1>7, <2>1 DEF IsBack, Shape
<1>8. CASE Starts \/ StartsUnhealthy
  <2>1. PICK healthy \in {TRUE, FALSE} : worker' = Judged(healthy)
    BY <1>8 DEF Starts, StartsUnhealthy
  <2>2. Starting /\ outcome' = outcome
    BY <1>8 DEF Starts, StartsUnhealthy
  <2>3. Keeps
    BY <1>0, <2>1, <2>2, JudgedType DEF Shape, Onward
  <2> QED
    BY <2>2, <2>3 DEF Shape, Starting
<1>9. CASE AppliesSettings
  BY <1>0, <1>9, EndingType DEF AppliesSettings, Onward, Shape, Stands, Late, Verdicts
<1>10. CASE Finishes
  BY <1>10 DEF Finishes, Shape, Stands, Idle, Early, Late, Backwards, EngineSteps
<1> QED
  BY <1>1, <1>2, <1>3, <1>4, <1>5, <1>6, <1>7, <1>8, <1>9, <1>10 DEF WorkerStep

LEMMA FaultShape ==
  ASSUME TypeInv, Shape, FaultStep
  PROVE  Shape'
<1> USE DEF At, Goes
<1>0. worker \in Workers
  BY DEF TypeInv
<1>1. CASE worker' = Idle
  BY <1>1 DEF Shape, Stands, Idle, Early, Late, Backwards, EngineSteps
<1>2. CASE StopFails \/ CheckpointFails \/ EngineRaises
  BY <1>0, <1>2, RecoveringType DEF StopFails, CheckpointFails, EngineRaises, Onward, Shape
<1>3. CASE EngineFails
  BY <1>0, <1>3, PuttingBackType
  DEF EngineFails, Onward, Shape, Stands, Late, EngineSteps, Backwards
<1>4. CASE PutBackFails
  <2>1. Stands(worker') /\ worker'.at \notin {"idle", "announce"}
    <3>1. CASE At("undo")
      BY <1>0, <1>4, <3>1
      DEF PutBackFails, Workers, Shape, Stands, Early, Late, Backwards, EngineSteps, Verdicts
    <3>2. CASE At("back")
      BY <1>0, <1>4, <3>2, RecoveringType DEF PutBackFails, Onward
    <3>3. CASE At("recover")
      BY <1>0, <1>4, <3>3, EndingType
      DEF PutBackFails, Onward, Shape, Stands, Late, Backwards, Verdicts
    <3> QED
      BY <1>4, <3>1, <3>2, <3>3 DEF PutBackFails
  <2> QED
    BY <1>4, <2>1 DEF PutBackFails, Shape
<1>5. CASE StartRaises
  <2>1. CASE At("revive")
    BY <1>0, <1>5, <2>1, EndingType DEF StartRaises, Onward, Shape, Stands, Verdicts
  <2>2. CASE ~At("revive")
    BY <1>0, <1>5, <2>2, RecoveringType DEF StartRaises, Starting, Onward, Shape
  <2> QED
    BY <2>1, <2>2
<1>6. CASE FinishFails
  BY <1>0, <1>1, <1>6, RecoveringType DEF FinishFails, Onward, Shape
<1> QED
  BY <1>1, <1>2, <1>3, <1>4, <1>5, <1>6
  DEF FaultStep, AnnounceFails, WorkerKilled, PowerLost, Ends

LEMMA TypesAreKept ==
  ASSUME TypeInv, Shape, [RestoreNext]_vars
  PROVE  TypeInv' /\ Shape'
<1>1. CASE UNCHANGED vars
  BY <1>1 DEF vars, TypeInv, Shape, Stands
<1> QED
  BY <1>1, UserTypes, WorkerTypes, WorkerShape, FaultTypes, FaultShape DEF RestoreNext

(* RestoreTypeOK: through every restore, backup, fault and kill the files   *)
(* the dashboard needs are there, and no archive puts a private key there.  *)
THEOREM RestoreTypeCorrect == RestoreSpec => []RestoreTypeOK
<1>1. RestoreInit => TypeInv /\ Shape
  BY InitType
<1>2. (TypeInv /\ Shape) /\ [RestoreNext]_vars => (TypeInv /\ Shape)'
  BY TypesAreKept
<1>3. TypeInv /\ Shape => RestoreTypeOK
  BY DEF TypeInv, RestoreTypeOK, Services, Workers
<1> QED
  BY <1>1, <1>2, <1>3, PTL DEF RestoreSpec

-----------------------------------------------------------------------------
(* How far the files have come, from the checkpoint to the moment the       *)
(* worker knows what is in force: the drop-in is left alone, the engine has *)
(* written what it has passed, and what is not left to put back is back.    *)
NewConfig ==
  IF Item(worker.archive, "config.json") = Absent THEN worker.before.config
  ELSE Item(worker.archive, "config.json")

Past(places) == worker.at \in places \/ (At("start") /\ worker.verdict = "restored")

Written ==
  /\ Past({"database", "journal", "env", "validate"}) => disk.config = NewConfig
  /\ Past({"journal", "env", "validate"}) => disk.db = Item(worker.archive, "ccc.db")
  /\ Past({"env", "validate"}) => disk.journal = NoJournal
  /\ Past({"validate"}) => disk.env = Item(worker.archive, "env.subset")

Left(file) == worker.at \in Backwards /\ file \in worker.left

Returns ==
  \/ worker.at \in Backwards \cup {"restart"}
  \/ At("revive") /\ worker.before # None
  \/ At("start") /\ worker.verdict = "rolled_back"

Returned ==
  Returns =>
    /\ Left("db") \/ disk.db = worker.before.db
    /\ Left("journal") \/ Left("gone") \/ disk.journal = worker.before.journal
    /\ Left("env") \/ disk.env = worker.before.env
    /\ Left("config") \/ disk.config = worker.before.config \/ worker.before.config = Absent

Aside ==
  Midway => /\ disk.dropin = worker.before.dropin
            /\ disk.config \in {worker.before.config, NewConfig}

Progress == Aside /\ Written /\ Returned

(* Where no restore is midway there is nothing to say. *)
LEMMA NotMidway ==
  ASSUME Shape, ~Midway
  PROVE  Progress
BY DEF Shape, Stands, Midway, Progress, Aside, Written, Returned, Returns, Past, Late, Backwards,
       EngineSteps, At

LEMMA NotMidwayNext ==
  ASSUME Shape', ~Midway'
  PROVE  Progress'
BY DEF Shape, Stands, Midway, Progress, Aside, Written, Returned, Returns, Past, Late, Backwards,
       EngineSteps, At

(* Whoever starts to put back has everything left to do. *)
LEMMA AllIsLeft ==
  ASSUME worker' \in Workers, worker'.before # None, worker'.at \in Backwards,
         worker'.left = Captured(worker'.before), Aside'
  PROVE  Progress'
<1>1. Written'
  BY DEF Written, Past, At, Backwards
<1>2. Returned'
  BY DEF Returned, Left, Captured
<1> QED
  BY <1>1, <1>2 DEF Progress

(* The files the worker works on, and its checkpoint, are kept. *)
Keeps ==
  /\ worker'.archive = worker.archive /\ worker'.before = worker.before
  /\ disk'.dropin = disk.dropin /\ disk'.config = disk.config

LEMMA AsideIsKept ==
  ASSUME Midway, Aside, Keeps
  PROVE  Aside'
BY DEF Midway, Aside, Keeps, NewConfig, At

LEMMA EngineProgress ==
  ASSUME TypeInv, Shape, Progress, TypeInv', Shape',
         \/ EngineBegins \/ WritesConfig \/ WritesDatabase \/ DropsJournal \/ WritesEnv
         \/ Validates
  PROVE  Progress'
<1> USE DEF At, Goes
<1>0. /\ worker \in Workers /\ disk \in Disks
      /\ worker.at \in {"engine"} \cup EngineSteps /\ worker.before # None
      /\ Midway /\ Aside /\ Written
  BY DEF TypeInv, Shape, Stands, Midway, Progress, Late, EngineSteps,
         EngineBegins, WritesConfig, WritesDatabase, DropsJournal, WritesEnv, Validates
<1>1. CASE EngineBegins
  BY <1>0, <1>1 DEF EngineBegins, Workers, Progress, Aside, Midway, NewConfig, Written, Past,
                    Returned, Returns, Backwards
<1>2. CASE WritesConfig
  BY <1>0, <1>2 DEF WritesConfig, Workers, Disks, Progress, Aside, Midway, NewConfig, Written,
                    Past, Returned, Returns, Backwards
<1>3. CASE WritesDatabase
  BY <1>0, <1>3 DEF WritesDatabase, Workers, Disks, Progress, Aside, Midway, NewConfig, Written,
                    Past, Returned, Returns, Backwards
<1>4. CASE DropsJournal
  BY <1>0, <1>4 DEF DropsJournal, Workers, Disks, Progress, Aside, Midway, NewConfig, Written,
                    Past, Returned, Returns, Backwards
<1>5. CASE WritesEnv
  BY <1>0, <1>5 DEF WritesEnv, Workers, Disks, Progress, Aside, Midway, NewConfig, Written,
                    Past, Returned, Returns, Backwards
<1>6. CASE Validates
  BY <1>0, <1>6 DEF Validates, Workers, Progress, Aside, Midway, NewConfig, Written, Past,
                    Returned, Returns, Backwards
<1> QED
  BY <1>1, <1>2, <1>3, <1>4, <1>5, <1>6

LEMMA PuttingBackIs ==
  ASSUME worker \in Workers, NEW place
  PROVE  /\ PuttingBack(place).at = place /\ PuttingBack(place).left = Captured(worker.before)
         /\ PuttingBack(place).before = worker.before
         /\ PuttingBack(place).archive = worker.archive
BY DEF PuttingBack, Workers

LEMMA EndingIs ==
  ASSUME worker \in Workers, NEW verdict, NEW ok
  PROVE  /\ Ending(verdict, ok).at = "finish" /\ Ending(verdict, ok).verdict = verdict
         /\ Ending(verdict, ok).before = worker.before
         /\ Ending(verdict, ok).archive = worker.archive
BY DEF Ending, Workers

LEMMA RecoveringIs ==
  ASSUME worker \in Workers
  PROVE  /\ worker.before = None => Recovering.at = "revive"
         /\ worker.before # None /\ worker.spent =>
              Recovering.at = "finish" /\ Recovering.verdict = "rollback_failed"
         /\ worker.before # None /\ ~worker.spent =>
              Recovering.at = "recover" /\ Recovering.left = Captured(worker.before)
<1> DEFINE w == [worker EXCEPT !.recovering = TRUE]
<1>1. w \in Workers /\ w.before = worker.before /\ w.spent = worker.spent
  BY DEF Workers
<1>2. CASE worker.before = None
  <2>1. Recovering = [w EXCEPT !.at = "revive"]
    BY <1>1, <1>2 DEF Recovering
  <2> HIDE DEF w
  <2> QED
    BY <1>1, <1>2, <2>1 DEF Workers
<1>3. CASE worker.before # None /\ worker.spent
  <2> DEFINE e == Ending("rollback_failed", FALSE)
  <2>1. Recovering = [e EXCEPT !.recovering = TRUE]
    BY <1>3 DEF Recovering, Workers
  <2>2. e.at = "finish" /\ e.verdict = "rollback_failed" /\ e \in Workers
    BY EndingIs DEF Ending, Workers, Places, Verdicts
  <2> HIDE DEF e
  <2> QED
    BY <1>3, <2>1, <2>2 DEF Workers
<1>4. CASE worker.before # None /\ ~worker.spent
  <2> DEFINE e == PuttingBack("recover")
  <2>1. Recovering = [e EXCEPT !.recovering = TRUE]
    BY <1>4 DEF Recovering, Workers
  <2>2. e.at = "recover" /\ e.left = Captured(worker.before)
    BY PuttingBackIs
  <2>3. e \in Workers
    BY <1>4, PuttingBackType DEF Onward, Backwards
  <2> HIDE DEF e
  <2> QED
    BY <1>4, <2>1, <2>2, <2>3 DEF Workers
<1> QED
  BY <1>2, <1>3, <1>4

(* From an exception of the worker there is nothing to say but that the     *)
(* files it never touches are as they were.                                 *)
LEMMA RecoveringProgress ==
  ASSUME TypeInv, Shape, Progress, TypeInv', Shape', worker' = Recovering, UNCHANGED disk,
         Midway \/ worker.before = None \/ worker.spent
  PROVE  Progress'
<1>0. worker \in Workers /\ Onward(Recovering)
  BY RecoveringType DEF TypeInv
<1>1. CASE worker.before = None \/ worker.spent
  BY <1>0, <1>1, RecoveringIs, NotMidwayNext DEF Onward, Midway, At
<1>2. CASE worker.before # None /\ ~worker.spent
  <2>1. Aside'
    BY <1>0, <1>2, AsideIsKept DEF Keeps, Onward, Progress
  <2> QED
    BY <1>0, <1>2, <2>1, RecoveringIs, AllIsLeft DEF Onward, Backwards
<1> QED
  BY <1>1, <1>2

LEMMA PutsBackProgress ==
  ASSUME TypeInv, Shape, Progress, PutsBack
  PROVE  Progress'
<1> USE DEF At
<1>1. PICK file \in worker.left :
        /\ disk' = PutBack(disk, worker.before, file)
        /\ worker' = [worker EXCEPT !.left = @ \ {file}, !.spent = @ \/ ~At("undo")]
  BY DEF PutsBack
<1>2. /\ worker \in Workers /\ disk \in Disks /\ worker.before \in Disks
      /\ worker.at \in Backwards /\ file \in {"db", "journal", "env", "config", "gone"}
  BY DEF PutsBack, TypeInv, Shape, Stands, Late, Workers, Backwards
<1>3. /\ worker'.at = worker.at /\ worker'.before = worker.before
      /\ worker'.archive = worker.archive /\ worker'.left = worker.left \ {file}
  BY <1>1, <1>2 DEF Workers
<1>4. Midway
  BY <1>2, NoneIsNoDisk DEF Midway, Backwards
<1>5. disk'.dropin = disk.dropin /\ disk'.config \in {disk.config, worker.before.config}
  BY <1>1, <1>2 DEF PutBack, Disks
<1>6. Aside'
  BY <1>3, <1>4, <1>5 DEF Progress, Aside, NewConfig, Midway
<1>7. Written'
  BY <1>2, <1>3 DEF Written, Past, Backwards
<1>8. /\ disk.db = worker.before.db \/ file = "db" \/ (Left("db") /\ file # "db")
      /\ disk'.db = IF file = "db" THEN worker.before.db ELSE disk.db
      /\ disk'.env = IF file = "env" THEN worker.before.env ELSE disk.env
      /\ disk'.config = IF file = "config" THEN worker.before.config ELSE disk.config
      /\ disk'.journal = IF file \in {"journal", "gone"} THEN worker.before.journal
                         ELSE disk.journal
  BY <1>1, <1>2 DEF PutBack, Disks, Progress, Returned, Returns, Left
<1>9. Returned'
  BY <1>2, <1>3, <1>8 DEF Progress, Returned, Returns, Left
<1> QED
  BY <1>6, <1>7, <1>9 DEF Progress

LEMMA IsBackProgress ==
  ASSUME TypeInv, Shape, Progress, IsBack
  PROVE  Progress'
<1> USE DEF At
<1>1. /\ worker \in Workers /\ worker.at \in Backwards /\ worker.left = {}
      /\ worker.before # None
  BY DEF IsBack, TypeInv, Shape, Stands, Late, Backwards
<1>2. /\ worker'.before = worker.before /\ worker'.archive = worker.archive
      /\ \/ worker'.at = "start" /\ worker'.verdict = "rolled_back"
         \/ worker'.at \in {"restart", "revive"}
  BY <1>1 DEF IsBack, Workers
<1>3. disk' = disk
  BY DEF IsBack
<1>4. Midway
  BY <1>1 DEF Midway, Backwards
<1>5. Aside'
  BY <1>2, <1>3, <1>4, AsideIsKept DEF Keeps, Progress
<1>6. Written'
  BY <1>2 DEF Written, Past
<1>7. Returned'
  BY <1>1, <1>2, <1>3 DEF Progress, Returned, Returns, Left, Backwards
<1> QED
  BY <1>5, <1>6, <1>7 DEF Progress

LEMMA StartsProgress ==
  ASSUME TypeInv, Shape, Progress, TypeInv', Shape', Starts \/ StartsUnhealthy
  PROVE  Progress'
<1> USE DEF At
<1>1. PICK up \in BOOLEAN, healthy \in {TRUE, FALSE} : Runs(up) /\ worker' = Judged(healthy)
  BY DEF Starts, StartsUnhealthy
<1>2. worker \in Workers /\ disk \in Disks /\ Starting /\ Stands(worker)
  BY DEF Starts, StartsUnhealthy, TypeInv, Shape
<1>3. disk' \in {disk, Folded(disk)}
  BY <1>1, RunsType DEF TypeInv
<1>4. CASE worker' = PuttingBack("back")
  <2>1. /\ worker'.at = "back" /\ worker'.left = Captured(worker'.before)
        /\ worker'.before = worker.before /\ worker'.archive = worker.archive
    BY <1>2, <1>4, PuttingBackIs
  <2>2. worker'.before # None
    BY <2>1 DEF Shape, Stands, Late, Backwards
  <2>3. Midway
    BY <1>2, <2>1, <2>2 DEF Midway, Starting
  <2>4. Keeps
    BY <1>2, <1>3, <2>1 DEF Keeps, Folded, Disks
  <2>5. Aside'
    BY <2>3, <2>4, AsideIsKept DEF Progress
  <2> QED
    BY <2>1, <2>2, <2>5, AllIsLeft DEF TypeInv, Backwards
<1>5. CASE worker' # PuttingBack("back")
  <2>1. worker' = [worker EXCEPT !.at = "settings"] \/ \E verdict, ok : worker' = Ending(verdict, ok)
    BY <1>1, <1>2, <1>5, JudgedCases DEF Starting
  <2>2. worker'.at \in {"settings", "finish"}
    BY <1>2, <2>1, EndingIs DEF Workers
  <2> QED
    BY <2>2, NotMidwayNext DEF Midway
<1> QED
  BY <1>4, <1>5

LEMMA FaultProgress ==
  ASSUME TypeInv, Shape, Progress, TypeInv', Shape', FaultStep
  PROVE  Progress'
<1> USE DEF At
<1>0. worker \in Workers /\ disk \in Disks /\ Stands(worker)
  BY DEF TypeInv, Shape
<1>1. CASE worker' = Idle
  BY <1>1, NotMidwayNext DEF Idle, Midway
<1>2. CASE StopFails \/ CheckpointFails
  BY <1>0, <1>2, RecoveringProgress DEF StopFails, CheckpointFails, Stands, Early
<1>3. CASE EngineFails
  <2>1. worker.at \in EngineSteps /\ worker' = PuttingBack("undo") /\ worker.before # None
    BY <1>0, <1>3 DEF EngineFails, EngineSteps, Stands, Late
  <2>2. /\ worker'.at = "undo" /\ worker'.left = Captured(worker'.before)
        /\ worker'.before = worker.before /\ worker'.archive = worker.archive
    BY <1>0, <2>1, PuttingBackIs
  <2>3. disk'.dropin = disk.dropin /\ disk'.config = disk.config
    BY <1>0, <1>3 DEF EngineFails, Disks
  <2>4. Aside'
    BY <2>1, <2>2, <2>3, AsideIsKept DEF Keeps, Progress, Midway, EngineSteps
  <2> QED
    BY <2>1, <2>2, <2>4, AllIsLeft DEF TypeInv, Backwards
<1>4. CASE PutBackFails
  <2>1. worker.at \in Backwards /\ worker.before # None /\ disk' = disk /\ Midway
    BY <1>0, <1>4 DEF PutBackFails, Backwards, Stands, Late, Midway
  <2>2. CASE worker.at = "undo"
    <3>1. worker' = [worker EXCEPT !.at = "start", !.verdict = "rollback_failed"]
      BY <1>4, <2>2 DEF PutBackFails
    <3>2. /\ worker'.at = "start" /\ worker'.verdict = "rollback_failed"
          /\ worker'.before = worker.before /\ worker'.archive = worker.archive
      BY <1>0, <3>1 DEF Workers
    <3>3. Aside'
      BY <2>1, <3>2, AsideIsKept DEF Keeps, Progress
    <3> QED
      BY <3>2, <3>3 DEF Progress, Written, Past, Returned, Returns, Backwards
  <2>3. CASE worker.at = "back"
    BY <1>4, <2>1, <2>3, RecoveringProgress DEF PutBackFails
  <2>4. CASE worker.at = "recover"
    <3>1. worker'.at = "finish"
      BY <1>0, <1>4, <2>4 DEF PutBackFails, Ending, Workers
    <3> QED
      BY <3>1, NotMidwayNext DEF Midway
  <2> QED
    BY <2>1, <2>2, <2>3, <2>4 DEF Backwards
<1>5. CASE StartRaises
  <2>1. Starting /\ disk' = disk /\ (Midway \/ worker.before = None)
    <3>1. Starting /\ disk' = disk
      BY <1>5 DEF StartRaises
    <3> QED
      BY <3>1 DEF Starting, Midway
  <2>2. CASE worker.at = "revive"
    <3>1. worker'.at = "finish"
      BY <1>0, <1>5, <2>2 DEF StartRaises, Ending, Workers
    <3> QED
      BY <3>1, NotMidwayNext DEF Midway
  <2>3. CASE worker.at # "revive"
    BY <1>5, <2>1, <2>3, RecoveringProgress DEF StartRaises
  <2> QED
    BY <2>2, <2>3
<1>6. CASE FinishFails
  <2>1. worker.spent /\ disk' = disk
    BY <1>0, <1>6 DEF FinishFails, Stands
  <2> QED
    BY <1>1, <1>6, <2>1, RecoveringProgress DEF FinishFails
<1>7. CASE EngineRaises
  BY <1>0, <1>7, RecoveringProgress DEF EngineRaises, Midway
<1> QED
  BY <1>1, <1>2, <1>3, <1>4, <1>5, <1>6, <1>7
  DEF FaultStep, AnnounceFails, WorkerKilled, PowerLost, Ends

LEMMA ProgressIsKept ==
  ASSUME TypeInv, Shape, Progress, [RestoreNext]_vars
  PROVE  Progress'
<1> USE DEF At, Goes
<1>0. TypeInv' /\ Shape' /\ worker \in Workers
  BY TypesAreKept DEF TypeInv
<1>1. CASE UNCHANGED vars
  BY <1>1 DEF vars, Progress, Aside, Written, Returned, Returns, Left, Past, NewConfig, Midway
<1>2. CASE UserStep
  <2>1. ~Midway'
    <3>1. CASE Writes \/ ChangesPassword \/ BackupStep
      BY <3>1 DEF Writes, ChangesPassword, BackupStep, BackupViewsConduit, BackupSnapshots,
         BackupCollects, Serving, Midway, Shape, Stands, Early
    <3>2. CASE Accepted
      BY <3>2 DEF Accepted, Midway, Idle
    <3> QED
      BY <1>2, <3>1, <3>2 DEF UserStep
  <2> QED
    BY <1>0, <2>1, NotMidwayNext
<1>3. CASE Announces \/ StopsService \/ AppliesSettings \/ Finishes
  <2>1. ~Midway'
    <3>1. CASE Announces \/ StopsService
      BY <1>0, <3>1 DEF Announces, StopsService, Midway, Workers, Shape, Stands, Early
    <3>2. CASE AppliesSettings
      BY <1>0, <3>2 DEF AppliesSettings, Ending, Workers, Midway
    <3>3. CASE Finishes
      BY <3>3 DEF Finishes, Midway, Idle
    <3> QED
      BY <1>3, <3>1, <3>2, <3>3
  <2> QED
    BY <1>0, <2>1, NotMidwayNext
<1>4. CASE TakesCheckpoint
  BY <1>0, <1>4
  DEF TakesCheckpoint, Workers, Progress, Aside, Written, Returned, Returns, Left, Past, Backwards
<1>5. CASE EngineBegins \/ WritesConfig \/ WritesDatabase \/ DropsJournal \/ WritesEnv \/ Validates
  BY <1>0, <1>5, EngineProgress
<1>6. CASE EngineRefuses
  BY <1>0, <1>6, RecoveringProgress DEF EngineRefuses, Midway
<1>7. CASE Unreadable
  <2>1. worker.before # None /\ Midway /\ worker' = PuttingBack("undo") /\ disk' = disk
    BY <1>7 DEF Unreadable, Shape, Stands, Late, EngineSteps, Midway
  <2>2. Aside'
    BY <1>0, <2>1, PuttingBackIs, AsideIsKept DEF Keeps, Progress
  <2> QED
    BY <1>0, <2>1, <2>2, PuttingBackIs, AllIsLeft DEF TypeInv, Backwards
<1>8. CASE PutsBack \/ IsBack
  BY <1>8, PutsBackProgress, IsBackProgress
<1>9. CASE Starts \/ StartsUnhealthy
  BY <1>0, <1>9, StartsProgress
<1>10. CASE FaultStep
  BY <1>0, <1>10, FaultProgress
<1> QED
  BY <1>1, <1>2, <1>3, <1>4, <1>5, <1>6, <1>7, <1>8, <1>9, <1>10 DEF RestoreNext, WorkerStep

-----------------------------------------------------------------------------
(* What RestorePromise sees of a state.                                     *)
Holds(d) ==
  [db |-> Database(d), env |-> d.env, secret |-> d.secret, config |-> d.config,
   dropin |-> d.dropin]

LEMMA ContentIs ==
  /\ Content = IF Midway THEN Holds(worker.before) ELSE Holds(disk)
  /\ Content' = IF Midway' THEN Holds(worker'.before) ELSE Holds(disk')
<1>1. Content = IF Midway THEN Holds(worker.before) ELSE Holds(disk)
  BY DEF Content, Holds
<1>2. Content' = IF Midway' THEN Holds(worker'.before) ELSE Holds(disk')
  BY DEF Content, Holds
<1> QED
  BY <1>1, <1>2

LEMMA FoldedHolds ==
  ASSUME NEW d \in Disks
  PROVE  Holds(Folded(d)) = Holds(d)
BY DatabaseType DEF Holds, Folded, Disks

PhaseOf(w) ==
  IF w.at = "idle" THEN "idle"
  ELSE IF w.at = "settings" THEN "committed"
  ELSE IF w.at = "finish"
  THEN IF w.verdict = "restored" THEN "committed"
       ELSE IF w.verdict = "rolled_back" THEN "reverted" ELSE "broken"
  ELSE IF w.before # None THEN "working" ELSE "asked"

LEMMA PhaseIs ==
  /\ Stands(worker) => Phase = PhaseOf(worker)
  /\ Stands(worker') => Phase' = PhaseOf(worker')
<1>1. ASSUME Stands(worker) PROVE Phase = PhaseOf(worker)
  BY <1>1 DEF Phase, PhaseOf, Midway, At, Stands, Verdicts
<1>2. ASSUME Stands(worker') PROVE Phase' = PhaseOf(worker')
  BY <1>2 DEF Phase, PhaseOf, Midway, At, Stands, Verdicts
<1> QED
  BY <1>1, <1>2

LEMMA WantedIsKept == worker'.archive = worker.archive => Wanted' = Wanted
BY DEF Wanted

LEMMA ShownIsKept ==
  ASSUME outcome' = outcome,
         worker.at \in {"idle", "announce"} <=> worker'.at \in {"idle", "announce"}
  PROVE  Shown' = Shown
BY DEF Shown

PromiseStep == [Promise!PromiseNext]_<<Content, Phase, Wanted, Shown>>

(* Between the checkpoint and its end a restore is not seen. *)
LEMMA GoesUnseen ==
  ASSUME Shape, Shape', Midway, Midway', UNCHANGED outcome,
         worker'.archive = worker.archive, worker'.before = worker.before
  PROVE  PromiseStep
<1>1. worker.at \notin {"idle", "announce"} /\ worker'.at \notin {"idle", "announce"}
  BY DEF Shape, Stands, Midway, Early
<1>2. Phase' = Phase
  BY PhaseIs DEF Shape, PhaseOf, Midway
<1> QED
  BY <1>1, <1>2, ContentIs, WantedIsKept, ShownIsKept DEF PromiseStep

LEMMA BreaksTruly ==
  ASSUME TypeInv, Shape, Progress, Shape', UNCHANGED outcome,
         worker.at \notin {"idle", "announce"}, disk' \in {disk, Folded(disk)},
         worker'.at = "finish", worker'.verdict = "rollback_failed",
         worker'.archive = worker.archive
  PROVE  PromiseStep
<1>1. Phase \in {"asked", "working", "committed", "reverted", "broken"} /\ Phase' = "broken"
  BY PhaseIs DEF Shape, PhaseOf
<1>2. Wanted' = Wanted /\ Shown' = Shown
  BY WantedIsKept, ShownIsKept
<1>3. Content' = Holds(disk')
  BY ContentIs DEF Midway
<1>4. CASE ~Midway
  <2>1. Content' = Content
    BY <1>3, <1>4, ContentIs, FoldedHolds DEF TypeInv
  <2> QED
    BY <1>1, <1>2, <2>1
    DEF PromiseStep, Promise!PromiseNext, Promise!Breaks, Promise!Moves, Promise!Untouched
<1>5. CASE Midway
  <2>1. worker.before \in Disks /\ disk \in Disks
    BY <1>5, NoneIsNoDisk DEF Midway, TypeInv, Workers
  <2>2. Phase = "working"
    BY <1>5, PhaseIs DEF Shape, PhaseOf, Midway
  <2>3. Content = Holds(worker.before) /\ Content' = Holds(disk)
    BY <1>3, <1>5, <2>1, ContentIs, FoldedHolds
  <2>4. Content'.secret = Content.secret /\ Content'.dropin = Content.dropin
    BY <1>5, <2>1, <2>3 DEF Holds, Disks, Progress, Aside
  <2> QED
    BY <1>1, <1>2, <2>2, <2>4
    DEF PromiseStep, Promise!PromiseNext, Promise!Breaks, Promise!Moves, Promise!Untouched
<1> QED
  BY <1>4, <1>5

LEMMA RevertsTruly ==
  ASSUME TypeInv, Shape, Progress, Shape', UNCHANGED outcome,
         worker.at \in {"start", "restart", "revive"}, disk' \in {disk, Folded(disk)},
         worker.at = "start" => worker.verdict = "rolled_back",
         worker'.at = "finish", worker'.verdict = "rolled_back",
         worker'.archive = worker.archive
  PROVE  PromiseStep
<1>1. Phase \in {"asked", "working"} /\ Phase' = "reverted"
  BY PhaseIs DEF Shape, PhaseOf
<1>2. Wanted' = Wanted /\ Shown' = Shown
  BY WantedIsKept, ShownIsKept
<1>3. Content' = Holds(disk)
  BY ContentIs, FoldedHolds DEF Midway, TypeInv
<1>4. Content' \in Promise!AsFound
  <2>1. CASE ~Midway
    BY <1>3, <2>1, ContentIs DEF Promise!AsFound
  <2>2. CASE Midway
    <3>1. worker.before \in Disks /\ disk \in Disks
      BY <2>2, NoneIsNoDisk DEF Midway, TypeInv, Workers
    <3>2. Returns /\ worker.at \notin Backwards
      BY <2>2 DEF Returns, Midway, At, Backwards
    <3>3. /\ disk.db = worker.before.db /\ disk.journal = worker.before.journal
          /\ disk.env = worker.before.env /\ disk.dropin = worker.before.dropin
          /\ disk.secret = worker.before.secret
      BY <2>2, <3>1, <3>2 DEF Progress, Returned, Left, Aside, Disks
    <3>4. disk.config = worker.before.config \/ worker.before.config = Absent
      BY <3>2 DEF Progress, Returned, Left
    <3>5. disk.config \in {worker.before.config, Item(worker.archive, "config.json")}
      BY <2>2 DEF Progress, Aside, NewConfig
    <3>6. Database(disk) = Database(worker.before)
      BY <3>3 DEF Database
    <3>7. Wanted.config = Item(worker.archive, "config.json")
      BY DEF Wanted
    <3>8. Content = Holds(worker.before)
      BY <2>2, ContentIs
    <3>9. CASE disk.config = worker.before.config
      BY <1>3, <3>3, <3>6, <3>8, <3>9 DEF Holds, Promise!AsFound
    <3>10. CASE disk.config # worker.before.config
      <4>1. Content.config = Absent /\ Content' = [Content EXCEPT !.config = Wanted.config]
        BY <1>3, <3>3, <3>4, <3>5, <3>6, <3>7, <3>8, <3>10 DEF Holds
      <4> QED
        BY <4>1 DEF Promise!AsFound
    <3> QED
      BY <3>9, <3>10
  <2> QED
    BY <2>1, <2>2
<1> QED
  BY <1>1, <1>2, <1>4 DEF PromiseStep, Promise!PromiseNext, Promise!Reverts, Promise!Moves

LEMMA CommitsTruly ==
  ASSUME TypeInv, Shape, Progress, Shape', UNCHANGED outcome,
         At("start"), worker.verdict = "restored", disk' \in {disk, Folded(disk)},
         worker' = [worker EXCEPT !.at = "settings"]
  PROVE  PromiseStep
<1>1. worker.before \in Disks /\ disk \in Disks /\ worker \in Workers /\ Midway
  BY DEF TypeInv, Shape, Stands, Late, Workers, Midway, At
<1>2. /\ worker'.at = "settings" /\ worker'.archive = worker.archive
      /\ worker'.before = worker.before
  BY <1>1 DEF Workers
<1>3. Phase = "working" /\ Phase' = "committed"
  BY <1>1, <1>2, PhaseIs DEF Shape, PhaseOf, Midway, At
<1>4. Wanted' = Wanted /\ Shown' = Shown
  BY <1>2, WantedIsKept, ShownIsKept DEF At
<1>5. Content = Holds(worker.before) /\ Content' = Holds(disk)
  BY <1>1, <1>2, ContentIs, FoldedHolds DEF Midway
<1>6. /\ disk.config = NewConfig /\ disk.db = Item(worker.archive, "ccc.db")
      /\ disk.journal = NoJournal /\ disk.env = Item(worker.archive, "env.subset")
      /\ disk.dropin = worker.before.dropin /\ disk.secret = worker.before.secret
  BY <1>1 DEF Progress, Written, Past, Aside, Disks, At
<1>7. Database(disk) = Item(worker.archive, "ccc.db")
  BY <1>6 DEF Database
<1>8. Content' = Promise!Restored
  <2>1. /\ Wanted.db = Item(worker.archive, "ccc.db")
        /\ Wanted.env = Item(worker.archive, "env.subset")
        /\ Wanted.config = Item(worker.archive, "config.json")
    BY DEF Wanted
  <2>2. Content.config = worker.before.config
    BY <1>5 DEF Holds
  <2>3. Promise!Restored =
          [Content EXCEPT !.db = disk.db, !.env = disk.env, !.config = disk.config]
    <3>1. disk.db = Wanted.db /\ disk.env = Wanted.env
      BY <1>6, <2>1
    <3>2. disk.config = IF Wanted.config = Absent THEN Content.config ELSE Wanted.config
      BY <1>6, <2>1, <2>2 DEF NewConfig
    <3> QED
      BY <3>1, <3>2 DEF Promise!Restored
  <2>4. Database(disk) = disk.db
    BY <1>6, <1>7
  <2> QED
    BY <1>5, <1>6, <2>3, <2>4 DEF Holds
<1> QED
  BY <1>3, <1>4, <1>8 DEF PromiseStep, Promise!PromiseNext, Promise!Commits, Promise!Moves

LEMMA StartsTruly ==
  ASSUME TypeInv, Shape, Progress, TypeInv', Shape', Starts \/ StartsUnhealthy
  PROVE  PromiseStep
<1> USE DEF At
<1>1. PICK up \in BOOLEAN, healthy \in {TRUE, FALSE} : Runs(up) /\ worker' = Judged(healthy)
  BY DEF Starts, StartsUnhealthy
<1>2. worker \in Workers /\ Starting /\ Stands(worker) /\ UNCHANGED outcome
  BY DEF Starts, StartsUnhealthy, TypeInv, Shape
<1>3. disk' \in {disk, Folded(disk)} /\ Onward(worker')
  BY <1>1, <1>2, RunsType, JudgedType DEF TypeInv
<1>4. CASE At("start") /\ worker.verdict = "restored" /\ healthy
  BY <1>1, <1>2, <1>3, <1>4, JudgedCases, CommitsTruly
<1>5. CASE At("start") /\ worker.verdict = "restored" /\ ~healthy
  <2>1. worker'.at = "back"
    <3>1. worker' = PuttingBack("back")
      BY <1>1, <1>5, JudgedCases
    <3> QED
      BY <1>2, <3>1, PuttingBackIs
  <2> QED
    BY <1>2, <1>3, <1>5, <2>1, GoesUnseen DEF Midway, Onward, Stands, Late
<1>6. CASE ~(At("start") /\ worker.verdict = "restored")
  <2>1. PICK verdict \in {"rolled_back", "rollback_failed"} :
          /\ \E ok : worker' = Ending(verdict, ok)
          /\ At("start") => verdict = worker.verdict
    <3>1. CASE At("start")
      BY <1>1, <1>2, <1>6, <3>1, JudgedCases DEF Stands, Verdicts
    <3>2. CASE At("restart") \/ At("revive")
      BY <1>1, <3>2, JudgedCases
    <3> QED
      BY <1>2, <3>1, <3>2 DEF Starting
  <2>2. worker'.at = "finish" /\ worker'.verdict = verdict
    BY <1>2, <2>1, EndingIs
  <2>3. worker'.archive = worker.archive /\ worker.at \notin {"idle", "announce"}
    BY <1>2, <1>3 DEF Onward, Starting
  <2>4. CASE verdict = "rolled_back"
    BY <1>2, <1>3, <2>1, <2>2, <2>3, <2>4, RevertsTruly DEF Starting
  <2>5. CASE verdict = "rollback_failed"
    BY <1>2, <1>3, <2>2, <2>3, <2>5, BreaksTruly
  <2> QED
    BY <2>1, <2>4, <2>5
<1> QED
  BY <1>4, <1>5, <1>6

LEMMA RecoversTruly ==
  ASSUME TypeInv, Shape, Progress, Shape', UNCHANGED outcome, UNCHANGED disk,
         worker.at \notin {"idle", "announce"}, worker' = Recovering,
         worker.before = None => worker.at \in {"stop", "checkpoint"}, Midway \/ worker.before = None \/ worker.spent
  PROVE  PromiseStep
<1>1. worker \in Workers /\ Stands(worker) /\ Onward(worker')
  BY RecoveringType DEF TypeInv, Shape
<1>2. CASE worker.before = None
  <2>1. /\ worker.at \in {"stop", "checkpoint"} /\ worker'.at = "revive"
        /\ worker'.before = None /\ ~Midway /\ ~Midway'
    BY <1>1, <1>2, RecoveringIs DEF Onward, Midway, At
  <2>2. Content' = Content /\ Wanted' = Wanted /\ Shown' = Shown
    BY <1>1, <2>1, ContentIs, WantedIsKept, ShownIsKept DEF Onward
  <2>3. Phase' = Phase
    BY <1>1, <1>2, <2>1, PhaseIs DEF Onward, PhaseOf
  <2> QED
    BY <2>2, <2>3 DEF PromiseStep
<1>3. CASE worker.before # None /\ worker.spent
  <2>1. worker'.at = "finish" /\ worker'.verdict = "rollback_failed"
    BY <1>1, <1>3, RecoveringIs
  <2> QED
    BY <1>1, <2>1, BreaksTruly DEF Onward
<1>4. CASE worker.before # None /\ ~worker.spent
  <2>1. worker'.at = "recover"
    BY <1>1, <1>4, RecoveringIs
  <2> QED
    BY <1>1, <1>4, <2>1, GoesUnseen DEF Onward, Midway
<1> QED
  BY <1>2, <1>3, <1>4

LEMMA UserPromise ==
  ASSUME TypeInv, Shape, Shape', UserStep
  PROVE  PromiseStep
<1> USE DEF At
<1>1. CASE Writes \/ ChangesPassword
  <2>1. /\ worker' = worker /\ outcome' = outcome /\ ~Midway /\ ~Midway'
        /\ worker.at # "checkpoint" /\ Stands(worker)
    BY <1>1 DEF Writes, ChangesPassword, Serving, Midway, Shape, Stands, Early
  <2>2. /\ Content = Holds(disk) /\ Content' = Holds(disk')
        /\ Phase' = Phase /\ Wanted' = Wanted /\ Shown' = Shown
    BY <2>1, ContentIs, PhaseIs, WantedIsKept, ShownIsKept
  <2>3. Phase # "working"
    BY <1>1, <2>1, PhaseIs DEF PhaseOf, Writes, ChangesPassword, Serving, Stands, Early
  <2>4. \E v \in Own : Content' \in {[Content EXCEPT !.db = v], [Content EXCEPT !.env = v]}
    <3>1. CASE Writes
      <4>1. PICK v \in Own : disk' = [disk EXCEPT !.journal = [on |-> disk.db, has |-> v]]
        BY <3>1 DEF Writes
      <4>2. /\ disk'.db = disk.db /\ disk'.journal = [on |-> disk.db, has |-> v]
            /\ disk'.env = disk.env /\ disk'.secret = disk.secret
            /\ disk'.config = disk.config /\ disk'.dropin = disk.dropin
        BY <4>1 DEF TypeInv, Disks
      <4>3. Database(disk') = v
        <5>1. disk.db # Absent
          BY DEF TypeInv, Disks, Found
        <5> QED
          BY <4>2, <5>1 DEF Database, NoJournal
      <4> QED
        BY <2>2, <4>2, <4>3 DEF Holds
    <3>2. CASE ChangesPassword
      <4>1. PICK v \in Own : disk' = [disk EXCEPT !.env = v]
        BY <3>2 DEF ChangesPassword
      <4>2. /\ disk'.db = disk.db /\ disk'.journal = disk.journal
            /\ disk'.env = v /\ disk'.secret = disk.secret
            /\ disk'.config = disk.config /\ disk'.dropin = disk.dropin
        BY <4>1 DEF TypeInv, Disks
      <4>3. Database(disk') = Database(disk)
        BY <4>2 DEF Database
      <4> QED
        BY <2>2, <4>2, <4>3 DEF Holds
    <3> QED
      BY <1>1, <3>1, <3>2
  <2> QED
    BY <2>2, <2>3, <2>4 DEF PromiseStep, Promise!PromiseNext, Promise!Changes
<1>2. CASE BackupStep
  <2>1. UNCHANGED <<disk, worker, outcome>>
    BY <1>2 DEF BackupStep, BackupViewsConduit, BackupSnapshots, BackupCollects
  <2>2. Midway' = Midway
    BY <2>1 DEF Midway
  <2>3. Content' = Content /\ Phase' = Phase /\ Wanted' = Wanted /\ Shown' = Shown
    BY <2>1, <2>2, ContentIs, PhaseIs, WantedIsKept, ShownIsKept DEF Shape
  <2> QED
    BY <2>3 DEF PromiseStep
<1>3. CASE Accepted
  <2>1. /\ worker.at = "idle" /\ worker'.at = "announce" /\ worker'.before = None
        /\ disk' = disk /\ outcome' = outcome
    BY <1>3 DEF Accepted, Idle
  <2>2. Phase = "idle" /\ Phase' = "asked"
    BY <2>1, PhaseIs DEF Shape, PhaseOf
  <2>3. Content' = Content /\ Shown' = Shown
    BY <2>1, ContentIs, ShownIsKept DEF Midway
  <2> QED
    BY <2>2, <2>3 DEF PromiseStep, Promise!PromiseNext, Promise!Asks
<1> QED
  BY <1>1, <1>2, <1>3 DEF UserStep

LEMMA WorkerPromise ==
  ASSUME TypeInv, Shape, Progress, TypeInv', Shape', WorkerStep
  PROVE  PromiseStep
<1> USE DEF At, Goes
<1>0. worker \in Workers /\ disk \in Disks /\ Stands(worker)
  BY DEF TypeInv, Shape
<1>1. CASE Announces
  <2>1. /\ worker.at = "announce" /\ worker'.at = "stop" /\ worker.before = None
        /\ worker'.before = None /\ worker'.archive = worker.archive
        /\ disk' = disk /\ outcome' = [state |-> "in_progress", ok |-> FALSE]
    BY <1>0, <1>1 DEF Announces, Workers, Stands, Early
  <2>2. Phase = "asked" /\ Phase' = "asked" /\ Content' = Content /\ Wanted' = Wanted
    BY <2>1, PhaseIs, ContentIs, WantedIsKept DEF Shape, PhaseOf, Midway
  <2>3. Shown' = "in_progress"
    BY <2>1 DEF Shown
  <2> QED
    BY <2>2, <2>3 DEF PromiseStep, Promise!PromiseNext, Promise!Announces, Promise!Moves
<1>2. CASE StopsService
  <2>1. /\ worker.at = "stop" /\ worker'.at = "checkpoint" /\ worker.before = None
        /\ worker'.before = None /\ worker'.archive = worker.archive
        /\ disk' \in {disk, Folded(disk)} /\ outcome' = outcome
    BY <1>0, <1>2 DEF StopsService, Workers, Stands, Early
  <2>2. Phase' = Phase /\ Wanted' = Wanted /\ Shown' = Shown
    BY <2>1, PhaseIs, WantedIsKept, ShownIsKept DEF Shape, PhaseOf
  <2>3. Content' = Content
    BY <1>0, <2>1, ContentIs, FoldedHolds DEF Midway
  <2> QED
    BY <2>2, <2>3 DEF PromiseStep
<1>3. CASE TakesCheckpoint
  <2>1. /\ worker.at = "checkpoint" /\ worker'.at = "engine" /\ worker.before = None
        /\ worker'.before = disk /\ worker'.archive = worker.archive
        /\ disk' = disk /\ outcome' = outcome
    BY <1>0, <1>3 DEF TakesCheckpoint, Workers, Stands, Early
  <2>2. Phase = "asked" /\ Phase' = "working" /\ Wanted' = Wanted /\ Shown' = Shown
    BY <1>0, <2>1, NoneIsNoDisk, PhaseIs, WantedIsKept, ShownIsKept DEF Shape, PhaseOf
  <2>3. Content' = Content
    BY <1>0, <2>1, NoneIsNoDisk, ContentIs DEF Midway
  <2> QED
    BY <2>2, <2>3 DEF PromiseStep, Promise!PromiseNext, Promise!Begins, Promise!Moves
<1>4. CASE EngineBegins \/ WritesConfig \/ WritesDatabase \/ DropsJournal \/ WritesEnv \/ Validates
  <2>1. /\ worker.at \in {"engine"} \cup EngineSteps
        /\ worker'.at \in {"start"} \cup EngineSteps
        /\ worker'.before = worker.before /\ worker'.archive = worker.archive
    BY <1>0, <1>4 DEF EngineBegins, WritesConfig, WritesDatabase, DropsJournal, WritesEnv,
                      Validates, Workers, EngineSteps
  <2>2. outcome' = outcome
    BY <1>4 DEF EngineBegins, WritesConfig, WritesDatabase, DropsJournal, WritesEnv, Validates
  <2>3. Midway /\ Midway'
    BY <1>0, <2>1 DEF Midway, Stands, Late, EngineSteps
  <2> QED
    BY <2>1, <2>2, <2>3, GoesUnseen
<1>5. CASE EngineRefuses
  BY <1>0, <1>5, RecoversTruly DEF EngineRefuses, Stands, Late, Midway
<1>6. CASE Unreadable
  <2>1. worker.before # None /\ Midway
    BY <1>0, <1>6 DEF Unreadable, Stands, Late, EngineSteps, Midway
  <2>2. worker'.at = "undo" /\ worker'.before = worker.before /\ worker'.archive = worker.archive
    BY <1>0, <1>6, PuttingBackIs DEF Unreadable
  <2>3. outcome' = outcome
    BY <1>6 DEF Unreadable
  <2> QED
    BY <2>1, <2>2, <2>3, GoesUnseen DEF Midway
<1>7. CASE PutsBack \/ IsBack
  <2>1. /\ worker.at \in Backwards
        /\ worker'.at \in Backwards \cup {"start", "restart", "revive"}
        /\ worker'.before = worker.before /\ worker'.archive = worker.archive
    <3>1. CASE PutsBack
      BY <1>0, <3>1 DEF PutsBack, Workers, Backwards
    <3>2. CASE IsBack
      BY <1>0, <3>2 DEF IsBack, Workers, Backwards
    <3> QED
      BY <1>7, <3>1, <3>2
  <2>2. outcome' = outcome
    BY <1>7 DEF PutsBack, IsBack
  <2>3. Midway /\ Midway'
    BY <1>0, <2>1 DEF Midway, Stands, Late, Backwards
  <2> QED
    BY <2>1, <2>2, <2>3, GoesUnseen
<1>8. CASE Starts \/ StartsUnhealthy
  BY <1>8, StartsTruly
<1>9. CASE AppliesSettings
  <2> DEFINE settings == Item(worker.archive, "conduit_settings.json")
  <2>1. /\ worker.at = "settings" /\ worker'.at = "finish" /\ worker'.verdict = "restored"
        /\ worker'.archive = worker.archive /\ outcome' = outcome
        /\ disk' \in {disk, [disk EXCEPT !.dropin = settings]}
    BY <1>0, <1>9 DEF AppliesSettings, Ending, Workers
  <2>2. Phase = "committed" /\ Phase' = "committed" /\ Wanted' = Wanted /\ Shown' = Shown
    BY <2>1, PhaseIs, WantedIsKept, ShownIsKept DEF Shape, PhaseOf
  <2>3. Content = Holds(disk) /\ Content' = Holds(disk')
    BY <2>1, ContentIs DEF Midway
  <2>4. Wanted.settings = settings
    BY DEF Wanted
  <2>5. CASE disk' = disk
    BY <2>2, <2>3, <2>5 DEF PromiseStep
  <2>6. CASE disk' = [disk EXCEPT !.dropin = settings]
    <3> HIDE DEF settings
    <3>1. /\ disk'.db = disk.db /\ disk'.journal = disk.journal /\ disk'.env = disk.env
          /\ disk'.secret = disk.secret /\ disk'.config = disk.config /\ disk'.dropin = settings
      BY <1>0, <2>6 DEF Disks
    <3>2. Database(disk') = Database(disk)
      BY <3>1 DEF Database
    <3>3. Content' = [Content EXCEPT !.dropin = Wanted.settings]
      BY <2>3, <2>4, <3>1, <3>2 DEF Holds
    <3> QED
      BY <2>2, <3>3 DEF PromiseStep, Promise!PromiseNext, Promise!Reapplies
  <2> QED
    BY <2>1, <2>5, <2>6
<1>10. CASE Finishes
  <2>1. /\ worker.at = "finish" /\ worker.verdict \in Verdicts /\ worker'.at = "idle"
        /\ disk' = disk /\ outcome'.state = worker.verdict
    BY <1>0, <1>10 DEF Finishes, Idle, Stands
  <2>2. Content' = Content
    BY <2>1, ContentIs DEF Midway
  <2>3. Phase' = "idle" /\ Shown' = worker.verdict
    BY <2>1, PhaseIs DEF Shape, PhaseOf, Shown, Verdicts
  <2>4. \/ Phase = "committed" /\ worker.verdict = "restored"
        \/ Phase = "reverted" /\ worker.verdict = "rolled_back"
        \/ Phase = "broken" /\ worker.verdict = "rollback_failed"
    BY <1>0, <2>1, PhaseIs DEF PhaseOf, Verdicts
  <2> QED
    BY <2>2, <2>3, <2>4 DEF PromiseStep, Promise!PromiseNext, Promise!Reports
<1> QED
  BY <1>1, <1>2, <1>3, <1>4, <1>5, <1>6, <1>7, <1>8, <1>9, <1>10 DEF WorkerStep

(* Whenever the worker ends without a word, the page knows of none. *)
LEMMA DiesTruly ==
  ASSUME TypeInv, Shape, Progress, Shape', UNCHANGED outcome,
         ~At("idle"), worker' = Idle, disk' \in {disk, Folded(disk)}
  PROVE  PromiseStep
<1>1. worker \in Workers /\ disk \in Disks /\ Stands(worker) /\ worker'.at = "idle"
  BY DEF TypeInv, Shape, Idle
<1>2. Phase # "idle" /\ Phase' = "idle"
  BY <1>1, PhaseIs DEF Shape, PhaseOf, At
<1>3. Content' = Holds(disk)
  BY <1>1, ContentIs, FoldedHolds DEF Midway
<1>4. Shown' \in {Shown, "unknown"} /\ (Phase = "working" => Shown' = "unknown")
  <2>1. CASE worker.at = "announce"
    BY <1>1, <2>1, PhaseIs DEF Shown, PhaseOf, Stands, Early
  <2>2. CASE worker.at # "announce"
    BY <1>1, <2>2 DEF Shown, Shape, At
  <2> QED
    BY <2>1, <2>2
<1>5. CASE Midway
  <2>1. worker.before \in Disks
    BY <1>1, <1>5 DEF Midway, Workers
  <2>2. Content = Holds(worker.before) /\ Phase = "working"
    BY <1>1, <1>5, ContentIs, PhaseIs DEF Midway, PhaseOf
  <2>3. Content'.secret = Content.secret /\ Content'.dropin = Content.dropin
    BY <1>1, <1>3, <1>5, <2>1, <2>2 DEF Holds, Disks, Progress, Aside
  <2> QED
    BY <1>2, <1>4, <2>2, <2>3
    DEF PromiseStep, Promise!PromiseNext, Promise!Dies, Promise!Untouched
<1>6. CASE ~Midway
  <2>1. Content' = Content
    BY <1>3, <1>6, ContentIs
  <2> QED
    BY <1>2, <1>4, <2>1
    DEF PromiseStep, Promise!PromiseNext, Promise!Dies, Promise!Untouched
<1> QED
  BY <1>5, <1>6

LEMMA FaultPromise ==
  ASSUME TypeInv, Shape, Progress, TypeInv', Shape', FaultStep
  PROVE  PromiseStep
<1> USE DEF At
<1>0. worker \in Workers /\ disk \in Disks /\ Stands(worker)
  BY DEF TypeInv, Shape
<1>1. CASE AnnounceFails \/ WorkerKilled \/ PowerLost
  BY <1>1, DiesTruly DEF AnnounceFails, WorkerKilled, PowerLost, Ends
<1>2. CASE StopFails \/ CheckpointFails
  BY <1>0, <1>2, RecoversTruly DEF StopFails, CheckpointFails, Stands, Early
<1>3. CASE EngineFails
  <2>1. worker.at \in EngineSteps /\ worker' = PuttingBack("undo") /\ outcome' = outcome
    BY <1>3 DEF EngineFails, EngineSteps
  <2>2. worker'.at = "undo" /\ worker'.before = worker.before /\ worker'.archive = worker.archive
    BY <1>0, <2>1, PuttingBackIs
  <2> QED
    BY <1>0, <2>1, <2>2, GoesUnseen DEF Midway, Stands, Late, EngineSteps
<1>4. CASE PutBackFails
  <2>1. worker.at \in Backwards /\ Midway /\ disk' = disk /\ outcome' = outcome
    BY <1>0, <1>4 DEF PutBackFails, Backwards, Stands, Late, Midway
  <2>2. CASE worker.at = "undo"
    <3>1. worker' = [worker EXCEPT !.at = "start", !.verdict = "rollback_failed"]
      BY <1>4, <2>2 DEF PutBackFails
    <3>2. worker'.at = "start" /\ worker'.before = worker.before /\ worker'.archive = worker.archive
      BY <1>0, <3>1 DEF Workers
    <3> QED
      BY <2>1, <3>2, GoesUnseen DEF Midway
  <2>3. CASE worker.at = "back"
    BY <1>4, <2>1, <2>3, RecoversTruly DEF PutBackFails, Midway
  <2>4. CASE worker.at = "recover"
    <3>1. /\ worker'.at = "finish" /\ worker'.verdict = "rollback_failed"
          /\ worker'.archive = worker.archive
      BY <1>0, <1>4, <2>4 DEF PutBackFails, Ending, Workers
    <3> QED
      BY <2>1, <2>4, <3>1, BreaksTruly
  <2> QED
    BY <2>1, <2>2, <2>3, <2>4 DEF Backwards
<1>5. CASE StartRaises
  <2>1. Starting /\ disk' = disk /\ outcome' = outcome
    BY <1>5 DEF StartRaises
  <2>2. CASE worker.at = "revive"
    <3>1. /\ worker'.at = "finish" /\ worker'.verdict = "rollback_failed"
          /\ worker'.archive = worker.archive
      BY <1>0, <1>5, <2>2 DEF StartRaises, Ending, Workers
    <3> QED
      BY <2>1, <2>2, <3>1, BreaksTruly
  <2>3. CASE worker.at # "revive"
    <3>1. worker' = Recovering /\ Midway
      BY <1>0, <1>5, <2>1, <2>3 DEF StartRaises, Starting, Stands, Late, Midway
    <3> QED
      BY <2>1, <3>1, RecoversTruly DEF Starting, Midway
  <2> QED
    BY <2>2, <2>3
<1>6. CASE FinishFails
  <2>1. worker.at = "finish" /\ disk' = disk /\ outcome' = outcome /\ worker.spent
    BY <1>0, <1>6 DEF FinishFails, Stands
  <2>2. CASE worker.recovering
    BY <1>6, <2>1, <2>2, DiesTruly DEF FinishFails
  <2>3. CASE ~worker.recovering
    BY <1>0, <1>6, <2>1, <2>3, RecoversTruly DEF FinishFails, Stands
  <2> QED
    BY <2>2, <2>3
<1>7. CASE EngineRaises
  BY <1>0, <1>7, RecoversTruly DEF EngineRaises, Stands, Late, Midway
<1> QED
  BY <1>1, <1>2, <1>3, <1>4, <1>5, <1>6, <1>7 DEF FaultStep

LEMMA PromiseIsKept ==
  ASSUME TypeInv, Shape, Progress, [RestoreNext]_vars
  PROVE  PromiseStep
<1>0. TypeInv' /\ Shape'
  BY TypesAreKept
<1>1. CASE UNCHANGED vars
  BY <1>1 DEF vars, PromiseStep, Content, Phase, Wanted, Shown, Midway, At
<1> QED
  BY <1>0, <1>1, UserPromise, WorkerPromise, FaultPromise DEF RestoreNext

(* RestoreImplementsPromise: whatever is in the archive, whichever call of  *)
(* a restore fails and whenever it is killed, it ends with all of the       *)
(* archive or the host as it was, or with a status that claims neither.     *)
THEOREM RestoreImplements == RestoreSpec => RestoreImplementsPromise
<1>1. RestoreInit => (TypeInv /\ Shape /\ Progress) /\ Phase = "idle" /\ Shown = "idle"
  <2> SUFFICES ASSUME RestoreInit
               PROVE  (TypeInv /\ Shape /\ Progress) /\ Phase = "idle" /\ Shown = "idle"
    OBVIOUS
  <2>1. worker.at = "idle" /\ worker.before = None /\ outcome.state = "idle"
    BY DEF RestoreInit, Idle
  <2> QED
    BY <2>1, InitType, NotMidway, PhaseIs DEF Midway, Shape, PhaseOf, Shown
<1>2. (TypeInv /\ Shape /\ Progress) /\ [RestoreNext]_vars => (TypeInv /\ Shape /\ Progress)'
  BY TypesAreKept, ProgressIsKept
<1>3. TypeInv /\ Shape /\ Progress /\ [RestoreNext]_vars
      => [Promise!PromiseNext]_<<Content, Phase, Wanted, Shown>>
  BY PromiseIsKept DEF PromiseStep
<1> QED
  BY <1>1, <1>2, <1>3, PTL DEF RestoreSpec, RestoreImplementsPromise, Promise!PromiseSpec

-----------------------------------------------------------------------------
(* The service: down while files are exchanged, except where strayed says   *)
(* otherwise; whatever it is started on is readable, and whoever has not    *)
(* seen it healthy says so.                                                 *)
Quiet == {"checkpoint", "engine", "undo", "start"} \cup EngineSteps

Truthful ==
  /\ worker.at \in {"announce", "stop", "settings"} => service.up
  /\ worker.at \in Quiet => ~service.up
  /\ worker.at \in Early \cup Quiet => ~worker.spent
  /\ At("finish") /\ ~service.up => worker.verdict # "restored" /\ ~worker.ok
  /\ DownIsReported

Readable ==
  /\ service.up => service.cached = Cached(disk)
  /\ service.up \/ ~Midway => Database(disk) # Torn
  /\ Midway => Database(worker.before) # Torn
  /\ At("start") => worker.verdict # "rollback_failed"
  /\ At("start") /\ worker.verdict = "restored" => disk.db # Torn

Sound == Truthful /\ (strayed = {} => Readable)

LEMMA StartsOnReadable ==
  ASSUME TypeInv, Shape, Progress, Readable, Starting
  PROVE  Database(disk) # Torn
<1> USE DEF At
<1>1. CASE ~Midway
  BY <1>1 DEF Readable
<1>2. CASE At("start") /\ worker.verdict = "restored"
  BY <1>2 DEF Progress, Written, Past, Readable, Database
<1>3. CASE Midway /\ ~(At("start") /\ worker.verdict = "restored")
  <2>1. Returns /\ worker.at \notin Backwards
    BY <1>3 DEF Starting, Returns, Midway, Backwards, Readable, Shape, Stands, Verdicts
  <2>2. disk.db = worker.before.db /\ disk.journal = worker.before.journal
    BY <2>1 DEF Progress, Returned, Left
  <2> QED
    BY <1>3, <2>2 DEF Readable, Database
<1> QED
  BY <1>1, <1>2, <1>3

LEMMA RecoveringReports ==
  ASSUME worker \in Workers
  PROVE  worker.before # None /\ worker.spent => Recovering.ok = FALSE
<1> DEFINE e == Ending("rollback_failed", FALSE)
<1> SUFFICES ASSUME worker.before # None, worker.spent PROVE Recovering.ok = FALSE
  OBVIOUS
<1>1. Recovering = [e EXCEPT !.recovering = TRUE]
  BY DEF Recovering, Workers
<1>2. e \in Workers /\ e.ok = FALSE
  BY DEF Ending, Workers, Places, Verdicts
<1> HIDE DEF e
<1> QED
  BY <1>1, <1>2 DEF Workers

LEMMA RunsSoundly ==
  ASSUME disk \in Disks, service \in Services, NEW up \in {TRUE, FALSE}, Runs(up)
  PROVE  /\ service'.up = up
         /\ Database(disk') = Database(disk)
         /\ service.up => disk' = disk
         /\ (service.up => service.cached = Cached(disk))
            => (service'.up => service'.cached = Cached(disk'))
<1>1. CASE service.up \/ ~up
  <2>1. disk' = disk /\ service' = IF up THEN service ELSE Down
    BY <1>1 DEF Runs
  <2>2. CASE up
    BY <1>1, <2>1, <2>2 DEF Services
  <2>3. CASE ~up
    BY <2>1, <2>3 DEF Down
  <2> QED
    BY <2>2, <2>3
<1>2. CASE ~service.up /\ up
  <2>1. disk' = Folded(disk) /\ service' = [up |-> TRUE, cached |-> Cached(disk)]
    BY <1>2 DEF Runs
  <2>2. Cached(Folded(disk)) = Cached(disk)
    BY DEF Cached, Folded, Disks
  <2> QED
    BY <1>2, <2>1, <2>2, DatabaseType
<1> QED
  BY <1>1, <1>2

(* Steps that leave the disk and the service alone. *)
LEMMA SoundAlone ==
  ASSUME Sound, UNCHANGED <<disk, service, strayed, outcome>>,
         worker'.at \notin {"idle", "announce"},
         worker'.at \in {"stop", "settings"} => service.up,
         worker'.at \in Quiet => ~service.up,
         worker'.at \in Early \cup Quiet => ~worker'.spent,
         worker'.at = "finish" /\ ~service.up => worker'.verdict # "restored" /\ ~worker'.ok,
         strayed = {} =>
           /\ service.up \/ ~Midway' => Database(disk) # Torn
           /\ Midway' => Database(worker'.before) # Torn
           /\ worker'.at = "start" => worker'.verdict # "rollback_failed"
           /\ worker'.at = "start" /\ worker'.verdict = "restored" => disk.db # Torn
  PROVE  Sound'
<1>1. Truthful'
  BY DEF Truthful, DownIsReported, At
<1>2. strayed' = {} => Readable'
  BY DEF Sound, Readable, At
<1> QED
  BY <1>1, <1>2 DEF Sound

LEMMA SoundRecovering ==
  ASSUME TypeInv, Shape, Sound, Shape', UNCHANGED <<disk, service, strayed, outcome>>,
         worker' = Recovering,
         strayed = {} => Midway \/ Database(disk) # Torn,
         strayed = {} /\ worker.before # None =>
           IF worker.spent THEN Database(disk) # Torn ELSE Database(worker.before) # Torn
  PROVE  Sound'
<1>1. worker \in Workers /\ Onward(worker') /\ worker' \in Workers
  BY RecoveringType DEF TypeInv, Onward
<1>2. worker'.at \in {"revive", "recover", "finish"}
  BY <1>1, RecoveringIs
<1>3. worker'.at = "finish" => worker'.verdict = "rollback_failed" /\ ~worker'.ok
  BY <1>1, RecoveringIs, RecoveringReports
<1>4. ASSUME strayed = {}
      PROVE  /\ service.up \/ ~Midway' => Database(disk) # Torn
             /\ Midway' => Database(worker'.before) # Torn
  <2>1. service.up => Database(disk) # Torn
    BY <1>4 DEF Sound, Readable
  <2>2. CASE worker.before = None
    BY <1>1, <1>4, <2>1, <2>2 DEF Onward, Midway
  <2>3. CASE worker.before # None /\ worker.spent
    BY <1>1, <1>4, <2>1, <2>3, RecoveringIs DEF Midway
  <2>4. CASE worker.before # None /\ ~worker.spent
    <3>1. worker'.at = "recover" /\ worker'.before = worker.before
      BY <1>1, <2>4, RecoveringIs DEF Onward
    <3> QED
      BY <1>4, <2>1, <2>4, <3>1 DEF Midway
  <2> QED
    BY <2>2, <2>3, <2>4
<1> QED
  BY <1>2, <1>3, <1>4, SoundAlone DEF Early, Quiet, EngineSteps

LEMMA UserSound ==
  ASSUME TypeInv, Shape, Sound, UserStep
  PROVE  Sound'
<1> USE DEF At
<1>1. CASE Writes
  <2>1. PICK v \in Own : disk' = [disk EXCEPT !.journal = [on |-> disk.db, has |-> v]]
    BY <1>1 DEF Writes
  <2>2. Database(disk') = v /\ v # Torn /\ Cached(disk') = Cached(disk)
    <3>1. disk.db # Absent /\ v # Torn
      BY RestoreConstants DEF TypeInv, Disks, Found
    <3> QED
      BY <2>1, <3>1 DEF TypeInv, Disks, Database, NoJournal, Cached
  <2>3. UNCHANGED <<service, worker, outcome, strayed>> /\ ~Midway
    BY <1>1 DEF Writes, Serving, Midway, Shape, Stands, Early
  <2>4. worker.at # "start"
    BY <1>1 DEF Writes, Serving
  <2>5. Truthful'
    BY <2>3 DEF Sound, Truthful, DownIsReported, Shown
  <2>6. strayed' = {} => Readable'
    BY <2>2, <2>3, <2>4 DEF Sound, Readable, Midway
  <2> QED
    BY <2>5, <2>6 DEF Sound
<1>2. CASE ChangesPassword
  <2>1. PICK v \in Own : /\ disk' = [disk EXCEPT !.env = v]
                         /\ service' = [service EXCEPT !.cached.env = v]
    BY <1>2 DEF ChangesPassword
  <2>2. UNCHANGED <<worker, outcome, strayed>> /\ service.up
    BY <1>2 DEF ChangesPassword, Serving
  <2>3. service'.up /\ (service.cached = Cached(disk) => service'.cached = Cached(disk'))
    BY <2>1, <2>2 DEF TypeInv, Services, Disks, Cached
  <2>4. Database(disk') = Database(disk) /\ disk'.db = disk.db
    BY <2>1 DEF TypeInv, Disks, Database
  <2>5. Truthful'
    BY <2>2, <2>3 DEF Sound, Truthful, DownIsReported, Shown
  <2>6. strayed' = {} => Readable'
    BY <2>2, <2>3, <2>4 DEF Sound, Readable, Midway
  <2> QED
    BY <2>5, <2>6 DEF Sound
<1>3. CASE BackupStep
  <2>1. UNCHANGED <<disk, service, worker, outcome, strayed>>
    BY <1>3 DEF BackupStep, BackupViewsConduit, BackupSnapshots, BackupCollects
  <2> QED
    BY <2>1 DEF Sound, Truthful, Readable, DownIsReported, Shown, Midway
<1>4. CASE Accepted
  <2>1. /\ UNCHANGED <<disk, service, outcome, strayed>> /\ service.up /\ worker.at = "idle"
        /\ worker'.at = "announce" /\ ~worker'.spent
    BY <1>4 DEF Accepted, Serving, Idle
  <2>2. Truthful'
    BY <2>1 DEF Truthful, DownIsReported, Quiet, EngineSteps
  <2>3. strayed' = {} => Readable'
    BY <1>4, <2>1 DEF Accepted, Idle, Sound, Readable, Midway
  <2> QED
    BY <2>2, <2>3 DEF Sound
<1> QED
  BY <1>1, <1>2, <1>3, <1>4 DEF UserStep

LEMMA BeginsSound ==
  ASSUME TypeInv, Shape, Sound, Announces \/ StopsService \/ TakesCheckpoint
  PROVE  Sound'
<1> USE DEF At, Goes
<1>0. worker \in Workers /\ Stands(worker) /\ disk \in Disks
  BY DEF TypeInv, Shape
<1>1. CASE Announces
  <2>1. /\ UNCHANGED <<disk, service, strayed>> /\ service.up /\ worker'.at = "stop"
        /\ worker'.spent = worker.spent /\ ~worker.spent /\ ~Midway /\ ~Midway'
    BY <1>0, <1>1 DEF Announces, Workers, Sound, Truthful, Early, Midway, Stands
  <2>2. Truthful'
    BY <2>1 DEF Truthful, DownIsReported, Quiet, EngineSteps
  <2>3. strayed' = {} => Readable'
    BY <2>1 DEF Sound, Readable
  <2> QED
    BY <2>2, <2>3 DEF Sound
<1>2. CASE StopsService
  <2>1. /\ UNCHANGED strayed /\ service' = Down /\ worker'.at = "checkpoint"
        /\ worker'.spent = worker.spent /\ ~worker.spent /\ ~Midway /\ ~Midway'
        /\ disk' \in {disk, Folded(disk)}
    BY <1>0, <1>2 DEF StopsService, Workers, Sound, Truthful, Early, Midway, Stands
  <2>2. Truthful'
    BY <2>1 DEF Truthful, DownIsReported, Down
  <2>3. strayed' = {} => Readable'
    BY <1>0, <2>1, DatabaseType DEF Sound, Readable, Down
  <2> QED
    BY <2>2, <2>3 DEF Sound
<1>3. CASE TakesCheckpoint
  <2>1. /\ UNCHANGED <<disk, service, strayed, outcome>> /\ ~service.up /\ worker'.at = "engine"
        /\ worker'.spent = worker.spent /\ ~worker.spent /\ ~Midway /\ worker'.before = disk
    BY <1>0, <1>3 DEF TakesCheckpoint, Workers, Sound, Truthful, Quiet, Early, Midway, Stands
  <2>2. strayed = {} => Database(disk) # Torn
    BY <2>1 DEF Sound, Readable
  <2> QED
    BY <2>1, <2>2, SoundAlone DEF Midway
<1> QED
  BY <1>1, <1>2, <1>3

LEMMA EngineSound ==
  ASSUME TypeInv, Shape, Sound, Shape',
         \/ EngineBegins \/ EngineRefuses \/ WritesConfig \/ WritesDatabase \/ DropsJournal
         \/ WritesEnv \/ Validates \/ Unreadable \/ EngineFails \/ EngineRaises
  PROVE  Sound'
<1> USE DEF At, Goes
<1>0. /\ worker \in Workers /\ disk \in Disks /\ worker.at \in {"engine"} \cup EngineSteps
      /\ worker.before # None /\ Midway /\ ~service.up /\ ~worker.spent
  BY DEF TypeInv, Shape, Stands, Late, EngineSteps, Midway, Sound, Truthful, Quiet,
         EngineBegins, EngineRefuses, WritesConfig, WritesDatabase, DropsJournal, WritesEnv,
         Validates, Unreadable, EngineFails, EngineRaises
<1>1. UNCHANGED <<service, strayed, outcome>>
  BY DEF EngineBegins, EngineRefuses, WritesConfig, WritesDatabase, DropsJournal, WritesEnv,
         Validates, Unreadable, EngineFails, EngineRaises
<1>2. CASE EngineRefuses \/ EngineRaises
  BY <1>0, <1>1, <1>2, SoundRecovering DEF EngineRefuses, EngineRaises, Sound, Readable
<1>3. CASE ~EngineRefuses /\ ~EngineRaises
  <2>1. /\ worker'.at \in {"undo", "start"} \cup EngineSteps
        /\ worker'.before = worker.before /\ worker'.spent = worker.spent
    <3>1. CASE Unreadable \/ EngineFails
      BY <1>0, <3>1 DEF Unreadable, EngineFails, PuttingBack, Workers
    <3>2. CASE EngineBegins \/ WritesConfig \/ WritesDatabase \/ DropsJournal \/ WritesEnv \/ Validates
      BY <1>0, <3>2 DEF EngineBegins, WritesConfig, WritesDatabase, DropsJournal, WritesEnv,
         Validates, Workers, EngineSteps
    <3> QED
      BY <1>3, <3>1, <3>2
  <2>2. Midway' /\ Midway
    BY <1>0, <2>1 DEF Midway, EngineSteps
  <2>3. worker'.at = "start" => worker'.verdict = "restored" /\ disk'.db # Torn
    <3>1. CASE Validates
      BY <1>0, <3>1 DEF Validates, Workers
    <3>2. CASE ~Validates
      <4>1. CASE Unreadable \/ EngineFails
        BY <1>0, <4>1 DEF Unreadable, EngineFails, PuttingBack, Workers
      <4>2. CASE EngineBegins \/ WritesConfig \/ WritesDatabase \/ DropsJournal \/ WritesEnv
        BY <1>0, <4>2 DEF EngineBegins, WritesConfig, WritesDatabase, DropsJournal, WritesEnv,
           Workers
      <4> QED
        BY <1>3, <3>2, <4>1, <4>2
    <3> QED
      BY <3>1, <3>2
  <2>4. Truthful'
    BY <1>0, <1>1, <2>1 DEF Truthful, DownIsReported, Quiet, EngineSteps
  <2>5. strayed' = {} => Readable'
    BY <1>0, <1>1, <2>1, <2>2, <2>3 DEF Sound, Readable
  <2> QED
    BY <2>4, <2>5 DEF Sound
<1> QED
  BY <1>2, <1>3

LEMMA PuttingBackSound ==
  ASSUME TypeInv, Shape, Sound, Shape', PutsBack \/ IsBack \/ PutBackFails
  PROVE  Sound'
<1> USE DEF At
<1>0. /\ worker \in Workers /\ worker.at \in Backwards /\ worker.before # None /\ Midway
      /\ UNCHANGED <<service, outcome>>
      /\ worker.at = "undo" => ~service.up /\ ~worker.spent
  BY DEF TypeInv, Shape, Stands, Late, Backwards, Midway, Sound, Truthful, Quiet,
         PutsBack, IsBack, PutBackFails
<1>1. CASE PutsBack
  <2>1. PICK file \in worker.left :
          worker' = [worker EXCEPT !.left = @ \ {file}, !.spent = @ \/ ~At("undo")]
    BY <1>1 DEF PutsBack
  <2>2. /\ worker'.at = worker.at /\ worker'.before = worker.before
        /\ worker.at = "undo" => ~worker'.spent
    <3>1. worker'.at = worker.at /\ worker'.before = worker.before
      BY <1>0, <2>1 DEF Workers
    <3>2. worker.at = "undo" => worker'.spent = worker.spent
      BY <1>0, <2>1 DEF Workers
    <3> QED
      BY <1>0, <3>1, <3>2
  <2>3. Truthful'
    BY <1>0, <2>2 DEF Truthful, DownIsReported, Quiet, Early, Backwards, EngineSteps
  <2>4. ASSUME strayed' = {} PROVE Readable'
    <3>1. strayed = {} /\ ~service.up
      BY <1>1, <2>4 DEF PutsBack
    <3> QED
      BY <1>0, <2>2, <3>1 DEF Sound, Readable, Midway, Backwards
  <2> QED
    BY <2>3, <2>4 DEF Sound
<1>2. CASE IsBack
  <2>1. /\ UNCHANGED <<disk, strayed>> /\ worker'.before = worker.before
        /\ worker'.spent = worker.spent
        /\ \/ worker.at = "undo" /\ worker'.at = "start" /\ worker'.verdict = "rolled_back"
           \/ worker'.at \in {"restart", "revive"}
    BY <1>0, <1>2 DEF IsBack, Workers, Backwards
  <2>2. Midway'
    BY <1>0, <2>1 DEF Midway
  <2> QED
    BY <1>0, <2>1, <2>2, SoundAlone DEF Sound, Readable, Early, Quiet, EngineSteps
<1>3. CASE PutBackFails
  <2>1. disk' = disk /\ strayed' # {}
    BY <1>3 DEF PutBackFails
  <2>2. /\ worker'.at \in {"start", "recover", "finish"}
        /\ worker'.at = "start" => ~service.up /\ ~worker'.spent
        /\ worker'.at = "finish" => worker'.verdict # "restored" /\ ~worker'.ok
    <3>1. CASE worker.at = "undo"
      BY <1>0, <1>3, <3>1 DEF PutBackFails, Workers
    <3>2. CASE worker.at = "back"
      <4>1. worker' = Recovering
        BY <1>3, <3>2 DEF PutBackFails
      <4> QED
        BY <1>0, <4>1, RecoveringIs, RecoveringReports
    <3>3. CASE worker.at = "recover"
      BY <1>0, <1>3, <3>3 DEF PutBackFails, Ending, Workers
    <3> QED
      BY <1>0, <3>1, <3>2, <3>3 DEF Backwards
  <2>3. Truthful'
    BY <1>0, <2>2 DEF Truthful, DownIsReported, Quiet, Early, EngineSteps
  <2> QED
    BY <2>1, <2>3 DEF Sound
<1> QED
  BY <1>1, <1>2, <1>3

LEMMA StartsSound ==
  ASSUME TypeInv, Shape, Progress, Sound, Shape', Starts \/ StartsUnhealthy
  PROVE  Sound'
<1> USE DEF At
<1>1. PICK up \in {TRUE, FALSE}, healthy \in {TRUE, FALSE} :
        Runs(up) /\ worker' = Judged(healthy) /\ (healthy => up)
  <2>1. CASE Starts
    BY <2>1 DEF Starts
  <2>2. CASE StartsUnhealthy
    BY <2>2 DEF StartsUnhealthy
  <2> QED
    BY <2>1, <2>2
<1>2. worker \in Workers /\ Starting /\ Stands(worker) /\ UNCHANGED <<outcome, strayed>>
  BY DEF Starts, StartsUnhealthy, TypeInv, Shape
<1>3. /\ service'.up = up /\ Database(disk') = Database(disk)
      /\ (service.up => service.cached = Cached(disk))
         => (service'.up => service'.cached = Cached(disk'))
  BY <1>1, RunsSoundly DEF TypeInv
<1>4. strayed = {} => Database(disk') # Torn
  BY <1>2, <1>3, StartsOnReadable DEF Sound
<1>5. /\ worker'.at \in {"settings", "back", "finish"} /\ worker'.before = worker.before
      /\ worker'.at = "settings" => healthy
      /\ worker'.at = "finish" /\ ~healthy => worker'.verdict # "restored" /\ ~worker'.ok
  <2>1. Onward(worker')
    BY <1>1, <1>2, JudgedType
  <2>2. CASE At("start") /\ worker.verdict = "restored" /\ healthy
    BY <1>1, <1>2, <2>2, JudgedCases DEF Workers
  <2>3. CASE At("start") /\ worker.verdict = "restored" /\ ~healthy
    <3>1. worker' = PuttingBack("back")
      BY <1>1, <2>3, JudgedCases
    <3>2. worker'.at = "back"
      BY <1>2, <3>1, PuttingBackIs
    <3> QED
      BY <2>1, <2>3, <3>2 DEF Onward
  <2>4. CASE ~(At("start") /\ worker.verdict = "restored") /\ healthy
    <3>1. \E verdict, ok : worker' = Ending(verdict, ok)
      BY <1>1, <1>2, <2>4, JudgedCases DEF Starting
    <3> QED
      BY <1>2, <2>1, <2>4, <3>1, EndingIs DEF Onward
  <2>5. CASE ~(At("start") /\ worker.verdict = "restored") /\ ~healthy
    <3>1. worker'.at = "finish" /\ worker'.verdict # "restored" /\ worker'.ok = FALSE
      <4>1. worker' = Judged(FALSE)
        BY <1>1, <2>5
      <4>2. CASE worker.at = "start"
        <5>1. worker' = Ending(worker.verdict, FALSE) /\ worker.verdict # "restored"
          BY <2>5, <4>1, <4>2, JudgedCases
        <5> QED
          BY <1>2, <5>1 DEF Ending, Workers
      <4>3. CASE worker.at = "restart"
        <5>1. worker' = Ending("rolled_back", FALSE)
          BY <4>1, <4>3, JudgedCases
        <5> QED
          BY <1>2, <5>1 DEF Ending, Workers
      <4>4. CASE worker.at = "revive"
        <5>1. worker' = Ending("rollback_failed", FALSE)
          BY <4>1, <4>4, JudgedCases
        <5> QED
          BY <1>2, <5>1 DEF Ending, Workers
      <4> QED
        BY <1>2, <4>2, <4>3, <4>4 DEF Starting
    <3> QED
      BY <2>1, <2>5, <3>1 DEF Onward
  <2> QED
    BY <2>2, <2>3, <2>4, <2>5
<1>6. Truthful'
  BY <1>1, <1>3, <1>5 DEF Truthful, DownIsReported, Quiet, Early, EngineSteps
<1>7. ASSUME strayed' = {} PROVE Readable'
  <2>1. service'.up => service'.cached = Cached(disk')
    BY <1>2, <1>3, <1>7 DEF Sound, Readable
  <2>2. Midway' => Midway
    BY <1>2, <1>5 DEF Midway, Starting
  <2> QED
    BY <1>2, <1>4, <1>5, <1>7, <2>1, <2>2 DEF Sound, Readable
<1> QED
  BY <1>6, <1>7 DEF Sound

LEMMA EndsSound ==
  ASSUME TypeInv, Shape, Sound, Shape', AppliesSettings \/ Finishes \/ FinishFails
  PROVE  Sound'
<1> USE DEF At
<1>0. /\ worker \in Workers /\ Stands(worker) /\ UNCHANGED <<service, strayed>>
      /\ worker.at \in {"settings", "finish"} /\ ~Midway
  BY DEF TypeInv, Shape, AppliesSettings, Finishes, FinishFails, Midway
<1>1. CASE AppliesSettings
  <2>1. /\ worker'.at = "finish" /\ service.up /\ outcome' = outcome /\ ~Midway'
        /\ \E settings : disk' \in {disk, [disk EXCEPT !.dropin = settings]}
    BY <1>0, <1>1 DEF AppliesSettings, Ending, Workers, Sound, Truthful, Midway
  <2>2. Database(disk') = Database(disk) /\ Cached(disk') = Cached(disk)
    BY <2>1 DEF TypeInv, Disks, Database, Cached
  <2>3. Truthful'
    BY <1>0, <2>1 DEF Truthful, DownIsReported, Quiet, Early, EngineSteps
  <2>4. strayed' = {} => Readable'
    BY <1>0, <2>1, <2>2 DEF Sound, Readable
  <2> QED
    BY <2>3, <2>4 DEF Sound
<1>2. CASE Finishes
  <2>1. /\ worker.at = "finish" /\ worker.verdict \in Verdicts /\ worker'.at = "idle"
        /\ ~worker'.spent /\ ~Midway' /\ disk' = disk
        /\ outcome'.state = worker.verdict /\ outcome'.ok = worker.ok
    BY <1>0, <1>2 DEF Finishes, Idle, Stands, Midway
  <2>2. ~service.up => worker.verdict # "restored" /\ ~worker.ok
    BY <2>1 DEF Sound, Truthful
  <2>3. Truthful'
    BY <1>0, <2>1, <2>2 DEF Truthful, DownIsReported, Shown, Quiet, Verdicts, EngineSteps
  <2>4. strayed' = {} => Readable'
    BY <1>0, <2>1 DEF Sound, Readable
  <2> QED
    BY <2>3, <2>4 DEF Sound
<1>3. CASE FinishFails
  <2>1. worker.at = "finish" /\ disk' = disk /\ outcome' = outcome /\ worker.spent
    BY <1>0, <1>3 DEF FinishFails, Stands
  <2>2. CASE worker.recovering
    <3>1. worker'.at = "idle" /\ ~worker'.spent /\ ~Midway'
      BY <1>3, <2>2 DEF FinishFails, Idle, Midway
    <3>2. Truthful'
      BY <1>0, <2>1, <3>1 DEF Truthful, DownIsReported, Shown, Shape, Quiet, EngineSteps
    <3>3. strayed' = {} => Readable'
      BY <1>0, <2>1, <3>1 DEF Sound, Readable
    <3> QED
      BY <3>2, <3>3 DEF Sound
  <2>3. CASE ~worker.recovering
    <3>1. worker' = Recovering /\ (strayed = {} => Database(disk) # Torn)
      BY <1>0, <1>3, <2>3 DEF FinishFails, Sound, Readable
    <3> QED
      BY <1>0, <2>1, <3>1, SoundRecovering
  <2> QED
    BY <2>2, <2>3
<1> QED
  BY <1>1, <1>2, <1>3

LEMMA FaultSound ==
  ASSUME TypeInv, Shape, Progress, Sound, Shape',
         \/ AnnounceFails \/ StopFails \/ CheckpointFails
         \/ StartRaises \/ WorkerKilled \/ PowerLost
  PROVE  Sound'
<1> USE DEF At
<1>0. worker \in Workers /\ Stands(worker) /\ disk \in Disks /\ service \in Services
  BY DEF TypeInv, Shape
<1>1. CASE AnnounceFails \/ WorkerKilled \/ PowerLost
  <2>1. /\ worker.at # "idle" /\ worker'.at = "idle" /\ ~worker'.spent /\ ~Midway'
        /\ outcome' = outcome
    BY <1>1 DEF AnnounceFails, WorkerKilled, PowerLost, Ends, Idle, Midway
  <2>2. \/ UNCHANGED <<disk, service>>
        \/ disk' = Folded(disk) /\ service' = [up |-> TRUE, cached |-> Cached(disk)]
    BY <1>1 DEF AnnounceFails, WorkerKilled, PowerLost
  <2>3. /\ Database(disk') = Database(disk) /\ (service.up => service'.up)
        /\ (service.up => service.cached = Cached(disk))
           => (service'.up => service'.cached = Cached(disk'))
    <3>1. CASE UNCHANGED <<disk, service>>
      BY <3>1
    <3>2. CASE disk' = Folded(disk) /\ service' = [up |-> TRUE, cached |-> Cached(disk)]
      <4>1. Cached(Folded(disk)) = Cached(disk)
        BY <1>0 DEF Cached, Folded, Disks
      <4> QED
        BY <1>0, <3>2, <4>1, DatabaseType
    <3> QED
      BY <2>2, <3>1, <3>2
  <2>4. ~service'.up => Shown' = "unknown"
    BY <2>1, <2>3 DEF Sound, Truthful, Shape, Shown
  <2>5. Truthful'
    BY <2>1, <2>4 DEF Truthful, DownIsReported, Quiet, EngineSteps
  <2>6. ASSUME strayed' = {} PROVE Readable'
    <3>1. strayed = {} /\ ~Midway
      <4>1. CASE AnnounceFails
        BY <1>0, <2>6, <4>1 DEF AnnounceFails, Midway, Stands, Early
      <4>2. CASE WorkerKilled \/ PowerLost
        BY <2>6, <4>2 DEF WorkerKilled, PowerLost, Ends
      <4> QED
        BY <1>1, <4>1, <4>2
    <3> QED
      BY <2>1, <2>3, <3>1 DEF Sound, Readable
  <2> QED
    BY <2>5, <2>6 DEF Sound
<1>2. CASE StopFails
  <2>1. /\ worker' = Recovering /\ worker.before = None /\ ~Midway /\ UNCHANGED <<disk, outcome, strayed>>
        /\ (service' = service \/ service' = Down)
    BY <1>0, <1>2 DEF StopFails, Stands, Early, Midway
  <2>2. worker'.at = "revive" /\ ~Midway'
    BY <1>0, <2>1, RecoveringIs, RecoveringType DEF Onward, Midway
  <2>3. Truthful'
    BY <2>2 DEF Truthful, DownIsReported, Quiet, Early, EngineSteps
  <2>4. strayed' = {} => Readable'
    BY <2>1, <2>2 DEF Sound, Readable, Down
  <2> QED
    BY <2>3, <2>4 DEF Sound
<1>3. CASE StartRaises
  <2>1. Starting /\ UNCHANGED <<disk, service, outcome, strayed>>
    BY <1>3 DEF StartRaises
  <2>2. strayed = {} => Database(disk) # Torn
    BY <2>1, StartsOnReadable DEF Sound
  <2>3. CASE worker.at = "revive"
    <3>1. worker'.at = "finish" /\ worker'.verdict = "rollback_failed" /\ worker'.ok = FALSE
      BY <1>0, <1>3, <2>3 DEF StartRaises, Ending, Workers
    <3> QED
      BY <2>1, <2>2, <3>1, SoundAlone DEF Midway, Early, Quiet, EngineSteps
  <2>4. CASE worker.at # "revive"
    <3>1. worker' = Recovering /\ Midway
      BY <1>0, <1>3, <2>1, <2>4 DEF StartRaises, Starting, Stands, Late, Midway
    <3> QED
      BY <2>1, <2>2, <3>1, SoundRecovering DEF Sound, Readable
  <2> QED
    BY <2>3, <2>4
<1>4. CASE CheckpointFails
  <2>1. /\ worker' = Recovering /\ worker.before = None /\ ~Midway
        /\ UNCHANGED <<disk, service, outcome, strayed>>
    BY <1>0, <1>4 DEF CheckpointFails, Stands, Early, Midway
  <2>2. strayed = {} => Database(disk) # Torn
    BY <2>1 DEF Sound, Readable
  <2> QED
    BY <2>1, <2>2, SoundRecovering
<1> QED
  BY <1>1, <1>2, <1>3, <1>4

(* ServiceIsSound: for every archive, every failing call and every kill the *)
(* dashboard is up on one readable, current state, or the status does not   *)
(* say so.                                                                  *)
THEOREM ServiceStaysSound == RestoreSpec => []ServiceIsSound
<1> DEFINE Inv == TypeInv /\ Shape /\ Progress /\ Sound
<1>1. RestoreInit => Inv
  <2> SUFFICES ASSUME RestoreInit PROVE Inv
    OBVIOUS
  <2>1. /\ worker.at = "idle" /\ worker.before = None /\ ~worker.spent /\ service.up
        /\ service.cached = Cached(disk) /\ Database(disk) = Initial
    BY DEF RestoreInit, Idle, Database
  <2>2. Truthful
    BY <2>1 DEF Truthful, DownIsReported, At, Quiet, EngineSteps
  <2>3. Readable
    BY <2>1, RestoreConstants DEF Readable, Midway, At
  <2> QED
    BY <2>1, <2>2, <2>3, InitType, NotMidway DEF Midway, Sound
<1>2. Inv /\ [RestoreNext]_vars => Inv'
  <2> SUFFICES ASSUME TypeInv, Shape, Progress, Sound, [RestoreNext]_vars PROVE Inv'
    OBVIOUS
  <2>1. TypeInv' /\ Shape' /\ Progress'
    BY TypesAreKept, ProgressIsKept
  <2>2. CASE UNCHANGED vars
    BY <2>1, <2>2 DEF vars, Sound, Truthful, Readable, DownIsReported, Shown, Midway, At
  <2> QED
    BY <2>1, <2>2, UserSound, BeginsSound, EngineSound, PuttingBackSound, StartsSound, EndsSound,
       FaultSound
    DEF RestoreNext, WorkerStep, FaultStep
<1>3. Inv => ServiceIsSound
  BY DEF Sound, Truthful, Readable, ServiceIsSound, NeverTorn, RunsWhatIsOnDisk
<1> QED
  BY <1>1, <1>2, <1>3, PTL DEF RestoreSpec

=============================================================================
