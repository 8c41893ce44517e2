------------------------------ MODULE Restore ------------------------------
(***************************************************************************)
(* Backup archives and the restore that puts one back: backend/backup, the *)
(* endpoints of api/backup.py, and the worker of ccc-restore-apply from    *)
(* its first status to its last. How the worker is launched, locked out    *)
(* and acknowledged is Lifecycle's.                                        *)
(*                                                                         *)
(* The database is a file and, while the service writes, a journal that    *)
(* makes sense on that file only. The engine and the worker each copy the  *)
(* state files before anything is written; both copies hold the same, as   *)
(* nothing writes between them, so one, "before", stands for both.         *)
(***************************************************************************)
EXTENDS Naturals

CONSTANTS
  Own,          \* what the users of this host write
  Initial,      \* what they had written before the first step here
  Uploads,      \* archives somebody may upload
  Passphrase,   \* of the backups made here
  Unservable,   \* settings the dashboard does not come up with
  Version,      \* MANIFEST_VERSION
  MaxRestores,  \* bound
  MaxFaults     \* bound on failing calls, kills and power losses

Absent == "absent"
Torn == "torn"       \* a database that fails its integrity check
Key == "key"         \* anything that holds a private key

Required == {"ccc.db", "env.subset"}
Optional == {"config.json", "conduit_settings.json"}

ASSUME RestoreConstants ==
  /\ {Absent, Torn, Key} \cap Own = {} /\ Initial \in Own
  /\ Version \in Nat /\ MaxRestores \in Nat /\ MaxFaults \in Nat
  /\ \A a \in Uploads :
       /\ DOMAIN a = {"passphrase", "version", "manifest", "items"} /\ a.version \in Nat
       /\ \A name \in DOMAIN a.items : a.items[name] # Absent

VARIABLES
  disk,      \* the state files, and the drop-in of conduit
  service,   \* whether the dashboard is up, and the settings it has cached
  backup,    \* where the creation of a backup stands, and what it holds
  worker,    \* the restore under way
  outcome,   \* restore-status.json
  restores,
  faults,
  strayed    \* what the promises below except, read by no action: see Strays

vars == <<disk, service, backup, worker, outcome, restores, faults, strayed>>

-----------------------------------------------------------------------------
(* State files *)

NoJournal == [on |-> Absent, has |-> Absent]

(* What opening the database finds. *)
Database(d) ==
  IF d.journal = NoJournal THEN d.db
  ELSE IF d.journal.on = d.db THEN d.journal.has ELSE Torn

Folded(d) == [d EXCEPT !.db = Database(d), !.journal = NoJournal]

Cached(d) == [env |-> d.env, config |-> d.config]

Servable(d) == Database(d) # Torn /\ d.env \notin Unservable

Down == [up |-> FALSE, cached |-> [env |-> Absent, config |-> Absent]]

-----------------------------------------------------------------------------
(* Archives *)

Item(a, name) == IF name \in DOMAIN a.items THEN a.items[name] ELSE Absent

(* A digest says no more here than that the data is what was packed. *)
Packed(items) ==
  [passphrase |-> Passphrase, version |-> Version, manifest |-> items, items |-> items]

Decrypts(a, phrase) == a.passphrase = phrase

VersionIsKnown(a) == a.version <= Version

(* Every member is named in the manifest, and as digested there. *)
MembersMatch(a) == a.items = a.manifest

HoldsNoKey(a) == \A name \in DOMAIN a.items : a.items[name] # Key

(* open_backup, wherever an archive comes in. *)
Opens(a, phrase) ==
  Decrypts(a, phrase) /\ VersionIsKnown(a) /\ MembersMatch(a) /\ HoldsNoKey(a)

(* Mutant: a backup without its settings is let through to the writes.      *)
NamesAreKnown(a) == DOMAIN a.items \subseteq Required \cup Optional

(* The rest of what the engine asks of an archive: after the stop. *)
NamesAreValid(a) ==
  /\ Required \subseteq DOMAIN a.items
  /\ DOMAIN a.items \subseteq Required \cup Optional

NoArchive == Packed([name \in {} |-> Absent])

-----------------------------------------------------------------------------
(* The worker *)

Strays == {"killed",  \* the worker ended between its first and last write
           "hot",     \* files were put back under a running service
           "broken"}  \* putting files back failed

None == [at |-> "none"]

Idle == [at |-> "idle", archive |-> NoArchive, before |-> None, left |-> {},
         spent |-> FALSE, verdict |-> "none", ok |-> FALSE, recovering |-> FALSE]

At(place) == worker.at = place

Goes(place) == worker' = [worker EXCEPT !.at = place]

Fault == faults < MaxFaults /\ faults' = faults + 1

(* What is put back, in the order of the checkpoint's dict, and last the    *)
(* journal that was not there.                                              *)
Turn == [db |-> 1, journal |-> 2, env |-> 3, config |-> 4, gone |-> 5]

Captured(before) ==
  {"db", "env", IF before.journal = NoJournal THEN "gone" ELSE "journal"}
  \cup IF before.config = Absent THEN {} ELSE {"config"}

PuttingBack(place) == [worker EXCEPT !.at = place, !.left = Captured(worker.before)]

(* Where the worker is about to write its last status. *)
Ending(verdict, ok) ==
  [worker EXCEPT !.at = "finish", !.verdict = verdict, !.ok = ok, !.spent = TRUE]

(* The except of run_worker. With the copy of the database used up the      *)
(* first file to put back is missing, and nothing is started.               *)
Recovering ==
  LET w == [worker EXCEPT !.recovering = TRUE] IN
  IF w.before = None THEN [w EXCEPT !.at = "revive"]
  ELSE IF w.spent THEN [Ending("rollback_failed", FALSE) EXCEPT !.recovering = TRUE]
  ELSE [PuttingBack("recover") EXCEPT !.recovering = TRUE]

RestoreInit ==
  /\ \E config \in {Absent, Initial} :
       disk = [db |-> Initial, journal |-> NoJournal, env |-> Initial, secret |-> "own",
               config |-> config, dropin |-> Initial]
  /\ service = [up |-> TRUE, cached |-> Cached(disk)]
  /\ backup = [at |-> "none", items |-> [name \in {} |-> Absent]]
  /\ worker = Idle
  /\ outcome = [state |-> "idle", ok |-> FALSE]
  /\ restores = 0 /\ faults = 0 /\ strayed = {}

-----------------------------------------------------------------------------
(* Users. A dashboard that failed its health check takes no changes. *)

Serving ==
  /\ service.up
  /\ \/ worker.at \in {"idle", "announce", "stop", "settings", "finish"}
     \/ worker.at = "revive" /\ worker.before = None

Writes ==
  /\ Serving /\ Database(disk) # Torn
  /\ \E v \in Own :
       disk' = [disk EXCEPT !.journal = [on |-> disk.db, has |-> v]]
  /\ UNCHANGED <<service, backup, worker, outcome, restores, faults, strayed>>

ChangesPassword ==
  /\ Serving
  /\ \E v \in Own :
       /\ disk' = [disk EXCEPT !.env = v]
       /\ service' = [service EXCEPT !.cached.env = v]
  /\ UNCHANGED <<backup, worker, outcome, restores, faults, strayed>>

(* The settings of conduit, the database and the rest are read one after    *)
(* the other, and the rest goes on meanwhile.                               *)
BackupViewsConduit ==
  /\ Serving /\ backup.at = "none"
  /\ \E seen \in {disk.dropin, Absent} :
       backup' = [at |-> "viewed", items |-> [name \in {"conduit_settings.json"} |-> seen]]
  /\ UNCHANGED <<disk, service, worker, outcome, restores, faults, strayed>>

With(items, name, data) == [n \in DOMAIN items \cup {name} |-> IF n = name THEN data ELSE items[n]]

BackupSnapshots ==
  /\ Serving /\ backup.at = "viewed"
  /\ backup' = [at |-> "snapshot", items |-> With(backup.items, "ccc.db", Database(disk))]
  /\ UNCHANGED <<disk, service, worker, outcome, restores, faults, strayed>>

BackupCollects ==
  /\ Serving /\ backup.at = "snapshot"
  /\ LET items == With(backup.items, "env.subset", disk.env) IN
     backup' = [at |-> "made", items |-> IF disk.config = Absent THEN items
                                         ELSE With(items, "config.json", disk.config)]
  /\ UNCHANGED <<disk, service, worker, outcome, restores, faults, strayed>>

Archives == Uploads \cup IF backup.at = "made" THEN {Packed(backup.items)} ELSE {}

(* A restore is asked for, and the worker has said that it accepts. The     *)
(* endpoint and the worker both open the archive, and refuse what does not. *)
Accepted ==
  /\ Serving /\ At("idle") /\ restores < MaxRestores
  /\ \E a \in Archives :
       Opens(a, Passphrase) /\ worker' = [Idle EXCEPT !.at = "announce", !.archive = a]
  /\ restores' = restores + 1
  /\ UNCHANGED <<disk, service, backup, outcome, faults, strayed>>

-----------------------------------------------------------------------------
(* The worker: up to its checkpoint *)

Announces ==
  /\ At("announce") /\ Goes("stop")
  /\ outcome' = [state |-> "in_progress", ok |-> FALSE]
  /\ UNCHANGED <<disk, service, backup, restores, faults, strayed>>

(* The first status is written before the try: nothing was touched. *)
AnnounceFails ==
  /\ At("announce") /\ Fault
  /\ worker' = Idle
  /\ UNCHANGED <<disk, service, backup, outcome, restores, strayed>>

(* Mutant: a stop that is still under way is taken for done.                *)
StopsLater ==
  /\ At("stop") /\ Goes("checkpoint")
  /\ disk' = Folded(disk)
  /\ UNCHANGED <<service, backup, outcome, restores, faults, strayed>>

(* A stop that systemd had to enforce leaves the journal behind. *)
StopsService ==
  /\ At("stop") /\ Goes("checkpoint")
  /\ service' = Down
  /\ disk' \in {disk, Folded(disk)}
  /\ backup' = IF backup.at = "made" THEN backup ELSE [backup EXCEPT !.at = "none"]
  /\ UNCHANGED <<outcome, restores, faults, strayed>>

StopFails ==
  /\ At("stop") /\ Fault
  /\ service' \in {service, Down}
  /\ backup' = IF backup.at = "made" \/ service'.up THEN backup ELSE [backup EXCEPT !.at = "none"]
  /\ worker' = Recovering
  /\ UNCHANGED <<disk, outcome, restores, strayed>>

(* Mutant: the worker leaves the journal out of its checkpoint.             *)
TakesCheckpointOfFiles ==
  /\ At("checkpoint")
  /\ worker' = [worker EXCEPT !.at = "engine", !.before = [disk EXCEPT !.journal = NoJournal]]
  /\ UNCHANGED <<disk, service, backup, outcome, restores, faults, strayed>>

TakesCheckpoint ==
  /\ At("checkpoint")
  /\ worker' = [worker EXCEPT !.at = "engine", !.before = disk]
  /\ UNCHANGED <<disk, service, backup, outcome, restores, faults, strayed>>

(* A copy that cannot be made: the recovery has nothing to put back, and    *)
(* starts the service on what is there.                                     *)
CheckpointFails ==
  /\ At("checkpoint") /\ Fault
  /\ worker' = Recovering
  /\ UNCHANGED <<disk, service, backup, outcome, restores, strayed>>

-----------------------------------------------------------------------------
(* The engine *)

(* Names are checked and the second checkpoint taken outside its try: what  *)
(* fails before the first write is the worker's to recover.                 *)
EngineBegins ==
  /\ At("engine") /\ NamesAreValid(worker.archive)
  /\ Goes("config")
  /\ UNCHANGED <<disk, service, backup, outcome, restores, faults, strayed>>

EngineRefuses ==
  /\ At("engine") /\ ~NamesAreValid(worker.archive)
  /\ worker' = Recovering
  /\ UNCHANGED <<disk, service, backup, outcome, restores, faults, strayed>>

(* The second checkpoint, of an archive that may well be valid.             *)
EngineRaises ==
  /\ At("engine") /\ Fault
  /\ worker' = Recovering
  /\ UNCHANGED <<disk, service, backup, outcome, restores, strayed>>

WritesConfig ==
  /\ At("config") /\ Goes("database")
  /\ disk' = IF Item(worker.archive, "config.json") = Absent THEN disk
             ELSE [disk EXCEPT !.config = Item(worker.archive, "config.json")]
  /\ UNCHANGED <<service, backup, outcome, restores, faults, strayed>>

WritesDatabase ==
  /\ At("database") /\ Goes("journal")
  /\ disk' = [disk EXCEPT !.db = Item(worker.archive, "ccc.db")]
  /\ UNCHANGED <<service, backup, outcome, restores, faults, strayed>>

DropsJournal ==
  /\ At("journal") /\ Goes("env")
  /\ disk' = [disk EXCEPT !.journal = NoJournal]
  /\ UNCHANGED <<service, backup, outcome, restores, faults, strayed>>

(* The allowed keys are the archive's, the secret is the host's. *)
WritesEnv ==
  /\ At("env") /\ Goes("validate")
  /\ disk' = [disk EXCEPT !.env = Item(worker.archive, "env.subset")]
  /\ UNCHANGED <<service, backup, outcome, restores, faults, strayed>>

(* Only the database file is looked at, without a journal. *)
Validates ==
  /\ At("validate") /\ disk.db # Torn
  /\ worker' = [worker EXCEPT !.at = "start", !.verdict = "restored"]
  /\ UNCHANGED <<disk, service, backup, outcome, restores, faults, strayed>>

Unreadable ==
  /\ At("validate") /\ disk.db = Torn
  /\ worker' = PuttingBack("undo")
  /\ UNCHANGED <<disk, service, backup, outcome, restores, faults, strayed>>

(* The env file may be in place already when its writer fails. *)
EngineFails ==
  /\ worker.at \in {"config", "database", "journal", "env", "validate"} /\ Fault
  /\ worker' = PuttingBack("undo")
  /\ disk' \in {disk} \cup
       IF At("env") THEN {[disk EXCEPT !.env = Item(worker.archive, "env.subset")]} ELSE {}
  /\ UNCHANGED <<service, backup, outcome, restores, strayed>>

-----------------------------------------------------------------------------
(* Putting back: by the engine (undo), after an unhealthy start (back), and *)
(* after an exception (recover). The worker's copies are moved, not copied. *)

PutBack(d, before, file) ==
  CASE file = "db" -> [d EXCEPT !.db = before.db]
    [] file \in {"journal", "gone"} -> [d EXCEPT !.journal = before.journal]
    [] file = "env" -> [d EXCEPT !.env = before.env, !.secret = before.secret]
    [] file = "config" -> [d EXCEPT !.config = before.config]

PutsBack ==
  /\ worker.at \in {"undo", "back", "recover"}
  /\ \E file \in worker.left :
       /\ \A other \in worker.left : Turn[file] <= Turn[other]
       /\ disk' = PutBack(disk, worker.before, file)
       /\ worker' = [worker EXCEPT !.left = @ \ {file}, !.spent = @ \/ ~At("undo")]
  /\ strayed' = strayed \cup IF service.up THEN {"hot"} ELSE {}
  /\ UNCHANGED <<service, backup, outcome, restores, faults>>

IsBack ==
  /\ worker.at \in {"undo", "back", "recover"} /\ worker.left = {}
  /\ worker' = CASE At("undo") -> [worker EXCEPT !.at = "start", !.verdict = "rolled_back"]
                 [] At("back") -> [worker EXCEPT !.at = "restart"]
                 [] OTHER -> [worker EXCEPT !.at = "revive"]
  /\ UNCHANGED <<disk, service, backup, outcome, restores, faults, strayed>>

(* The engine says so, and the worker does not use its own copies; a second *)
(* exception leaves the service stopped.                                    *)
PutBackFails ==
  /\ worker.at \in {"undo", "back", "recover"} /\ Fault
  /\ worker' = CASE At("undo") -> [worker EXCEPT !.at = "start", !.verdict = "rollback_failed"]
                 [] At("back") -> Recovering
                 [] OTHER -> Ending("rollback_failed", FALSE)
  /\ strayed' = strayed \cup {"broken"}
  /\ UNCHANGED <<disk, service, backup, outcome, restores>>

-----------------------------------------------------------------------------
(* Starting, and the end *)

(* systemctl start, which does nothing to a unit that is active. *)
Runs(up) ==
  IF service.up \/ ~up
  THEN UNCHANGED disk /\ service' = IF up THEN service ELSE Down
  ELSE disk' = Folded(disk) /\ service' = [up |-> TRUE, cached |-> Cached(disk)]

(* Mutant: a restore that does not come up healthy is tried again.          *)
JudgedAgain(healthy) ==
  IF healthy THEN Ending("restored", TRUE) ELSE worker

(* restart_healthy returns. *)
Judged(healthy) ==
  CASE At("start") /\ worker.verdict = "restored" /\ healthy -> [worker EXCEPT !.at = "settings"]
    [] At("start") /\ worker.verdict = "restored" /\ ~healthy -> PuttingBack("back")
    [] At("start") /\ worker.verdict # "restored" -> Ending(worker.verdict, healthy)
    [] At("restart") -> Ending("rolled_back", healthy)
    [] OTHER -> Ending(IF healthy THEN "rolled_back" ELSE "rollback_failed", healthy)

Starting == worker.at \in {"start", "restart", "revive"}

Starts ==
  /\ Starting /\ Servable(disk)
  /\ Runs(TRUE)
  /\ worker' = Judged(TRUE)
  /\ UNCHANGED <<backup, outcome, restores, faults, strayed>>

StartsUnhealthy ==
  /\ Starting /\ (Servable(disk) => faults < MaxFaults)
  /\ faults' = IF Servable(disk) THEN faults + 1 ELSE faults
  /\ \E up \in BOOLEAN : Runs(up)
  /\ worker' = Judged(FALSE)
  /\ UNCHANGED <<backup, outcome, restores, strayed>>

(* systemctl itself fails, which is an exception. *)
StartRaises ==
  /\ Starting /\ Fault
  /\ worker' = IF At("revive") THEN Ending("rollback_failed", FALSE) ELSE Recovering
  /\ UNCHANGED <<disk, service, backup, outcome, restores, strayed>>

(* By the helper, and no failure of it undoes the restore. *)
AppliesSettings ==
  /\ At("settings")
  /\ LET settings == Item(worker.archive, "conduit_settings.json") IN
     disk' \in {disk} \cup IF settings = Absent THEN {} ELSE {[disk EXCEPT !.dropin = settings]}
  /\ worker' = Ending("restored", TRUE)
  /\ UNCHANGED <<service, backup, outcome, restores, faults, strayed>>

Finishes ==
  /\ At("finish")
  /\ outcome' = [state |-> worker.verdict, ok |-> worker.ok]
  /\ worker' = Idle
  /\ UNCHANGED <<disk, service, backup, restores, faults, strayed>>

(* The checkpoint is cleaned up by now: the recovery fails at its first     *)
(* file, whatever the restore came to. A second failure leaves no status.   *)
FinishFails ==
  /\ At("finish") /\ Fault
  /\ worker' = IF worker.recovering THEN Idle ELSE Recovering
  /\ UNCHANGED <<disk, service, backup, outcome, restores, strayed>>

-----------------------------------------------------------------------------
(* Kills and power losses *)

(* From the checkpoint to the moment the worker knows what is in force. *)
Midway == worker.before # None /\ worker.at \notin {"idle", "settings", "finish"}

Ends ==
  /\ ~At("idle") /\ Fault
  /\ worker' = Idle
  /\ strayed' = strayed \cup IF Midway THEN {"killed"} ELSE {}

WorkerKilled ==
  /\ Ends
  /\ UNCHANGED <<disk, service, backup, outcome, restores>>

(* The service starts with the host. *)
PowerLost ==
  /\ Ends
  /\ disk' = Folded(disk)
  /\ service' = [up |-> TRUE, cached |-> Cached(disk)]
  /\ backup' = IF backup.at = "made" THEN backup ELSE [backup EXCEPT !.at = "none"]
  /\ UNCHANGED <<outcome, restores>>

-----------------------------------------------------------------------------
BackupStep == BackupViewsConduit \/ BackupSnapshots \/ BackupCollects

UserStep == Writes \/ ChangesPassword \/ BackupStep \/ Accepted

WorkerStep ==
  \/ Announces \/ StopsService \/ TakesCheckpoint
  \/ EngineBegins \/ EngineRefuses \/ WritesConfig \/ WritesDatabase \/ DropsJournal
  \/ WritesEnv \/ Validates \/ Unreadable
  \/ PutsBack \/ IsBack \/ Starts \/ StartsUnhealthy \/ AppliesSettings \/ Finishes

FaultStep ==
  \/ AnnounceFails \/ StopFails \/ CheckpointFails \/ EngineRaises \/ EngineFails
  \/ PutBackFails \/ StartRaises \/ FinishFails \/ WorkerKilled \/ PowerLost

RestoreNext == UserStep \/ WorkerStep \/ FaultStep

RestoreSpec == RestoreInit /\ [][RestoreNext]_vars

(* The worker is a process of its own: nothing it calls waits for ever.     *)
RestoreLiveSpec == RestoreSpec /\ WF_vars(WorkerStep)

-----------------------------------------------------------------------------
(* What the status page says: a status whose writer is gone is not          *)
(* believed, nor when the next worker has not written one of its own yet.   *)
Shown ==
  IF outcome.state = "in_progress" /\ worker.at \in {"idle", "announce"}
  THEN "unknown" ELSE outcome.state

(* What somebody who comes back later may find. *)
Content ==
  LET d == IF Midway THEN worker.before ELSE disk IN
  [db |-> Database(d), env |-> d.env, secret |-> d.secret, config |-> d.config,
   dropin |-> d.dropin]

Phase ==
  CASE At("idle") -> "idle"
    [] At("settings") -> "committed"
    [] At("finish") -> [restored |-> "committed", rolled_back |-> "reverted",
                        rollback_failed |-> "broken"][worker.verdict]
    [] Midway -> "working"
    [] OTHER -> "asked"

Wanted ==
  [db |-> Item(worker.archive, "ccc.db"), env |-> Item(worker.archive, "env.subset"),
   config |-> Item(worker.archive, "config.json"),
   settings |-> Item(worker.archive, "conduit_settings.json")]

Promise == INSTANCE RestorePromise WITH
  content <- Content, phase <- Phase, wanted <- Wanted, status <- Shown

Data ==
  Own \cup {Absent, Torn} \cup UNION {{a.items[n] : n \in DOMAIN a.items} : a \in Uploads}

Found == Data \ {Absent, Key}

Disks ==
  [db : Found, journal : {NoJournal} \cup [on : Found, has : Own], env : Found, secret : {"own"},
   config : Data \ {Key}, dropin : Found]

Verdicts == {"restored", "rolled_back", "rollback_failed"}

(* Type correctness: no file the dashboard needs is ever missing, and none  *)
(* ever holds a private key.                                                *)
RestoreTypeOK ==
  /\ disk \in Disks
  /\ service.up \in BOOLEAN /\ service.cached \in [env : Data, config : Data]
  /\ backup.at \in {"none", "viewed", "snapshot", "made"}
  /\ worker.before \in Disks \cup {None}
  /\ worker.verdict \in Verdicts \cup {"none"}
  /\ outcome.state \in {"idle", "in_progress"} \cup Verdicts
  /\ outcome.ok \in BOOLEAN
  /\ restores \in 0 .. MaxRestores /\ faults \in 0 .. MaxFaults /\ strayed \subseteq Strays

(* What a restore does, whatever fails in it and whenever it is killed, is  *)
(* what RestorePromise says: all of the archive, or the host as it was, or  *)
(* a status that claims neither; conduit's settings only with the first.    *)
RestoreImplementsPromise == Promise!PromiseSpec

(* No restore and no rollback starts the service on a database with the     *)
(* journal of another one, or on one that is not readable.                  *)
NeverTorn == service.up /\ strayed = {} => Database(disk) # Torn

(* Between restores the service works with the settings that are on disk,   *)
(* not with ones it cached before they were replaced.                       *)
RunsWhatIsOnDisk ==
  service.up /\ At("idle") /\ strayed = {} => service.cached = Cached(disk)

(* No status says that the dashboard came back when it is down.             *)
DownIsReported ==
  ~service.up /\ At("idle") => Shown = "unknown" \/ (Shown = "rollback_failed" /\ ~outcome.ok)
                               \/ (Shown = "rolled_back" /\ ~outcome.ok)

(* However a restore ends, the service is up on one whole, current state,   *)
(* or the status does not say so.                                           *)
ServiceIsSound == NeverTorn /\ RunsWhatIsOnDisk /\ DownIsReported

(* A restore that was announced ends in a status other than in_progress,    *)
(* or in one that the page does not believe.                                *)
EveryRestoreEnds == ~At("idle") ~> At("idle") /\ Shown # "in_progress"
=============================================================================
