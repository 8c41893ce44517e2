---------------------------- MODULE UpdateEngine ----------------------------
(***************************************************************************)
(* update.sh: the update transaction of a Conduit Control Center host.     *)
(*                                                                         *)
(* One engine process runs at a time. Its forward phases, its EXIT trap    *)
(* (_on_exit), its startup recovery and its rollback are the actions; the  *)
(* process may be signalled, a command may fail, the process may be killed *)
(* and the host may reboot between any two of them. It writes the          *)
(* transaction log through UpdateLog and calls ccc-runtime, whose commands *)
(* RuntimeStore runs step by step.                                         *)
(*                                                                         *)
(* What is deployed by phase 3 and restored by phase 5 is kept as two      *)
(* objects: `code`, the rsynced application tree that holds _version.py,   *)
(* and `bin`, the privileged helper directory that holds ccc-runtime.      *)
(* `data` stands for the contents of /etc/conduit-cc that the running      *)
(* service writes (ccc.db, config.json).                                   *)
(***************************************************************************)
EXTENDS UpdateLog, RuntimeStore

CONSTANTS
  Baseline,     \* the release a legacy, unconverted host runs
  Installed,    \* the release a converted host runs at the start
  BackupKeep,   \* how many backups rotation keeps (BACKUP_KEEP)
  MaxFaults,    \* bound on signals, failures, kills and reboots together
  MaxWrites,    \* bound on service writes to `data`
  LegacyHosts   \* the layouts an initial host may have: TRUE for the legacy one

(* Whatever a fact may record: a release, runtime or attempt, a flag, or the *)
(* "none" that stands for an empty string.                                  *)
EngineFacts == Runtimes \cup Attempts \cup {"True", "False", "none"}

ASSUME EngineConstants ==
  /\ {Baseline, Installed} \subseteq Releases
  /\ EngineFacts \subseteq FactValues
  /\ BackupKeep \in Nat /\ MaxFaults \in Nat /\ MaxWrites \in Nat
  /\ LegacyHosts \in SUBSET BOOLEAN

VARIABLES
  code,     \* [ver, intact]: APP_DIR; not intact while an rsync is half done
  bin,      \* /opt/conduit-cc/bin: a release's set, "legacy", "mixed", "absent"
  data,     \* how many writes /etc/conduit-cc holds
  service,  \* conduit-cc.service: up, and the version and runtime it loaded
  backup,   \* backup[a]: BACKUP_ROOT/<timestamp>-<a>
  pc,       \* the engine's program counter, "idle" when no engine runs
  proc,     \* the engine's process-local variables
  before,   \* before[a]: the host when attempt a began (observation only)
  faults    \* faults injected so far

hostVars == <<code, bin, data, service, backup>>
storeVars == <<tree, manifest, staging, selector, prevRec, convRec, op, res>>
vars == <<tx, storeVars, hostVars, pc, proc, before, faults>>

-----------------------------------------------------------------------------
(* Host state *)

Stopped == [up |-> FALSE, ver |-> "none", rt |-> "none"]

NoBackup == [state |-> "absent", code |-> [ver |-> "none", intact |-> FALSE],
             bin |-> "none", data |-> 0]

NoSnapshot == [code |-> [ver |-> "none", intact |-> FALSE], bin |-> "none",
               selector |-> "absent"]

Snapshot == [code |-> code, bin |-> bin, selector |-> selector]

(* What systemctl start can load from disk. *)
Startable == selector = "dir" \/ (selector \in Runtimes /\ tree[selector] # "absent")
Loaded == [up |-> TRUE, ver |-> code.ver, rt |-> selector]

(* ccc-runtime is there to be called: the bootstrap runs a staged copy, an  *)
(* ordinary update the installed one (absent from a legacy helper set).     *)
ToolPresent(staged) == staged \/ bin \notin {"absent", "legacy"}

ProcIdle == [att |-> "none", rel |-> "none", cur |-> "none", staged |-> FALSE,
             begun |-> FALSE, downtime |-> FALSE, succeeded |-> FALSE,
             rbActive |-> FALSE, rbAttempted |-> FALSE, mine |-> FALSE,
             rbPhase |-> "none", failed |-> FALSE, recovering |-> FALSE,
             durable |-> "none"]

Doc == tx[proc.att]
FactOf(key) == Doc.facts[key]

Init ==
  /\ LogInit
  /\ \E legacy \in LegacyHosts :
       IF legacy
       THEN /\ tree = [r \in Runtimes |-> "absent"]
            /\ manifest = [r \in Runtimes |-> "absent"]
            /\ selector = "dir"
            /\ code = [ver |-> Baseline, intact |-> TRUE]
            /\ bin = "legacy"
       ELSE /\ tree = [r \in Runtimes |-> IF r = Installed THEN "valid" ELSE "absent"]
            /\ manifest = [r \in Runtimes |-> IF r = Installed THEN "installer" ELSE "absent"]
            /\ selector = Installed
            /\ code = [ver |-> Installed, intact |-> TRUE]
            /\ bin = Installed
  /\ staging = [a \in Attempts |-> "absent"]
  /\ prevRec = NoRecord /\ convRec = "none" /\ op = OpIdle /\ res = "none"
  /\ data = 0
  /\ service = [up |-> TRUE, ver |-> code.ver, rt |-> selector]
  /\ backup = [a \in Attempts |-> NoBackup]
  /\ pc = "idle" /\ proc = ProcIdle
  /\ before = [a \in Attempts |-> NoSnapshot]
  /\ faults = 0

-----------------------------------------------------------------------------
(* Building blocks. Each names what it changes; the rest is left alone.     *)

logFrame == <<storeVars, hostVars, before, faults>>

(* _tx_mark p || die: a mark the log refuses ends the forward path.         *)
MarkStep(here, p, facts, next) ==
  /\ pc = here
  /\ IF CanMark(Doc, p, facts)
     THEN /\ tx' = [tx EXCEPT ![proc.att] = Marked(@, p, facts)]
          /\ pc' = next
     ELSE UNCHANGED tx /\ pc' = "exit"
  /\ UNCHANGED <<proc, logFrame>>

(* _tx_mark p || ...: the engine goes on after a refused mark.              *)
TryMarked(p) ==
  [tx EXCEPT ![proc.att] = IF CanMark(@, p, NoFacts) THEN Marked(@, p, NoFacts) ELSE @]

(* _rt command: start it at `here`, its result is taken up at `next`.       *)
CallAt(here, name, id, next) ==
  /\ pc = here
  /\ Call(name, id, proc.att)
  /\ pc' = next
  /\ UNCHANGED <<tx, diskVars, hostVars, proc, before, faults>>

Answered(here, result) == pc = here /\ op = OpIdle /\ res = result

(* ... || die after a command.                                              *)
TakeResult(here, next, otherwise) ==
  /\ \/ Answered(here, "ok") /\ pc' = next
     \/ Answered(here, "err") /\ pc' = otherwise
  /\ res' = "none"
  /\ UNCHANGED <<tx, diskVars, op, hostVars, proc, before, faults>>

(* The engine process ends.                                                 *)
Exit == pc' = "idle" /\ proc' = ProcIdle

-----------------------------------------------------------------------------
(* Phase 0: preflight, then recovery of an interrupted transaction          *)

VenvPresent == selector = "dir" \/ (selector \in Runtimes /\ tree[selector] # "absent")

(* What phase0_preflight demands before it looks for an interrupted update. *)
Preflight(staged) ==
  /\ ToolPresent(staged)
  /\ VenvPresent
  /\ staged => code.ver = Baseline

StartEngine ==
  /\ pc = "idle"
  /\ \E r \in Releases, staged \in BOOLEAN :
       /\ Preflight(staged)
       /\ proc' = [ProcIdle EXCEPT !.rel = r, !.cur = code.ver, !.staged = staged]
  /\ pc' = "recover"
  /\ UNCHANGED <<tx, storeVars, hostVars, before, faults>>

PreDowntimePhases == {"begun", "ownership_intent", "ownership_complete",
  "backup_intent", "backup_complete", "candidate_intent", "candidate_ready",
  "downtime_intent"}

(* stop may have completed just before the completion mark *)
ClassifiedPreDowntime(a) ==
  /\ tx[a].phase \in PreDowntimePhases
  /\ tx[a].phase = "downtime_intent" => service.up

Recover ==
  /\ pc = "recover"
  /\ \/ Incomplete = {} /\ pc' = "begin" /\ UNCHANGED proc
     \/ (\E a, b \in Incomplete : a # b) /\ Exit
     \/ \E a \in Incomplete :
          /\ Incomplete = {a}
          /\ proc' = [proc EXCEPT !.att = a, !.begun = TRUE]
          /\ pc' = IF ClassifiedPreDowntime(a) THEN "rec_backup" ELSE "rec_check"
  /\ UNCHANGED <<tx, storeVars, hostVars, before, faults>>

RecoverBackup ==
  /\ pc = "rec_backup"
  /\ backup' = IF Doc.phase = "backup_intent"
               THEN [backup EXCEPT ![proc.att] = NoBackup] ELSE backup
  /\ pc' = IF FactOf("candidate_id") = Unset THEN "rec_mark" ELSE "rec_cand"
  /\ UNCHANGED <<tx, storeVars, code, bin, data, service, proc, before, faults>>

RecoverCandidate == CallAt("rec_cand", "reconcile", FactOf("candidate_id"), "rec_cand_wait")
RecoverCandidateDone == TakeResult("rec_cand_wait", "rec_mark", "exit")

RecoverClassify ==
  /\ pc = "rec_mark"
  /\ IF CanMark(Doc, "diagnostic_failure", NoFacts)
     THEN /\ tx' = TryMarked("diagnostic_failure")
          /\ proc' = [proc EXCEPT !.att = "none", !.begun = FALSE]
          /\ pc' = "begin"
     ELSE UNCHANGED <<tx, proc>> /\ pc' = "exit"
  /\ UNCHANGED logFrame

(* An interrupted downtime needs its backup and its recorded version, or    *)
(* the engine dies.                                                         *)
RecoverCheck ==
  /\ pc = "rec_check"
  /\ IF backup[proc.att].state # "absent" /\ FactOf("previous_version") # Unset
     THEN /\ proc' = [proc EXCEPT !.cur = FactOf("previous_version"),
                                  !.downtime = TRUE, !.recovering = TRUE]
          /\ pc' = "rb_enter"
     ELSE UNCHANGED proc /\ pc' = "exit"
  /\ UNCHANGED <<tx, logFrame>>

(* 0h: a confirmed update draws a fresh attempt id and begins its record.   *)
BeginAttempt ==
  /\ pc = "begin"
  /\ ToolPresent(proc.staged)
  /\ \E a \in Attempts :
       /\ tx[a] = NoDocument
       /\ Begin(a, proc.rel)
       /\ proc' = [proc EXCEPT !.att = a, !.begun = TRUE]
       /\ before' = [before EXCEPT ![a] = Snapshot]
  /\ pc' = "own_intent"
  /\ UNCHANGED <<storeVars, hostVars, faults>>

Cancel ==
  /\ pc = "begin"
  /\ Exit
  /\ UNCHANGED <<tx, logFrame>>

-----------------------------------------------------------------------------
(* Phase 1: backup, service running                                         *)

OwnershipIntent == MarkStep("own_intent", "ownership_intent", NoFacts, "own_done")
OwnershipComplete == MarkStep("own_done", "ownership_complete", NoFacts, "bk_intent")
BackupIntent ==
  MarkStep("bk_intent", "backup_intent", Fact("backup_dir", proc.att), "bk_mkdir")

BackupMkdir ==
  /\ pc = "bk_mkdir"
  /\ backup' = [backup EXCEPT ![proc.att].state = "partial"]
  /\ pc' = "bk_own"
  /\ UNCHANGED <<tx, storeVars, code, bin, data, service, proc, before, faults>>

(* _BACKUP_CREATED_BY_ATTEMPT=true *)
BackupOwned ==
  /\ pc = "bk_own"
  /\ proc' = [proc EXCEPT !.mine = TRUE]
  /\ pc' = "bk_copy"
  /\ UNCHANGED <<tx, logFrame>>

BackupCopy ==
  /\ pc = "bk_copy"
  /\ backup' = [backup EXCEPT ![proc.att] =
                  [state |-> "complete", code |-> code, bin |-> bin, data |-> data]]
  /\ pc' = "bk_done"
  /\ UNCHANGED <<tx, storeVars, code, bin, data, service, proc, before, faults>>

BackupComplete ==
  MarkStep("bk_done", "backup_complete", Fact("previous_version", proc.cur), "cand_intent")

-----------------------------------------------------------------------------
(* Phase 2: candidate runtime, service running                              *)

CandidateIntent ==
  MarkStep("cand_intent", "candidate_intent", Fact("candidate_id", proc.rel), "cand_build")

(* An existing runtime of that id is reused after live revalidation.        *)
CandidateReuse ==
  /\ pc = "cand_build"
  /\ tree[proc.rel] # "absent"
  /\ pc' = IF Sound(proc.rel) THEN "cand_done" ELSE "exit"
  /\ UNCHANGED <<tx, proc, logFrame>>

CandidateStage ==
  /\ pc = "cand_build" /\ tree[proc.rel] = "absent"
  /\ CallAt("cand_build", "stage", proc.rel, "cand_stage_wait")
CandidateStaged == TakeResult("cand_stage_wait", "cand_install", "exit")

CandidateInstall ==
  /\ pc = "cand_install"
  /\ staging' = [staging EXCEPT ![proc.att] = "built"]
  /\ pc' = "cand_final"
  /\ UNCHANGED <<tx, tree, manifest, selector, prevRec, convRec, op, res,
                 hostVars, proc, before, faults>>

CandidateFinalize == CallAt("cand_final", "finalize", proc.rel, "cand_final_wait")
CandidateFinalized == TakeResult("cand_final_wait", "cand_done", "exit")
CandidateReady == MarkStep("cand_done", "candidate_ready", NoFacts, "down_intent")

-----------------------------------------------------------------------------
(* Phase 3: downtime                                                        *)

DowntimeIntent == MarkStep("down_intent", "downtime_intent", NoFacts, "down_stop")

StopService ==
  /\ pc = "down_stop"
  /\ service' = Stopped
  /\ pc' = "down_flag"
  /\ UNCHANGED <<tx, storeVars, code, bin, data, backup, proc, before, faults>>

(* Set AFTER stop so rollback knows to restart the service. *)
DowntimeFlag ==
  /\ pc = "down_flag"
  /\ proc' = [proc EXCEPT !.downtime = TRUE]
  /\ pc' = "down_mark"
  /\ UNCHANGED <<tx, logFrame>>

DowntimeStarted ==
  MarkStep("down_mark", "downtime_started", Fact("downtime_started", "True"), "conv_intent")

ConversionIntent ==
  LET converts == selector \notin Runtimes IN
  MarkStep("conv_intent", "conversion_intent",
           Fact("converted_by_attempt", IF converts THEN "True" ELSE "False"),
           IF converts THEN "conv_run" ELSE "conv_check")

ConversionRun == CallAt("conv_run", "convert", Legacy, "conv_wait")
ConversionResult == TakeResult("conv_wait", "conv_done", "exit")

ConversionNotNeeded ==
  /\ pc = "conv_check"
  /\ pc' = IF SelectorValid THEN "conv_done" ELSE "exit"
  /\ UNCHANGED <<tx, proc, logFrame>>

ConversionComplete == MarkStep("conv_done", "conversion_complete", NoFacts, "trust_intent")

(* The trust ceremony between the two marks touches only the trust anchor.  *)
TrustIntent == MarkStep("trust_intent", "trust_intent", NoFacts, "trust_done")
TrustComplete == MarkStep("trust_done", "trust_complete", Fact("trust_done", "True"), "act_gate")

(* Mutant: the selector is flipped with no activation intent on record.     *)
ActivationGateNoIntent ==
  /\ pc = "act_gate"
  /\ \E passes \in BOOLEAN :
       /\ TargetGate(proc.rel, passes)
       /\ pc' = IF passes /\ SelectorValid THEN "act_run" ELSE "exit"
  /\ UNCHANGED <<tx, proc, logFrame>>

ActivationGate ==
  /\ pc = "act_gate"
  /\ \E passes \in BOOLEAN :
       /\ TargetGate(proc.rel, passes)
       /\ pc' = IF passes /\ SelectorValid THEN "act_intent" ELSE "exit"
  /\ UNCHANGED <<tx, proc, logFrame>>

ActivationIntent ==
  MarkStep("act_intent", "activation_intent", Fact("previous_runtime", ActiveRuntime), "act_run")

Activation == CallAt("act_run", "activate", proc.rel, "act_wait")
ActivationResult == TakeResult("act_wait", "act_done", "exit")
Activated == MarkStep("act_done", "activated", Fact("activation_done", "True"), "dep_intent")

DeployIntent == MarkStep("dep_intent", "deploy_intent", NoFacts, "dep_rsync")

(* rsync --delete replaces the tree file by file; _version.py is one of them *)
DeployRsync ==
  /\ pc = "dep_rsync"
  /\ \E v \in {code.ver, proc.rel} : code' = [ver |-> v, intact |-> FALSE]
  /\ pc' = "dep_code"
  /\ UNCHANGED <<tx, storeVars, bin, data, service, backup, proc, before, faults>>

DeployCode ==
  /\ pc = "dep_code"
  /\ code' = [ver |-> proc.rel, intact |-> TRUE]
  /\ pc' = "dep_helpers"
  /\ UNCHANGED <<tx, storeVars, bin, data, service, backup, proc, before, faults>>

(* Helpers are installed one by one, ccc-runtime last; sudoers, nginx and   *)
(* the units follow.                                                        *)
DeployHelpers ==
  /\ pc = "dep_helpers"
  /\ bin' = IF bin = "legacy" THEN "legacy" ELSE "mixed"
  /\ pc' = "dep_bin"
  /\ UNCHANGED <<tx, storeVars, code, data, service, backup, proc, before, faults>>

DeployBin ==
  /\ pc = "dep_bin"
  /\ bin' = proc.rel
  /\ pc' = "dep_done"
  /\ UNCHANGED <<tx, storeVars, code, data, service, backup, proc, before, faults>>

Deployed == MarkStep("dep_done", "deployed", NoFacts, "svc_intent")
ServiceStartIntent == MarkStep("svc_intent", "service_start_intent", NoFacts, "svc_start")

StartService ==
  /\ pc = "svc_start"
  /\ Startable
  /\ service' = Loaded
  /\ pc' = "svc_done"
  /\ UNCHANGED <<tx, storeVars, code, bin, data, backup, proc, before, faults>>

ServiceStarted == MarkStep("svc_done", "service_started", NoFacts, "health")

-----------------------------------------------------------------------------
(* Phase 4 and 6: health, success, retention                                *)

HealthPasses ==
  /\ pc = "health"
  /\ service.up /\ service.ver = proc.rel
  /\ pc' = "health_done"
  /\ UNCHANGED <<tx, proc, logFrame>>

HealthVerified == MarkStep("health_done", "health_verified", NoFacts, "success")
Success == MarkStep("success", "success", NoFacts, "success_flag")

SuccessFlag ==
  /\ pc = "success_flag"
  /\ proc' = [proc EXCEPT !.succeeded = TRUE]
  /\ pc' = "gc"
  /\ UNCHANGED <<tx, logFrame>>

CollectGarbage == CallAt("gc", "gc", "none", "gc_wait")
GarbageCollected == TakeResult("gc_wait", "rotate", "rotate")

(* completed_update_backups that still exist on disk *)
RetainedBackups ==
  {a \in Attempts : /\ IsTerminal(tx[a])
                    /\ Reached(tx[a], "backup_complete")
                    /\ backup[a].state # "absent"}

MoreThan(n, S) == \E f \in [1 .. n + 1 -> S] : \A i, j \in 1 .. n + 1 : f[i] = f[j] => i = j

(* Which backup is oldest is decided by wall-clock names, which may step:   *)
(* any retained backup may be the one removed.                              *)
RotateBackup ==
  /\ pc = "rotate"
  /\ MoreThan(BackupKeep, RetainedBackups)
  /\ \E a \in RetainedBackups : backup' = [backup EXCEPT ![a] = NoBackup]
  /\ UNCHANGED <<tx, storeVars, code, bin, data, service, pc, proc, before, faults>>

Finish ==
  /\ pc = "rotate"
  /\ ~MoreThan(BackupKeep, RetainedBackups)
  /\ Exit
  /\ UNCHANGED <<tx, logFrame>>

-----------------------------------------------------------------------------
(* _on_exit: the EXIT trap. The durable success record outranks the flag.   *)

ExitTrap ==
  /\ pc = "exit"
  /\ LET durable == IF proc.begun THEN Doc.phase ELSE "none"
         won == proc.succeeded \/ durable = "success" IN
     IF proc.downtime /\ ~won /\ ~proc.rbActive /\ ~proc.rbAttempted
     THEN pc' = "rb_enter" /\ proc' = [proc EXCEPT !.recovering = FALSE]
     ELSE IF proc.begun /\ ~won
     THEN pc' = "exit_backup" /\ proc' = [proc EXCEPT !.durable = durable]
     ELSE Exit
  /\ UNCHANGED <<tx, logFrame>>

(* Only a directory this process created is removed; failing to remove it   *)
(* leaves the record open.                                                  *)
ExitBackup ==
  /\ pc = "exit_backup"
  /\ IF proc.durable = "backup_intent" /\ proc.mine /\ backup[proc.att].state # "absent"
     THEN backup' = [backup EXCEPT ![proc.att] = NoBackup]
     ELSE UNCHANGED backup
  /\ pc' = IF proc.durable \in {"candidate_intent", "candidate_ready"}
           THEN "exit_cand" ELSE "exit_mark"
  /\ UNCHANGED <<tx, storeVars, code, bin, data, service, proc, before, faults>>

ExitCandidate == CallAt("exit_cand", "reconcile", FactOf("candidate_id"), "exit_cand_wait")

(* A refused reconciliation leaves the transaction open for recovery.       *)
ExitCandidateDone ==
  /\ \/ Answered("exit_cand_wait", "ok") /\ pc' = "exit_mark" /\ UNCHANGED proc
     \/ Answered("exit_cand_wait", "err") /\ Exit
  /\ res' = "none"
  /\ UNCHANGED <<tx, diskVars, op, hostVars, before, faults>>

ExitClassify ==
  /\ pc = "exit_mark"
  /\ tx' = IF ToolPresent(proc.staged) THEN TryMarked("diagnostic_failure") ELSE tx
  /\ Exit
  /\ UNCHANGED logFrame

-----------------------------------------------------------------------------
(* phase5_rollback                                                          *)

RollbackPhases == {"rollback_started", "runtime_restored", "files_restored",
                   "service_restore_intent"}

(* return 0 / return 1 of phase5_rollback: to _on_exit, which ends the      *)
(* process, or to recovery, which continues after a full rollback and dies  *)
(* after a failed one.                                                      *)
RollbackReturns(ok) ==
  IF proc.recovering /\ ok
  THEN /\ pc' = "begin"
       /\ proc' = [ProcIdle EXCEPT !.rel = proc.rel, !.staged = proc.staged,
                                   !.cur = code.ver]
  ELSE Exit

(* Mutant: an interrupted rollback is taken for a finished one.             *)
RollbackEnterOnce ==
  /\ pc = "rb_enter"
  /\ IF IsTerminal(Doc) \/ Doc.phase \in RollbackPhases
     THEN RollbackReturns(FALSE) /\ UNCHANGED tx
     ELSE /\ tx' = TryMarked("rollback_started")
          /\ proc' = [proc EXCEPT !.rbPhase = "rollback_started", !.rbActive = TRUE,
                                  !.rbAttempted = TRUE]
          /\ pc' = "rb_check"
  /\ UNCHANGED logFrame

RollbackEnter ==
  /\ pc = "rb_enter"
  /\ \/ /\ Doc.phase = "rolled_back"
        /\ RollbackReturns(TRUE) /\ UNCHANGED tx
     \/ /\ Doc.phase \in {"diagnostic_failure", "success"}
        /\ RollbackReturns(FALSE) /\ UNCHANGED tx
     \/ /\ Doc.phase \in RollbackPhases
        /\ proc' = [proc EXCEPT !.rbPhase = Doc.phase, !.rbActive = TRUE,
                                !.rbAttempted = TRUE]
        /\ pc' = "rb_check" /\ UNCHANGED tx
     \/ /\ ~IsTerminal(Doc) /\ Doc.phase \notin RollbackPhases
        /\ tx' = TryMarked("rollback_started")
        /\ proc' = [proc EXCEPT !.rbPhase = "rollback_started", !.rbActive = TRUE,
                                !.rbAttempted = TRUE]
        /\ pc' = "rb_check"
  /\ UNCHANGED logFrame

RollbackCheck ==
  /\ pc = "rb_check"
  /\ IF backup[proc.att].state = "absent"
     THEN tx' = TryMarked("diagnostic_failure") /\ RollbackReturns(FALSE)
     ELSE UNCHANGED <<tx, proc>> /\ pc' = "rb_stop"
  /\ UNCHANGED logFrame

RollbackStop ==
  /\ pc = "rb_stop"
  /\ service' = Stopped
  /\ pc' = "rb_select"
  /\ UNCHANGED <<tx, storeVars, code, bin, data, backup, proc, before, faults>>

(* Mutant: the completion mark, not the disk, says whether to flip back.    *)
OnCandidateByMark ==
  /\ FactOf("activation_done") = "True"
  /\ ActiveRuntime = FactOf("candidate_id")

(* 5a1: the disk decides which selector mutation there is to undo.          *)
OnCandidate == FactOf("candidate_id") # Unset /\ ActiveRuntime = FactOf("candidate_id")
OnPrevious == FactOf("previous_runtime") # Unset /\ ActiveRuntime = FactOf("previous_runtime")
OnLegacyDir == FactOf("converted_by_attempt") = "True" /\ selector = "dir"

RollbackActivation ==
  /\ pc = "rb_select" /\ OnCandidate
  /\ CallAt("rb_select", "rollback_activation", "none", "rb_select_wait")

NoActivationToUndo ==
  /\ pc = "rb_select"
  /\ ~OnCandidate
  /\ proc' = [proc EXCEPT !.failed = @ \/ (/\ ~OnPrevious /\ ~OnLegacyDir
                                           /\ FactOf("activation_done") = "True")]
  /\ pc' = "rb_convert"
  /\ UNCHANGED <<tx, logFrame>>

(* A failed command is recorded and rollback goes on. *)
RollbackCommandDone(here, next) ==
  /\ \/ Answered(here, "ok") /\ UNCHANGED proc
     \/ Answered(here, "err") /\ proc' = [proc EXCEPT !.failed = TRUE]
  /\ pc' = next
  /\ res' = "none"
  /\ UNCHANGED <<tx, diskVars, op, hostVars, before, faults>>

RollbackActivationDone == RollbackCommandDone("rb_select_wait", "rb_convert")

RollbackConversion ==
  /\ pc = "rb_convert" /\ FactOf("converted_by_attempt") = "True"
  /\ CallAt("rb_convert", "rollback_conversion", Legacy, "rb_convert_wait")

RollbackConversionDone == RollbackCommandDone("rb_convert_wait", "rb_runtime")

NoConversionToUndo ==
  /\ pc = "rb_convert"
  /\ FactOf("converted_by_attempt") # "True"
  /\ pc' = "rb_runtime"
  /\ UNCHANGED <<tx, proc, logFrame>>

(* Checkpoints are written only by a rollback that has not failed so far    *)
(* and only in order.                                                       *)
Checkpoint(here, from, p, next) ==
  /\ pc = here
  /\ IF ~proc.failed /\ proc.rbPhase = from
     THEN IF ToolPresent(proc.staged) /\ CanMark(Doc, p, NoFacts)
          THEN tx' = TryMarked(p) /\ proc' = [proc EXCEPT !.rbPhase = p]
          ELSE UNCHANGED tx /\ proc' = [proc EXCEPT !.failed = TRUE]
     ELSE UNCHANGED <<tx, proc>>
  /\ pc' = next
  /\ UNCHANGED logFrame

RuntimeRestored == Checkpoint("rb_runtime", "rollback_started", "runtime_restored", "rb_conf")

(* 5b: conf.tar.gz is unpacked over /etc/conduit-cc, all but .env           *)
RollbackConf ==
  /\ pc = "rb_conf"
  /\ data' = IF backup[proc.att].state = "complete" THEN backup[proc.att].data ELSE data
  /\ pc' = "rb_rsync"
  /\ UNCHANGED <<tx, storeVars, code, bin, service, backup, proc, before, faults>>

RollbackRsync ==
  /\ pc = "rb_rsync"
  /\ IF backup[proc.att].state = "complete"
     THEN /\ \E v \in {code.ver, backup[proc.att].code.ver} :
                code' = [ver |-> v, intact |-> FALSE]
          /\ UNCHANGED proc
          /\ pc' = "rb_code"
     ELSE /\ UNCHANGED code
          /\ proc' = [proc EXCEPT !.failed = TRUE]
          /\ pc' = "rb_verify"
  /\ UNCHANGED <<tx, storeVars, bin, data, service, backup, before, faults>>

RollbackCode ==
  /\ pc = "rb_code"
  /\ code' = backup[proc.att].code
  /\ pc' = "rb_verify"
  /\ UNCHANGED <<tx, storeVars, bin, data, service, backup, proc, before, faults>>

RollbackVerifyRuntime ==
  /\ pc = "rb_verify"
  /\ proc' = [proc EXCEPT !.failed = @ \/ ~(selector = "dir" \/ SelectorValid)]
  /\ pc' = "rb_bin"
  /\ UNCHANGED <<tx, logFrame>>

(* 5d1: rm -rf the helper directory, then copy the recorded set back        *)
RollbackBinRemove ==
  /\ pc = "rb_bin"
  /\ bin' = IF backup[proc.att].state = "complete" THEN "absent" ELSE bin
  /\ pc' = "rb_bin_copy"
  /\ UNCHANGED <<tx, storeVars, code, data, service, backup, proc, before, faults>>

RollbackBinCopy ==
  /\ pc = "rb_bin_copy"
  /\ bin' = IF backup[proc.att].state = "complete" THEN backup[proc.att].bin ELSE bin
  /\ pc' = "rb_files"
  /\ UNCHANGED <<tx, storeVars, code, data, service, backup, proc, before, faults>>

FilesRestored == Checkpoint("rb_files", "runtime_restored", "files_restored", "rb_intent")

(* 5g: the intent is marked even by a rollback that has failed, once its     *)
(* files_restored checkpoint is on record                                   *)
ServiceRestoreIntent ==
  /\ pc = "rb_intent"
  /\ proc.rbPhase \in {"files_restored", "service_restore_intent"}
  /\ LET p == "service_restore_intent"
         marks == ToolPresent(proc.staged) /\ CanMark(Doc, p, NoFacts) IN
     IF proc.rbPhase = p
     THEN UNCHANGED <<tx, proc>>
     ELSE /\ tx' = IF marks THEN TryMarked(p) ELSE tx
          /\ proc' = [proc EXCEPT !.failed = @ \/ ~marks,
                                  !.rbPhase = IF marks /\ ~proc.failed THEN p ELSE @]
  /\ pc' = "rb_start"
  /\ UNCHANGED logFrame

ServiceRestoreRefused ==
  /\ pc = "rb_intent"
  /\ proc.rbPhase \notin {"files_restored", "service_restore_intent"}
  /\ proc' = [proc EXCEPT !.failed = TRUE]
  /\ pc' = "rb_start"
  /\ UNCHANGED <<tx, logFrame>>

RollbackStart ==
  /\ pc = "rb_start"
  /\ service' = IF Startable THEN Loaded ELSE Stopped
  /\ proc' = [proc EXCEPT !.failed = @ \/ ~Startable]
  /\ pc' = "rb_health"
  /\ UNCHANGED <<tx, storeVars, code, bin, data, backup, before, faults>>

RollbackHealth ==
  /\ pc = "rb_health"
  /\ proc' = [proc EXCEPT !.failed = @ \/ ~(service.up /\ service.ver = proc.cur)]
  /\ pc' = "rb_end"
  /\ UNCHANGED <<tx, logFrame>>

RollbackEnd ==
  /\ pc = "rb_end"
  /\ LET p == IF proc.failed THEN "diagnostic_failure" ELSE "rolled_back"
         marks == ToolPresent(proc.staged) /\ CanMark(Doc, p, NoFacts) IN
     /\ tx' = IF marks THEN TryMarked(p) ELSE tx
     /\ RollbackReturns(~proc.failed /\ marks)
  /\ UNCHANGED logFrame

-----------------------------------------------------------------------------
(* The world around the engine *)

Engine ==
  \/ StartEngine
  \/ Recover \/ RecoverBackup \/ RecoverCandidate \/ RecoverCandidateDone
  \/ RecoverClassify \/ RecoverCheck \/ BeginAttempt \/ Cancel
  \/ OwnershipIntent \/ OwnershipComplete \/ BackupIntent \/ BackupMkdir
  \/ BackupOwned \/ BackupCopy \/ BackupComplete
  \/ CandidateIntent \/ CandidateReuse \/ CandidateStage \/ CandidateStaged
  \/ CandidateInstall \/ CandidateFinalize \/ CandidateFinalized \/ CandidateReady
  \/ DowntimeIntent \/ StopService \/ DowntimeFlag \/ DowntimeStarted
  \/ ConversionIntent \/ ConversionRun \/ ConversionResult \/ ConversionNotNeeded
  \/ ConversionComplete \/ TrustIntent \/ TrustComplete
  \/ ActivationGate \/ ActivationIntent \/ Activation \/ ActivationResult \/ Activated
  \/ DeployIntent \/ DeployRsync \/ DeployCode \/ DeployHelpers \/ DeployBin
  \/ Deployed \/ ServiceStartIntent \/ StartService \/ ServiceStarted
  \/ HealthPasses \/ HealthVerified \/ Success \/ SuccessFlag
  \/ CollectGarbage \/ GarbageCollected \/ RotateBackup \/ Finish
  \/ ExitTrap \/ ExitBackup \/ ExitCandidate \/ ExitCandidateDone \/ ExitClassify
  \/ RollbackEnter \/ RollbackCheck \/ RollbackStop \/ RollbackActivation
  \/ NoActivationToUndo \/ RollbackActivationDone \/ RollbackConversion
  \/ RollbackConversionDone \/ NoConversionToUndo \/ RuntimeRestored \/ RollbackConf
  \/ RollbackRsync \/ RollbackCode \/ RollbackVerifyRuntime \/ RollbackBinRemove
  \/ RollbackBinCopy \/ FilesRestored \/ ServiceRestoreIntent \/ ServiceRestoreRefused
  \/ RollbackStart \/ RollbackHealth \/ RollbackEnd

RuntimeCommand ==
  /\ StoreStep
  /\ UNCHANGED <<tx, hostVars, pc, proc, before, faults>>

Fault == faults < MaxFaults /\ faults' = faults + 1

RuntimeCommandFails ==
  /\ CommandRaises \/ ReconcileMisjudges
  /\ Fault
  /\ UNCHANGED <<tx, hostVars, pc, proc, before>>

ForwardSteps == {
  "own_intent", "own_done", "bk_intent", "bk_mkdir", "bk_own", "bk_copy", "bk_done",
  "cand_intent", "cand_build", "cand_stage_wait", "cand_install", "cand_final",
  "cand_final_wait", "cand_done", "down_intent", "down_stop", "down_flag",
  "down_mark", "conv_intent", "conv_run", "conv_wait", "conv_check", "conv_done",
  "trust_intent", "trust_done", "act_gate", "act_intent", "act_run", "act_wait",
  "act_done", "dep_intent", "dep_rsync", "dep_code", "dep_helpers", "dep_bin",
  "dep_done", "svc_intent", "svc_start", "svc_done", "health", "health_done",
  "success", "success_flag", "gc", "gc_wait", "rotate" }

RecoverySteps == {"recover", "rec_backup", "rec_cand", "rec_cand_wait", "rec_mark",
                  "rec_check", "begin"}

RollbackSteps == {"rb_enter", "rb_check", "rb_stop", "rb_select", "rb_select_wait",
  "rb_convert", "rb_convert_wait", "rb_runtime", "rb_conf", "rb_rsync", "rb_code",
  "rb_verify", "rb_bin", "rb_bin_copy", "rb_files", "rb_intent", "rb_start",
  "rb_health", "rb_end"}

ExitSteps == {"exit", "exit_backup", "exit_cand", "exit_cand_wait", "exit_mark"}

(* A command fails under set -e, die is called, a health poll times out, or *)
(* a signal arrives: the EXIT trap runs. It runs once: a signal during the  *)
(* trap, or during the rollback it started, ends the process (Killed).      *)
Interrupted ==
  /\ \/ pc \in ForwardSteps \cup RecoverySteps
     \/ pc \in RollbackSteps /\ proc.recovering
  /\ Fault
  /\ pc' = "exit"
  /\ op' = OpIdle /\ res' = "none"
  /\ UNCHANGED <<tx, diskVars, hostVars, proc, before>>

(* Mutant: a rollback command that fails is not noted.                      *)
RollbackFailsUnnoticed ==
  /\ Fault
  /\ \/ pc = "rb_code" /\ pc' = "rb_verify" /\ UNCHANGED bin
     \/ pc = "rb_bin_copy" /\ pc' = "rb_files" /\ bin' \in {"absent", "mixed"}
  /\ UNCHANGED <<tx, storeVars, code, data, service, backup, proc, before>>

(* A rollback command fails: noted, and the rollback goes on with the next. *)
RollbackStepFails ==
  /\ Fault
  /\ \/ /\ pc = "rb_code" /\ pc' = "rb_verify" /\ UNCHANGED bin
     \/ /\ pc = "rb_bin_copy" /\ pc' = "rb_files" /\ bin' \in {"absent", "mixed"}
     \/ /\ pc = "rb_files" /\ pc' = "rb_intent" /\ UNCHANGED bin
     \/ /\ pc = "rb_start" /\ pc' = "rb_health" /\ UNCHANGED bin
     \/ /\ pc = "rb_health" /\ pc' = "rb_end" /\ UNCHANGED bin
  /\ proc' = [proc EXCEPT !.failed = TRUE]
  /\ UNCHANGED <<tx, storeVars, code, data, service, backup, before>>

Killed ==
  /\ pc # "idle"
  /\ Fault
  /\ Exit
  /\ op' = OpIdle /\ res' = "none"
  /\ UNCHANGED <<tx, diskVars, hostVars, before>>

(* The unit is enabled: after a reboot systemd starts what is on disk. A    *)
(* half-written tree may or may not come up.                                *)
Reboot ==
  /\ Fault
  /\ Exit
  /\ op' = OpIdle /\ res' = "none"
  /\ service' \in (IF Startable THEN {Loaded} ELSE {Stopped})
                    \cup (IF code.intact THEN {} ELSE {Stopped})
  /\ UNCHANGED <<tx, diskVars, code, bin, data, backup, before>>

ServiceWrites ==
  /\ service.up
  /\ data < MaxWrites
  /\ data' = data + 1
  /\ UNCHANGED <<tx, storeVars, code, bin, service, backup, pc, proc, before, faults>>

Next ==
  \/ Engine
  \/ RuntimeCommand \/ RuntimeCommandFails
  \/ Interrupted \/ RollbackStepFails \/ Killed \/ Reboot
  \/ ServiceWrites

Spec == Init /\ [][Next]_vars
=============================================================================
