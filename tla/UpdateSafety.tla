---------------------------- MODULE UpdateSafety ----------------------------
(* What an update of the host promises, stated over UpdateEngine.           *)
EXTENDS UpdateEngine

Versions == Releases \cup {"none"}
CodeTrees == [ver : Versions, intact : BOOLEAN]
BinSets == Releases \cup {"legacy", "mixed", "absent", "none"}

HostTypeOK ==
  /\ code \in CodeTrees
  /\ bin \in BinSets
  /\ data \in Nat
  /\ service \in [up : BOOLEAN, ver : Versions, rt : Runtimes \cup {"dir", "none"}]
  /\ backup \in [Attempts -> [state : {"absent", "partial", "complete"},
                              code : CodeTrees, bin : BinSets, data : Nat]]

ProcTypeOK ==
  /\ pc \in {"idle"} \cup ForwardSteps \cup RecoverySteps \cup RollbackSteps \cup ExitSteps
  /\ proc \in [att : Attempts \cup {"none"}, rel : Versions, cur : Versions,
               staged : BOOLEAN, begun : BOOLEAN, downtime : BOOLEAN,
               succeeded : BOOLEAN, rbActive : BOOLEAN, rbAttempted : BOOLEAN,
               mine : BOOLEAN, rbPhase : RollbackPhases \cup {"none"},
               failed : BOOLEAN, recovering : BOOLEAN,
               durable : Phases \cup {"none"}]

ObserverTypeOK ==
  /\ before \in [Attempts -> [code : CodeTrees, bin : BinSets,
                              selector : Runtimes \cup {"absent", "dir"}]]
  /\ faults \in Nat

(* Every variable of the log, the store, the host and the engine process    *)
(* has its type.                                                            *)
EngineTypeOK ==
  /\ LogTypeOK /\ StoreTypeOK
  /\ HostTypeOK /\ ProcTypeOK /\ ObserverTypeOK

-----------------------------------------------------------------------------
(* State *)

(* Whatever step of a build, conversion, flip, rollback or collection a     *)
(* crash cuts short, a selector that is a link names a complete published   *)
(* runtime: systemd can start the service on it (ccc-runtime activate, gc,  *)
(* convert-legacy, rollback-conversion).                                           *)
SelectorIntact == selector \in Runtimes => Sound(selector)

(* While an attempt that has taken the service down is open, everything its *)
(* rollback will read is there and is what the host had when the attempt    *)
(* began: a complete backup and the previous runtime. Retention, cleanup    *)
(* after a failure and garbage collection must all have kept clear of it.   *)
RollbackReserve ==
  \A a \in Incomplete : Reached(tx[a], "downtime_started") =>
    /\ backup[a].state = "complete"
    /\ backup[a].code = before[a].code
    /\ backup[a].bin = before[a].bin
    /\ tx[a].facts["previous_version"] = before[a].code.ver
    /\ before[a].selector \in Runtimes => Sound(before[a].selector)
    /\ before[a].selector = "dir" =>
         \/ selector = "dir"
         \/ Sound(Legacy)
         \/ tree[Legacy] = "valid" /\ convRec # "none"

(* A finished attempt leaves no staging tree behind: discovery of           *)
(* interrupted attempts reads only open records, so nothing would ever      *)
(* remove it (_on_exit, reconcile-candidate).                               *)
TerminalLeavesNoStaging ==
  \A a \in Attempts : IsTerminal(tx[a]) => staging[a] = "absent"

MarkPoints == [
  own_intent |-> "ownership_intent", own_done |-> "ownership_complete",
  bk_intent |-> "backup_intent", bk_done |-> "backup_complete",
  cand_intent |-> "candidate_intent", cand_done |-> "candidate_ready",
  down_intent |-> "downtime_intent", down_mark |-> "downtime_started",
  conv_intent |-> "conversion_intent", conv_done |-> "conversion_complete",
  trust_intent |-> "trust_intent", trust_done |-> "trust_complete",
  act_intent |-> "activation_intent", act_done |-> "activated",
  dep_intent |-> "deploy_intent", dep_done |-> "deployed",
  svc_intent |-> "service_start_intent", svc_done |-> "service_started",
  health_done |-> "health_verified", success |-> "success" ]

(* The shell's order of marks and the log's transition table agree: at each *)
(* _tx_mark of the forward path the record is exactly one phase behind, so  *)
(* a healthy update is never stopped by its own log.                        *)
DriverAgreesWithLog ==
  pc \in DOMAIN MarkPoints => MarkPoints[pc] \in FollowingIn(NormalSequence, Doc.phase)

(* Whatever comes next - a start of the service, a rollback, the recovery   *)
(* of an interrupted attempt, a new one, the next mark - the engine finds   *)
(* what it needs for it, wherever it was cut short before.                  *)
EngineIsPrepared ==
  /\ SelectorIntact /\ RollbackReserve
  /\ TerminalLeavesNoStaging /\ DriverAgreesWithLog

-----------------------------------------------------------------------------
(* Steps *)

RollingBack == {"rollback_started", "runtime_restored", "files_restored",
                "service_restore_intent"}

OpenIn(phases) == \E a \in Incomplete : tx[a].phase \in phases

(* Every change of shared state happens under the durable intent that lets  *)
(* recovery classify it (ADR 0005: every shared-state mutation has an       *)
(* intent/completion boundary).                                             *)
WriteAhead ==
  [][ /\ selector' # selector =>
           OpenIn({"conversion_intent", "activation_intent"} \cup RollingBack)
      /\ <<code, bin>>' # <<code, bin>> => OpenIn({"deploy_intent"} \cup RollingBack)
      /\ service.up /\ ~service.up' =>
           \/ faults' # faults                     \* a reboot onto a torn tree
           \/ OpenIn({"downtime_intent"} \cup RollingBack)
      /\ staging' # staging => OpenIn({"candidate_intent", "candidate_ready"}) ]_vars

Concludes(a, p) == tx[a].phase # p /\ tx'[a].phase = p

(* Success is recorded only when the whole of the target is in place and is *)
(* what is running: code, helpers, selector and the loaded process agree.   *)
SuccessIsComplete(a) ==
  LET r == tx[a].target IN
  /\ code = [ver |-> r, intact |-> TRUE] /\ bin = r
  /\ selector = r /\ Sound(r)
  /\ service = [up |-> TRUE, ver |-> r, rt |-> r]

(* rolled_back is recorded only when the service runs the previous version  *)
(* on the previous runtime, unless the attempt was for the runtime already  *)
(* selected (see RollbackRestoresRuntime).                                  *)
RolledBackIsPrevious(a) ==
  /\ service.up /\ service.ver = before[a].code.ver
  /\ service.rt = selector
  /\ selector \in {before[a].selector} \cup
       (IF before[a].selector = tx[a].target THEN Runtimes ELSE {})

(* What the record of an attempt says when it is closed is so on the host.  *)
OutcomeIsTrue ==
  [][ \A a \in Attempts :
        /\ Concludes(a, "success") => SuccessIsComplete(a)
        /\ Concludes(a, "rolled_back") => RolledBackIsPrevious(a) ]_vars

-----------------------------------------------------------------------------
(* Progress                                                                 *)

(* A running engine and the command it waits for go on, and an engine is    *)
(* started again after an interruption (the owner or the one-click update   *)
(* tries again). Nothing is assumed of faults.                              *)
Fairness == WF_vars(Engine) /\ WF_vars(RuntimeCommand)

LiveSpec == Spec /\ Fairness

(* No engine can be started: each stops in its preflight checks, before it  *)
(* looks for an interrupted update (see RecoveryReachable).                 *)
HostStranded == pc = "idle" /\ \A staged \in BOOLEAN : ~Preflight(staged)

(* Every attempt is eventually classified: unless the host is stranded no   *)
(* record stays open for good, so no later update is refused because of it. *)
EveryAttemptEnds ==
  \A a \in Attempts : IsOpen(tx[a]) ~> IsTerminal(tx[a]) \/ HostStranded

-----------------------------------------------------------------------------
(* Refinement: the engine implements UpdateOutcome                          *)

Outcome(a) ==
  CASE tx[a].phase = "none" -> "none"
    [] tx[a].phase \in {"success", "rolled_back"} -> tx[a].phase
    [] tx[a].phase = "diagnostic_failure" -> "failed"
    [] OTHER -> IF Reached(tx[a], "downtime_started") \/ Reached(tx[a], "rollback_started")
                THEN "exposed" ELSE "open"

Installation(c, b) == [code |-> c, bin |-> b]
WholeRelease(r) == Installation([ver |-> r, intact |-> TRUE], r)

(* While an attempt has the host in flux, what counts as installed is what  *)
(* its rollback point holds.                                                *)
Settled ==
  IF \E a \in Attempts : Outcome(a) = "exposed"
  THEN LET a == CHOOSE a \in Attempts : Outcome(a) = "exposed"
       IN Installation(before[a].code, before[a].bin)
  ELSE Installation(code, bin)

Promise == INSTANCE UpdateOutcome WITH
  Wholes <- {WholeRelease(r) : r \in Releases},
  Any <- {Installation(c, b) : c \in CodeTrees, b \in BinSets},
  outcome <- [a \in Attempts |-> Outcome(a)],
  target <- [a \in Attempts |-> IF tx[a].target = "none" THEN "none"
                                ELSE WholeRelease(tx[a].target)],
  installed <- Settled

(* The transaction engine, with its log, recovery and resumable rollback,   *)
(* implements the promise of UpdateOutcome under crashes at every step.     *)
EngineImplementsPromise == Promise!OutcomeSpec
=============================================================================
