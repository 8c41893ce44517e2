---------------------------- MODULE RuntimeStore ----------------------------
(***************************************************************************)
(* The immutable runtime store and its selector, backend/runtime_store.py  *)
(* behind the ccc-runtime command: /opt/conduit-cc/.venvs/<id>, one        *)
(* manifest per id, attempt-owned staging directories, and the selector    *)
(* /opt/conduit-cc/venv, which is the legacy real directory or a symlink   *)
(* to exactly one runtime.                                                 *)
(*                                                                         *)
(* One command runs at a time. A command is a sequence of file-system      *)
(* steps and the process may die between any two, so each step is an       *)
(* action and `op` holds the command's program counter. Renames, unlinks   *)
(* and _write_json_atomic are single steps; rmtree is two (damage, then    *)
(* absence).                                                               *)
(***************************************************************************)
EXTENDS UpdateIds

CONSTANT
  Legacy        \* the id legacy-0 given to a converted real-directory runtime

ASSUME LegacyIsNoRelease == Legacy \notin Releases

(* Attempt and runtime ids are none of the words used beside them below.    *)
ASSUME IdsAreNoMarkers ==
  /\ Attempts \cap {"none", "absent", "legacy", "installer"} = {}
  /\ (Releases \cup {Legacy}) \cap {"none", "absent", "dir"} = {}

VARIABLES
  tree,       \* tree[r]: the directory of runtime r: absent, partial or valid
  manifest,   \* manifest[r]: absent, or what published r
  staging,    \* staging[a]: absent, building or built
  selector,   \* "absent", "dir" (legacy real directory) or a runtime id
  prevRec,    \* selector-previous.json: the ids before and after the last flip
  convRec,    \* the conversion transition record: its phase, or "none"
  op,         \* the running command
  res         \* result of the last finished command: none, ok or err

diskVars == <<tree, manifest, staging, selector, prevRec, convRec>>
opVars == <<op, res>>

Runtimes == Releases \cup {Legacy}

NoRecord == [previous |-> "none", current |-> "none"]

OpIdle == [name |-> "none", id |-> "none", att |-> "none", at |-> "none",
           old |-> "none", keep |-> {}]

OpNames == {"stage", "finalize", "reconcile", "convert", "rollback_conversion",
            "activate", "rollback_activation", "gc"}

OpPoints == {"none", "start", "final", "manifest", "rename", "verify", "cleanup",
             "remove", "unlink", "move", "moved", "publish", "published", "finish",
             "restore", "record", "flip", "sweep"}

Commands == [name : OpNames \cup {"none"}, id : Runtimes \cup {"none"},
             att : Attempts \cup {"none"}, at : OpPoints,
             old : Runtimes \cup {"none"}, keep : SUBSET (Runtimes \cup {"none"})]

StoreTypeOK ==
  /\ tree \in [Runtimes -> {"absent", "partial", "valid"}]
  /\ manifest \in [Runtimes -> {"absent", "legacy", "installer"} \cup Attempts]
  /\ staging \in [Attempts -> {"absent", "building", "built"}]
  /\ selector \in {"absent", "dir"} \cup Runtimes
  /\ prevRec \in [previous : Runtimes \cup {"none"}, current : Runtimes \cup {"none"}]
  /\ convRec \in {"none", "recorded", "moved", "published"}
  /\ op \in Commands
  /\ res \in {"none", "ok", "err"}

-----------------------------------------------------------------------------
(* Gates *)

Published(r) == manifest[r] # "absent"

(* validate_target looks at the directory, its bin, pyvenv.cfg, the         *)
(* interpreter and the manifest: it cannot tell a partly deleted tree apart *)
(* when those four happen to survive.                                       *)
TargetGate(r, passes) ==
  /\ passes => tree[r] # "absent" /\ Published(r)
  /\ ~passes => tree[r] # "valid" \/ ~Published(r)

(* validate_selector; a selector naming a runtime that fails is no runtime. *)
SelectorValid ==
  /\ selector \in Runtimes
  /\ tree[selector] # "absent"
  /\ Published(selector)

ActiveRuntime == IF SelectorValid THEN selector ELSE "none"

(* revalidate_runtime: pip check, distribution record and import probes.    *)
(* Assumed to notice a partly deleted tree.                                 *)
Sound(r) == tree[r] = "valid" /\ Published(r)

-----------------------------------------------------------------------------
(* Running a command *)

Call(name, id, att) ==
  /\ op = OpIdle
  /\ op' = [OpIdle EXCEPT !.name = name, !.id = id, !.att = att, !.at = "start"]
  /\ res' = "none"

At(name, step) == op.name = name /\ op.at = step
Goto(step) == op' = [op EXCEPT !.at = step] /\ UNCHANGED res
Return(result) == op' = OpIdle /\ res' = result

(* stage_candidate: a fresh virtual environment in attempt-owned staging.   *)
StageCandidate ==
  /\ At("stage", "start")
  /\ IF tree[op.id] # "absent" \/ Published(op.id) \/ staging[op.att] # "absent"
     THEN Return("err") /\ UNCHANGED staging
     ELSE /\ staging' = [staging EXCEPT ![op.att] = "building"]
          /\ \/ Return("ok")
             \/ Return("err")          \* venv creation failed part way
  /\ UNCHANGED <<tree, manifest, selector, prevRec, convRec>>

(* finalize_candidate: check the staged tree, write the validated manifest, *)
(* then rename staging to its final name.                                   *)
FinalizeCheck ==
  /\ At("finalize", "start")
  /\ Goto(IF staging[op.att] = "built" /\ tree[op.id] = "absent" /\ ~Published(op.id)
          THEN "manifest" ELSE "cleanup")
  /\ UNCHANGED diskVars

FinalizeManifest ==
  /\ At("finalize", "manifest")
  /\ manifest' = [manifest EXCEPT ![op.id] = op.att]
  /\ Goto("rename")
  /\ UNCHANGED <<tree, staging, selector, prevRec, convRec>>

FinalizeRename ==
  /\ At("finalize", "rename")
  /\ tree' = [tree EXCEPT ![op.id] = "valid"]
  /\ staging' = [staging EXCEPT ![op.att] = "absent"]
  /\ Goto("verify")
  /\ UNCHANGED <<manifest, selector, prevRec, convRec>>

FinalizeVerify ==
  /\ At("finalize", "verify")
  /\ Return("ok")
  /\ UNCHANGED diskVars

(* The exception path: drop the staging, and the manifest this attempt wrote *)
(* unless the final directory exists.                                       *)
FinalizeCleanup ==
  /\ At("finalize", "cleanup")
  /\ staging' = [staging EXCEPT ![op.att] = "absent"]
  /\ IF manifest[op.id] = op.att /\ tree[op.id] = "absent"
     THEN Goto("unlink")
     ELSE Return("err")
  /\ UNCHANGED <<tree, manifest, selector, prevRec, convRec>>

FinalizeUnlink ==
  /\ At("finalize", "unlink")
  /\ manifest' = [manifest EXCEPT ![op.id] = "absent"]
  /\ Return("err")
  /\ UNCHANGED <<tree, staging, selector, prevRec, convRec>>

(* reconcile_candidate_attempt: first the attempt's own staging, then its   *)
(* orphan manifest or invalid final tree; anything bound to another attempt *)
(* is preserved and reported.                                               *)
ReconcileStaging ==
  /\ At("reconcile", "start")
  /\ staging' = [staging EXCEPT ![op.att] = "absent"]
  /\ Goto("final")
  /\ UNCHANGED <<tree, manifest, selector, prevRec, convRec>>

ReconcileAbsent ==
  /\ At("reconcile", "final")
  /\ tree[op.id] = "absent"
  /\ \/ ~Published(op.id) /\ Return("ok") /\ UNCHANGED manifest
     \/ /\ manifest[op.id] = op.att
        /\ manifest' = [manifest EXCEPT ![op.id] = "absent"]
        /\ Return("ok")
     \/ /\ Published(op.id) /\ manifest[op.id] # op.att
        /\ Return("err") /\ UNCHANGED manifest
  /\ UNCHANGED <<tree, staging, selector, prevRec, convRec>>

ReconcileRetain ==
  /\ At("reconcile", "final")
  /\ Sound(op.id)
  /\ Return("ok")
  /\ UNCHANGED diskVars

Reject ==
  /\ IF manifest[op.id] # op.att \/ selector = op.id
     THEN Return("err") /\ UNCHANGED tree
     ELSE tree' = [tree EXCEPT ![op.id] = "partial"] /\ Goto("remove")
  /\ UNCHANGED <<manifest, staging, selector, prevRec, convRec>>

ReconcileReject ==
  /\ At("reconcile", "final")
  /\ tree[op.id] # "absent" /\ ~Sound(op.id)
  /\ Reject

(* A probe process may fail on a sound tree (not a StoreStep: a fault).     *)
ReconcileMisjudges ==
  /\ At("reconcile", "final")
  /\ Sound(op.id)
  /\ Reject

ReconcileRemove ==
  /\ At("reconcile", "remove")
  /\ tree' = [tree EXCEPT ![op.id] = "absent"]
  /\ Goto("unlink")
  /\ UNCHANGED <<manifest, staging, selector, prevRec, convRec>>

ReconcileUnlink ==
  /\ At("reconcile", "unlink")
  /\ manifest' = [manifest EXCEPT ![op.id] = "absent"]
  /\ Return("ok")
  /\ UNCHANGED <<tree, staging, selector, prevRec, convRec>>

-----------------------------------------------------------------------------
(* convert_legacy: write-ahead record, move the real directory into the     *)
(* store, write its manifest, publish the selector, drop the record. Every  *)
(* step looks at the disk first, so a second call resumes the first.        *)
ConvertStart ==
  /\ At("convert", "start")
  /\ IF convRec # "none"
     THEN Goto("move") /\ UNCHANGED convRec
     ELSE IF selector \in Runtimes
     THEN Return(IF SelectorValid THEN "ok" ELSE "err") /\ UNCHANGED convRec
     ELSE IF selector = "absent" \/ (tree[Legacy] # "absent" /\ ~Published(Legacy))
     THEN Return("err") /\ UNCHANGED convRec
     ELSE convRec' = "recorded" /\ Goto("move")
  /\ UNCHANGED <<tree, manifest, staging, selector, prevRec>>

ConvertMove ==
  /\ At("convert", "move")
  /\ IF selector = "dir" /\ tree[Legacy] = "absent"
     THEN /\ selector' = "absent"
          /\ tree' = [tree EXCEPT ![Legacy] = "valid"]
          /\ Goto("moved")
     ELSE Goto("manifest") /\ UNCHANGED <<tree, selector>>
  /\ UNCHANGED <<manifest, staging, prevRec, convRec>>

ConvertMoved ==
  /\ At("convert", "moved")
  /\ convRec' = "moved"
  /\ Goto("manifest")
  /\ UNCHANGED <<tree, manifest, staging, selector, prevRec>>

ConvertManifest ==
  /\ At("convert", "manifest")
  /\ manifest' = IF Published(Legacy) THEN manifest
                 ELSE [manifest EXCEPT ![Legacy] = "legacy"]
  /\ Goto("publish")
  /\ UNCHANGED <<tree, staging, selector, prevRec, convRec>>

ConvertPublish ==
  /\ At("convert", "publish")
  /\ CASE selector \in Runtimes -> Goto("finish") /\ UNCHANGED selector
       [] selector = "dir"      -> Return("err") /\ UNCHANGED selector
       [] selector = "absent"   -> selector' = Legacy /\ Goto("published")
  /\ UNCHANGED <<tree, manifest, staging, prevRec, convRec>>

ConvertPublished ==
  /\ At("convert", "published")
  /\ convRec' = "published"
  /\ Goto("finish")
  /\ UNCHANGED <<tree, manifest, staging, selector, prevRec>>

ConvertFinish ==
  /\ At("convert", "finish")
  /\ IF SelectorValid
     THEN convRec' = "none" /\ Return("ok")
     ELSE UNCHANGED convRec /\ Return("err")
  /\ UNCHANGED <<tree, manifest, staging, selector, prevRec>>

(* rollback_conversion: drop the symlink, move legacy-0 back, drop the      *)
(* record; the legacy manifest stays behind and is reused by a conversion.  *)
UnconvertUnlink ==
  /\ At("rollback_conversion", "start")
  /\ selector' = IF selector \in Runtimes THEN "absent" ELSE selector
  /\ Goto("restore")
  /\ UNCHANGED <<tree, manifest, staging, prevRec, convRec>>

UnconvertRestore ==
  /\ At("rollback_conversion", "restore")
  /\ IF tree[Legacy] # "absent" /\ selector = "absent"
     THEN selector' = "dir" /\ tree' = [tree EXCEPT ![Legacy] = "absent"]
     ELSE UNCHANGED <<tree, selector>>
  /\ Goto("record")
  /\ UNCHANGED <<manifest, staging, prevRec, convRec>>

UnconvertRecord ==
  /\ At("rollback_conversion", "record")
  /\ convRec' = "none"
  /\ Return(IF selector = "dir" THEN "ok" ELSE "err")
  /\ UNCHANGED <<tree, manifest, staging, selector, prevRec>>

-----------------------------------------------------------------------------
(* activate: gate the target, record the previous id, flip. Activating the  *)
(* runtime that is already selected returns before the record is written.   *)
ActivateGate ==
  /\ At("activate", "start")
  /\ \E passes \in BOOLEAN :
       /\ TargetGate(op.id, passes)
       /\ IF ~passes \/ ~SelectorValid
          THEN Return("err") /\ UNCHANGED prevRec
          ELSE IF selector = op.id
          THEN Return("ok") /\ UNCHANGED prevRec
          ELSE /\ prevRec' = [previous |-> selector, current |-> op.id]
               /\ op' = [op EXCEPT !.at = "flip", !.old = selector]
               /\ UNCHANGED res
  /\ UNCHANGED <<tree, manifest, staging, selector, convRec>>

(* Mutant: the recorded previous id is checked but not taken as the target. *)
DeactivateGateTargetless ==
  /\ At("rollback_activation", "start")
  /\ IF prevRec.previous = "none" \/ ~SelectorValid
     THEN Return("err")
     ELSE op' = [op EXCEPT !.at = "flip", !.old = selector] /\ UNCHANGED res
  /\ UNCHANGED diskVars

(* rollback_activation: back to the recorded previous id.                   *)
DeactivateGate ==
  /\ At("rollback_activation", "start")
  /\ IF prevRec.previous = "none" \/ ~SelectorValid
     THEN Return("err")
     ELSE \E passes \in BOOLEAN :
            /\ TargetGate(prevRec.previous, passes)
            /\ IF passes
               THEN /\ op' = [op EXCEPT !.at = "flip", !.old = selector,
                                        !.id = prevRec.previous]
                    /\ UNCHANGED res
               ELSE Return("err")
  /\ UNCHANGED diskVars

(* _publish_symlink: a temporary link renamed over the selector.            *)
FlipSelector ==
  /\ op.name \in {"activate", "rollback_activation"} /\ op.at = "flip"
  /\ selector' = op.id
  /\ Goto("verify")
  /\ UNCHANGED <<tree, manifest, staging, prevRec, convRec>>

FlipVerified ==
  /\ op.name \in {"activate", "rollback_activation"} /\ op.at = "verify"
  /\ IF SelectorValid THEN Return("ok") ELSE Goto("restore")
  /\ UNCHANGED diskVars

FlipRestored ==
  /\ op.name \in {"activate", "rollback_activation"} /\ op.at = "restore"
  /\ selector' = op.old
  /\ Return("err")
  /\ UNCHANGED <<tree, manifest, staging, prevRec, convRec>>

-----------------------------------------------------------------------------
(* gc: remove every published runtime except the current one and the        *)
(* recorded previous one. The keep set is computed once, at the start.      *)
Collectable == {r \in Runtimes \ op.keep : tree[r] # "absent" /\ Published(r)}

(* Mutant: the collection keeps the previous runtime but not the current.   *)
GcStartKeepsPrevious ==
  /\ At("gc", "start")
  /\ op' = [op EXCEPT !.at = "sweep", !.keep = {prevRec.previous}]
  /\ UNCHANGED <<diskVars, res>>

GcStart ==
  /\ At("gc", "start")
  /\ IF SelectorValid
     THEN /\ op' = [op EXCEPT !.at = "sweep", !.keep = {selector, prevRec.previous}]
          /\ UNCHANGED res
     ELSE Return("err")
  /\ UNCHANGED diskVars

GcDamage ==
  /\ At("gc", "sweep")
  /\ \E r \in Collectable :
       /\ tree' = [tree EXCEPT ![r] = "partial"]
       /\ op' = [op EXCEPT !.at = "remove", !.id = r]
  /\ UNCHANGED <<manifest, staging, selector, prevRec, convRec, res>>

GcRemove ==
  /\ At("gc", "remove")
  /\ tree' = [tree EXCEPT ![op.id] = "absent"]
  /\ Goto("unlink")
  /\ UNCHANGED <<manifest, staging, selector, prevRec, convRec>>

GcUnlink ==
  /\ At("gc", "unlink")
  /\ manifest' = [manifest EXCEPT ![op.id] = "absent"]
  /\ Goto("sweep")
  /\ UNCHANGED <<tree, staging, selector, prevRec, convRec>>

GcDone ==
  /\ At("gc", "sweep")
  /\ Collectable = {}
  /\ Return("ok")
  /\ UNCHANGED diskVars

-----------------------------------------------------------------------------
(* A step raises (I/O error, failed probe process). Only finalize and the   *)
(* flips have an exception path with effects of their own.                  *)
CommandRaises ==
  /\ op # OpIdle
  /\ CASE op.name = "finalize" /\ op.at \notin {"cleanup", "unlink"} -> Goto("cleanup")
       [] op.name \in {"activate", "rollback_activation"} /\ op.at = "verify"
            -> Goto("restore")
       [] OTHER -> Return("err")
  /\ UNCHANGED diskVars

StoreStep ==
  \/ StageCandidate
  \/ FinalizeCheck \/ FinalizeManifest \/ FinalizeRename \/ FinalizeVerify
  \/ FinalizeCleanup \/ FinalizeUnlink
  \/ ReconcileStaging \/ ReconcileAbsent \/ ReconcileRetain \/ ReconcileReject
  \/ ReconcileRemove \/ ReconcileUnlink
  \/ ConvertStart \/ ConvertMove \/ ConvertMoved \/ ConvertManifest
  \/ ConvertPublish \/ ConvertPublished \/ ConvertFinish
  \/ UnconvertUnlink \/ UnconvertRestore \/ UnconvertRecord
  \/ ActivateGate \/ DeactivateGate \/ FlipSelector \/ FlipVerified \/ FlipRestored
  \/ GcStart \/ GcDamage \/ GcRemove \/ GcUnlink \/ GcDone
=============================================================================
