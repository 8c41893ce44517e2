---------------------------- MODULE UpdateClaims ----------------------------
(* A statement the repository makes about an update that update.sh does not *)
(* keep, checked alone on an instance where TLC finds the shortest behaviour *)
(* that breaks it.                                                          *)
EXTENDS UpdateSafety

(* Rollback "atomically selects the preserved immutable previous runtime"   *)
(* (update.sh header). Broken when the attempt re-deployed the runtime that *)
(* was already selected: activate returns before it writes its record, and  *)
(* rollback-activation then follows the record of an older activation.      *)
RollbackRestoresRuntime ==
  [][ \A a \in Attempts :
        Concludes(a, "rolled_back") => selector = before[a].selector ]_vars
=============================================================================
