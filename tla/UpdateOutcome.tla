--------------------------- MODULE UpdateOutcome ---------------------------
(***************************************************************************)
(* What the updater promises, with no log, phases or recovery: an attempt  *)
(* either installs its whole target, or ends with the installation exactly *)
(* as it found it, or says out loud that it could not do either - and the  *)
(* last may happen only to an attempt that had taken the service down.     *)
(***************************************************************************)
CONSTANTS
  Attempts,   \* update attempt identifiers
  Wholes,     \* complete installations: what an attempt may ask for
  Any         \* everything that may be found on the disk after a failure

VARIABLES
  outcome,    \* outcome[a]: none, open, exposed, success, rolled_back, failed
  target,     \* target[a]: the installation attempt a is for
  installed   \* what is installed, attempts under way aside

InProgress == {"open", "exposed"}

OutcomeInit ==
  /\ outcome = [a \in Attempts |-> "none"]
  /\ target \in [Attempts -> {"none"}]
  /\ installed \in Any

Start(a) ==
  /\ outcome[a] = "none"
  /\ \A b \in Attempts : outcome[b] \notin InProgress
  /\ outcome' = [outcome EXCEPT ![a] = "open"]
  /\ \E w \in Wholes : target' = [target EXCEPT ![a] = w]
  /\ UNCHANGED installed

Ends(a, from, to) ==
  /\ outcome[a] = from
  /\ outcome' = [outcome EXCEPT ![a] = to]
  /\ UNCHANGED target

Expose(a) == Ends(a, "open", "exposed") /\ UNCHANGED installed
Abort(a)  == Ends(a, "open", "failed") /\ UNCHANGED installed
Commit(a) == Ends(a, "exposed", "success") /\ installed' = target[a]
Revert(a) == Ends(a, "exposed", "rolled_back") /\ UNCHANGED installed
Damage(a) == Ends(a, "exposed", "failed") /\ installed' \in Any

OutcomeNext ==
  \E a \in Attempts :
    Start(a) \/ Expose(a) \/ Abort(a) \/ Commit(a) \/ Revert(a) \/ Damage(a)

OutcomeSpec ==
  OutcomeInit /\ [][OutcomeNext]_<<outcome, target, installed>>
=============================================================================
