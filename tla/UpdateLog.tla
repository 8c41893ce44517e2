----------------------------- MODULE UpdateLog -----------------------------
(***************************************************************************)
(* The per-attempt write-ahead record of an update transaction, as kept by *)
(* backend/runtime_store.py: one JSON document per attempt, holding the    *)
(* current phase, the ordered phase history and the immutable facts.       *)
(*                                                                         *)
(* Every write goes through _write_json_atomic (temporary file, fsync,     *)
(* rename, directory fsync), so a mark is one atomic and durable step: a   *)
(* crash leaves either the old document or the new one.                    *)
(***************************************************************************)
EXTENDS Naturals, Sequences, UpdateIds

CONSTANTS
  FactValues,   \* the values a fact may carry
  Unset         \* marks a fact that is not in the document

ASSUME UnsetIsNoValue == Unset \notin FactValues

VARIABLE tx     \* tx[a]: the transaction document of attempt a

-----------------------------------------------------------------------------
(* Phases, transitions and facts *)

TerminalPhases == {"rolled_back", "diagnostic_failure", "success"}

NormalSequence == <<
  "begun", "ownership_intent", "ownership_complete", "backup_intent",
  "backup_complete", "candidate_intent", "candidate_ready",
  "downtime_intent", "downtime_started", "conversion_intent",
  "conversion_complete", "trust_intent", "trust_complete",
  "activation_intent", "activated", "deploy_intent", "deployed",
  "service_start_intent", "service_started", "health_verified", "success" >>

RollbackSequence == << "rollback_started", "runtime_restored",
  "files_restored", "service_restore_intent", "rolled_back" >>

PhasesOf(seq) == {seq[i] : i \in DOMAIN seq}

Phases ==
  PhasesOf(NormalSequence) \cup PhasesOf(RollbackSequence) \cup {"diagnostic_failure"}

(* The phase after p in a sequence: a set with at most one element. *)
FollowingIn(seq, p) == {seq[i + 1] : i \in {j \in 1 .. Len(seq) - 1 : seq[j] = p}}

AllowedSuccessors(p) ==
  IF p \in TerminalPhases
  THEN {}
  ELSE FollowingIn(NormalSequence, p) \cup FollowingIn(RollbackSequence, p)
         \cup {"diagnostic_failure", "rollback_started"}

(* The only phase at which each fact may be written. *)
FactPhase == [
  backup_dir           |-> "backup_intent",
  previous_version     |-> "backup_complete",
  candidate_id         |-> "candidate_intent",
  converted_by_attempt |-> "conversion_intent",
  trust_done           |-> "trust_complete",
  previous_runtime     |-> "activation_intent",
  activation_done      |-> "activated",
  downtime_started     |-> "downtime_started" ]

FactKeys == DOMAIN FactPhase

FactsDueAt(p) == {k \in FactKeys : FactPhase[k] = p}

-----------------------------------------------------------------------------
(* Documents *)

NoFacts == [k \in {} |-> Unset]
Fact(key, value) == [k \in {key} |-> value]

NoDocument == [phase |-> "none", target |-> "none", history |-> << >>,
               facts |-> [k \in FactKeys |-> Unset]]

FreshDocument(release) ==
  [phase |-> "begun", target |-> release, history |-> <<"begun">>,
   facts |-> [k \in FactKeys |-> Unset]]

Reached(doc, p) == \E i \in DOMAIN doc.history : doc.history[i] = p

IsTerminal(doc) == doc.phase \in TerminalPhases
IsOpen(doc) == doc.phase # "none" /\ ~IsTerminal(doc)

(* incomplete_update_attempts *)
Incomplete == {a \in Attempts : IsOpen(tx[a])}

(* What the strict reader accepts. Reading the log reads every document, so  *)
(* one document outside this set stops every later update.                  *)
Readable(doc) ==
  /\ doc.phase \in Phases
  /\ doc.history # << >>
  /\ doc.history[1] = "begun"
  /\ doc.history[Len(doc.history)] = doc.phase
  /\ \A i \in DOMAIN doc.history : doc.history[i] \in Phases
  /\ \A i \in 1 .. Len(doc.history) - 1 :
       doc.history[i + 1] \in AllowedSuccessors(doc.history[i])
  /\ \A k \in FactKeys :
       (doc.facts[k] # Unset) <=> Reached(doc, FactPhase[k])

Merged(doc, updates) ==
  [k \in FactKeys |-> IF k \in DOMAIN updates THEN updates[k] ELSE doc.facts[k]]

-----------------------------------------------------------------------------
(* Operations *)

(* Facts may be written only at their own phase and never changed. *)
FactsAcceptable(doc, p, updates) ==
  /\ \A k \in DOMAIN updates : FactPhase[k] = p
  /\ \A k \in DOMAIN updates : doc.facts[k] \in {Unset, updates[k]}

(* Marking the current phase again succeeds only if it adds nothing. *)
IsRetry(doc, p, updates) ==
  /\ doc.phase = p
  /\ FactsAcceptable(doc, p, updates)
  /\ Merged(doc, updates) = doc.facts

CanAdvance(doc, p, updates) ==
  /\ doc.phase # p
  /\ FactsAcceptable(doc, p, updates)
  /\ ~IsTerminal(doc)
  /\ p \in AllowedSuccessors(doc.phase)
  /\ FactsDueAt(p) \subseteq DOMAIN updates

CanMark(doc, p, updates) ==
  /\ doc.phase # "none"
  /\ IsRetry(doc, p, updates) \/ CanAdvance(doc, p, updates)

(* Mutant: the facts of a mark are not written.                             *)
MarkedFactless(doc, p, updates) ==
  IF doc.phase = p THEN doc ELSE [doc EXCEPT !.phase = p, !.history = Append(@, p)]

(* Mutant: a rollback starts a history of its own.                          *)
MarkedForgetting(doc, p, updates) ==
  IF doc.phase = p
  THEN doc
  ELSE [doc EXCEPT !.phase = p,
                   !.history = IF p = "rollback_started" THEN <<"begun", p>> ELSE Append(@, p),
                   !.facts = Merged(doc, updates)]

Marked(doc, p, updates) ==
  IF doc.phase = p
  THEN doc
  ELSE [doc EXCEPT !.phase = p,
                   !.history = Append(@, p),
                   !.facts = Merged(doc, updates)]

(* begin_update_attempt: a second begin is accepted only while the document *)
(* is still the identical fresh one, and then changes nothing.              *)
Begin(a, release) ==
  /\ tx[a] \in {NoDocument, FreshDocument(release)}
  /\ tx' = [tx EXCEPT ![a] = FreshDocument(release)]

(* mark_update_attempt *)
Mark(a, p, updates) ==
  /\ CanMark(tx[a], p, updates)
  /\ tx' = [tx EXCEPT ![a] = Marked(@, p, updates)]

-----------------------------------------------------------------------------
(* The log under an arbitrary privileged caller: any attempt, any phase, any *)
(* set of facts.                                                            *)

LogInit == tx = [a \in Attempts |-> NoDocument]

LogNext ==
  \E a \in Attempts :
    \/ \E release \in Releases : Begin(a, release)
    \/ \E p \in Phases, ks \in SUBSET FactKeys :
         \E updates \in [ks -> FactValues] : Mark(a, p, updates)

LogSpec == LogInit /\ [][LogNext]_tx

-----------------------------------------------------------------------------
(* Properties *)

Documents ==
  [phase : Phases \cup {"none"}, target : Releases \cup {"none"},
   history : Seq(Phases), facts : [FactKeys -> FactValues \cup {Unset}]]

(* The log holds one well-formed document per attempt. *)
LogTypeOK == tx \in [Attempts -> Documents]

(* Every document the writer leaves behind is one the strict reader accepts *)
(* (_validate_update_attempt): the transition check of the writer and the   *)
(* history and fact checks of the reader agree, so the log never locks      *)
(* itself out of recovery.                                                  *)
RecordsReadable == \A a \in Attempts : tx[a] = NoDocument \/ Readable(tx[a])

(* A document only grows: its history is extended, a recorded fact keeps    *)
(* its value, and a terminal document never changes (recovery decisions,    *)
(* backup retention and the bootstrap reserve all rely on old facts).       *)
DocumentOnlyGrows(a) ==
  /\ Len(tx[a].history) <= Len(tx'[a].history)
  /\ \A i \in DOMAIN tx[a].history : tx'[a].history[i] = tx[a].history[i]
  /\ \A k \in FactKeys : tx[a].facts[k] # Unset => tx'[a].facts[k] = tx[a].facts[k]
  /\ IsTerminal(tx[a]) => tx'[a] = tx[a]

LogOnlyGrows == [][\A a \in Attempts : DocumentOnlyGrows(a)]_tx
=============================================================================
