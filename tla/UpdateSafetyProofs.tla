------------------------- MODULE UpdateSafetyProofs -------------------------
(* Theorems about the transaction log under any privileged caller, about    *)
(* the update engine that writes it, and about the safety of an update, for *)
(* every set of attempts, releases and fact values and without bound on the *)
(* number of faults: what UpdateSafety states, and the invariants it needs. *)
EXTENDS UpdateSafety, TLAPS

-----------------------------------------------------------------------------
(* The log                                                                  *)

(* Merging well-typed updates into well-typed facts is well typed.          *)
LEMMA MergedType ==
  ASSUME NEW doc \in Documents, NEW ks \in SUBSET FactKeys,
         NEW updates \in [ks -> FactValues]
  PROVE  Merged(doc, updates) \in [FactKeys -> FactValues \cup {Unset}]
BY DEF Documents, Merged

(* A mark takes a document to a document.                                   *)
LEMMA MarkedType ==
  ASSUME NEW doc \in Documents, NEW p \in Phases, NEW ks \in SUBSET FactKeys,
         NEW updates \in [ks -> FactValues]
  PROVE  Marked(doc, p, updates) \in Documents
<1>1. CASE doc.phase = p
  BY <1>1 DEF Marked
<1>2. CASE doc.phase # p
  <2>1. Append(doc.history, p) \in Seq(Phases)
    BY DEF Documents
  <2>2. Marked(doc, p, updates) =
          [phase |-> p, target |-> doc.target, history |-> Append(doc.history, p),
           facts |-> Merged(doc, updates)]
    BY <1>2 DEF Marked, Documents
  <2>3. Merged(doc, updates) \in [FactKeys -> FactValues \cup {Unset}]
    BY MergedType
  <2>4. doc.target \in Releases \cup {"none"}
    BY DEF Documents
  <2> QED BY <2>1, <2>2, <2>3, <2>4 DEF Documents
<1> QED BY <1>1, <1>2

LEMMA FreshType ==
  ASSUME NEW r \in Releases
  PROVE  FreshDocument(r) \in Documents
<1>1. "begun" \in Phases
  BY DEF Phases, PhasesOf, NormalSequence
<1> QED BY <1>1 DEF FreshDocument, Documents

LEMMA NoDocumentType == NoDocument \in Documents
BY DEF NoDocument, Documents

-----------------------------------------------------------------------------
(* Type correctness                                                         *)

LEMMA LogTypeInit == LogInit => LogTypeOK
BY NoDocumentType DEF LogInit, LogTypeOK

LEMMA LogTypeStep == LogTypeOK /\ [LogNext]_tx => LogTypeOK'
<1> SUFFICES ASSUME LogTypeOK, [LogNext]_tx
             PROVE  LogTypeOK'
  OBVIOUS
<1>1. CASE UNCHANGED tx
  BY <1>1 DEF LogTypeOK
<1>2. ASSUME NEW a \in Attempts, NEW r \in Releases, Begin(a, r)
      PROVE  LogTypeOK'
  BY <1>2, FreshType DEF Begin, LogTypeOK
<1>3. ASSUME NEW a \in Attempts, NEW p \in Phases, NEW ks \in SUBSET FactKeys,
             NEW updates \in [ks -> FactValues], Mark(a, p, updates)
      PROVE  LogTypeOK'
  <2>1. tx[a] \in Documents
    BY DEF LogTypeOK
  <2>2. Marked(tx[a], p, updates) \in Documents
    BY <2>1, MarkedType
  <2> QED BY <1>3, <2>2 DEF Mark, LogTypeOK
<1> QED BY <1>1, <1>2, <1>3 DEF LogNext

(* The log holds one well-formed document per attempt (the record schema of *)
(* backend/runtime_store.py).                                               *)
THEOREM LogTypeCorrect == LogSpec => []LogTypeOK
BY LogTypeInit, LogTypeStep, PTL DEF LogSpec

-----------------------------------------------------------------------------
(* Readability                                                              *)

(* What a mark that advances the document may assume and does.              *)
LEMMA ReadableAdvance ==
  ASSUME NEW doc \in Documents, NEW p \in Phases, NEW ks \in SUBSET FactKeys,
         NEW updates \in [ks -> FactValues],
         Readable(doc), CanAdvance(doc, p, updates)
  PROVE  Readable(Marked(doc, p, updates))
<1> DEFINE new == Marked(doc, p, updates)
           n == Len(doc.history)
<1>1. /\ new.phase = p /\ new.history = Append(doc.history, p)
      /\ new.facts = Merged(doc, updates)
  BY DEF Marked, CanAdvance, Documents
<1>2. doc.history \in Seq(Phases) /\ n \in Nat
  BY DEF Documents
<1>3. /\ Len(new.history) = n + 1
      /\ new.history[n + 1] = p
      /\ \A i \in 1 .. n : new.history[i] = doc.history[i]
      /\ DOMAIN new.history = 1 .. n + 1 /\ DOMAIN doc.history = 1 .. n
  BY <1>1, <1>2
<1>4. n \in Nat \ {0} /\ doc.history[1] = "begun" /\ doc.history[n] = doc.phase
  BY <1>2 DEF Readable
<1>5. new.history # << >> /\ new.history[1] = "begun"
      /\ new.history[Len(new.history)] = new.phase
  BY <1>1, <1>3, <1>4
<1>6. \A i \in DOMAIN new.history : new.history[i] \in Phases
  BY <1>3 DEF Readable
<1>7. \A i \in 1 .. Len(new.history) - 1 :
        new.history[i + 1] \in AllowedSuccessors(new.history[i])
  <2>1. ASSUME NEW i \in 1 .. n
        PROVE  new.history[i + 1] \in AllowedSuccessors(new.history[i])
    <3>1. CASE i = n
      BY <3>1, <1>3, <1>4 DEF CanAdvance
    <3>2. CASE i # n
      <4>1. i \in 1 .. n - 1 /\ i + 1 \in 1 .. n
        BY <3>2, <1>4
      <4> QED BY <4>1, <1>3 DEF Readable
    <3> QED BY <3>1, <3>2
  <2> QED BY <2>1, <1>3, <1>4
<1>8. ASSUME NEW k \in FactKeys
      PROVE  (new.facts[k] # Unset) <=> Reached(new, FactPhase[k])
  <2>1. Reached(new, FactPhase[k]) <=> Reached(doc, FactPhase[k]) \/ FactPhase[k] = p
    <3>1. \A i \in 1 .. n + 1 : i = n + 1 \/ i \in 1 .. n
      BY <1>4
    <3>2. n + 1 \in 1 .. n + 1 /\ 1 .. n \subseteq 1 .. n + 1
      BY <1>4
    <3> HIDE DEF new, n
    <3> QED BY <1>3, <3>1, <3>2 DEF Reached
  <2>2. CASE FactPhase[k] = p
    <3>1. k \in ks
      BY <2>2 DEF CanAdvance, FactsDueAt
    <3>2. new.facts[k] = updates[k] /\ updates[k] \in FactValues
      BY <3>1, <1>1 DEF Merged
    <3> QED BY <2>1, <2>2, <3>2, UnsetIsNoValue
  <2>3. CASE FactPhase[k] # p
    <3>1. k \notin ks
      BY <2>3 DEF CanAdvance, FactsAcceptable
    <3>2. new.facts[k] = doc.facts[k]
      BY <3>1, <1>1 DEF Merged
    <3> QED BY <2>1, <2>3, <3>2 DEF Readable
  <2> QED BY <2>2, <2>3
<1> HIDE DEF new
<1> QED BY <1>1, <1>5, <1>6, <1>7, <1>8 DEF Readable, new

LEMMA ReadableFresh ==
  ASSUME NEW r \in Releases
  PROVE  Readable(FreshDocument(r))
<1> DEFINE doc == FreshDocument(r)
<1>1. doc.phase = "begun" /\ doc.history = <<"begun">>
      /\ doc.facts = [k \in FactKeys |-> Unset]
  BY DEF FreshDocument
<1>2. Len(doc.history) = 1 /\ doc.history[1] = "begun" /\ DOMAIN doc.history = {1}
  BY <1>1
<1>3. "begun" \in Phases
  BY DEF Phases, PhasesOf, NormalSequence
<1>4. \A k \in FactKeys : FactPhase[k] # "begun"
  BY DEF FactKeys, FactPhase
<1>5. \A k \in FactKeys : ~Reached(doc, FactPhase[k])
  BY <1>2, <1>4 DEF Reached
<1> HIDE DEF doc
<1>6. Readable(doc)
  BY <1>1, <1>2, <1>3, <1>5 DEF Readable
<1> QED BY <1>6 DEF doc

LogInv == LogTypeOK /\ RecordsReadable

LEMMA RecordsReadableStep == LogInv /\ [LogNext]_tx => RecordsReadable'
<1> SUFFICES ASSUME LogInv, [LogNext]_tx
             PROVE  RecordsReadable'
  OBVIOUS
<1> USE DEF LogInv
<1>1. CASE UNCHANGED tx
  BY <1>1 DEF RecordsReadable
<1>2. ASSUME NEW a \in Attempts, NEW r \in Releases, Begin(a, r)
      PROVE  RecordsReadable'
  BY <1>2, ReadableFresh DEF Begin, RecordsReadable, LogTypeOK
<1>3. ASSUME NEW a \in Attempts, NEW p \in Phases, NEW ks \in SUBSET FactKeys,
             NEW updates \in [ks -> FactValues], Mark(a, p, updates)
      PROVE  RecordsReadable'
  <2>1. tx[a] \in Documents /\ tx[a] # NoDocument
    BY <1>3 DEF LogTypeOK, Mark, CanMark, NoDocument
  <2>2. Readable(tx[a])
    BY <2>1 DEF RecordsReadable
  <2>3. CASE tx[a].phase = p
    BY <2>3, <1>3 DEF Mark, Marked, LogTypeOK, RecordsReadable
  <2>4. CASE tx[a].phase # p
    <3>1. CanAdvance(tx[a], p, updates)
      BY <2>4, <1>3 DEF Mark, CanMark, IsRetry
    <3>2. Readable(Marked(tx[a], p, updates))
      BY <3>1, <2>1, <2>2, ReadableAdvance
    <3> QED BY <3>2, <1>3 DEF Mark, LogTypeOK, RecordsReadable
  <2> QED BY <2>3, <2>4
<1> QED BY <1>1, <1>2, <1>3 DEF LogNext

(* The log never locks itself out: whatever privileged callers ask of it,   *)
(* every document it writes is one its strict reader accepts                *)
(* (mark_update_attempt against _validate_update_attempt).                  *)
THEOREM LogStaysReadable == LogSpec => []RecordsReadable
<1>1. LogInit => LogInv
  BY LogTypeInit DEF LogInit, LogInv, RecordsReadable
<1>2. LogInv /\ [LogNext]_tx => LogInv'
  BY LogTypeStep, RecordsReadableStep DEF LogInv
<1>3. LogInv => RecordsReadable
  BY DEF LogInv
<1> QED BY <1>1, <1>2, <1>3, PTL DEF LogSpec

-----------------------------------------------------------------------------
(* Immutability of what is recorded                                         *)

LEMMA MarkGrows ==
  ASSUME LogTypeOK, NEW a \in Attempts, NEW p \in Phases,
         NEW ks \in SUBSET FactKeys, NEW updates \in [ks -> FactValues],
         Mark(a, p, updates)
  PROVE  DocumentOnlyGrows(a)
<1>1. tx[a] \in Documents /\ tx'[a] = Marked(tx[a], p, updates)
  BY DEF LogTypeOK, Mark
<1>2. CASE tx[a].phase = p
  <2>1. tx'[a] = tx[a]
    BY <1>1, <1>2 DEF Marked
  <2> QED BY <1>1, <2>1 DEF DocumentOnlyGrows, Documents
<1>3. CASE tx[a].phase # p
  <2>1. CanAdvance(tx[a], p, updates)
    BY <1>3 DEF Mark, CanMark, IsRetry
  <2>2. /\ tx'[a].history = Append(tx[a].history, p)
        /\ tx'[a].facts = Merged(tx[a], updates)
    BY <1>1, <1>3 DEF Marked, Documents
  <2>3. /\ Len(tx[a].history) <= Len(tx'[a].history)
        /\ \A i \in DOMAIN tx[a].history : tx'[a].history[i] = tx[a].history[i]
    BY <1>1, <2>2 DEF Documents
  <2>4. \A k \in FactKeys : tx[a].facts[k] # Unset => tx'[a].facts[k] = tx[a].facts[k]
    BY <2>1, <2>2 DEF CanAdvance, FactsAcceptable, Merged
  <2> QED BY <2>1, <2>3, <2>4 DEF DocumentOnlyGrows, CanAdvance
<1> QED BY <1>2, <1>3

LEMMA BeginGrows ==
  ASSUME LogTypeOK, NEW a \in Attempts, NEW r \in Releases, Begin(a, r)
  PROVE  DocumentOnlyGrows(a)
<1>1. tx[a] \in {NoDocument, FreshDocument(r)} /\ tx'[a] = FreshDocument(r)
  BY DEF LogTypeOK, Begin
<1>2. CASE tx[a] = NoDocument
  <2>1. tx[a].history = << >> /\ ~IsTerminal(tx[a])
        /\ tx[a].facts = [k \in FactKeys |-> Unset] /\ tx'[a].history = <<"begun">>
    BY <1>1, <1>2 DEF NoDocument, IsTerminal, TerminalPhases, FreshDocument
  <2> QED BY <2>1 DEF DocumentOnlyGrows
<1>3. CASE tx[a] = FreshDocument(r)
  <2>1. tx'[a] = tx[a] /\ tx[a].history = <<"begun">>
    BY <1>1, <1>3 DEF FreshDocument
  <2> QED BY <2>1 DEF DocumentOnlyGrows
<1> QED BY <1>1, <1>2, <1>3

(* Recorded history, facts and outcomes are immutable: an attempt's         *)
(* document is only ever extended, and a terminal one never changes.        *)
THEOREM LogIsAppendOnly == LogSpec => LogOnlyGrows
<1>1. ASSUME LogTypeOK, [LogNext]_tx
      PROVE  [\A a \in Attempts : DocumentOnlyGrows(a)]_tx
  <2>1. CASE UNCHANGED tx
    BY <2>1
  <2>2. ASSUME NEW b \in Attempts, NEW r \in Releases, Begin(b, r),
               NEW a \in Attempts
        PROVE  DocumentOnlyGrows(a)
    <3>1. CASE a = b
      BY <3>1, <1>1, <2>2, BeginGrows
    <3>2. CASE a # b
      <4>1. tx'[a] = tx[a] /\ tx[a] \in Documents
        BY <3>2, <1>1, <2>2 DEF Begin, LogTypeOK
      <4> QED BY <4>1 DEF DocumentOnlyGrows, Documents
    <3> QED BY <3>1, <3>2
  <2>3. ASSUME NEW b \in Attempts, NEW p \in Phases, NEW ks \in SUBSET FactKeys,
               NEW updates \in [ks -> FactValues], Mark(b, p, updates),
               NEW a \in Attempts
        PROVE  DocumentOnlyGrows(a)
    <3>1. CASE a = b
      BY <3>1, <1>1, <2>3, MarkGrows
    <3>2. CASE a # b
      <4>1. tx'[a] = tx[a] /\ tx[a] \in Documents
        BY <3>2, <1>1, <2>3 DEF Mark, LogTypeOK
      <4> QED BY <4>1 DEF DocumentOnlyGrows, Documents
    <3> QED BY <3>1, <3>2
  <2> QED BY <1>1, <2>1, <2>2, <2>3 DEF LogNext
<1> QED BY <1>1, LogTypeCorrect, PTL DEF LogSpec, LogOnlyGrows

-----------------------------------------------------------------------------
(* The inductive invariant behind type correctness: which steps have an     *)
(* attempt in hand, and which commands have a runtime and an attempt.       *)

AttemptSteps == ForwardSteps \cup RollbackSteps \cup (ExitSteps \ {"exit"})
                  \cup (RecoverySteps \ {"recover", "begin"})

PcShape ==
  /\ pc # "idle" => proc.rel \in Releases
  /\ pc \in AttemptSteps => proc.att \in Attempts
  /\ proc.begun \/ proc.downtime => proc.att \in Attempts
  /\ pc \in RecoverySteps => ~proc.downtime
  /\ pc \in {"rec_cand", "exit_cand"} => FactOf("candidate_id") # Unset
  /\ pc = "exit_backup" => proc.durable = Doc.phase

OpShape ==
  /\ op.name \in {"stage", "finalize", "reconcile"} =>
       op.att \in Attempts /\ op.id \in Runtimes
  /\ op.name = "activate" => op.id \in Runtimes
  /\ op.name = "rollback_activation" /\ op.at # "start" => op.id \in Runtimes
  /\ op.name \in {"activate", "rollback_activation"} /\ op.at # "start" => op.old \in Runtimes
  /\ op.name = "gc" /\ op.at \in {"remove", "unlink"} => op.id \in Runtimes

FactShape ==
  \A a \in Attempts :
    /\ tx[a].facts["candidate_id"] \in Releases \cup {Unset}
    /\ tx[a].facts["previous_version"] \in Versions \cup {Unset}
    /\ tx[a].phase \in {"candidate_intent", "candidate_ready"} =>
         tx[a].facts["candidate_id"] # Unset

TypeInv == EngineTypeOK /\ PcShape /\ OpShape /\ FactShape

-----------------------------------------------------------------------------
LEMMA TypeInit == Init => TypeInv
<1> SUFFICES ASSUME Init
             PROVE  TypeInv
  OBVIOUS
<1>1. LogTypeOK
  BY LogTypeInit DEF Init
<1>2. StoreTypeOK
  BY EngineConstants DEF Init, StoreTypeOK, Commands, OpPoints, NoRecord, OpIdle, Runtimes
<1>a. HostTypeOK
  <2>1. code \in CodeTrees /\ bin \in BinSets /\ selector \in Runtimes \cup {"dir"}
    <3>1. Baseline \in Releases /\ Installed \in Releases
      BY EngineConstants
    <3>2. \/ code = [ver |-> Baseline, intact |-> TRUE] /\ bin = "legacy" /\ selector = "dir"
          \/ code = [ver |-> Installed, intact |-> TRUE] /\ bin = Installed /\ selector = Installed
      BY ZenonT(20) DEF Init
    <3>3. code \in CodeTrees
      <4>1. ASSUME NEW r \in Releases
            PROVE  [ver |-> r, intact |-> TRUE] \in CodeTrees
        BY DEF CodeTrees, Versions
      <4> QED BY <3>1, <3>2, <4>1
    <3>4. bin \in BinSets
      BY <3>1, <3>2 DEF BinSets
    <3>5. selector \in Runtimes \cup {"dir"}
      BY <3>1, <3>2 DEF Runtimes
    <3> QED BY <3>3, <3>4, <3>5
  <2>2. service \in [up : BOOLEAN, ver : Versions, rt : Runtimes \cup {"dir", "none"}]
    BY <2>1 DEF Init, CodeTrees
  <2>3. NoBackup \in [state : {"absent", "partial", "complete"},
                     code : CodeTrees, bin : BinSets, data : Nat]
    BY DEF NoBackup, CodeTrees, Versions, BinSets
  <2> QED BY <2>1, <2>2, <2>3 DEF Init, HostTypeOK
<1>c. ObserverTypeOK
  <2>1. NoSnapshot \in [code : CodeTrees, bin : BinSets,
                       selector : Runtimes \cup {"absent", "dir"}]
    BY DEF NoSnapshot, CodeTrees, Versions, BinSets
  <2> QED BY <2>1 DEF Init, ObserverTypeOK
<1>b. ProcTypeOK
  BY DEF Init, ProcTypeOK, ProcIdle, Versions
<1>3. EngineTypeOK
  BY <1>1, <1>2, <1>a, <1>b, <1>c DEF EngineTypeOK
<1>4. PcShape /\ OpShape
  BY DEF Init, PcShape, OpShape, ProcIdle, OpIdle, AttemptSteps, ForwardSteps,
     RollbackSteps, ExitSteps, RecoverySteps
<1>5. FactShape
  BY DEF Init, LogInit, FactShape, NoDocument, FactKeys, FactPhase
<1> QED BY <1>3, <1>4, <1>5 DEF TypeInv

-----------------------------------------------------------------------------
(* Engine steps that leave the host alone                                   *)

MarkActions ==
  \/ OwnershipIntent \/ OwnershipComplete \/ BackupIntent \/ BackupComplete
  \/ CandidateIntent \/ CandidateReady \/ DowntimeIntent \/ DowntimeStarted
  \/ ConversionIntent \/ ConversionComplete \/ TrustIntent \/ TrustComplete
  \/ ActivationIntent \/ Activated \/ DeployIntent \/ Deployed
  \/ ServiceStartIntent \/ ServiceStarted \/ HealthVerified \/ Success

CallActions ==
  \/ RecoverCandidate \/ CandidateStage \/ CandidateFinalize \/ ConversionRun
  \/ Activation \/ CollectGarbage \/ ExitCandidate
  \/ RollbackActivation \/ RollbackConversion

ResultActions ==
  \/ RecoverCandidateDone \/ CandidateStaged \/ CandidateFinalized
  \/ ConversionResult \/ ActivationResult \/ GarbageCollected
  \/ ExitCandidateDone \/ RollbackActivationDone \/ RollbackConversionDone

CheckpointActions == RuntimeRestored \/ FilesRestored \/ ServiceRestoreIntent

LogicActions ==
  \/ StartEngine \/ Recover \/ RecoverClassify \/ RecoverCheck \/ Cancel
  \/ BackupOwned \/ CandidateReuse \/ DowntimeFlag \/ ConversionNotNeeded
  \/ ActivationGate \/ HealthPasses \/ SuccessFlag \/ Finish
  \/ ExitTrap \/ ExitClassify \/ RollbackEnter \/ RollbackCheck
  \/ NoActivationToUndo \/ NoConversionToUndo \/ RollbackVerifyRuntime
  \/ ServiceRestoreRefused \/ RollbackHealth \/ RollbackEnd

LEMMA HostUntouched ==
  ASSUME MarkActions \/ CallActions \/ ResultActions \/ CheckpointActions \/ LogicActions
  PROVE  UNCHANGED hostVars
<1>1. CASE MarkActions
  BY <1>1 DEF MarkActions, MarkStep, logFrame, OwnershipIntent, OwnershipComplete,
    BackupIntent, BackupComplete, CandidateIntent, CandidateReady, DowntimeIntent,
    DowntimeStarted, ConversionIntent, ConversionComplete, TrustIntent, TrustComplete,
    ActivationIntent, Activated, DeployIntent, Deployed, ServiceStartIntent,
    ServiceStarted, HealthVerified, Success
<1>2. CASE CallActions
  BY <1>2 DEF CallActions, CallAt, RecoverCandidate, CandidateStage, CandidateFinalize,
    ConversionRun, Activation, CollectGarbage, ExitCandidate, RollbackActivation,
    RollbackConversion
<1>3. CASE ResultActions
  BY <1>3 DEF ResultActions, TakeResult, RollbackCommandDone, RecoverCandidateDone,
    CandidateStaged, CandidateFinalized, ConversionResult, ActivationResult,
    GarbageCollected, ExitCandidateDone, RollbackActivationDone, RollbackConversionDone
<1>4. CASE CheckpointActions
  BY <1>4 DEF CheckpointActions, Checkpoint, logFrame, RuntimeRestored, FilesRestored,
    ServiceRestoreIntent
<1>5. CASE LogicActions
  BY <1>5 DEF LogicActions, logFrame, StartEngine, Recover, RecoverClassify, RecoverCheck,
    Cancel, BackupOwned, CandidateReuse, DowntimeFlag, ConversionNotNeeded,
    ActivationGate, HealthPasses, SuccessFlag, Finish, ExitTrap, ExitClassify,
    RollbackEnter, RollbackCheck, NoActivationToUndo, NoConversionToUndo,
    RollbackVerifyRuntime, ServiceRestoreRefused, RollbackHealth, RollbackEnd
<1> QED BY <1>1, <1>2, <1>3, <1>4, <1>5

-----------------------------------------------------------------------------
(* The engine writes the log only through the log's own operations          *)

LEMMA PhasesKnown == PhasesOf(NormalSequence) \cup RollbackPhases \cup TerminalPhases \subseteq Phases
BY DEF Phases, PhasesOf, NormalSequence, RollbackSequence, RollbackPhases, TerminalPhases

LEMMA FactIsUpdate ==
  ASSUME NEW k \in FactKeys, NEW v \in FactValues
  PROVE  {k} \in SUBSET FactKeys /\ Fact(k, v) \in [{k} -> FactValues]
BY DEF Fact

LEMMA NoFactsIsUpdate == {} \in SUBSET FactKeys /\ NoFacts \in [{} -> FactValues]
BY DEF NoFacts

LEMMA MarkIsLogStep ==
  ASSUME proc.att \in Attempts, NEW p \in Phases, NEW ks \in SUBSET FactKeys,
         NEW updates \in [ks -> FactValues], CanMark(Doc, p, updates),
         tx' = [tx EXCEPT ![proc.att] = Marked(@, p, updates)]
  PROVE  LogNext
<1>1. Mark(proc.att, p, updates)
  BY DEF Mark, Doc
<1> QED BY <1>1 DEF LogNext

LEMMA TryMarkIsLogStep ==
  ASSUME LogTypeOK, NEW p \in Phases, tx' = TryMarked(p)
  PROVE  [LogNext]_tx
<1>1. CASE proc.att \in Attempts /\ CanMark(tx[proc.att], p, NoFacts)
  <2>1. tx' = [tx EXCEPT ![proc.att] = Marked(@, p, NoFacts)]
    BY <1>1 DEF TryMarked, LogTypeOK
  <2> QED BY <1>1, <2>1, MarkIsLogStep, NoFactsIsUpdate DEF Doc
<1>2. CASE ~(proc.att \in Attempts /\ CanMark(tx[proc.att], p, NoFacts))
  <2>1. tx' = tx
    BY <1>2 DEF TryMarked, LogTypeOK
  <2> QED BY <2>1
<1> QED BY <1>1, <1>2

LEMMA MarkStepIsLogStep ==
  ASSUME PcShape, NEW here \in ForwardSteps, NEW next, NEW p \in Phases,
         NEW ks \in SUBSET FactKeys, NEW updates \in [ks -> FactValues],
         MarkStep(here, p, updates, next)
  PROVE  [LogNext]_tx
<1>1. proc.att \in Attempts
  BY DEF PcShape, AttemptSteps, MarkStep
<1>2. CASE CanMark(Doc, p, updates)
  BY <1>1, <1>2, MarkIsLogStep DEF MarkStep
<1>3. CASE ~CanMark(Doc, p, updates)
  BY <1>3 DEF MarkStep
<1> QED BY <1>2, <1>3

LEMMA CheckpointIsLogStep ==
  ASSUME LogTypeOK, NEW here, NEW from, NEW next, NEW p \in Phases,
         Checkpoint(here, from, p, next)
  PROVE  [LogNext]_tx
BY TryMarkIsLogStep DEF Checkpoint

PlainMarks ==
  \/ OwnershipIntent \/ OwnershipComplete \/ CandidateReady \/ DowntimeIntent \/ ConversionComplete \/ TrustIntent
  \/ DeployIntent \/ Deployed \/ ServiceStartIntent \/ ServiceStarted \/ HealthVerified \/ Success

LEMMA PlainMarksAreLogSteps ==
  ASSUME PcShape, PlainMarks
  PROVE  [LogNext]_tx
<1>1. \E here \in ForwardSteps, p \in Phases, next \in ForwardSteps :
        MarkStep(here, p, NoFacts, next)
  BY DEF PlainMarks, ForwardSteps, Phases, PhasesOf, NormalSequence,
    OwnershipIntent, OwnershipComplete, CandidateReady, DowntimeIntent, ConversionComplete, TrustIntent,
    DeployIntent, Deployed, ServiceStartIntent, ServiceStarted, HealthVerified, Success
<1> QED BY <1>1, NoFactsIsUpdate, MarkStepIsLogStep

FactMarks ==
  \/ BackupIntent \/ BackupComplete \/ CandidateIntent \/ DowntimeStarted
  \/ ConversionIntent \/ TrustComplete \/ ActivationIntent \/ Activated

LEMMA FactMarksAreLogSteps ==
  ASSUME TypeInv, FactMarks
  PROVE  [LogNext]_tx
<1>1. /\ pc \in AttemptSteps => proc.att \in FactValues
      /\ pc # "idle" => proc.rel \in FactValues
      /\ proc.cur \in FactValues /\ ActiveRuntime \in FactValues
      /\ "True" \in FactValues /\ "False" \in FactValues
  BY EngineConstants DEF TypeInv, PcShape, EngineTypeOK, ProcTypeOK, StoreTypeOK,
    EngineFacts, Runtimes, Versions, ActiveRuntime, SelectorValid
<1>2. FactKeys = {"backup_dir", "previous_version", "candidate_id", "converted_by_attempt",
                  "trust_done", "previous_runtime", "activation_done", "downtime_started"}
  BY DEF FactKeys, FactPhase
<1>3. ASSUME NEW p \in Phases, NEW k \in FactKeys, NEW v \in FactValues,
             NEW a \in Attempts, CanMark(tx[a], p, Fact(k, v)),
             tx' = [tx EXCEPT ![a] = Marked(@, p, Fact(k, v))]
      PROVE  LogNext
  BY <1>3, FactIsUpdate DEF LogNext, Mark
<1>4. {"backup_intent", "backup_complete", "candidate_intent", "downtime_started",
       "conversion_intent", "trust_complete", "activation_intent", "activated"} \subseteq Phases
  BY DEF Phases, PhasesOf, NormalSequence
<1>5. pc \in ForwardSteps
  BY DEF FactMarks, BackupIntent, BackupComplete, CandidateIntent, DowntimeStarted,
    ConversionIntent, TrustComplete, ActivationIntent, Activated, MarkStep, ForwardSteps
<1>6. /\ proc.att \in Attempts /\ proc.att \in FactValues
      /\ proc.rel \in FactValues
  BY <1>1, <1>5 DEF TypeInv, PcShape, AttemptSteps, ForwardSteps
<1>7. CASE BackupIntent
  <2>1. \/ tx' = tx
        \/ /\ CanMark(tx[proc.att], "backup_intent", Fact("backup_dir", proc.att))
           /\ tx' = [tx EXCEPT ![proc.att] = Marked(@, "backup_intent", Fact("backup_dir", proc.att))]
    BY <1>7 DEF BackupIntent, MarkStep, Doc
  <2> QED BY <1>1, <1>2, <1>3, <1>4, <1>6, <2>1
<1>8. CASE BackupComplete
  <2>1. \/ tx' = tx
        \/ /\ CanMark(tx[proc.att], "backup_complete", Fact("previous_version", proc.cur))
           /\ tx' = [tx EXCEPT ![proc.att] = Marked(@, "backup_complete", Fact("previous_version", proc.cur))]
    BY <1>8 DEF BackupComplete, MarkStep, Doc
  <2> QED BY <1>1, <1>2, <1>3, <1>4, <1>6, <2>1
<1>9. CASE CandidateIntent
  <2>1. \/ tx' = tx
        \/ /\ CanMark(tx[proc.att], "candidate_intent", Fact("candidate_id", proc.rel))
           /\ tx' = [tx EXCEPT ![proc.att] = Marked(@, "candidate_intent", Fact("candidate_id", proc.rel))]
    BY <1>9 DEF CandidateIntent, MarkStep, Doc
  <2> QED BY <1>1, <1>2, <1>3, <1>4, <1>6, <2>1
<1>10. CASE DowntimeStarted
  <2>1. \/ tx' = tx
        \/ /\ CanMark(tx[proc.att], "downtime_started", Fact("downtime_started", "True"))
           /\ tx' = [tx EXCEPT ![proc.att] = Marked(@, "downtime_started", Fact("downtime_started", "True"))]
    BY <1>10 DEF DowntimeStarted, MarkStep, Doc
  <2> QED BY <1>1, <1>2, <1>3, <1>4, <1>6, <2>1
<1>11. CASE TrustComplete
  <2>1. \/ tx' = tx
        \/ /\ CanMark(tx[proc.att], "trust_complete", Fact("trust_done", "True"))
           /\ tx' = [tx EXCEPT ![proc.att] = Marked(@, "trust_complete", Fact("trust_done", "True"))]
    BY <1>11 DEF TrustComplete, MarkStep, Doc
  <2> QED BY <1>1, <1>2, <1>3, <1>4, <1>6, <2>1
<1>12. CASE ActivationIntent
  <2>1. \/ tx' = tx
        \/ /\ CanMark(tx[proc.att], "activation_intent", Fact("previous_runtime", ActiveRuntime))
           /\ tx' = [tx EXCEPT ![proc.att] = Marked(@, "activation_intent", Fact("previous_runtime", ActiveRuntime))]
    BY <1>12 DEF ActivationIntent, MarkStep, Doc
  <2> QED BY <1>1, <1>2, <1>3, <1>4, <1>6, <2>1
<1>13. CASE Activated
  <2>1. \/ tx' = tx
        \/ /\ CanMark(tx[proc.att], "activated", Fact("activation_done", "True"))
           /\ tx' = [tx EXCEPT ![proc.att] = Marked(@, "activated", Fact("activation_done", "True"))]
    BY <1>13 DEF Activated, MarkStep, Doc
  <2> QED BY <1>1, <1>2, <1>3, <1>4, <1>6, <2>1
<1>14. CASE ConversionIntent
  <2>1. \E v \in {"True", "False"} :
          \/ tx' = tx
          \/ /\ CanMark(tx[proc.att], "conversion_intent", Fact("converted_by_attempt", v))
             /\ tx' = [tx EXCEPT ![proc.att] =
                         Marked(@, "conversion_intent", Fact("converted_by_attempt", v))]
    BY <1>14 DEF ConversionIntent, MarkStep, Doc
  <2> QED BY <1>1, <1>2, <1>3, <1>4, <1>6, <2>1
<1> QED BY <1>7, <1>8, <1>9, <1>10, <1>11, <1>12, <1>13, <1>14 DEF FactMarks

(* Everything outside the marks, the checkpoints and the begin.             *)
SilentActions ==
  \/ CallActions \/ ResultActions
  \/ StartEngine \/ Recover \/ RecoverBackup \/ RecoverCheck \/ Cancel
  \/ BackupMkdir \/ BackupOwned \/ BackupCopy
  \/ CandidateReuse \/ CandidateInstall
  \/ StopService \/ DowntimeFlag \/ ConversionNotNeeded \/ ActivationGate
  \/ DeployRsync \/ DeployCode \/ DeployHelpers \/ DeployBin \/ StartService
  \/ HealthPasses \/ SuccessFlag \/ RotateBackup \/ Finish \/ ExitTrap \/ ExitBackup
  \/ RollbackStop \/ NoActivationToUndo \/ NoConversionToUndo \/ RollbackConf
  \/ RollbackRsync \/ RollbackCode \/ RollbackVerifyRuntime \/ RollbackBinRemove
  \/ RollbackBinCopy \/ ServiceRestoreRefused \/ RollbackStart \/ RollbackHealth
  \/ RuntimeCommand \/ RuntimeCommandFails \/ Interrupted \/ RollbackStepFails
  \/ Killed \/ Reboot \/ ServiceWrites

TryMarkActions ==
  CheckpointActions \/ RecoverClassify \/ ExitClassify \/ RollbackEnter
    \/ RollbackCheck \/ RollbackEnd

LEMMA NextCases ==
  ASSUME Next
  PROVE  PlainMarks \/ FactMarks \/ TryMarkActions \/ BeginAttempt \/ SilentActions
BY DEF Next, Engine, PlainMarks, FactMarks, TryMarkActions, SilentActions, CallActions,
  ResultActions, CheckpointActions

LEMMA SilentActionsKeepLog ==
  ASSUME SilentActions
  PROVE  UNCHANGED tx
<1>1. CASE CallActions
  BY <1>1 DEF CallActions, CallAt, RecoverCandidate, CandidateStage, CandidateFinalize,
    ConversionRun, Activation, CollectGarbage, ExitCandidate, RollbackActivation,
    RollbackConversion
<1>2. CASE ResultActions
  BY <1>2 DEF ResultActions, TakeResult, RollbackCommandDone, RecoverCandidateDone,
    CandidateStaged, CandidateFinalized, ConversionResult, ActivationResult,
    GarbageCollected, ExitCandidateDone, RollbackActivationDone, RollbackConversionDone
<1>3. CASE ~CallActions /\ ~ResultActions
  BY <1>3 DEF SilentActions, logFrame, StartEngine, Recover, RecoverBackup, RecoverCheck,
    Cancel, BackupMkdir, BackupOwned, BackupCopy, CandidateReuse, CandidateInstall,
    StopService, DowntimeFlag, ConversionNotNeeded, ActivationGate, DeployRsync,
    DeployCode, DeployHelpers, DeployBin, StartService, HealthPasses, SuccessFlag,
    RotateBackup, Finish, ExitTrap, ExitBackup, RollbackStop, NoActivationToUndo,
    NoConversionToUndo, RollbackConf, RollbackRsync, RollbackCode,
    RollbackVerifyRuntime, RollbackBinRemove, RollbackBinCopy, ServiceRestoreRefused,
    RollbackStart, RollbackHealth, RuntimeCommand, RuntimeCommandFails, Interrupted,
    RollbackStepFails, Killed, Reboot, ServiceWrites
<1> QED BY <1>1, <1>2, <1>3

LEMMA TryMarkActionsAreLogSteps ==
  ASSUME LogTypeOK, TryMarkActions
  PROVE  [LogNext]_tx
<1>1. {"runtime_restored", "files_restored", "service_restore_intent", "rolled_back",
       "rollback_started", "diagnostic_failure"} \subseteq Phases
  BY DEF Phases, PhasesOf, RollbackSequence
<1>2. \/ tx' = tx
      \/ \E p \in {"runtime_restored", "files_restored", "service_restore_intent",
                   "rolled_back", "rollback_started", "diagnostic_failure"} :
           tx' = TryMarked(p)
  BY DEF TryMarkActions, CheckpointActions, Checkpoint, RuntimeRestored, FilesRestored,
    ServiceRestoreIntent, RecoverClassify, ExitClassify, RollbackEnter, RollbackCheck,
    RollbackEnd
<1> QED BY <1>1, <1>2, TryMarkIsLogStep

LEMMA EngineLogStep == TypeInv /\ [Next]_vars => [LogNext]_tx
<1> SUFFICES ASSUME TypeInv, [Next]_vars
             PROVE  [LogNext]_tx
  OBVIOUS
<1>1. CASE UNCHANGED vars
  BY <1>1 DEF vars
<1>2. CASE PlainMarks
  BY <1>2, PlainMarksAreLogSteps DEF TypeInv
<1>3. CASE FactMarks
  BY <1>3, FactMarksAreLogSteps
<1>4. CASE TryMarkActions
  BY <1>4, TryMarkActionsAreLogSteps DEF TypeInv, EngineTypeOK
<1>5. CASE BeginAttempt
  <2>1. proc.rel \in Releases
    BY <1>5 DEF BeginAttempt, TypeInv, PcShape
  <2>2. PICK a \in Attempts : Begin(a, proc.rel)
    BY <1>5 DEF BeginAttempt
  <2> QED BY <2>1, <2>2 DEF LogNext, Begin
<1>6. CASE SilentActions
  BY <1>6, SilentActionsKeepLog
<1> QED BY <1>1, <1>2, <1>3, <1>4, <1>5, <1>6, NextCases

-----------------------------------------------------------------------------
(* Types of the runtime store                                               *)

StoreShape == StoreTypeOK /\ OpShape

LEMMA StoreStepType ==
  ASSUME StoreShape, StoreStep \/ CommandRaises \/ ReconcileMisjudges
  PROVE  StoreShape'
<1> USE DEF StoreShape, StoreTypeOK, OpShape, Commands, OpPoints, OpNames, OpIdle, At, Goto, Return, diskVars,
      Runtimes
<1>1. CASE StageCandidate
  BY <1>1 DEF StageCandidate
<1>2. CASE FinalizeCheck
  BY <1>2 DEF FinalizeCheck
<1>3. CASE FinalizeManifest
  BY <1>3 DEF FinalizeManifest
<1>4. CASE FinalizeRename
  BY <1>4 DEF FinalizeRename
<1>5. CASE FinalizeVerify
  BY <1>5 DEF FinalizeVerify
<1>6. CASE FinalizeCleanup
  BY <1>6 DEF FinalizeCleanup
<1>7. CASE FinalizeUnlink
  BY <1>7 DEF FinalizeUnlink
<1>8. CASE ReconcileStaging
  BY <1>8 DEF ReconcileStaging
<1>9. CASE ReconcileAbsent
  BY <1>9 DEF ReconcileAbsent
<1>10. CASE ReconcileRetain
  BY <1>10 DEF ReconcileRetain, Sound
<1>11. CASE ReconcileReject
  BY <1>11 DEF ReconcileReject, Reject, Sound
<1>12. CASE ReconcileRemove
  BY <1>12 DEF ReconcileRemove
<1>13. CASE ReconcileUnlink
  BY <1>13 DEF ReconcileUnlink
<1>14. CASE ConvertStart
  BY <1>14 DEF ConvertStart
<1>15. CASE ConvertMove
  BY <1>15 DEF ConvertMove
<1>16. CASE ConvertMoved
  BY <1>16 DEF ConvertMoved
<1>17. CASE ConvertManifest
  BY <1>17 DEF ConvertManifest
<1>18. CASE ConvertPublish
  <2>1. UNCHANGED <<tree, manifest, staging, prevRec, convRec>> /\ op.name = "convert"
    BY <1>18 DEF ConvertPublish
  <2>2. \/ Goto("finish") /\ UNCHANGED selector
        \/ Return("err") /\ UNCHANGED selector
        \/ selector' = Legacy /\ Goto("published")
    BY <1>18 DEF ConvertPublish
  <2> QED BY <2>1, <2>2
<1>19. CASE ConvertPublished
  BY <1>19 DEF ConvertPublished
<1>20. CASE ConvertFinish
  BY <1>20 DEF ConvertFinish
<1>21. CASE UnconvertUnlink
  BY <1>21 DEF UnconvertUnlink
<1>22. CASE UnconvertRestore
  BY <1>22 DEF UnconvertRestore
<1>23. CASE UnconvertRecord
  BY <1>23 DEF UnconvertRecord
<1>24. CASE ActivateGate
  <2>1. UNCHANGED <<tree, manifest, staging, selector, convRec>> /\ op.name = "activate"
    BY <1>24 DEF ActivateGate
  <2>2. \/ op' = OpIdle /\ res' \in {"ok", "err"} /\ UNCHANGED prevRec
        \/ /\ selector \in Runtimes
           /\ prevRec' = [previous |-> selector, current |-> op.id]
           /\ op' = [op EXCEPT !.at = "flip", !.old = selector]
           /\ UNCHANGED res
    BY <1>24 DEF ActivateGate, SelectorValid
  <2>3. CASE op' = OpIdle /\ res' \in {"ok", "err"} /\ UNCHANGED prevRec
    BY <2>1, <2>3
  <2>4. CASE /\ selector \in Runtimes
             /\ prevRec' = [previous |-> selector, current |-> op.id]
             /\ op' = [op EXCEPT !.at = "flip", !.old = selector]
             /\ UNCHANGED res
    <3>1. op.id \in Runtimes
      BY <2>1
    <3>2. prevRec' \in [previous : Runtimes \cup {"none"}, current : Runtimes \cup {"none"}]
      BY <3>1, <2>4
    <3>3. op' \in Commands
      BY <2>4
    <3>4. OpShape'
      BY <2>1, <2>4, <3>1
    <3>5. StoreTypeOK'
      BY <2>1, <2>4, <3>2, <3>3
    <3> QED BY <3>4, <3>5
  <2> QED BY <2>2, <2>3, <2>4
<1>25. CASE DeactivateGate
  <2>1. UNCHANGED diskVars /\ op.name = "rollback_activation"
    BY <1>25 DEF DeactivateGate
  <2>2. \/ op' = OpIdle /\ res' \in {"ok", "err"}
        \/ /\ selector \in Runtimes /\ prevRec.previous \in Runtimes
           /\ op' = [op EXCEPT !.at = "flip", !.old = selector, !.id = prevRec.previous]
           /\ UNCHANGED res
    BY <1>25 DEF DeactivateGate, SelectorValid
  <2>3. CASE op' = OpIdle /\ res' \in {"ok", "err"}
    BY <2>1, <2>3
  <2>4. CASE /\ selector \in Runtimes /\ prevRec.previous \in Runtimes
             /\ op' = [op EXCEPT !.at = "flip", !.old = selector, !.id = prevRec.previous]
             /\ UNCHANGED res
    <3>1. /\ op'.name = "rollback_activation" /\ op'.at = "flip"
          /\ op'.id \in Runtimes /\ op'.old \in Runtimes
      BY <2>1, <2>4
    <3>2. OpShape'
      BY <3>1
    <3>3. op' \in Commands
      BY <2>4
    <3>4. StoreTypeOK'
      BY <2>1, <2>4, <3>3
    <3> QED BY <3>2, <3>4
  <2> QED BY <2>2, <2>3, <2>4
<1>26. CASE FlipSelector
  BY <1>26 DEF FlipSelector
<1>27. CASE FlipVerified
  BY <1>27 DEF FlipVerified
<1>28. CASE FlipRestored
  BY <1>28 DEF FlipRestored
<1>29. CASE GcStart
  <2>1. UNCHANGED diskVars /\ op.name = "gc"
    BY <1>29 DEF GcStart
  <2>2. \/ op' = OpIdle /\ res' \in {"ok", "err"}
        \/ /\ selector \in Runtimes
           /\ op' = [op EXCEPT !.at = "sweep", !.keep = {selector, prevRec.previous}]
           /\ UNCHANGED res
    BY <1>29 DEF GcStart, SelectorValid
  <2>3. CASE op' = OpIdle /\ res' \in {"ok", "err"}
    BY <2>1, <2>3
  <2>4. CASE /\ selector \in Runtimes
             /\ op' = [op EXCEPT !.at = "sweep", !.keep = {selector, prevRec.previous}]
             /\ UNCHANGED res
    <3>1. {selector, prevRec.previous} \in SUBSET (Runtimes \cup {"none"})
      BY <2>4
    <3>2. OpShape'
      BY <2>1, <2>4
    <3>3. op' \in Commands
      BY <2>4, <3>1
    <3>4. StoreTypeOK'
      BY <2>1, <2>4, <3>3
    <3> QED BY <3>2, <3>4
  <2> QED BY <2>2, <2>3, <2>4
<1>30. CASE GcDamage
  <2>1. UNCHANGED <<manifest, staging, selector, prevRec, convRec, res>> /\ op.name = "gc"
    BY <1>30 DEF GcDamage
  <2>2. PICK r \in Runtimes : /\ tree' = [tree EXCEPT ![r] = "partial"]
                             /\ op' = [op EXCEPT !.at = "remove", !.id = r]
    BY <1>30 DEF GcDamage, Collectable
  <2>3. op'.name = "gc" /\ op'.at = "remove" /\ op'.id \in Runtimes
    BY <2>1, <2>2
  <2>4. OpShape'
    BY <2>3
  <2>5. op' \in Commands
    BY <2>2
  <2>6. StoreTypeOK'
    BY <2>1, <2>2, <2>5
  <2> QED BY <2>4, <2>6
<1>31. CASE GcRemove
  BY <1>31 DEF GcRemove
<1>32. CASE GcUnlink
  BY <1>32 DEF GcUnlink
<1>33. CASE GcDone
  BY <1>33 DEF GcDone
<1>34. CASE ReconcileMisjudges
  BY <1>34 DEF ReconcileMisjudges, Reject, Sound
<1>35. CASE CommandRaises
  BY <1>35 DEF CommandRaises
<1> QED BY <1>1, <1>2, <1>3, <1>4, <1>5, <1>6, <1>7, <1>8, <1>9, <1>10,
      <1>11, <1>12, <1>13, <1>14, <1>15, <1>16, <1>17, <1>18, <1>19,
      <1>20, <1>21, <1>22, <1>23, <1>24, <1>25, <1>26, <1>27, <1>28,
      <1>29, <1>30, <1>31, <1>32, <1>33, <1>34, <1>35 DEF StoreStep

LEMMA CallType ==
  ASSUME StoreShape, op = OpIdle, NEW name \in OpNames, NEW id \in Runtimes \cup {"none"},
         NEW att \in Attempts \cup {"none"}, Call(name, id, att), UNCHANGED diskVars,
         name \in {"stage", "finalize", "reconcile"} => id \in Runtimes /\ att \in Attempts,
         name = "activate" => id \in Runtimes
  PROVE  StoreShape'
<1>1. op'.name = name /\ op'.id = id /\ op'.att = att /\ op'.at = "start"
  BY DEF Call, OpIdle
<1>2. OpShape'
  BY <1>1 DEF OpShape
<1>3. op' \in Commands
  BY DEF Call, OpIdle, Commands, OpPoints
<1>4. StoreTypeOK'
  BY <1>3 DEF Call, StoreShape, StoreTypeOK, diskVars
<1> QED BY <1>2, <1>4 DEF StoreShape

LEMMA CallActionsType ==
  ASSUME TypeInv, CallActions
  PROVE  StoreShape'
<1>1. StoreShape /\ Legacy \in Runtimes
  BY DEF TypeInv, EngineTypeOK, StoreShape, Runtimes
<1>2. \E name \in OpNames, id \in Runtimes \cup {"none"} :
        /\ Call(name, id, proc.att)
        /\ name \in {"stage", "finalize", "reconcile"} => id \in Runtimes /\ proc.att \in Attempts
        /\ name = "activate" => id \in Runtimes
  <2>1. pc # "idle" => proc.rel \in Runtimes
    BY DEF TypeInv, PcShape, Runtimes
  <2>2. pc \in AttemptSteps => proc.att \in Attempts
    BY DEF TypeInv, PcShape
  <2>3. pc \in {"rec_cand", "exit_cand"} => FactOf("candidate_id") \in Runtimes
    BY <2>2 DEF TypeInv, PcShape, FactShape, FactOf, Doc, Runtimes, AttemptSteps, ExitSteps, RecoverySteps
  <2> QED
    BY <1>1, <2>1, <2>2, <2>3 DEF CallActions, CallAt, RecoverCandidate, CandidateStage,
      CandidateFinalize, ConversionRun, Activation, CollectGarbage, ExitCandidate,
      RollbackActivation, RollbackConversion, OpNames, AttemptSteps, ForwardSteps,
      RollbackSteps, ExitSteps, RecoverySteps
<1>3. op = OpIdle /\ UNCHANGED diskVars
  BY DEF CallActions, CallAt, Call, RecoverCandidate, CandidateStage,
    CandidateFinalize, ConversionRun, Activation, CollectGarbage, ExitCandidate,
    RollbackActivation, RollbackConversion
<1>4. proc.att \in Attempts \cup {"none"}
  BY DEF TypeInv, EngineTypeOK, ProcTypeOK
<1> QED BY <1>1, <1>2, <1>3, <1>4, CallType

KillActions == Interrupted \/ Killed \/ Reboot

CommandActions == RuntimeCommand \/ RuntimeCommandFails

LEMMA StoreUntouched ==
  ASSUME Next,
         ~(CallActions \/ ResultActions \/ CandidateInstall \/ KillActions \/ CommandActions)
  PROVE  UNCHANGED storeVars
<1>1. CASE MarkActions
  BY <1>1 DEF MarkActions, MarkStep, logFrame, OwnershipIntent, OwnershipComplete,
    BackupIntent, BackupComplete, CandidateIntent, CandidateReady, DowntimeIntent,
    DowntimeStarted, ConversionIntent, ConversionComplete, TrustIntent, TrustComplete,
    ActivationIntent, Activated, DeployIntent, Deployed, ServiceStartIntent,
    ServiceStarted, HealthVerified, Success
<1>2. CASE CheckpointActions \/ LogicActions
  BY <1>2 DEF CheckpointActions, Checkpoint, logFrame, RuntimeRestored, FilesRestored,
    ServiceRestoreIntent, LogicActions, StartEngine, Recover, RecoverClassify, RecoverCheck,
    Cancel, BackupOwned, CandidateReuse, DowntimeFlag, ConversionNotNeeded,
    ActivationGate, HealthPasses, SuccessFlag, Finish, ExitTrap, ExitClassify,
    RollbackEnter, RollbackCheck, NoActivationToUndo, NoConversionToUndo,
    RollbackVerifyRuntime, ServiceRestoreRefused, RollbackHealth, RollbackEnd
<1>3. CASE ~MarkActions /\ ~CheckpointActions /\ ~LogicActions
  BY <1>3 DEF Next, Engine, MarkActions, CheckpointActions, LogicActions, CallActions,
    ResultActions, KillActions, CommandActions, RecoverBackup, BeginAttempt, BackupMkdir,
    BackupCopy, StopService, DeployRsync, DeployCode, DeployHelpers, DeployBin,
    StartService, RotateBackup, ExitBackup, RollbackStop, RollbackConf, RollbackRsync,
    RollbackCode, RollbackBinRemove, RollbackBinCopy, RollbackStart, RollbackStepFails,
    ServiceWrites
<1> QED BY <1>1, <1>2, <1>3

LEMMA StoreTypeStep ==
  ASSUME TypeInv, [Next]_vars
  PROVE  StoreShape'
<1>1. StoreShape
  BY DEF TypeInv, EngineTypeOK, StoreShape
<1>2. CASE CallActions
  BY <1>2, CallActionsType
<1>3. CASE ResultActions
  <2>1. UNCHANGED <<diskVars, op>> /\ res' = "none"
    BY <1>3 DEF ResultActions, TakeResult, RollbackCommandDone, RecoverCandidateDone,
      CandidateStaged, CandidateFinalized, ConversionResult, ActivationResult,
      GarbageCollected, ExitCandidateDone, RollbackActivationDone, RollbackConversionDone
  <2> QED BY <1>1, <2>1 DEF StoreShape, StoreTypeOK, OpShape, diskVars
<1>4. CASE CandidateInstall
  <2>1. staging' \in [Attempts -> {"absent", "building", "built"}]
    BY <1>1, <1>4 DEF CandidateInstall, StoreShape, StoreTypeOK
  <2> QED BY <1>1, <1>4, <2>1 DEF CandidateInstall, StoreShape, StoreTypeOK, OpShape
<1>5. CASE KillActions
  <2>1. UNCHANGED diskVars /\ op' = OpIdle /\ res' = "none"
    BY <1>5 DEF KillActions, Interrupted, Killed, Reboot
  <2>2. OpShape'
    BY <2>1 DEF OpShape, OpIdle
  <2>3. op' \in Commands
    BY <2>1 DEF Commands, OpIdle, OpPoints
  <2> QED BY <1>1, <2>1, <2>2, <2>3 DEF StoreShape, StoreTypeOK, diskVars
<1>6. CASE CommandActions
  BY <1>1, <1>6, StoreStepType DEF CommandActions, RuntimeCommand, RuntimeCommandFails
<1>7. CASE UNCHANGED storeVars
  BY <1>1, <1>7 DEF StoreShape, StoreTypeOK, OpShape, storeVars
<1>8. CASE UNCHANGED vars
  BY <1>7, <1>8 DEF vars
<1> QED BY <1>2, <1>3, <1>4, <1>5, <1>6, <1>7, <1>8, StoreUntouched

-----------------------------------------------------------------------------
(* Facts                                                                    *)

FactsTyped(doc) ==
  /\ doc.facts["candidate_id"] \in Releases \cup {Unset}
  /\ doc.facts["previous_version"] \in Versions \cup {Unset}

CandidateRecorded(doc) ==
  doc.phase \in {"candidate_intent", "candidate_ready"} => doc.facts["candidate_id"] # Unset

LEMMA FactKeysAre ==
  FactKeys = {"backup_dir", "previous_version", "candidate_id", "converted_by_attempt",
              "trust_done", "previous_runtime", "activation_done", "downtime_started"}
BY DEF FactKeys, FactPhase

LEMMA ReadyFollowsIntent ==
  \A p \in Phases : "candidate_ready" \in AllowedSuccessors(p) => p = "candidate_intent"
<1>1. \A i \in 1 .. 20 : NormalSequence[i + 1] = "candidate_ready" => NormalSequence[i] = "candidate_intent"
  BY DEF NormalSequence
<1>2. \A i \in 1 .. 4 : RollbackSequence[i + 1] # "candidate_ready"
  BY DEF RollbackSequence
<1>3. Len(NormalSequence) = 21 /\ Len(RollbackSequence) = 5
  BY DEF NormalSequence, RollbackSequence
<1> QED BY <1>1, <1>2, <1>3 DEF AllowedSuccessors, FollowingIn

LEMMA CandidateRecordedStep ==
  ASSUME LogTypeOK, [LogNext]_tx, \A a \in Attempts : CandidateRecorded(tx[a])
  PROVE  \A a \in Attempts : CandidateRecorded(tx'[a])
<1> SUFFICES ASSUME NEW a \in Attempts
             PROVE  CandidateRecorded(tx'[a])
  OBVIOUS
<1>1. CASE tx'[a] = tx[a]
  BY <1>1
<1>2. ASSUME NEW r \in Releases, Begin(a, r)
      PROVE  CandidateRecorded(tx'[a])
  BY <1>2 DEF Begin, FreshDocument, CandidateRecorded, LogTypeOK
<1>3. ASSUME NEW p \in Phases, NEW ks \in SUBSET FactKeys,
             NEW updates \in [ks -> FactValues], Mark(a, p, updates)
      PROVE  CandidateRecorded(tx'[a])
  <2>1. tx'[a] = Marked(tx[a], p, updates) /\ CanMark(tx[a], p, updates)
    BY <1>3 DEF Mark, LogTypeOK
  <2>2. CASE tx[a].phase = p
    BY <1>1, <2>1, <2>2 DEF Marked
  <2>3. CASE tx[a].phase # p
    <3>1. tx'[a].phase = p /\ tx'[a].facts = Merged(tx[a], updates)
      BY <2>1, <2>3 DEF Marked, LogTypeOK, Documents
    <3>2. CanAdvance(tx[a], p, updates)
      BY <2>1, <2>3 DEF CanMark, IsRetry
    <3>3. CASE p = "candidate_intent"
      <4>1. "candidate_id" \in DOMAIN updates
        BY <3>2, <3>3, FactKeysAre DEF CanAdvance, FactsDueAt, FactPhase
      <4>2. tx'[a].facts["candidate_id"] = updates["candidate_id"]
        BY <3>1, <4>1, FactKeysAre DEF Merged
      <4> QED BY <4>1, <4>2, UnsetIsNoValue DEF CandidateRecorded
    <3>4. CASE p = "candidate_ready"
      <4>1. tx[a].phase = "candidate_intent"
        BY <2>1, <3>2, <3>4, ReadyFollowsIntent DEF CanAdvance, CanMark, LogTypeOK, Documents
      <4>2. tx[a].facts["candidate_id"] # Unset
        BY <4>1 DEF CandidateRecorded
      <4>3. tx'[a].facts["candidate_id"] \in {tx[a].facts["candidate_id"]} \cup FactValues
        BY <3>1, FactKeysAre DEF Merged
      <4> QED BY <4>2, <4>3, UnsetIsNoValue DEF CandidateRecorded
    <3> QED BY <3>1, <3>3, <3>4 DEF CandidateRecorded
  <2> QED BY <2>2, <2>3
<1>4. ASSUME NEW b \in Attempts, NEW r \in Releases, Begin(b, r), b # a
      PROVE  tx'[a] = tx[a]
  BY <1>4 DEF Begin, LogTypeOK
<1>5. ASSUME NEW b \in Attempts, NEW p, NEW updates, Mark(b, p, updates), b # a
      PROVE  tx'[a] = tx[a]
  BY <1>5 DEF Mark, LogTypeOK
<1> QED BY <1>1, <1>2, <1>3, <1>4, <1>5 DEF LogNext

(* A mark without facts leaves the facts alone.                             *)
LEMMA PlainMarkKeepsFacts ==
  ASSUME NEW doc \in Documents, NEW p
  PROVE  Marked(doc, p, NoFacts).facts = doc.facts
BY DEF Marked, Merged, NoFacts, Documents

LEMMA TryMarkKeepsFacts ==
  ASSUME LogTypeOK, NEW p, tx' = TryMarked(p)
  PROVE  \A a \in Attempts : tx'[a].facts = tx[a].facts
BY PlainMarkKeepsFacts DEF TryMarked, LogTypeOK

LEMMA FactMarkKeepsOthers ==
  ASSUME LogTypeOK, NEW here, NEW p, NEW k \in FactKeys, NEW v, NEW next,
         MarkStep(here, p, Fact(k, v), next)
  PROVE  \A a \in Attempts, j \in FactKeys :
           \/ tx'[a].facts[j] = tx[a].facts[j]
           \/ a = proc.att /\ j = k /\ tx'[a].facts[j] = v
<1>1. ASSUME NEW doc \in Documents, NEW j \in FactKeys
      PROVE  \/ Marked(doc, p, Fact(k, v)).facts[j] = doc.facts[j]
             \/ j = k /\ Marked(doc, p, Fact(k, v)).facts[j] = v
  BY DEF Marked, Merged, Fact, Documents
<1>2. \/ tx' = tx
      \/ tx' = [tx EXCEPT ![proc.att] = Marked(@, p, Fact(k, v))]
  BY DEF MarkStep
<1>3. ASSUME NEW a \in Attempts
      PROVE  tx[a] \in Documents /\ (tx'[a] = tx[a] \/ (a = proc.att /\ tx'[a] = Marked(tx[a], p, Fact(k, v))))
  BY <1>2 DEF LogTypeOK
<1> QED BY <1>1, <1>3

LEMMA FactMarkTypes ==
  ASSUME TypeInv, FactMarks
  PROVE  \A a \in Attempts : FactsTyped(tx'[a])
<1>1. LogTypeOK /\ \A a \in Attempts : FactsTyped(tx[a])
  BY DEF TypeInv, EngineTypeOK, FactShape, FactsTyped
<1>2. /\ pc # "idle" => proc.rel \in Releases
      /\ proc.cur \in Versions
  BY DEF TypeInv, PcShape, EngineTypeOK, ProcTypeOK
<1>3. ASSUME NEW here, NEW p, NEW k \in FactKeys, NEW v, NEW next,
             MarkStep(here, p, Fact(k, v), next),
             k = "candidate_id" => v \in Releases,
             k = "previous_version" => v \in Versions
      PROVE  \A a \in Attempts : FactsTyped(tx'[a])
  <2>1. \A a \in Attempts, j \in FactKeys :
           \/ tx'[a].facts[j] = tx[a].facts[j]
           \/ a = proc.att /\ j = k /\ tx'[a].facts[j] = v
    BY <1>1, <1>3, FactMarkKeepsOthers
  <2> QED BY <1>1, <1>3, <2>1, FactKeysAre DEF FactsTyped
<1>4. \E here, p, next : \E k \in FactKeys : \E v :
        /\ MarkStep(here, p, Fact(k, v), next)
        /\ k = "candidate_id" => v \in Releases
        /\ k = "previous_version" => v \in Versions
  <2>1. CASE CandidateIntent
    <3>1. MarkStep("cand_intent", "candidate_intent", Fact("candidate_id", proc.rel), "cand_build")
      BY <2>1 DEF CandidateIntent
    <3>2. proc.rel \in Releases
      BY <1>2, <3>1 DEF MarkStep
    <3> QED BY <3>1, <3>2, FactKeysAre
  <2>2. CASE BackupComplete
    BY <2>2, <1>2, FactKeysAre DEF BackupComplete
  <2>3. CASE BackupIntent
    BY <2>3, FactKeysAre DEF BackupIntent
  <2>4. CASE DowntimeStarted
    BY <2>4, FactKeysAre DEF DowntimeStarted
  <2>5. CASE ConversionIntent
    BY <2>5, FactKeysAre DEF ConversionIntent
  <2>6. CASE TrustComplete
    BY <2>6, FactKeysAre DEF TrustComplete
  <2>7. CASE ActivationIntent
    BY <2>7, FactKeysAre DEF ActivationIntent
  <2>8. CASE Activated
    BY <2>8, FactKeysAre DEF Activated
  <2> QED BY <2>1, <2>2, <2>3, <2>4, <2>5, <2>6, <2>7, <2>8 DEF FactMarks
<1> QED BY <1>3, <1>4

LEMMA PlainMarksKeepFacts ==
  ASSUME LogTypeOK, PlainMarks
  PROVE  \A a \in Attempts : tx'[a].facts = tx[a].facts
<1>1. \E here, p, next : MarkStep(here, p, NoFacts, next)
  BY DEF PlainMarks, OwnershipIntent, OwnershipComplete, CandidateReady, DowntimeIntent,
    ConversionComplete, TrustIntent, DeployIntent, Deployed, ServiceStartIntent,
    ServiceStarted, HealthVerified, Success
<1>2. \/ tx' = tx
      \/ \E p : tx' = [tx EXCEPT ![proc.att] = Marked(@, p, NoFacts)]
  BY <1>1 DEF MarkStep
<1> QED BY <1>2, PlainMarkKeepsFacts DEF LogTypeOK

LEMMA TryMarkActionsKeepFacts ==
  ASSUME LogTypeOK, TryMarkActions
  PROVE  \A a \in Attempts : tx'[a].facts = tx[a].facts
<1>1. tx' = tx \/ \E p : tx' = TryMarked(p)
  BY DEF TryMarkActions, CheckpointActions, Checkpoint, RuntimeRestored, FilesRestored,
    ServiceRestoreIntent, RecoverClassify, ExitClassify, RollbackEnter, RollbackCheck,
    RollbackEnd
<1> QED BY <1>1, TryMarkKeepsFacts

LEMMA FactShapeStep ==
  ASSUME TypeInv, [Next]_vars
  PROVE  FactShape'
<1>1. LogTypeOK /\ \A a \in Attempts : FactsTyped(tx[a]) /\ CandidateRecorded(tx[a])
  BY DEF TypeInv, EngineTypeOK, FactShape, FactsTyped, CandidateRecorded
<1>2. [LogNext]_tx
  BY EngineLogStep
<1>3. \A a \in Attempts : CandidateRecorded(tx'[a])
  BY <1>1, <1>2, CandidateRecordedStep
<1>4. \A a \in Attempts : FactsTyped(tx'[a])
  <2>1. CASE FactMarks
    BY <2>1, FactMarkTypes
  <2>2. CASE \A a \in Attempts : tx'[a].facts = tx[a].facts
    BY <1>1, <2>2 DEF FactsTyped
  <2>3. CASE BeginAttempt
    <3>1. PICK a \in Attempts : Begin(a, proc.rel)
      BY <2>3 DEF BeginAttempt
    <3>2. \A k \in FactKeys : FreshDocument(proc.rel).facts[k] = Unset
      BY DEF FreshDocument
    <3> QED BY <1>1, <3>1, <3>2, FactKeysAre DEF Begin, FactsTyped, LogTypeOK
  <2>4. CASE SilentActions \/ UNCHANGED vars
    BY <2>2, <2>4, SilentActionsKeepLog DEF vars
  <2> QED BY <1>1, <2>1, <2>2, <2>3, <2>4, NextCases, PlainMarksKeepFacts,
        TryMarkActionsKeepFacts
<1> QED BY <1>3, <1>4 DEF FactShape, FactsTyped, CandidateRecorded

-----------------------------------------------------------------------------
(* Types of the host                                                        *)

BackupRecords == [state : {"absent", "partial", "complete"}, code : CodeTrees,
                  bin : BinSets, data : Nat]

BackupActions == RecoverBackup \/ BackupMkdir \/ BackupCopy \/ RotateBackup \/ ExitBackup

CodeActions == DeployRsync \/ DeployCode \/ RollbackRsync \/ RollbackCode

HelperActions == DeployHelpers \/ DeployBin \/ RollbackBinRemove \/ RollbackBinCopy
                   \/ RollbackStepFails

ServiceActions == StopService \/ StartService \/ RollbackStop \/ RollbackStart \/ Reboot

DataActions == RollbackConf \/ ServiceWrites

LEMMA HostCases ==
  ASSUME [Next]_vars
  PROVE  \/ BackupActions \/ CodeActions \/ HelperActions \/ ServiceActions \/ DataActions
         \/ UNCHANGED hostVars
<1>1. CASE MarkActions \/ CallActions \/ ResultActions \/ CheckpointActions \/ LogicActions
  BY <1>1, HostUntouched
<1>2. CASE BeginAttempt \/ CandidateInstall \/ RuntimeCommand \/ RuntimeCommandFails
             \/ Interrupted \/ Killed \/ UNCHANGED vars
  BY <1>2 DEF BeginAttempt, CandidateInstall, RuntimeCommand, RuntimeCommandFails,
    Interrupted, Killed, vars
<1> QED
  BY <1>1, <1>2 DEF Next, Engine, MarkActions, CallActions, ResultActions, CheckpointActions,
    LogicActions, BackupActions, CodeActions, HelperActions, ServiceActions, DataActions

LEMMA HostTypeStep ==
  ASSUME TypeInv, [Next]_vars
  PROVE  HostTypeOK'
<1>1. HostTypeOK /\ proc \in [att : Attempts \cup {"none"}, rel : Versions, cur : Versions,
               staged : BOOLEAN, begun : BOOLEAN, downtime : BOOLEAN,
               succeeded : BOOLEAN, rbActive : BOOLEAN, rbAttempted : BOOLEAN,
               mine : BOOLEAN, rbPhase : RollbackPhases \cup {"none"},
               failed : BOOLEAN, recovering : BOOLEAN, durable : Phases \cup {"none"}]
  BY DEF TypeInv, EngineTypeOK, ProcTypeOK
<1>2. \A a \in Attempts : backup[a] \in BackupRecords
  BY <1>1 DEF HostTypeOK, BackupRecords
<1>3. ASSUME NEW v \in Versions, NEW b \in BOOLEAN
      PROVE  [ver |-> v, intact |-> b] \in CodeTrees
  BY DEF CodeTrees
<1>4. NoBackup \in BackupRecords
  BY <1>3 DEF NoBackup, BackupRecords, Versions, BinSets
<1>5. ASSUME BackupActions
      PROVE  HostTypeOK'
  <2>1. UNCHANGED <<code, bin, data, service>>
    BY <1>5 DEF BackupActions, RecoverBackup, BackupMkdir, BackupCopy, RotateBackup, ExitBackup
  <2>2. [state |-> "complete", code |-> code, bin |-> bin, data |-> data] \in BackupRecords
    BY <1>1 DEF HostTypeOK, BackupRecords
  <2>3. ASSUME NEW a \in Attempts
        PROVE  [backup[a] EXCEPT !.state = "partial"] \in BackupRecords
    BY <1>2 DEF BackupRecords
  <2>4. backup' \in [Attempts -> BackupRecords]
    <3>1. \/ UNCHANGED backup
          \/ \E a : backup' = [backup EXCEPT ![a] = NoBackup]
          \/ backup' = [backup EXCEPT ![proc.att].state = "partial"]
          \/ backup' = [backup EXCEPT ![proc.att] =
                          [state |-> "complete", code |-> code, bin |-> bin, data |-> data]]
      BY <1>5 DEF BackupActions, RecoverBackup, BackupMkdir, BackupCopy, RotateBackup, ExitBackup
    <3>2. backup \in [Attempts -> BackupRecords]
      BY <1>1 DEF HostTypeOK, BackupRecords
    <3> QED BY <1>4, <2>2, <2>3, <3>1, <3>2
  <2> QED BY <1>1, <2>1, <2>4 DEF HostTypeOK, BackupRecords
<1>6. ASSUME CodeActions
      PROVE  HostTypeOK'
  <2>1. UNCHANGED <<bin, data, service, backup>>
    BY <1>6 DEF CodeActions, DeployRsync, DeployCode, RollbackRsync, RollbackCode
  <2>2. /\ pc \in AttemptSteps => proc.att \in Attempts
        /\ proc.rel \in Versions /\ code \in CodeTrees /\ code.ver \in Versions
        /\ \A a \in Attempts : backup[a].code \in CodeTrees /\ backup[a].code.ver \in Versions
    BY <1>1, <1>2 DEF TypeInv, PcShape, HostTypeOK, BackupRecords, CodeTrees
  <2>3. \/ UNCHANGED code
        \/ code' = [ver |-> code.ver, intact |-> FALSE]
        \/ \E b \in BOOLEAN : code' = [ver |-> proc.rel, intact |-> b]
        \/ /\ pc \in AttemptSteps
           /\ \/ code' = backup[proc.att].code
              \/ code' = [ver |-> backup[proc.att].code.ver, intact |-> FALSE]
    BY <1>6 DEF CodeActions, DeployRsync, DeployCode, RollbackRsync, RollbackCode,
      AttemptSteps, RollbackSteps
  <2>4. code' \in CodeTrees
    BY <1>3, <2>2, <2>3
  <2> QED BY <1>1, <2>1, <2>4 DEF HostTypeOK
<1>7. ASSUME HelperActions
      PROVE  HostTypeOK'
  <2>1. UNCHANGED <<code, data, service, backup>>
    BY <1>7 DEF HelperActions, DeployHelpers, DeployBin, RollbackBinRemove, RollbackBinCopy,
      RollbackStepFails
  <2>2. /\ pc \in AttemptSteps => proc.att \in Attempts
        /\ pc # "idle" => proc.rel \in Releases
        /\ \A a \in Attempts : backup[a].bin \in BinSets
    BY <1>2 DEF TypeInv, PcShape, BackupRecords
  <2>3. bin' \in BinSets
    BY <1>1, <1>7, <2>2 DEF HostTypeOK, HelperActions, DeployHelpers, DeployBin, RollbackBinRemove,
      RollbackBinCopy, RollbackStepFails, BinSets, AttemptSteps, RollbackSteps
  <2> QED BY <1>1, <2>1, <2>3 DEF HostTypeOK
<1>8. ASSUME ServiceActions
      PROVE  HostTypeOK'
  <2>1. UNCHANGED <<code, bin, data, backup>>
    BY <1>8 DEF ServiceActions, StopService, StartService, RollbackStop, RollbackStart, Reboot
  <2>2. \/ service' = Stopped
        \/ service' = Loaded /\ Startable
    BY <1>8 DEF ServiceActions, StopService, StartService, RollbackStop, RollbackStart, Reboot
  <2>3. Stopped \in [up : BOOLEAN, ver : Versions, rt : Runtimes \cup {"dir", "none"}]
    BY DEF Stopped, Versions
  <2>4. Startable => Loaded \in [up : BOOLEAN, ver : Versions, rt : Runtimes \cup {"dir", "none"}]
    BY <1>1 DEF Startable, Loaded, HostTypeOK, CodeTrees
  <2> QED BY <1>1, <2>1, <2>2, <2>3, <2>4 DEF HostTypeOK
<1>9. ASSUME DataActions
      PROVE  HostTypeOK'
  <2>1. UNCHANGED <<code, bin, service, backup>>
    BY <1>9 DEF DataActions, RollbackConf, ServiceWrites
  <2>2. pc = "rb_conf" => proc.att \in Attempts
    BY DEF TypeInv, PcShape, AttemptSteps, RollbackSteps
  <2>3. \A a \in Attempts : backup[a].data \in Nat
    BY <1>2 DEF BackupRecords
  <2>4. data' \in Nat
    BY <1>1, <1>9, <2>2, <2>3 DEF DataActions, RollbackConf, ServiceWrites, HostTypeOK
  <2> QED BY <1>1, <2>1, <2>4 DEF HostTypeOK
<1>10. CASE UNCHANGED hostVars
  BY <1>1, <1>10 DEF HostTypeOK, hostVars
<1> QED BY <1>5, <1>6, <1>7, <1>8, <1>9, <1>10, HostCases

LEMMA ObserverTypeStep ==
  ASSUME TypeInv, [Next]_vars
  PROVE  ObserverTypeOK'
<1>1. ObserverTypeOK /\ HostTypeOK /\ selector \in {"absent", "dir"} \cup Runtimes
  BY DEF TypeInv, EngineTypeOK, StoreTypeOK
<1>2. Snapshot \in [code : CodeTrees, bin : BinSets, selector : Runtimes \cup {"absent", "dir"}]
  BY <1>1 DEF Snapshot, HostTypeOK
<1>3. /\ before' = before \/ \E a \in Attempts : before' = [before EXCEPT ![a] = Snapshot]
      /\ faults' = faults \/ faults' = faults + 1
  <2>1. CASE MarkActions \/ CallActions \/ ResultActions
    BY <2>1 DEF MarkActions, MarkStep, logFrame, OwnershipIntent, OwnershipComplete,
      BackupIntent, BackupComplete, CandidateIntent, CandidateReady, DowntimeIntent,
      DowntimeStarted, ConversionIntent, ConversionComplete, TrustIntent, TrustComplete,
      ActivationIntent, Activated, DeployIntent, Deployed, ServiceStartIntent,
      ServiceStarted, HealthVerified, Success, CallActions, CallAt, RecoverCandidate,
      CandidateStage, CandidateFinalize, ConversionRun, Activation, CollectGarbage,
      ExitCandidate, RollbackActivation, RollbackConversion, ResultActions, TakeResult,
      RollbackCommandDone, RecoverCandidateDone, CandidateStaged, CandidateFinalized,
      ConversionResult, ActivationResult, GarbageCollected, ExitCandidateDone,
      RollbackActivationDone, RollbackConversionDone
  <2>2. CASE CheckpointActions \/ LogicActions
    BY <2>2 DEF CheckpointActions, Checkpoint, logFrame, RuntimeRestored, FilesRestored,
      ServiceRestoreIntent, LogicActions, StartEngine, Recover, RecoverClassify, RecoverCheck,
      Cancel, BackupOwned, CandidateReuse, DowntimeFlag, ConversionNotNeeded,
      ActivationGate, HealthPasses, SuccessFlag, Finish, ExitTrap, ExitClassify,
      RollbackEnter, RollbackCheck, NoActivationToUndo, NoConversionToUndo,
      RollbackVerifyRuntime, ServiceRestoreRefused, RollbackHealth, RollbackEnd
  <2>3. CASE ~MarkActions /\ ~CallActions /\ ~ResultActions /\ ~CheckpointActions /\ ~LogicActions
    BY <2>3 DEF Next, Engine, vars, Fault, MarkActions, CheckpointActions, LogicActions,
      CallActions, ResultActions, RecoverBackup, BeginAttempt, BackupMkdir, CandidateInstall,
      BackupCopy, StopService, DeployRsync, DeployCode, DeployHelpers, DeployBin,
      StartService, RotateBackup, ExitBackup, RollbackStop, RollbackConf, RollbackRsync,
      RollbackCode, RollbackBinRemove, RollbackBinCopy, RollbackStart, RollbackStepFails,
      ServiceWrites, RuntimeCommand, RuntimeCommandFails, Interrupted, Killed, Reboot
  <2> QED BY <2>1, <2>2, <2>3
<1> QED BY <1>1, <1>2, <1>3 DEF ObserverTypeOK

-----------------------------------------------------------------------------
(* Types of the engine process                                              *)

ProcShape == ProcTypeOK /\ PcShape

Steps == {"idle"} \cup ForwardSteps \cup RecoverySteps \cup RollbackSteps \cup ExitSteps

PlainSteps == Steps \ {"rec_cand", "exit_cand", "exit_backup"}

(* The engine moves on with its variables unchanged.                        *)
LEMMA PcMoves ==
  ASSUME ProcShape, pc # "idle", UNCHANGED proc, pc' \in PlainSteps,
         pc' \in AttemptSteps => pc \in AttemptSteps,
         pc' \in RecoverySteps => pc \in RecoverySteps
  PROVE  ProcShape'
<1>1. ProcTypeOK'
  BY DEF ProcShape, ProcTypeOK, PlainSteps, Steps
<1>2. PcShape'
  BY DEF ProcShape, PcShape, PlainSteps
<1> QED BY <1>1, <1>2 DEF ProcShape

LEMMA ProcEnds ==
  ASSUME Exit
  PROVE  ProcShape'
<1>1. ProcTypeOK'
  BY DEF Exit, ProcTypeOK, ProcIdle, Versions
<1>2. PcShape'
  BY DEF Exit, PcShape, ProcIdle, AttemptSteps, ForwardSteps, RollbackSteps, ExitSteps,
    RecoverySteps
<1> QED BY <1>1, <1>2 DEF ProcShape

LEMMA MarkActionsProc ==
  ASSUME ProcShape, MarkActions
  PROVE  ProcShape'
<1>1. pc \in ForwardSteps /\ pc' \in ForwardSteps \cup {"exit"} /\ UNCHANGED proc
  BY DEF MarkActions, MarkStep, OwnershipIntent, OwnershipComplete,
    BackupIntent, BackupComplete, CandidateIntent, CandidateReady, DowntimeIntent,
    DowntimeStarted, ConversionIntent, ConversionComplete, TrustIntent, TrustComplete,
    ActivationIntent, Activated, DeployIntent, Deployed, ServiceStartIntent,
    ServiceStarted, HealthVerified, Success, ForwardSteps
<1>2. pc # "idle" /\ pc \in AttemptSteps /\ pc' \in PlainSteps \ RecoverySteps
  BY <1>1 DEF ForwardSteps, AttemptSteps, PlainSteps, Steps, RecoverySteps, ExitSteps
<1> QED BY <1>1, <1>2, PcMoves

PlainMoves ==
  \/ CallActions \/ BackupMkdir \/ BackupCopy \/ CandidateReuse \/ CandidateInstall
  \/ StopService \/ ConversionNotNeeded \/ ActivationGate \/ DeployRsync \/ DeployCode
  \/ DeployHelpers \/ DeployBin \/ StartService \/ HealthPasses \/ RollbackStop
  \/ NoConversionToUndo \/ RollbackConf \/ RollbackCode \/ RollbackBinRemove
  \/ RollbackBinCopy \/ Interrupted \/ RecoverCandidateDone \/ CandidateStaged
  \/ CandidateFinalized \/ ConversionResult \/ ActivationResult \/ GarbageCollected

LEMMA PlainMovesProc ==
  ASSUME ProcShape, PlainMoves
  PROVE  ProcShape'
<1>1. /\ pc # "idle" /\ UNCHANGED proc /\ pc' \in PlainSteps
      /\ pc' \in AttemptSteps => pc \in AttemptSteps
      /\ pc' \in RecoverySteps => pc \in RecoverySteps
  <2> USE DEF PlainSteps, Steps, AttemptSteps, ForwardSteps, RollbackSteps, ExitSteps, RecoverySteps
  <2>1. CASE CallActions
    BY <2>1 DEF CallActions, CallAt, RecoverCandidate, CandidateStage, CandidateFinalize,
      ConversionRun, Activation, CollectGarbage, ExitCandidate, RollbackActivation,
      RollbackConversion
  <2>2. CASE Interrupted
    BY <2>2 DEF Interrupted
  <2>3. CASE RecoverCandidateDone \/ CandidateStaged \/ CandidateFinalized
               \/ ConversionResult \/ ActivationResult \/ GarbageCollected
    BY <2>3 DEF TakeResult, Answered, RecoverCandidateDone, CandidateStaged,
      CandidateFinalized, ConversionResult, ActivationResult, GarbageCollected
  <2>4. CASE ~CallActions /\ ~Interrupted /\ ~RecoverCandidateDone /\ ~CandidateStaged
               /\ ~CandidateFinalized /\ ~ConversionResult /\ ~ActivationResult
               /\ ~GarbageCollected
    BY <2>4 DEF PlainMoves, BackupMkdir, BackupCopy, CandidateReuse, CandidateInstall,
      StopService, ConversionNotNeeded, ActivationGate, DeployRsync, DeployCode,
      DeployHelpers, DeployBin, StartService, HealthPasses, RollbackStop,
      NoConversionToUndo, RollbackConf, RollbackCode, RollbackBinRemove, RollbackBinCopy
  <2> QED BY <2>1, <2>2, <2>3, <2>4
<1> QED BY <1>1, PcMoves

(* A rollback step that only records a failure or a checkpoint.             *)
LEMMA RollbackNotes ==
  ASSUME ProcShape, pc \in RollbackSteps, pc' \in RollbackSteps,
         NEW f \in BOOLEAN, NEW p \in RollbackPhases \cup {"none"},
         proc' = [proc EXCEPT !.failed = f, !.rbPhase = p]
  PROVE  ProcShape'
<1>1. ProcTypeOK'
  BY DEF ProcShape, ProcTypeOK, Steps
<1>2. /\ proc'.att = proc.att /\ proc'.rel = proc.rel
      /\ proc'.begun = proc.begun /\ proc'.downtime = proc.downtime
  BY DEF ProcShape, ProcTypeOK
<1>3. pc # "idle" /\ pc \in AttemptSteps /\ pc' \notin RecoverySteps
        /\ pc' \notin {"rec_cand", "exit_cand", "exit_backup"}
  BY DEF RollbackSteps, AttemptSteps, RecoverySteps
<1>4. PcShape'
  BY <1>2, <1>3 DEF ProcShape, PcShape
<1> QED BY <1>1, <1>4 DEF ProcShape

NoteActions ==
  \/ RollbackActivationDone \/ RollbackConversionDone \/ NoActivationToUndo
  \/ RollbackVerifyRuntime \/ ServiceRestoreRefused \/ RollbackStart \/ RollbackHealth
  \/ RollbackStepFails \/ RollbackRsync \/ CheckpointActions

LEMMA NoteActionsProc ==
  ASSUME ProcShape, NoteActions
  PROVE  ProcShape'
<1>1. pc \in RollbackSteps /\ pc' \in RollbackSteps
  BY DEF NoteActions, RollbackCommandDone, Answered, RollbackActivationDone,
    RollbackConversionDone, NoActivationToUndo, RollbackVerifyRuntime, ServiceRestoreRefused,
    RollbackStart, RollbackHealth, RollbackStepFails, RollbackRsync, CheckpointActions,
    Checkpoint, RuntimeRestored, FilesRestored, ServiceRestoreIntent, RollbackSteps
<1>2. ProcTypeOK
  BY DEF ProcShape
<1>3. proc.failed \in BOOLEAN /\ proc.rbPhase \in RollbackPhases \cup {"none"}
        /\ proc = [proc EXCEPT !.failed = proc.failed, !.rbPhase = proc.rbPhase]
  BY <1>2 DEF ProcTypeOK
<1>4. ASSUME NEW x
      PROVE  /\ [proc EXCEPT !.failed = x] = [proc EXCEPT !.failed = x, !.rbPhase = proc.rbPhase]
             /\ [proc EXCEPT !.rbPhase = x] = [proc EXCEPT !.failed = proc.failed, !.rbPhase = x]
  BY <1>2 DEF ProcTypeOK
<1>5. CASE CheckpointActions
  <2>1. \E f \in BOOLEAN, p \in RollbackPhases \cup {"none"} :
          proc' = [proc EXCEPT !.failed = f, !.rbPhase = p]
    <3>3. CASE RuntimeRestored \/ FilesRestored
      <4>1. \/ UNCHANGED proc
            \/ proc' = [proc EXCEPT !.failed = TRUE]
            \/ \E p \in RollbackPhases : proc' = [proc EXCEPT !.rbPhase = p]
        BY <3>3 DEF RuntimeRestored, FilesRestored, Checkpoint, RollbackPhases
      <4> QED BY <1>3, <1>4, <4>1
    <3>4. CASE ServiceRestoreIntent
      <4> DEFINE p == "service_restore_intent"
                 marks == ToolPresent(proc.staged) /\ CanMark(Doc, p, NoFacts)
                 f0 == proc.failed \/ ~marks
                 p0 == IF marks /\ ~proc.failed THEN p ELSE proc.rbPhase
      <4>1. f0 \in BOOLEAN
        OBVIOUS
      <4>2. p0 \in RollbackPhases \cup {"none"}
        BY <1>3 DEF RollbackPhases
      <4>3. UNCHANGED proc \/ proc' = [proc EXCEPT !.failed = f0, !.rbPhase = p0]
        BY <3>4, Zenon DEF ServiceRestoreIntent
      <4> HIDE DEF f0, p0
      <4> QED BY <1>3, <4>1, <4>2, <4>3
    <3> QED BY <1>5, <3>3, <3>4 DEF CheckpointActions
  <2> QED BY <1>1, <2>1, RollbackNotes
<1>6. CASE ~CheckpointActions
  <2>1. UNCHANGED proc \/ \E f \in BOOLEAN : proc' = [proc EXCEPT !.failed = f]
    <3>1. CASE RollbackActivationDone \/ RollbackConversionDone \/ ServiceRestoreRefused
                 \/ RollbackStepFails \/ RollbackRsync
      BY <3>1 DEF RollbackCommandDone, RollbackActivationDone, RollbackConversionDone,
        ServiceRestoreRefused, RollbackStepFails, RollbackRsync
    <3>2. ASSUME NEW x
          PROVE  (proc.failed \/ x) \in BOOLEAN
      OBVIOUS
    <3>3. CASE NoActivationToUndo
      BY <3>2, <3>3, Zenon DEF NoActivationToUndo
    <3>4. CASE RollbackVerifyRuntime
      BY <3>2, <3>4, Zenon DEF RollbackVerifyRuntime
    <3>5. CASE RollbackStart
      BY <3>2, <3>5, Zenon DEF RollbackStart
    <3>6. CASE RollbackHealth
      BY <3>2, <3>6, Zenon DEF RollbackHealth
    <3> QED BY <1>6, <3>1, <3>3, <3>4, <3>5, <3>6 DEF NoteActions
  <2>2. \E f \in BOOLEAN, p \in RollbackPhases \cup {"none"} :
          proc' = [proc EXCEPT !.failed = f, !.rbPhase = p]
    BY <1>3, <1>4, <2>1
  <2> QED BY <1>1, <2>2, RollbackNotes
<1> QED BY <1>5, <1>6

(* The actions that set one of the process-local flags on the forward path. *)
LEMMA FlagActionsProc ==
  ASSUME ProcShape, BackupOwned \/ DowntimeFlag \/ SuccessFlag
  PROVE  ProcShape'
<1>1. pc \in ForwardSteps /\ pc' \in ForwardSteps
  BY DEF BackupOwned, DowntimeFlag, SuccessFlag, ForwardSteps
<1>2. \/ proc' = [proc EXCEPT !.mine = TRUE]
      \/ proc' = [proc EXCEPT !.downtime = TRUE]
      \/ proc' = [proc EXCEPT !.succeeded = TRUE]
  BY DEF BackupOwned, DowntimeFlag, SuccessFlag
<1>3. ProcTypeOK'
  BY <1>1, <1>2 DEF ProcShape, ProcTypeOK
<1>4. proc'.att = proc.att /\ proc'.rel = proc.rel
  BY <1>2 DEF ProcShape, ProcTypeOK
<1>5. /\ pc # "idle" /\ pc \in AttemptSteps
      /\ pc' \notin RecoverySteps \cup {"rec_cand", "exit_cand", "exit_backup"}
  BY <1>1 DEF ForwardSteps, AttemptSteps, RecoverySteps
<1>6. PcShape'
  BY <1>4, <1>5 DEF ProcShape, PcShape
<1> QED BY <1>3, <1>6 DEF ProcShape

(* The engine stays where it is while the rest of the host moves.           *)
StandingActions == RuntimeCommand \/ RuntimeCommandFails \/ ServiceWrites \/ RotateBackup

LEMMA StandingActionsProc ==
  ASSUME ProcShape, StandingActions \/ UNCHANGED vars
  PROVE  ProcShape'
<1>1. UNCHANGED <<pc, proc, tx>>
  BY DEF StandingActions, RuntimeCommand, RuntimeCommandFails, ServiceWrites, RotateBackup,
    vars
<1> QED BY <1>1 DEF ProcShape, ProcTypeOK, PcShape, FactOf, Doc

LEMMA StartEngineProc ==
  ASSUME TypeInv, StartEngine
  PROVE  ProcShape'
<1>1. PICK r \in Releases, staged \in BOOLEAN :
        proc' = [ProcIdle EXCEPT !.rel = r, !.cur = code.ver, !.staged = staged]
  BY DEF StartEngine
<1>2. code.ver \in Versions
  BY DEF TypeInv, EngineTypeOK, HostTypeOK, CodeTrees
<1>3. pc' = "recover"
  BY DEF StartEngine
<1>4. ProcTypeOK'
  BY <1>1, <1>2, <1>3 DEF ProcTypeOK, ProcIdle, RecoverySteps, Versions
<1>5. PcShape'
  BY <1>1, <1>3 DEF PcShape, ProcIdle, AttemptSteps, ForwardSteps, RollbackSteps, ExitSteps,
    RecoverySteps
<1> QED BY <1>4, <1>5 DEF ProcShape

LEMMA RecoverProc ==
  ASSUME ProcShape, Recover
  PROVE  ProcShape'
<1>1. CASE Exit
  BY <1>1, ProcEnds
<1>2. CASE pc' = "begin" /\ UNCHANGED proc
  <2>1. pc = "recover" /\ pc \in RecoverySteps /\ pc' \in PlainSteps /\ pc' \notin AttemptSteps
    BY <1>2 DEF Recover, RecoverySteps, PlainSteps, Steps, AttemptSteps, ForwardSteps,
      RollbackSteps, ExitSteps
  <2> QED BY <1>2, <2>1, PcMoves
<1>3. ASSUME NEW a \in Attempts, proc' = [proc EXCEPT !.att = a, !.begun = TRUE],
             pc' \in {"rec_backup", "rec_check"}
      PROVE  ProcShape'
  <2>1. ProcTypeOK'
    BY <1>3 DEF ProcShape, ProcTypeOK, RecoverySteps
  <2>2. pc = "recover" /\ ~proc.downtime /\ proc.rel \in Releases
    BY DEF Recover, ProcShape, PcShape, RecoverySteps
  <2>3. proc'.att = a /\ proc'.rel = proc.rel /\ proc'.downtime = proc.downtime
    BY <1>3 DEF ProcShape, ProcTypeOK
  <2>4. PcShape'
    BY <1>3, <2>2, <2>3 DEF PcShape
  <2> QED BY <2>1, <2>4 DEF ProcShape
<1> QED BY <1>1, <1>2, <1>3 DEF Recover, Incomplete

LEMMA RecoverBackupProc ==
  ASSUME ProcShape, RecoverBackup
  PROVE  ProcShape'
<1>1. /\ UNCHANGED <<proc, tx>> /\ pc = "rec_backup" /\ pc' \in {"rec_mark", "rec_cand"}
      /\ pc' = "rec_cand" => FactOf("candidate_id") # Unset
  BY DEF RecoverBackup
<1>2. ProcTypeOK'
  BY <1>1 DEF ProcShape, ProcTypeOK, RecoverySteps
<1>3. pc \in AttemptSteps /\ pc \in RecoverySteps
  BY <1>1 DEF AttemptSteps, RecoverySteps
<1>4. PcShape'
  BY <1>1, <1>3 DEF ProcShape, PcShape, FactOf, Doc
<1> QED BY <1>2, <1>4 DEF ProcShape

LEMMA RecoverClassifyProc ==
  ASSUME ProcShape, RecoverClassify
  PROVE  ProcShape'
<1>1. pc = "rec_mark" /\ pc \in RecoverySteps /\ pc \in AttemptSteps
  BY DEF RecoverClassify, RecoverySteps, AttemptSteps
<1>2. CASE UNCHANGED proc /\ pc' = "exit"
  BY <1>1, <1>2, PcMoves DEF PlainSteps, Steps, AttemptSteps, ForwardSteps, RollbackSteps,
    ExitSteps, RecoverySteps
<1>3. CASE proc' = [proc EXCEPT !.att = "none", !.begun = FALSE] /\ pc' = "begin"
  <2>1. ProcTypeOK'
    BY <1>3 DEF ProcShape, ProcTypeOK, RecoverySteps
  <2>2. proc'.begun = FALSE /\ proc'.rel = proc.rel /\ proc'.downtime = proc.downtime
    BY <1>3 DEF ProcShape, ProcTypeOK
  <2>3. pc' \notin AttemptSteps
    BY <1>3 DEF AttemptSteps, ForwardSteps, RollbackSteps, ExitSteps, RecoverySteps
  <2>4. PcShape'
    BY <1>1, <1>3, <2>2, <2>3 DEF ProcShape, PcShape
  <2> QED BY <2>1, <2>4 DEF ProcShape
<1> QED BY <1>2, <1>3 DEF RecoverClassify

LEMMA RecoverCheckProc ==
  ASSUME TypeInv, RecoverCheck
  PROVE  ProcShape'
<1>1. /\ ProcShape /\ pc = "rec_check" /\ pc \in RecoverySteps /\ pc \in AttemptSteps
      /\ proc.att \in Attempts
  BY DEF TypeInv, EngineTypeOK, ProcShape, PcShape, RecoverCheck, RecoverySteps, AttemptSteps
<1>2. CASE UNCHANGED proc /\ pc' = "exit"
  BY <1>1, <1>2, PcMoves DEF PlainSteps, Steps, AttemptSteps, ForwardSteps, RollbackSteps,
    ExitSteps, RecoverySteps
<1>3. CASE /\ FactOf("previous_version") # Unset
           /\ proc' = [proc EXCEPT !.cur = FactOf("previous_version"),
                                   !.downtime = TRUE, !.recovering = TRUE]
           /\ pc' = "rb_enter"
  <2>1. FactOf("previous_version") \in Versions
    BY <1>1, <1>3 DEF TypeInv, FactShape, FactOf, Doc
  <2>2. ProcTypeOK'
    BY <1>1, <1>3, <2>1 DEF ProcShape, ProcTypeOK, RollbackSteps
  <2>3. proc'.att = proc.att /\ proc'.rel = proc.rel
    BY <1>1, <1>3 DEF ProcShape, ProcTypeOK
  <2>4. pc' \notin RecoverySteps
    BY <1>3 DEF RecoverySteps
  <2>5. PcShape'
    BY <1>1, <1>3, <2>3, <2>4 DEF ProcShape, PcShape
  <2> QED BY <2>2, <2>5 DEF ProcShape
<1> QED BY <1>2, <1>3 DEF RecoverCheck

LEMMA BeginAttemptProc ==
  ASSUME ProcShape, BeginAttempt
  PROVE  ProcShape'
<1>1. PICK a \in Attempts : proc' = [proc EXCEPT !.att = a, !.begun = TRUE]
  BY DEF BeginAttempt
<1>2. pc = "begin" /\ pc' = "own_intent"
  BY DEF BeginAttempt
<1>3. ProcTypeOK'
  BY <1>1, <1>2 DEF ProcShape, ProcTypeOK, ForwardSteps
<1>4. proc'.att = a /\ proc'.rel = proc.rel /\ pc' \notin RecoverySteps
  BY <1>1, <1>2 DEF ProcShape, ProcTypeOK, RecoverySteps
<1>5. PcShape'
  BY <1>2, <1>4 DEF ProcShape, PcShape
<1> QED BY <1>3, <1>5 DEF ProcShape

LEMMA ExitTrapProc ==
  ASSUME TypeInv, ExitTrap
  PROVE  ProcShape'
<1>1. ProcShape /\ pc = "exit" /\ UNCHANGED tx
  BY DEF TypeInv, EngineTypeOK, ProcShape, ExitTrap
<1>2. CASE Exit
  BY <1>2, ProcEnds
<1>3. CASE pc' = "rb_enter" /\ proc.downtime /\ proc' = [proc EXCEPT !.recovering = FALSE]
  <2>1. ProcTypeOK'
    BY <1>1, <1>3 DEF ProcShape, ProcTypeOK, RollbackSteps
  <2>2. proc'.att = proc.att /\ proc'.rel = proc.rel /\ proc.att \in Attempts
    BY <1>1, <1>3 DEF ProcShape, ProcTypeOK, PcShape
  <2>3. pc' \notin RecoverySteps
    BY <1>3 DEF RecoverySteps
  <2>4. PcShape'
    BY <1>1, <1>3, <2>2, <2>3 DEF ProcShape, PcShape
  <2> QED BY <2>1, <2>4 DEF ProcShape
<1>4. CASE pc' = "exit_backup" /\ proc.begun /\ proc' = [proc EXCEPT !.durable = Doc.phase]
  <2>1. proc.att \in Attempts
    BY <1>1, <1>4 DEF ProcShape, PcShape
  <2>2. Doc.phase \in Phases \cup {"none"}
    BY <2>1 DEF TypeInv, EngineTypeOK, LogTypeOK, Documents, Doc
  <2>3. ProcTypeOK'
    BY <1>1, <1>4, <2>2 DEF ProcShape, ProcTypeOK, ExitSteps
  <2>4. /\ proc'.att = proc.att /\ proc'.rel = proc.rel /\ proc'.durable = Doc.phase
        /\ Doc' = Doc
    BY <1>1, <1>4 DEF ProcShape, ProcTypeOK, Doc
  <2>5. pc' \notin RecoverySteps
    BY <1>4 DEF RecoverySteps
  <2>6. PcShape'
    BY <1>1, <1>4, <2>1, <2>4, <2>5 DEF ProcShape, PcShape
  <2> QED BY <2>3, <2>6 DEF ProcShape
<1> QED BY <1>2, <1>3, <1>4 DEF ExitTrap

LEMMA ExitBackupProc ==
  ASSUME TypeInv, ExitBackup
  PROVE  ProcShape'
<1>1. /\ ProcShape /\ pc = "exit_backup" /\ UNCHANGED <<tx, proc>>
      /\ pc' = IF proc.durable \in {"candidate_intent", "candidate_ready"}
               THEN "exit_cand" ELSE "exit_mark"
  BY DEF TypeInv, EngineTypeOK, ProcShape, ExitBackup
<1>2. pc \in AttemptSteps
  BY <1>1 DEF AttemptSteps, ExitSteps
<1>3. pc' = "exit_cand" => FactOf("candidate_id") # Unset
  BY <1>1, <1>2 DEF ProcShape, PcShape, TypeInv, FactShape, FactOf, Doc
<1>4. ProcTypeOK'
  BY <1>1 DEF ProcShape, ProcTypeOK, ExitSteps
<1>5. pc' \notin RecoverySteps
  BY <1>1 DEF RecoverySteps
<1>6. PcShape'
  BY <1>1, <1>2, <1>3, <1>5 DEF ProcShape, PcShape, FactOf, Doc
<1> QED BY <1>4, <1>6 DEF ProcShape

LEMMA ExitCandidateDoneProc ==
  ASSUME ProcShape, ExitCandidateDone
  PROVE  ProcShape'
<1>1. CASE Exit
  BY <1>1, ProcEnds
<1>2. CASE pc = "exit_cand_wait" /\ pc' = "exit_mark" /\ UNCHANGED proc
  BY <1>2, PcMoves DEF PlainSteps, Steps, AttemptSteps, ExitSteps, RecoverySteps
<1> QED BY <1>1, <1>2 DEF ExitCandidateDone, Answered

LEMMA ReturnsProc ==
  ASSUME TypeInv, pc \in RollbackSteps, NEW ok, RollbackReturns(ok)
  PROVE  ProcShape'
<1>1. CASE Exit
  BY <1>1, ProcEnds
<1>2. CASE /\ pc' = "begin"
           /\ proc' = [ProcIdle EXCEPT !.rel = proc.rel, !.staged = proc.staged,
                                       !.cur = code.ver]
  <2>1. proc.rel \in Releases /\ proc.staged \in BOOLEAN /\ code.ver \in Versions
    BY DEF TypeInv, PcShape, EngineTypeOK, HostTypeOK, ProcTypeOK, CodeTrees, RollbackSteps
  <2>2. ProcTypeOK'
    BY <1>2, <2>1 DEF ProcTypeOK, ProcIdle, RecoverySteps, Versions
  <2>3. PcShape'
    BY <1>2, <2>1 DEF PcShape, ProcIdle, AttemptSteps, ForwardSteps, RollbackSteps, ExitSteps,
      RecoverySteps
  <2> QED BY <2>2, <2>3 DEF ProcShape
<1> QED BY <1>1, <1>2 DEF RollbackReturns

LEMMA RollbackEnterProc ==
  ASSUME TypeInv, RollbackEnter
  PROVE  ProcShape'
<1>1. /\ ProcShape /\ pc = "rb_enter" /\ pc \in RollbackSteps /\ pc \in AttemptSteps
      /\ pc # "idle"
  BY DEF TypeInv, EngineTypeOK, ProcShape, RollbackEnter, RollbackSteps, AttemptSteps
<1>2. CASE RollbackReturns(TRUE) \/ RollbackReturns(FALSE)
  BY <1>1, <1>2, ReturnsProc
<1>3. CASE /\ pc' = "rb_check"
           /\ \E p \in RollbackPhases :
                proc' = [proc EXCEPT !.rbPhase = p, !.rbActive = TRUE, !.rbAttempted = TRUE]
  <2>1. PICK p \in RollbackPhases :
          proc' = [proc EXCEPT !.rbPhase = p, !.rbActive = TRUE, !.rbAttempted = TRUE]
    BY <1>3
  <2>2. proc'.att = proc.att /\ proc'.rel = proc.rel
    BY <1>1, <2>1 DEF ProcShape, ProcTypeOK
  <2>5. pc' \in RollbackSteps
    BY <1>3 DEF RollbackSteps
  <2>6. ProcTypeOK'
    BY <1>1, <2>1, <2>5 DEF ProcShape, ProcTypeOK
  <2>3. pc' \notin RecoverySteps
    BY <1>3 DEF RecoverySteps
  <2>4. PcShape'
    BY <1>1, <1>3, <2>2, <2>3 DEF ProcShape, PcShape
  <2> QED BY <2>4, <2>6 DEF ProcShape
<1>4. "rollback_started" \in RollbackPhases
  BY DEF RollbackPhases
<1> QED BY <1>2, <1>3, <1>4 DEF RollbackEnter

LEMMA RollbackCheckProc ==
  ASSUME TypeInv, RollbackCheck \/ RollbackEnd
  PROVE  ProcShape'
<1>1. /\ ProcShape /\ pc \in RollbackSteps /\ pc \in AttemptSteps /\ pc # "idle"
  BY DEF TypeInv, EngineTypeOK, ProcShape, RollbackCheck, RollbackEnd, RollbackSteps,
    AttemptSteps
<1>2. CASE \E ok : RollbackReturns(ok)
  BY <1>1, <1>2, ReturnsProc
<1>3. CASE UNCHANGED proc /\ pc' = "rb_stop"
  BY <1>1, <1>3, PcMoves DEF PlainSteps, Steps, AttemptSteps, RollbackSteps, RecoverySteps
<1> QED BY <1>2, <1>3 DEF RollbackCheck, RollbackEnd

LEMMA ProcTypeStep ==
  ASSUME TypeInv, [Next]_vars
  PROVE  ProcShape'
<1>1. ProcShape
  BY DEF TypeInv, EngineTypeOK, ProcShape
<1>2. CASE MarkActions
  BY <1>1, <1>2, MarkActionsProc
<1>3. CASE PlainMoves
  BY <1>1, <1>3, PlainMovesProc
<1>4. CASE NoteActions
  BY <1>1, <1>4, NoteActionsProc
<1>5. CASE BackupOwned \/ DowntimeFlag \/ SuccessFlag
  BY <1>1, <1>5, FlagActionsProc
<1>6. CASE StandingActions \/ UNCHANGED vars
  BY <1>1, <1>6, StandingActionsProc
<1>7. CASE Finish \/ Cancel \/ Killed \/ Reboot \/ ExitClassify
  BY <1>7, ProcEnds DEF Finish, Cancel, Killed, Reboot, ExitClassify
<1>8. CASE StartEngine \/ Recover \/ RecoverBackup \/ RecoverClassify \/ RecoverCheck
             \/ BeginAttempt
  BY <1>1, <1>8, StartEngineProc, RecoverProc, RecoverBackupProc, RecoverClassifyProc,
    RecoverCheckProc, BeginAttemptProc
<1>9. CASE ExitTrap \/ ExitBackup \/ ExitCandidateDone \/ RollbackEnter \/ RollbackCheck
             \/ RollbackEnd
  BY <1>1, <1>9, ExitTrapProc, ExitBackupProc, ExitCandidateDoneProc, RollbackEnterProc,
    RollbackCheckProc
<1> QED
  BY <1>2, <1>3, <1>4, <1>5, <1>6, <1>7, <1>8, <1>9 DEF Next, Engine, MarkActions, PlainMoves,
    CallActions, NoteActions, CheckpointActions, StandingActions

-----------------------------------------------------------------------------
(* Theorems                                                                 *)

LEMMA TypeStep == TypeInv /\ [Next]_vars => TypeInv'
<1> SUFFICES ASSUME TypeInv, [Next]_vars
             PROVE  TypeInv'
  OBVIOUS
<1>1. LogTypeOK'
  BY EngineLogStep, LogTypeStep DEF TypeInv, EngineTypeOK
<1>2. StoreShape' /\ HostTypeOK' /\ ProcShape' /\ ObserverTypeOK' /\ FactShape'
  BY StoreTypeStep, HostTypeStep, ProcTypeStep, ObserverTypeStep, FactShapeStep
<1> QED BY <1>1, <1>2 DEF TypeInv, EngineTypeOK, StoreShape, ProcShape

(* The engine, the store commands it calls and every fault keep the whole   *)
(* state well typed (update.sh and backend/runtime_store.py together): no   *)
(* step acts for an attempt it does not have, and no command runs on a      *)
(* runtime that is not one.                                                 *)
THEOREM EngineTypeCorrect == Spec => []EngineTypeOK
<1>1. Spec => []TypeInv
  BY TypeInit, TypeStep, PTL DEF Spec
<1>2. TypeInv => EngineTypeOK
  BY DEF TypeInv
<1> QED BY <1>1, <1>2, PTL

(* update.sh writes the transaction log only through begin and mark: the    *)
(* engine implements the log's own specification, whatever the faults.      *)
THEOREM EngineWritesLog == Spec => LogSpec
<1>1. Spec => []TypeInv
  BY TypeInit, TypeStep, PTL DEF Spec
<1>2. Init => LogInit
  BY DEF Init
<1>3. TypeInv /\ [Next]_vars => [LogNext]_tx
  BY EngineLogStep
<1> QED BY <1>1, <1>2, <1>3, PTL DEF Spec, LogSpec

(* Under the engine, with signals, kills and reboots at every step, every   *)
(* record on the disk stays one the strict reader accepts: a crash never    *)
(* leaves a log that the next start refuses to read                         *)
(* (incomplete_update_attempts, _recover_incomplete_transaction).           *)
THEOREM EngineLogReadable == Spec => []RecordsReadable
BY EngineWritesLog, LogStaysReadable, PTL

(* Under the engine a record only grows and a terminal record is final:     *)
(* recovery and retention can rely on every fact once written.              *)
THEOREM EngineLogGrows == Spec => LogOnlyGrows
BY EngineWritesLog, LogIsAppendOnly, PTL

-----------------------------------------------------------------------------
(* What a step may do to a record                                           *)

OpenPhases == Phases \ TerminalPhases

(* Up to here recovery has nothing to undo.                                 *)
EarlyPhases == PreDowntimePhases \ {"downtime_intent"}

LEMMA SuccessorTable ==
  ASSUME NEW p, NEW q \in AllowedSuccessors(p)
  PROVE  /\ q \in Phases /\ q \notin {"begun", "none"}
         /\ q = "ownership_intent" => p = "begun"
         /\ q = "ownership_complete" => p = "ownership_intent"
         /\ q = "backup_intent" => p = "ownership_complete"
         /\ q = "backup_complete" => p = "backup_intent"
         /\ q = "candidate_intent" => p = "backup_complete"
         /\ q = "candidate_ready" => p = "candidate_intent"
         /\ q = "downtime_intent" => p = "candidate_ready"
         /\ q = "downtime_started" => p = "downtime_intent"
         /\ q = "conversion_intent" => p = "downtime_started"
         /\ p \notin TerminalPhases
<1>1. Len(NormalSequence) = 21 /\ Len(RollbackSequence) = 5
  BY DEF NormalSequence, RollbackSequence
<1>2. p \notin TerminalPhases
  BY DEF AllowedSuccessors
<1>3. \/ \E i \in 1 .. 20 : q = NormalSequence[i + 1] /\ p = NormalSequence[i]
      \/ \E i \in 1 .. 4 : q = RollbackSequence[i + 1]
      \/ q \in {"diagnostic_failure", "rollback_started"}
  BY <1>1, <1>2 DEF AllowedSuccessors, FollowingIn
<1>4. CASE \E i \in 1 .. 20 : q = NormalSequence[i + 1] /\ p = NormalSequence[i]
  BY <1>2, <1>4 DEF NormalSequence, Phases, PhasesOf
<1>5. CASE \E i \in 1 .. 4 : q = RollbackSequence[i + 1]
  BY <1>2, <1>5 DEF RollbackSequence, Phases, PhasesOf
<1>6. CASE q \in {"diagnostic_failure", "rollback_started"}
  BY <1>2, <1>6 DEF Phases, PhasesOf, RollbackSequence
<1> QED BY <1>3, <1>4, <1>5, <1>6

Writes(a) ==
  /\ IsOpen(tx[a])
  /\ tx'[a].phase \in AllowedSuccessors(tx[a].phase)
  /\ tx'[a].target = tx[a].target
  /\ \A k \in FactKeys : \/ tx'[a].facts[k] = tx[a].facts[k]
                         \/ tx[a].facts[k] = Unset /\ FactPhase[k] = tx'[a].phase

Opens(a) == tx[a] = NoDocument /\ \E r \in Releases : tx'[a] = FreshDocument(r)

LogMove(a) == tx'[a] = tx[a] \/ Opens(a) \/ Writes(a)

LEMMA LogMoves ==
  ASSUME LogTypeOK, [LogNext]_tx, NEW a \in Attempts
  PROVE  LogMove(a)
<1>1. ASSUME NEW b \in Attempts, NEW r \in Releases, Begin(b, r)
      PROVE  LogMove(a)
  BY <1>1 DEF Begin, LogTypeOK, LogMove, Opens
<1>2. ASSUME NEW b \in Attempts, NEW p \in Phases, NEW ks \in SUBSET FactKeys,
             NEW updates \in [ks -> FactValues], Mark(b, p, updates)
      PROVE  LogMove(a)
  <2>1. CASE b # a \/ tx[a].phase = p
    BY <1>2, <2>1 DEF Mark, Marked, LogTypeOK, LogMove
  <2>2. CASE b = a /\ tx[a].phase # p
    <3>1. CanAdvance(tx[a], p, updates) /\ tx[a].phase # "none" /\ tx[a] \in Documents
      BY <1>2, <2>2 DEF Mark, CanMark, IsRetry, LogTypeOK
    <3>2. /\ tx'[a].phase = p /\ tx'[a].target = tx[a].target
          /\ tx'[a].facts = Merged(tx[a], updates)
      BY <1>2, <2>2, <3>1 DEF Mark, Marked, LogTypeOK, Documents
    <3>3. \A k \in FactKeys : \/ tx'[a].facts[k] = tx[a].facts[k]
                              \/ tx[a].facts[k] = Unset /\ FactPhase[k] = tx'[a].phase
      BY <3>1, <3>2 DEF Merged, CanAdvance, FactsAcceptable
    <3> QED BY <3>1, <3>2, <3>3 DEF LogMove, Writes, CanAdvance, IsOpen
  <2> QED BY <2>1, <2>2
<1>3. CASE UNCHANGED tx
  BY <1>3 DEF LogMove
<1> QED BY <1>1, <1>2, <1>3 DEF LogNext

(* The phases only go forward.                                              *)
LEMMA PhaseMoves ==
  ASSUME LogTypeOK, NEW a \in Attempts, LogMove(a)
  PROVE  /\ IsOpen(tx'[a]) => IsOpen(tx[a]) \/ Opens(a)
         /\ tx'[a].phase \in EarlyPhases => tx[a].phase \in EarlyPhases \/ Opens(a)
         /\ tx'[a].phase \in PreDowntimePhases => tx[a].phase \in PreDowntimePhases \/ Opens(a)
         /\ tx'[a].phase = "none" => tx[a].phase = "none"
         /\ tx'[a].phase \in PreDowntimePhases \cup {"downtime_started"} =>
              tx[a].phase \in PreDowntimePhases \cup {"downtime_started"} \/ Opens(a)
<1>1. CASE tx'[a] = tx[a]
  BY <1>1
<1>2. CASE Opens(a)
  BY <1>2 DEF Opens, FreshDocument, PreDowntimePhases, EarlyPhases
<1>3. CASE Writes(a)
  BY <1>3, SuccessorTable DEF Writes, PreDowntimePhases, EarlyPhases, IsOpen
<1> QED BY <1>1, <1>2, <1>3 DEF LogMove

-----------------------------------------------------------------------------
(* The attempt in hand                                                      *)

(* The phase of the record at each step of the engine.                      *)
Fits(step, phase) ==
  /\ step = "own_intent" => phase = "begun"
  /\ step = "own_done" => phase = "ownership_intent"
  /\ step = "bk_intent" => phase = "ownership_complete"
  /\ step \in {"bk_mkdir", "bk_own", "bk_copy", "bk_done"} => phase = "backup_intent"
  /\ step = "cand_intent" => phase = "backup_complete"
  /\ step \in {"cand_build", "cand_stage_wait", "cand_install", "cand_final",
               "cand_final_wait", "cand_done"} => phase = "candidate_intent"
  /\ step = "down_intent" => phase = "candidate_ready"
  /\ step \in {"down_stop", "down_flag", "down_mark"} => phase = "downtime_intent"
  /\ step = "conv_intent" => phase = "downtime_started"
  /\ step \in {"conv_run", "conv_wait", "conv_check", "conv_done"} =>
       phase = "conversion_intent"
  /\ step = "trust_intent" => phase = "conversion_complete"
  /\ step = "trust_done" => phase = "trust_intent"
  /\ step \in {"act_gate", "act_intent"} => phase = "trust_complete"
  /\ step \in {"act_run", "act_wait", "act_done"} => phase = "activation_intent"
  /\ step = "dep_intent" => phase = "activated"
  /\ step \in {"dep_rsync", "dep_code", "dep_helpers", "dep_bin", "dep_done"} =>
       phase = "deploy_intent"
  /\ step = "svc_intent" => phase = "deployed"
  /\ step \in {"svc_start", "svc_done"} => phase = "service_start_intent"
  /\ step \in {"health", "health_done"} => phase = "service_started"
  /\ step = "success" => phase = "health_verified"
  /\ step \in {"success_flag", "gc", "gc_wait", "rotate"} => phase = "success"
  /\ step \in {"rec_backup", "rec_cand", "rec_cand_wait", "rec_mark"} =>
       phase \in PreDowntimePhases
  /\ step \in {"rec_check", "rb_enter"} => phase \in OpenPhases \ EarlyPhases
  /\ step \in RollbackSteps \ {"rb_enter"} => phase \in RollbackPhases
  /\ step \in {"exit_backup", "exit_mark"} => phase \in OpenPhases
  /\ step \in {"exit_cand", "exit_cand_wait"} =>
       phase \in {"candidate_intent", "candidate_ready"}

OneOpen == \A a, b \in Attempts : IsOpen(tx[a]) /\ IsOpen(tx[b]) => a = b

(* From the begin, or its discovery by recovery, to the end of the process  *)
(* an attempt is in hand: the only one that may be open.                    *)
InHand ==
  /\ proc.begun =>
       /\ Doc.phase \in OpenPhases \cup {"success"}
       /\ \A a \in Attempts : IsOpen(tx[a]) => a = proc.att
  /\ pc \in AttemptSteps => proc.begun = TRUE
  /\ pc \in {"idle", "recover", "begin"} => proc.begun = FALSE
  /\ proc.downtime => proc.begun = TRUE /\ Doc.phase \notin EarlyPhases
  /\ pc = "begin" => \A a \in Attempts : ~IsOpen(tx[a])
  /\ pc \in ForwardSteps => Doc.target = proc.rel

Hand == OneOpen /\ InHand /\ Fits(pc, Doc.phase)

USE DEF OpenPhases

LEMMA HandInit == Init => Hand
<1> SUFFICES ASSUME Init PROVE Hand
  OBVIOUS
<1>1. pc = "idle" /\ proc.begun = FALSE /\ proc.downtime = FALSE
  BY DEF Init, ProcIdle
<1>2. \A a \in Attempts : ~IsOpen(tx[a])
  BY DEF Init, LogInit, NoDocument, IsOpen
<1>3. Fits(pc, Doc.phase)
  BY <1>1 DEF Fits, RollbackSteps
<1>4. "idle" \notin AttemptSteps \cup ForwardSteps
  BY DEF AttemptSteps, ForwardSteps, RollbackSteps, ExitSteps, RecoverySteps
<1> QED BY <1>1, <1>2, <1>3, <1>4 DEF Hand, OneOpen, InHand

(* The attempt stays in hand.                                               *)
LEMMA HandHolds ==
  ASSUME TypeInv, Hand, proc.begun = TRUE,
         proc'.att = proc.att, proc'.begun = TRUE, proc'.rel = proc.rel,
         proc'.downtime => Doc'.phase \notin EarlyPhases,
         \A a \in Attempts \ {proc.att} : tx'[a] = tx[a],
         Doc'.phase \in OpenPhases \cup {"success"}, Doc'.target = Doc.target,
         pc' \notin {"idle", "recover", "begin"},
         pc' \in ForwardSteps => pc \in ForwardSteps,
         Fits(pc', Doc'.phase)
  PROVE  Hand'
<1>1. \A a \in Attempts : IsOpen(tx[a])' => a = proc'.att
  BY DEF Hand, InHand, IsOpen
<1>2. OneOpen'
  BY <1>1 DEF OneOpen
<1>3. InHand'
  BY <1>1 DEF Hand, InHand
<1> QED BY <1>2, <1>3 DEF Hand

(* The attempt stays in hand, and no record changes.                        *)
HandMoves ==
  /\ UNCHANGED tx
  /\ proc'.att = proc.att /\ proc'.begun = proc.begun /\ proc'.rel = proc.rel
  /\ proc'.cur = proc.cur /\ proc'.downtime = proc.downtime

LEMMA HandGoesOn ==
  ASSUME TypeInv, Hand, proc.begun = TRUE, HandMoves,
         pc' \notin {"idle", "recover", "begin"},
         pc' \in ForwardSteps => pc \in ForwardSteps,
         Fits(pc', Doc.phase)
  PROVE  Hand'
<1>1. Doc' = Doc
  BY DEF HandMoves, Doc
<1> QED BY <1>1, HandHolds DEF HandMoves, Hand, InHand

(* The engine ends, and no record is opened.                                *)
LEMMA HandEnds ==
  ASSUME Hand, Exit, \A a \in Attempts : IsOpen(tx[a])' => IsOpen(tx[a])
  PROVE  Hand'
<1>1. pc' = "idle" /\ proc'.begun = FALSE /\ proc'.downtime = FALSE
  BY DEF Exit, ProcIdle
<1>2. Fits(pc', Doc'.phase)
  BY <1>1 DEF Fits, RollbackSteps
<1>3. "idle" \notin AttemptSteps \cup ForwardSteps
  BY DEF AttemptSteps, ForwardSteps, RollbackSteps, ExitSteps, RecoverySteps
<1> QED BY <1>1, <1>2, <1>3 DEF Hand, OneOpen, InHand

LEMMA CallActionsGo ==
  ASSUME CallActions
  PROVE  /\ UNCHANGED <<tx, proc, diskVars, hostVars, before>> /\ op = OpIdle
         /\ \/ pc = "rec_cand" /\ pc' = "rec_cand_wait"
               /\ Call("reconcile", FactOf("candidate_id"), proc.att)
            \/ pc = "cand_build" /\ pc' = "cand_stage_wait" /\ Call("stage", proc.rel, proc.att)
            \/ pc = "cand_final" /\ pc' = "cand_final_wait"
               /\ Call("finalize", proc.rel, proc.att)
            \/ pc = "conv_run" /\ pc' = "conv_wait" /\ Call("convert", Legacy, proc.att)
            \/ pc = "act_run" /\ pc' = "act_wait" /\ Call("activate", proc.rel, proc.att)
            \/ pc = "gc" /\ pc' = "gc_wait" /\ Call("gc", "none", proc.att)
            \/ pc = "exit_cand" /\ pc' = "exit_cand_wait"
               /\ Call("reconcile", FactOf("candidate_id"), proc.att)
            \/ pc = "rb_select" /\ pc' = "rb_select_wait"
               /\ Call("rollback_activation", "none", proc.att)
            \/ pc = "rb_convert" /\ pc' = "rb_convert_wait"
               /\ FactOf("converted_by_attempt") = "True"
               /\ Call("rollback_conversion", Legacy, proc.att)
<1>1. ASSUME NEW here, NEW name, NEW id, NEW next, CallAt(here, name, id, next)
      PROVE  /\ UNCHANGED <<tx, proc, diskVars, hostVars, before>> /\ op = OpIdle
             /\ pc = here /\ pc' = next /\ Call(name, id, proc.att)
  BY <1>1 DEF CallAt, Call
<1> QED BY <1>1 DEF CallActions, RecoverCandidate, CandidateStage, CandidateFinalize,
      ConversionRun, Activation, CollectGarbage, ExitCandidate, RollbackActivation,
      RollbackConversion

LEMMA MarkHand ==
  ASSUME TypeInv, Hand, NEW here \in ForwardSteps, NEW next \in ForwardSteps,
         NEW p \in OpenPhases \cup {"success"}, NEW facts, MarkStep(here, p, facts, next),
         Fits(next, p)
  PROVE  Hand'
<1>1. /\ pc = here /\ UNCHANGED proc /\ proc.begun = TRUE /\ proc.att \in Attempts
      /\ tx \in [Attempts -> Documents] /\ tx[proc.att] \in Documents
  BY DEF MarkStep, Hand, InHand, TypeInv, PcShape, AttemptSteps, EngineTypeOK, LogTypeOK
<1>2. next \notin {"idle", "recover", "begin"}
  BY DEF ForwardSteps
<1>3. CASE UNCHANGED tx /\ pc' = "exit"
  <2>1. "exit" \notin ForwardSteps /\ Fits("exit", Doc.phase)
    BY DEF ForwardSteps, Fits, RollbackSteps
  <2> QED BY <1>1, <1>3, <2>1, HandGoesOn DEF HandMoves
<1>4. CASE /\ CanMark(Doc, p, facts) /\ pc' = next
           /\ tx' = [tx EXCEPT ![proc.att] = Marked(@, p, facts)]
  <2>1. Doc' = Marked(Doc, p, facts) /\ \A a \in Attempts \ {proc.att} : tx'[a] = tx[a]
    BY <1>1, <1>4 DEF Doc
  <2>2. Doc'.phase = p /\ Doc'.target = Doc.target
    BY <1>1, <2>1 DEF Marked, Documents, Doc
  <2>3. Doc.phase = p \/ p \in AllowedSuccessors(Doc.phase)
    BY <1>4 DEF CanMark, IsRetry, CanAdvance
  <2>4. p \in EarlyPhases => Doc.phase \in EarlyPhases
    BY <2>3, SuccessorTable DEF EarlyPhases, PreDowntimePhases
  <2>5. proc'.downtime => Doc'.phase \notin EarlyPhases
    BY <1>1, <2>2, <2>4 DEF Hand, InHand
  <2> QED BY <1>1, <1>2, <1>4, <2>1, <2>2, <2>5, HandHolds
<1> QED BY <1>3, <1>4 DEF MarkStep

LEMMA MarkActionsHand ==
  ASSUME TypeInv, Hand, MarkActions
  PROVE  Hand'
<1>1. {"act_done", "act_gate", "act_intent", "act_run", "bk_done",
       "bk_intent", "bk_mkdir", "cand_build", "cand_done", "cand_intent",
       "conv_check", "conv_done", "conv_intent", "conv_run", "dep_done",
       "dep_intent", "dep_rsync", "down_intent", "down_mark", "down_stop",
       "health", "health_done", "own_done", "own_intent", "success",
       "success_flag", "svc_done", "svc_intent", "svc_start", "trust_done",
       "trust_intent"} \subseteq ForwardSteps
  BY DEF ForwardSteps
<1>2. {"ownership_intent", "ownership_complete", "backup_intent",
       "backup_complete", "candidate_intent", "candidate_ready",
       "downtime_intent", "downtime_started", "conversion_complete",
       "trust_intent", "trust_complete", "activation_intent", "activated",
       "deploy_intent", "deployed", "service_start_intent",
       "service_started", "health_verified", "success", "conversion_intent"}
        \subseteq OpenPhases \cup {"success"}
  BY DEF Phases, TerminalPhases, PhasesOf, NormalSequence
<1>3. /\ Fits("own_done", "ownership_intent") /\ Fits("bk_intent", "ownership_complete")
      /\ Fits("bk_mkdir", "backup_intent") /\ Fits("cand_intent", "backup_complete")
      /\ Fits("cand_build", "candidate_intent") /\ Fits("down_intent", "candidate_ready")
      /\ Fits("down_stop", "downtime_intent") /\ Fits("conv_intent", "downtime_started")
      /\ Fits("trust_intent", "conversion_complete") /\ Fits("trust_done", "trust_intent")
      /\ Fits("act_gate", "trust_complete") /\ Fits("act_run", "activation_intent")
      /\ Fits("dep_intent", "activated") /\ Fits("dep_rsync", "deploy_intent")
      /\ Fits("svc_intent", "deployed") /\ Fits("svc_start", "service_start_intent")
      /\ Fits("health", "service_started") /\ Fits("success", "health_verified")
      /\ Fits("success_flag", "success") /\ Fits("conv_run", "conversion_intent")
      /\ Fits("conv_check", "conversion_intent")
  BY DEF Fits, RollbackSteps
<1>4. CASE OwnershipIntent
  BY <1>4, <1>1, <1>2, <1>3, MarkHand DEF OwnershipIntent
<1>5. CASE OwnershipComplete
  BY <1>5, <1>1, <1>2, <1>3, MarkHand DEF OwnershipComplete
<1>6. CASE BackupIntent
  BY <1>6, <1>1, <1>2, <1>3, MarkHand DEF BackupIntent
<1>7. CASE BackupComplete
  BY <1>7, <1>1, <1>2, <1>3, MarkHand DEF BackupComplete
<1>8. CASE CandidateIntent
  BY <1>8, <1>1, <1>2, <1>3, MarkHand DEF CandidateIntent
<1>9. CASE CandidateReady
  BY <1>9, <1>1, <1>2, <1>3, MarkHand DEF CandidateReady
<1>10. CASE DowntimeIntent
  BY <1>10, <1>1, <1>2, <1>3, MarkHand DEF DowntimeIntent
<1>11. CASE DowntimeStarted
  BY <1>11, <1>1, <1>2, <1>3, MarkHand DEF DowntimeStarted
<1>12. CASE ConversionComplete
  BY <1>12, <1>1, <1>2, <1>3, MarkHand DEF ConversionComplete
<1>13. CASE TrustIntent
  BY <1>13, <1>1, <1>2, <1>3, MarkHand DEF TrustIntent
<1>14. CASE TrustComplete
  BY <1>14, <1>1, <1>2, <1>3, MarkHand DEF TrustComplete
<1>15. CASE ActivationIntent
  BY <1>15, <1>1, <1>2, <1>3, MarkHand DEF ActivationIntent
<1>16. CASE Activated
  BY <1>16, <1>1, <1>2, <1>3, MarkHand DEF Activated
<1>17. CASE DeployIntent
  BY <1>17, <1>1, <1>2, <1>3, MarkHand DEF DeployIntent
<1>18. CASE Deployed
  BY <1>18, <1>1, <1>2, <1>3, MarkHand DEF Deployed
<1>19. CASE ServiceStartIntent
  BY <1>19, <1>1, <1>2, <1>3, MarkHand DEF ServiceStartIntent
<1>20. CASE ServiceStarted
  BY <1>20, <1>1, <1>2, <1>3, MarkHand DEF ServiceStarted
<1>21. CASE HealthVerified
  BY <1>21, <1>1, <1>2, <1>3, MarkHand DEF HealthVerified
<1>22. CASE Success
  BY <1>22, <1>1, <1>2, <1>3, MarkHand DEF Success
<1>23. CASE ConversionIntent
  <2>1. \E next \in {"conv_run", "conv_check"} : \E facts :
          MarkStep("conv_intent", "conversion_intent", facts, next)
    BY <1>23 DEF ConversionIntent
  <2> QED BY <2>1, <1>1, <1>2, <1>3, MarkHand
<1> QED BY <1>4, <1>5, <1>6, <1>7, <1>8, <1>9, <1>10, <1>11, <1>12, <1>13, <1>14, <1>15, <1>16, <1>17, <1>18, <1>19, <1>20, <1>21, <1>22, <1>23 DEF MarkActions

LEMMA PlainMovesHand ==
  ASSUME TypeInv, Hand, PlainMoves
  PROVE  Hand'
<1>1. UNCHANGED <<tx, proc>>
  <2>1. CASE CallActions
    BY <2>1, CallActionsGo
  <2>2. CASE ~CallActions
    BY <2>2 DEF PlainMoves, logFrame, BackupMkdir, BackupCopy, CandidateReuse, CandidateInstall,
      StopService, ConversionNotNeeded, ActivationGate, DeployRsync, DeployCode,
      DeployHelpers, DeployBin, StartService, HealthPasses, RollbackStop,
      NoConversionToUndo, RollbackConf, RollbackCode, RollbackBinRemove, RollbackBinCopy,
      Interrupted, TakeResult, RecoverCandidateDone, CandidateStaged,
      CandidateFinalized, ConversionResult, ActivationResult, GarbageCollected
  <2> QED BY <2>1, <2>2
<1>2. ASSUME pc \in AttemptSteps \cup {"exit"}, pc' \notin {"idle", "recover", "begin"},
             pc' \in ForwardSteps => pc \in ForwardSteps,
             Fits(pc, Doc.phase) => Fits(pc', Doc.phase), proc.begun = TRUE
      PROVE  Hand'
  BY <1>1, <1>2, HandGoesOn DEF HandMoves, Hand
<1>3. pc \in AttemptSteps => proc.begun = TRUE
  BY DEF Hand, InHand
<1>4. CASE pc' = "exit"
  <2>1. Fits(pc', Doc.phase) /\ pc' \notin ForwardSteps
    BY <1>4 DEF Fits, RollbackSteps, ForwardSteps
  <2>2. CASE proc.begun = TRUE
    BY <1>1, <1>4, <2>1, <2>2, HandGoesOn DEF HandMoves
  <2>3. CASE proc.begun # TRUE
    <3>1. pc' \notin AttemptSteps /\ proc.begun = FALSE
      BY <1>4, <2>3 DEF AttemptSteps, ForwardSteps, RollbackSteps, ExitSteps, RecoverySteps,
        TypeInv, EngineTypeOK, ProcTypeOK
    <3> QED BY <1>1, <1>4, <2>1, <3>1 DEF Hand, OneOpen, InHand, Doc
  <2> QED BY <2>2, <2>3
<1> USE DEF AttemptSteps, ForwardSteps, RollbackSteps, ExitSteps, RecoverySteps
<1>5. CASE CallActions
  <2>1. /\ pc \in AttemptSteps /\ pc' \notin {"idle", "recover", "begin"}
        /\ pc' \in ForwardSteps => pc \in ForwardSteps
        /\ Fits(pc, Doc.phase) => Fits(pc', Doc.phase)
    BY <1>5, CallActionsGo DEF Fits
  <2> QED BY <1>2, <1>3, <2>1
<1>6. CASE RecoverCandidateDone \/ CandidateStaged \/ CandidateFinalized
             \/ ConversionResult \/ ActivationResult \/ GarbageCollected
  <2>1. \/ pc' = "exit"
        \/ /\ pc \in AttemptSteps /\ pc' \notin {"idle", "recover", "begin"}
           /\ pc' \in ForwardSteps => pc \in ForwardSteps
           /\ Fits(pc, Doc.phase) => Fits(pc', Doc.phase)
    BY <1>6 DEF Fits, TakeResult, Answered, RecoverCandidateDone, CandidateStaged,
      CandidateFinalized, ConversionResult, ActivationResult, GarbageCollected
  <2> QED BY <1>2, <1>3, <1>4, <2>1
<1>7. CASE BackupMkdir \/ BackupCopy \/ CandidateReuse \/ CandidateInstall
             \/ StopService \/ ConversionNotNeeded \/ ActivationGate
  <2>1. \/ pc' = "exit"
        \/ /\ pc \in AttemptSteps /\ pc' \notin {"idle", "recover", "begin"}
           /\ pc' \in ForwardSteps => pc \in ForwardSteps
           /\ Fits(pc, Doc.phase) => Fits(pc', Doc.phase)
    BY <1>7 DEF Fits, BackupMkdir, BackupCopy, CandidateReuse, CandidateInstall,
      StopService, ConversionNotNeeded, ActivationGate
  <2> QED BY <1>2, <1>3, <1>4, <2>1
<1>8. CASE DeployRsync \/ DeployCode \/ DeployHelpers \/ DeployBin \/ StartService
             \/ HealthPasses
  <2>1. /\ pc \in AttemptSteps /\ pc' \notin {"idle", "recover", "begin"}
        /\ pc' \in ForwardSteps => pc \in ForwardSteps
        /\ Fits(pc, Doc.phase) => Fits(pc', Doc.phase)
    BY <1>8 DEF Fits, DeployRsync, DeployCode, DeployHelpers, DeployBin, StartService,
      HealthPasses
  <2> QED BY <1>2, <1>3, <2>1
<1>9. CASE RollbackStop \/ NoConversionToUndo \/ RollbackConf \/ RollbackCode
             \/ RollbackBinRemove \/ RollbackBinCopy
  <2>1. /\ pc \in AttemptSteps /\ pc' \notin {"idle", "recover", "begin"}
        /\ pc' \in ForwardSteps => pc \in ForwardSteps
        /\ Fits(pc, Doc.phase) => Fits(pc', Doc.phase)
    BY <1>9 DEF Fits, RollbackStop, NoConversionToUndo, RollbackConf, RollbackCode,
      RollbackBinRemove, RollbackBinCopy
  <2> QED BY <1>2, <1>3, <2>1
<1>10. CASE Interrupted
  BY <1>4, <1>10 DEF Interrupted
<1> QED BY <1>5, <1>6, <1>7, <1>8, <1>9, <1>10 DEF PlainMoves

LEMMA TryMarkedAny ==
  ASSUME LogTypeOK, proc.att \in Attempts, NEW p, tx' = TryMarked(p)
  PROVE  /\ \A a \in Attempts \ {proc.att} : tx'[a] = tx[a]
         /\ tx'[proc.att].target = Doc.target /\ tx'[proc.att].facts = Doc.facts
         /\ \/ CanMark(Doc, p, NoFacts) /\ tx'[proc.att].phase = p
            \/ ~CanMark(Doc, p, NoFacts) /\ tx'[proc.att] = Doc
         /\ \A a \in Attempts : IsOpen(tx'[a]) => IsOpen(tx[a])
<1>1. tx[proc.att] \in Documents /\ tx \in [Attempts -> Documents]
  BY DEF LogTypeOK
<1>2. /\ Marked(Doc, p, NoFacts).phase = p /\ Marked(Doc, p, NoFacts).target = Doc.target
      /\ Marked(Doc, p, NoFacts).facts = Doc.facts
  BY <1>1 DEF Marked, Documents, Doc, Merged, NoFacts
<1>3. /\ \A a \in Attempts \ {proc.att} : tx'[a] = tx[a]
      /\ tx'[proc.att] = IF CanMark(Doc, p, NoFacts) THEN Marked(Doc, p, NoFacts) ELSE Doc
  BY <1>1 DEF TryMarked, Doc
<1>4. CanMark(Doc, p, NoFacts) => IsOpen(Doc) \/ Marked(Doc, p, NoFacts) = Doc
  BY DEF CanMark, CanAdvance, IsRetry, IsOpen, Marked
<1>5. \A a \in Attempts : IsOpen(tx'[a]) => IsOpen(tx[a])
  BY <1>3, <1>4 DEF Doc
<1> QED BY <1>2, <1>3, <1>5

LEMMA TryMarkedIs ==
  ASSUME LogTypeOK, proc.att \in Attempts, NEW p, tx' = TryMarked(p), proc'.att = proc.att
  PROVE  /\ \A a \in Attempts \ {proc.att} : tx'[a] = tx[a]
         /\ Doc'.target = Doc.target
         /\ \/ CanMark(Doc, p, NoFacts) /\ Doc'.phase = p
            \/ ~CanMark(Doc, p, NoFacts) /\ Doc' = Doc
<1>1. Doc' = tx'[proc.att]
  BY DEF Doc
<1> QED BY <1>1, TryMarkedAny

(* An open attempt can be closed, and rolled back.                          *)
LEMMA OpenCanMark ==
  ASSUME NEW doc, doc.phase \in OpenPhases
  PROVE  /\ CanMark(doc, "diagnostic_failure", NoFacts)
         /\ doc.phase # "rollback_started" => CanMark(doc, "rollback_started", NoFacts)
<1>1. doc.phase \notin TerminalPhases /\ doc.phase # "none" /\ doc.phase # "diagnostic_failure"
  BY DEF TerminalPhases, Phases, PhasesOf, NormalSequence, RollbackSequence
<1>2. FactsDueAt("diagnostic_failure") = {} /\ FactsDueAt("rollback_started") = {}
  BY DEF FactsDueAt, FactKeys, FactPhase
<1>3. {"diagnostic_failure", "rollback_started"} \subseteq AllowedSuccessors(doc.phase)
  BY <1>1 DEF AllowedSuccessors
<1> QED BY <1>1, <1>2, <1>3 DEF CanMark, CanAdvance, FactsAcceptable, NoFacts, IsTerminal

LEMMA RollbackPhasesOpen == RollbackPhases \subseteq OpenPhases /\ RollbackPhases \cap EarlyPhases = {}
BY DEF RollbackPhases, Phases, TerminalPhases, PhasesOf, RollbackSequence, EarlyPhases,
  PreDowntimePhases

LEMMA NoteKeeps ==
  ASSUME ProcTypeOK, NoteActions
  PROVE  /\ proc'.att = proc.att /\ proc'.begun = proc.begun /\ proc'.rel = proc.rel
         /\ proc'.cur = proc.cur /\ proc'.downtime = proc.downtime
         /\ proc'.staged = proc.staged /\ proc'.recovering = proc.recovering
         /\ pc \in RollbackSteps \ {"rb_enter"} /\ pc' \in RollbackSteps \ {"rb_enter"}
<1> USE DEF ProcTypeOK
<1>1. CASE RollbackActivationDone \/ RollbackConversionDone \/ NoActivationToUndo
  BY <1>1 DEF RollbackCommandDone, Answered, RollbackActivationDone, RollbackConversionDone,
    NoActivationToUndo, RollbackSteps
<1>2. CASE RollbackVerifyRuntime \/ ServiceRestoreRefused \/ RollbackStart \/ RollbackHealth
  BY <1>2 DEF RollbackVerifyRuntime, ServiceRestoreRefused, RollbackStart, RollbackHealth,
    RollbackSteps
<1>3. CASE RollbackStepFails \/ RollbackRsync
  BY <1>3 DEF RollbackStepFails, RollbackRsync, RollbackSteps
<1>4. CASE RuntimeRestored \/ FilesRestored
  BY <1>4 DEF RuntimeRestored, FilesRestored, Checkpoint, RollbackSteps
<1>5. CASE ServiceRestoreIntent
  <2> DEFINE p == "service_restore_intent"
             marks == ToolPresent(proc.staged) /\ CanMark(Doc, p, NoFacts)
             f0 == proc.failed \/ ~marks
             p0 == IF marks /\ ~proc.failed THEN p ELSE proc.rbPhase
  <2>1. UNCHANGED proc \/ proc' = [proc EXCEPT !.failed = f0, !.rbPhase = p0]
    BY <1>5, Zenon DEF ServiceRestoreIntent
  <2> HIDE DEF f0, p0
  <2>2. pc = "rb_intent" /\ pc' = "rb_start"
    BY <1>5 DEF ServiceRestoreIntent
  <2> QED BY <2>1, <2>2 DEF RollbackSteps
<1> QED BY <1>1, <1>2, <1>3, <1>4, <1>5 DEF NoteActions, CheckpointActions

LEMMA NoteLog ==
  ASSUME NoteActions
  PROVE  UNCHANGED tx \/ \E p \in RollbackPhases : tx' = TryMarked(p)
<1>1. CASE ~CheckpointActions
  BY <1>1 DEF NoteActions, RollbackCommandDone, RollbackActivationDone,
    RollbackConversionDone, NoActivationToUndo, RollbackVerifyRuntime, ServiceRestoreRefused,
    RollbackStart, RollbackHealth, RollbackStepFails, RollbackRsync
<1>2. CASE CheckpointActions
  BY <1>2 DEF CheckpointActions, RuntimeRestored, FilesRestored, Checkpoint,
    ServiceRestoreIntent, RollbackPhases
<1> QED BY <1>1, <1>2

LEMMA NoteActionsHand ==
  ASSUME TypeInv, Hand, NoteActions
  PROVE  Hand'
<1>1. /\ proc'.att = proc.att /\ proc'.begun = proc.begun /\ proc'.rel = proc.rel
      /\ proc'.downtime = proc.downtime /\ proc'.cur = proc.cur
      /\ pc \in RollbackSteps \ {"rb_enter"} /\ pc' \in RollbackSteps \ {"rb_enter"}
  BY NoteKeeps DEF TypeInv, EngineTypeOK
<1>2. /\ pc \in AttemptSteps /\ pc' \in AttemptSteps
      /\ pc' \notin {"idle", "recover", "begin"} /\ pc' \notin ForwardSteps
  BY <1>1 DEF RollbackSteps, AttemptSteps, ForwardSteps
<1>3. proc.begun = TRUE /\ proc.att \in Attempts /\ Doc.phase \in RollbackPhases
  BY <1>1, <1>2 DEF Hand, InHand, TypeInv, PcShape, Fits
<1>4. ASSUME NEW phase \in RollbackPhases
      PROVE  Fits(pc', phase)
  BY <1>1 DEF Fits, RollbackSteps
<1>5. CASE UNCHANGED tx
  BY <1>1, <1>2, <1>3, <1>4, <1>5, HandGoesOn DEF HandMoves
<1>6. ASSUME NEW p \in RollbackPhases, tx' = TryMarked(p)
      PROVE  Hand'
  <2>1. /\ \A a \in Attempts \ {proc.att} : tx'[a] = tx[a]
        /\ Doc'.target = Doc.target /\ Doc'.phase \in RollbackPhases
    BY <1>1, <1>3, <1>6, TryMarkedIs DEF TypeInv, EngineTypeOK
  <2>2. Doc'.phase \in OpenPhases /\ Doc'.phase \notin EarlyPhases
    BY <2>1, RollbackPhasesOpen
  <2> QED BY <1>1, <1>2, <1>3, <1>4, <2>1, <2>2, HandHolds
<1> QED BY <1>5, <1>6, NoteLog

LEMMA FlagActionsHand ==
  ASSUME TypeInv, Hand, BackupOwned \/ DowntimeFlag \/ SuccessFlag
  PROVE  Hand'
<1>1. /\ \/ pc = "bk_own" /\ pc' = "bk_copy" /\ proc' = [proc EXCEPT !.mine = TRUE]
         \/ pc = "down_flag" /\ pc' = "down_mark" /\ proc' = [proc EXCEPT !.downtime = TRUE]
         \/ pc = "success_flag" /\ pc' = "gc" /\ proc' = [proc EXCEPT !.succeeded = TRUE]
      /\ UNCHANGED tx
  BY DEF BackupOwned, DowntimeFlag, SuccessFlag
<1>2. /\ pc \in ForwardSteps /\ pc \in AttemptSteps
      /\ pc' \notin {"idle", "recover", "begin"}
  BY <1>1 DEF ForwardSteps, AttemptSteps
<1>3. /\ proc'.att = proc.att /\ proc'.begun = proc.begun /\ proc'.rel = proc.rel
      /\ proc'.downtime => proc.downtime \/ pc = "down_flag"
  BY <1>1 DEF TypeInv, EngineTypeOK, ProcTypeOK
<1>4. Doc' = Doc
  BY <1>1, <1>3 DEF Doc
<1>5. Fits(pc', Doc.phase)
  BY <1>1 DEF Hand, Fits, RollbackSteps
<1>6. proc'.downtime => Doc'.phase \notin EarlyPhases
  BY <1>3, <1>4 DEF Hand, InHand, Fits, EarlyPhases
<1> QED BY <1>1, <1>2, <1>3, <1>4, <1>5, <1>6, HandHolds DEF Hand, InHand

LEMMA StandingActionsHand ==
  ASSUME Hand, StandingActions \/ UNCHANGED vars
  PROVE  Hand'
<1>1. UNCHANGED <<pc, proc, tx>>
  BY DEF StandingActions, RuntimeCommand, RuntimeCommandFails, ServiceWrites, RotateBackup,
    vars
<1> QED BY <1>1 DEF Hand, OneOpen, InHand, Doc

LEMMA EndsHand ==
  ASSUME TypeInv, Hand, Finish \/ Cancel \/ Killed \/ Reboot \/ ExitClassify
  PROVE  Hand'
<1>1. Exit /\ (UNCHANGED tx \/ (pc = "exit_mark" /\ tx' = TryMarked("diagnostic_failure")))
  BY DEF Finish, Cancel, Killed, Reboot, ExitClassify
<1>2. CASE UNCHANGED tx
  BY <1>1, <1>2, HandEnds
<1>3. CASE pc = "exit_mark" /\ tx' = TryMarked("diagnostic_failure")
  <2>1. proc.att \in Attempts
    BY <1>3 DEF TypeInv, PcShape, AttemptSteps, ExitSteps
  <2> QED BY <1>1, <1>3, <2>1, TryMarkedAny, HandEnds DEF TypeInv, EngineTypeOK
<1> QED BY <1>1, <1>2, <1>3

LEMMA StartEngineHand ==
  ASSUME TypeInv, Hand, StartEngine
  PROVE  Hand'
<1>1. PICK r \in Releases, staged \in BOOLEAN :
        proc' = [ProcIdle EXCEPT !.rel = r, !.cur = code.ver, !.staged = staged]
  BY DEF StartEngine
<1>2. /\ proc'.begun = FALSE /\ proc'.downtime = FALSE /\ pc' = "recover" /\ UNCHANGED tx
  BY <1>1 DEF StartEngine, ProcIdle
<1>3. pc' \notin AttemptSteps /\ pc' \notin ForwardSteps /\ Fits(pc', Doc'.phase)
  BY <1>2 DEF AttemptSteps, ForwardSteps, RollbackSteps, ExitSteps, RecoverySteps, Fits
<1> QED BY <1>2, <1>3 DEF Hand, OneOpen, InHand

LEMMA RecoverHand ==
  ASSUME TypeInv, Hand, Recover
  PROVE  Hand'
<1>1. /\ pc = "recover" /\ UNCHANGED tx /\ proc.begun = FALSE /\ proc.downtime = FALSE
  BY DEF Recover, Hand, InHand, TypeInv, EngineTypeOK, ProcTypeOK
<1>2. CASE Exit
  BY <1>1, <1>2, HandEnds
<1>3. CASE Incomplete = {} /\ pc' = "begin" /\ UNCHANGED proc
  <2>1. pc' \notin AttemptSteps /\ pc' \notin ForwardSteps /\ Fits(pc', Doc'.phase)
    BY <1>3 DEF AttemptSteps, ForwardSteps, RollbackSteps, ExitSteps, RecoverySteps, Fits
  <2> QED BY <1>1, <1>3, <2>1 DEF Hand, OneOpen, InHand, Incomplete
<1>4. ASSUME NEW a \in Attempts, Incomplete = {a},
             proc' = [proc EXCEPT !.att = a, !.begun = TRUE],
             pc' = IF ClassifiedPreDowntime(a) THEN "rec_backup" ELSE "rec_check"
      PROVE  Hand'
  <2>1. /\ proc'.att = a /\ proc'.begun = TRUE /\ proc'.downtime = FALSE /\ Doc' = tx[a]
    BY <1>1, <1>4 DEF TypeInv, EngineTypeOK, ProcTypeOK, Doc
  <2>2. IsOpen(tx[a]) /\ \A b \in Attempts : IsOpen(tx[b]) => b = a
    BY <1>4 DEF Incomplete
  <2>3. tx[a].phase \in OpenPhases
    BY <2>2 DEF IsOpen, IsTerminal, TypeInv, EngineTypeOK, LogTypeOK, Documents
  <2>4. ~ClassifiedPreDowntime(a) => tx[a].phase \notin EarlyPhases
    BY DEF ClassifiedPreDowntime, EarlyPhases
  <2>5. Fits(pc', Doc'.phase)
    BY <1>4, <2>1, <2>3, <2>4 DEF Fits, ClassifiedPreDowntime, RollbackSteps
  <2>6. pc' \notin {"idle", "recover", "begin"} /\ pc' \notin ForwardSteps
    BY <1>4 DEF ForwardSteps
  <2> QED BY <1>1, <2>1, <2>2, <2>3, <2>5, <2>6 DEF Hand, OneOpen, InHand
<1> QED BY <1>1, <1>2, <1>3, <1>4 DEF Recover, Incomplete

LEMMA RecoverBackupHand ==
  ASSUME TypeInv, Hand, RecoverBackup
  PROVE  Hand'
<1>1. /\ UNCHANGED <<proc, tx>> /\ pc = "rec_backup" /\ pc' \in {"rec_mark", "rec_cand"}
  BY DEF RecoverBackup
<1>2. /\ pc \in AttemptSteps /\ pc' \notin {"idle", "recover", "begin"} \cup ForwardSteps
      /\ Fits(pc', Doc.phase)
  BY <1>1 DEF AttemptSteps, RecoverySteps, ForwardSteps, Hand, Fits, RollbackSteps
<1> QED BY <1>1, <1>2, HandGoesOn DEF HandMoves, Hand, InHand

(* The record in hand is closed: no record is open any more.                *)
LEMMA HandClosed ==
  ASSUME TypeInv, Hand, proc.begun = TRUE, proc.att \in Attempts,
         tx'[proc.att].phase \in TerminalPhases,
         \A a \in Attempts \ {proc.att} : tx'[a] = tx[a],
         pc' = "begin", proc'.begun = FALSE, proc'.downtime = FALSE
  PROVE  Hand'
<1>1. \A a \in Attempts : ~IsOpen(tx'[a])
  BY DEF Hand, InHand, IsOpen, IsTerminal
<1>2. pc' \notin AttemptSteps /\ pc' \notin ForwardSteps /\ Fits(pc', Doc'.phase)
  BY DEF AttemptSteps, ForwardSteps, RollbackSteps, ExitSteps, RecoverySteps, Fits
<1> QED BY <1>1, <1>2 DEF Hand, OneOpen, InHand

LEMMA PreDowntimeOpen ==
  PreDowntimePhases \subseteq OpenPhases \ RollbackPhases
BY DEF PreDowntimePhases, Phases, PhasesOf, NormalSequence, TerminalPhases, RollbackPhases

LEMMA RecoverClassifyHand ==
  ASSUME TypeInv, Hand, RecoverClassify
  PROVE  Hand'
<1>1. /\ pc = "rec_mark" /\ pc \in AttemptSteps /\ pc \in RecoverySteps
  BY DEF RecoverClassify, AttemptSteps, RecoverySteps
<1>2. /\ proc.begun = TRUE /\ proc.att \in Attempts /\ proc.downtime = FALSE
      /\ Doc.phase \in PreDowntimePhases
  BY <1>1 DEF Hand, InHand, Fits, TypeInv, PcShape, EngineTypeOK, ProcTypeOK
<1>3. CanMark(Doc, "diagnostic_failure", NoFacts)
  BY <1>2, PreDowntimeOpen, OpenCanMark
<1>4. /\ tx' = TryMarked("diagnostic_failure") /\ pc' = "begin"
      /\ proc' = [proc EXCEPT !.att = "none", !.begun = FALSE]
  BY <1>3 DEF RecoverClassify
<1>5. proc'.begun = FALSE /\ proc'.downtime = FALSE
  BY <1>2, <1>4 DEF TypeInv, EngineTypeOK, ProcTypeOK
<1>6. /\ tx'[proc.att].phase \in TerminalPhases
      /\ \A a \in Attempts \ {proc.att} : tx'[a] = tx[a]
  BY <1>2, <1>3, <1>4, TryMarkedAny DEF TypeInv, EngineTypeOK, TerminalPhases
<1> QED BY <1>2, <1>4, <1>5, <1>6, HandClosed

LEMMA RecoverCheckHand ==
  ASSUME TypeInv, Hand, RecoverCheck
  PROVE  Hand'
<1>1. /\ pc = "rec_check" /\ pc \in AttemptSteps /\ UNCHANGED tx
      /\ Fits("exit", Doc.phase) /\ Fits(pc, Doc.phase)
  BY DEF RecoverCheck, AttemptSteps, RecoverySteps, Fits, RollbackSteps, Hand
<1>2. proc.begun = TRUE /\ Doc.phase \in OpenPhases \ EarlyPhases
  BY <1>1 DEF Hand, InHand, Fits
<1>3. "exit" \notin ForwardSteps /\ "rb_enter" \notin ForwardSteps
  BY DEF ForwardSteps
<1>4. CASE UNCHANGED proc /\ pc' = "exit"
  BY <1>1, <1>2, <1>3, <1>4, HandGoesOn DEF HandMoves
<1>5. CASE /\ proc' = [proc EXCEPT !.cur = FactOf("previous_version"),
                                   !.downtime = TRUE, !.recovering = TRUE]
           /\ pc' = "rb_enter"
  <2>1. proc'.att = proc.att /\ proc'.rel = proc.rel /\ proc'.begun = TRUE
    BY <1>2, <1>5 DEF TypeInv, EngineTypeOK, ProcTypeOK
  <2>2. Doc' = Doc
    BY <1>1, <2>1 DEF Doc
  <2>3. Fits(pc', Doc'.phase)
    BY <1>2, <1>5, <2>2 DEF Fits, RollbackSteps
  <2> QED BY <1>1, <1>2, <1>3, <1>5, <2>1, <2>2, <2>3, HandHolds
<1> QED BY <1>4, <1>5 DEF RecoverCheck

LEMMA BeginAttemptHand ==
  ASSUME TypeInv, Hand, BeginAttempt
  PROVE  Hand'
<1>1. PICK a \in Attempts : /\ tx[a] = NoDocument /\ Begin(a, proc.rel)
                            /\ proc' = [proc EXCEPT !.att = a, !.begun = TRUE]
  BY DEF BeginAttempt
<1>2. /\ pc = "begin" /\ pc' = "own_intent" /\ proc.begun = FALSE /\ proc.downtime = FALSE
      /\ \A b \in Attempts : ~IsOpen(tx[b])
  BY DEF BeginAttempt, Hand, InHand, TypeInv, EngineTypeOK, ProcTypeOK
<1>3. /\ proc'.att = a /\ proc'.begun = TRUE /\ proc'.rel = proc.rel /\ proc'.downtime = FALSE
  BY <1>1, <1>2 DEF TypeInv, EngineTypeOK, ProcTypeOK
<1>4. /\ Doc' = FreshDocument(proc.rel) /\ \A b \in Attempts \ {a} : tx'[b] = tx[b]
  BY <1>1, <1>3 DEF Begin, Doc, TypeInv, EngineTypeOK, LogTypeOK
<1>5. Doc'.phase = "begun" /\ Doc'.target = proc'.rel
  BY <1>3, <1>4 DEF FreshDocument
<1>6. "begun" \in OpenPhases
  BY PreDowntimeOpen DEF PreDowntimePhases
<1>7. Fits(pc', Doc'.phase)
  BY <1>2, <1>5 DEF Fits, RollbackSteps
<1>8. \A b \in Attempts : IsOpen(tx'[b]) => b = a
  BY <1>2, <1>4
<1> QED BY <1>2, <1>3, <1>5, <1>6, <1>7, <1>8 DEF Hand, OneOpen, InHand

LEMMA ExitTrapHand ==
  ASSUME TypeInv, Hand, ExitTrap
  PROVE  Hand'
<1>1. pc = "exit" /\ UNCHANGED tx
  BY DEF ExitTrap
<1>2. CASE Exit
  BY <1>1, <1>2, HandEnds
<1>3. CASE /\ proc.begun = TRUE /\ Doc.phase # "success"
           /\ \/ /\ pc' = "rb_enter" /\ proc.downtime
                 /\ proc' = [proc EXCEPT !.recovering = FALSE]
              \/ pc' = "exit_backup" /\ proc' = [proc EXCEPT !.durable = Doc.phase]
  <2>1. Doc.phase \in OpenPhases /\ (proc.downtime => Doc.phase \notin EarlyPhases)
    BY <1>3 DEF Hand, InHand
  <2>2. /\ proc'.att = proc.att /\ proc'.rel = proc.rel /\ proc'.begun = TRUE
        /\ proc'.downtime = proc.downtime
    BY <1>3 DEF TypeInv, EngineTypeOK, ProcTypeOK
  <2>3. Doc' = Doc
    BY <1>1, <2>2 DEF Doc
  <2>4. Fits(pc', Doc'.phase)
    BY <1>3, <2>1, <2>3 DEF Fits, RollbackSteps
  <2>5. pc' \notin {"idle", "recover", "begin"} \cup ForwardSteps
    BY <1>3 DEF ForwardSteps
  <2> QED BY <1>1, <1>3, <2>1, <2>2, <2>3, <2>4, <2>5, HandHolds
<1>4. proc.downtime => proc.begun = TRUE
  BY DEF Hand, InHand
<1>5. proc.begun \in BOOLEAN
  BY DEF TypeInv, EngineTypeOK, ProcTypeOK
<1> QED BY <1>2, <1>3, <1>4, <1>5 DEF ExitTrap

LEMMA ExitBackupHand ==
  ASSUME TypeInv, Hand, ExitBackup
  PROVE  Hand'
<1>1. /\ pc = "exit_backup" /\ UNCHANGED <<tx, proc>> /\ proc.durable = Doc.phase
      /\ pc' = IF proc.durable \in {"candidate_intent", "candidate_ready"}
               THEN "exit_cand" ELSE "exit_mark"
      /\ pc \in AttemptSteps
  BY DEF ExitBackup, TypeInv, PcShape, AttemptSteps, ExitSteps
<1>2. /\ pc' \notin {"idle", "recover", "begin"} \cup ForwardSteps
      /\ Fits(pc', Doc.phase)
  BY <1>1 DEF ForwardSteps, Hand, Fits, RollbackSteps
<1> QED BY <1>1, <1>2, HandGoesOn DEF HandMoves, Hand, InHand

LEMMA ExitCandidateDoneHand ==
  ASSUME TypeInv, Hand, ExitCandidateDone
  PROVE  Hand'
<1>1. UNCHANGED tx /\ pc = "exit_cand_wait" /\ pc \in AttemptSteps
  BY DEF ExitCandidateDone, Answered, AttemptSteps, ExitSteps
<1>2. CASE Exit
  BY <1>1, <1>2, HandEnds
<1>3. CASE pc' = "exit_mark" /\ UNCHANGED proc
  <2>1. Doc.phase \in OpenPhases
    BY <1>1, PreDowntimeOpen DEF Hand, Fits, PreDowntimePhases
  <2>2. /\ pc' \notin {"idle", "recover", "begin"} \cup ForwardSteps
        /\ Fits(pc', Doc.phase)
    BY <1>3, <2>1 DEF ForwardSteps, Fits, RollbackSteps
  <2> QED BY <1>1, <1>3, <2>2, HandGoesOn DEF HandMoves, Hand, InHand
<1> QED BY <1>2, <1>3 DEF ExitCandidateDone

LEMMA RollbackEnterHand ==
  ASSUME TypeInv, Hand, RollbackEnter
  PROVE  Hand'
<1>1. pc = "rb_enter" /\ pc \in AttemptSteps
  BY DEF RollbackEnter, AttemptSteps, RollbackSteps
<1>2. /\ proc.begun = TRUE /\ proc.att \in Attempts
      /\ Doc.phase \in OpenPhases \ EarlyPhases
  BY <1>1 DEF Hand, InHand, Fits, TypeInv, PcShape
<1>3. Doc.phase \notin {"rolled_back", "diagnostic_failure", "success"}
  BY <1>2 DEF TerminalPhases
<1>4. /\ pc' = "rb_check"
      /\ \E p : proc' = [proc EXCEPT !.rbPhase = p, !.rbActive = TRUE, !.rbAttempted = TRUE]
      /\ \/ Doc.phase \in RollbackPhases /\ UNCHANGED tx
         \/ Doc.phase \notin RollbackPhases /\ tx' = TryMarked("rollback_started")
  BY <1>3 DEF RollbackEnter
<1>5. /\ proc'.att = proc.att /\ proc'.rel = proc.rel /\ proc'.begun = TRUE
      /\ proc'.downtime = proc.downtime
  BY <1>2, <1>4 DEF TypeInv, EngineTypeOK, ProcTypeOK
<1>6. /\ \A a \in Attempts \ {proc.att} : tx'[a] = tx[a]
      /\ Doc'.target = Doc.target /\ Doc'.phase \in RollbackPhases
  <2>1. CASE UNCHANGED tx
    <3>1. Doc' = Doc
      BY <1>5, <2>1 DEF Doc
    <3>2. "rollback_started" \in RollbackPhases
      BY DEF RollbackPhases
    <3>3. CASE Doc.phase \in RollbackPhases
      BY <2>1, <3>1, <3>3
    <3>4. CASE Doc.phase \notin RollbackPhases
      <4>1. CanMark(Doc, "rollback_started", NoFacts)
        BY <1>2, <3>2, <3>4, OpenCanMark
      <4>2. Doc'.phase = "rollback_started"
        BY <1>2, <1>4, <1>5, <3>4, <4>1, TryMarkedIs DEF TypeInv, EngineTypeOK
      <4> QED BY <2>1, <3>1, <3>2, <4>2
    <3> QED BY <3>3, <3>4
  <2>2. CASE Doc.phase \notin RollbackPhases /\ tx' = TryMarked("rollback_started")
    <3>1. "rollback_started" \in RollbackPhases
      BY DEF RollbackPhases
    <3>2. CanMark(Doc, "rollback_started", NoFacts)
      BY <1>2, <2>2, <3>1, OpenCanMark
    <3> QED BY <1>2, <1>5, <2>2, <3>1, <3>2, TryMarkedIs DEF TypeInv, EngineTypeOK
  <2> QED BY <1>4, <2>1, <2>2
<1>7. Doc'.phase \in OpenPhases \ EarlyPhases
  BY <1>6, RollbackPhasesOpen
<1>8. /\ pc' \notin {"idle", "recover", "begin"} \cup ForwardSteps
      /\ Fits(pc', Doc'.phase)
  BY <1>4, <1>6 DEF ForwardSteps, Fits, RollbackSteps
<1> QED BY <1>2, <1>5, <1>6, <1>7, <1>8, HandHolds

LEMMA RollbackCheckHand ==
  ASSUME TypeInv, Hand, RollbackCheck
  PROVE  Hand'
<1>1. pc = "rb_check" /\ pc \in AttemptSteps /\ proc.att \in Attempts /\ LogTypeOK
  BY DEF RollbackCheck, AttemptSteps, RollbackSteps, TypeInv, PcShape, EngineTypeOK
<1>2. CASE tx' = TryMarked("diagnostic_failure") /\ RollbackReturns(FALSE)
  <2>1. Exit
    BY <1>2 DEF RollbackReturns
  <2> QED BY <1>1, <1>2, <2>1, TryMarkedAny, HandEnds
<1>3. CASE UNCHANGED <<tx, proc>> /\ pc' = "rb_stop"
  <2>1. Fits(pc', Doc.phase) /\ pc' \notin ForwardSteps
    BY <1>1, <1>3 DEF Hand, Fits, RollbackSteps, ForwardSteps
  <2> QED BY <1>1, <1>3, <2>1, HandGoesOn DEF HandMoves, Hand, InHand
<1> QED BY <1>2, <1>3 DEF RollbackCheck

LEMMA RollbackEndHand ==
  ASSUME TypeInv, Hand, RollbackEnd
  PROVE  Hand'
<1>1. /\ pc = "rb_end" /\ pc \in AttemptSteps /\ proc.att \in Attempts /\ LogTypeOK
      /\ proc.begun = TRUE
  BY DEF RollbackEnd, AttemptSteps, RollbackSteps, TypeInv, PcShape, EngineTypeOK, Hand,
    InHand
<1>2. CASE Exit
  <2>1. UNCHANGED tx \/ \E p : tx' = TryMarked(p)
    BY DEF RollbackEnd
  <2> QED BY <1>1, <1>2, <2>1, TryMarkedAny, HandEnds
<1>3. CASE ~Exit
  <2>1. /\ CanMark(Doc, "rolled_back", NoFacts) /\ tx' = TryMarked("rolled_back")
        /\ pc' = "begin"
        /\ proc' = [ProcIdle EXCEPT !.rel = proc.rel, !.staged = proc.staged,
                                    !.cur = code.ver]
    BY <1>3 DEF RollbackEnd, RollbackReturns
  <2>2. proc'.begun = FALSE /\ proc'.downtime = FALSE
    BY <2>1 DEF ProcIdle
  <2>3. /\ tx'[proc.att].phase \in TerminalPhases
        /\ \A a \in Attempts \ {proc.att} : tx'[a] = tx[a]
    BY <1>1, <2>1, TryMarkedAny DEF TerminalPhases
  <2> QED BY <1>1, <2>1, <2>2, <2>3, HandClosed
<1> QED BY <1>2, <1>3

LEMMA HandStep ==
  ASSUME TypeInv, Hand, [Next]_vars
  PROVE  Hand'
<1>2. CASE MarkActions
  BY <1>2, MarkActionsHand
<1>3. CASE PlainMoves
  BY <1>3, PlainMovesHand
<1>4. CASE NoteActions
  BY <1>4, NoteActionsHand
<1>5. CASE BackupOwned \/ DowntimeFlag \/ SuccessFlag
  BY <1>5, FlagActionsHand
<1>6. CASE StandingActions \/ UNCHANGED vars
  BY <1>6, StandingActionsHand
<1>7. CASE Finish \/ Cancel \/ Killed \/ Reboot \/ ExitClassify
  BY <1>7, EndsHand
<1>8. CASE StartEngine \/ Recover \/ RecoverBackup \/ RecoverClassify \/ RecoverCheck
             \/ BeginAttempt
  BY <1>8, StartEngineHand, RecoverHand, RecoverBackupHand, RecoverClassifyHand,
    RecoverCheckHand, BeginAttemptHand
<1>9. CASE ExitTrap \/ ExitBackup \/ ExitCandidateDone \/ RollbackEnter \/ RollbackCheck
             \/ RollbackEnd
  BY <1>9, ExitTrapHand, ExitBackupHand, ExitCandidateDoneHand, RollbackEnterHand,
    RollbackCheckHand, RollbackEndHand
<1> QED
  BY <1>2, <1>3, <1>4, <1>5, <1>6, <1>7, <1>8, <1>9 DEF Next, Engine, MarkActions, PlainMoves,
    CallActions, NoteActions, CheckpointActions, StandingActions

LEMMA TypeAlways == Spec => []TypeInv
BY TypeInit, TypeStep, PTL DEF Spec

LEMMA HandAlways == Spec => []Hand
<1>1. TypeInv /\ Hand /\ [Next]_vars => Hand'
  BY HandStep
<1> QED BY <1>1, TypeAlways, HandInit, PTL DEF Spec

-----------------------------------------------------------------------------
(* The shell and the log agree                                              *)

LEMMA Following ==
  \A i \in 1 .. 20 : NormalSequence[i + 1] \in FollowingIn(NormalSequence, NormalSequence[i])
<1>1. Len(NormalSequence) = 21
  BY DEF NormalSequence
<1> QED BY <1>1 DEF FollowingIn

LEMMA MarksFollow ==
  /\ "ownership_intent" \in FollowingIn(NormalSequence, "begun")
  /\ "ownership_complete" \in FollowingIn(NormalSequence, "ownership_intent")
  /\ "backup_intent" \in FollowingIn(NormalSequence, "ownership_complete")
  /\ "backup_complete" \in FollowingIn(NormalSequence, "backup_intent")
  /\ "candidate_intent" \in FollowingIn(NormalSequence, "backup_complete")
  /\ "candidate_ready" \in FollowingIn(NormalSequence, "candidate_intent")
  /\ "downtime_intent" \in FollowingIn(NormalSequence, "candidate_ready")
  /\ "downtime_started" \in FollowingIn(NormalSequence, "downtime_intent")
  /\ "conversion_intent" \in FollowingIn(NormalSequence, "downtime_started")
  /\ "conversion_complete" \in FollowingIn(NormalSequence, "conversion_intent")
  /\ "trust_intent" \in FollowingIn(NormalSequence, "conversion_complete")
  /\ "trust_complete" \in FollowingIn(NormalSequence, "trust_intent")
  /\ "activation_intent" \in FollowingIn(NormalSequence, "trust_complete")
  /\ "activated" \in FollowingIn(NormalSequence, "activation_intent")
  /\ "deploy_intent" \in FollowingIn(NormalSequence, "activated")
  /\ "deployed" \in FollowingIn(NormalSequence, "deploy_intent")
  /\ "service_start_intent" \in FollowingIn(NormalSequence, "deployed")
  /\ "service_started" \in FollowingIn(NormalSequence, "service_start_intent")
  /\ "health_verified" \in FollowingIn(NormalSequence, "service_started")
  /\ "success" \in FollowingIn(NormalSequence, "health_verified")
<1>1. \A i \in 1 .. 20 : i + 1 \in 2 .. 21
  OBVIOUS
<1>2. /\ NormalSequence[1] = "begun" /\ NormalSequence[2] = "ownership_intent"
      /\ NormalSequence[3] = "ownership_complete" /\ NormalSequence[4] = "backup_intent"
      /\ NormalSequence[5] = "backup_complete" /\ NormalSequence[6] = "candidate_intent"
      /\ NormalSequence[7] = "candidate_ready" /\ NormalSequence[8] = "downtime_intent"
      /\ NormalSequence[9] = "downtime_started" /\ NormalSequence[10] = "conversion_intent"
      /\ NormalSequence[11] = "conversion_complete" /\ NormalSequence[12] = "trust_intent"
      /\ NormalSequence[13] = "trust_complete" /\ NormalSequence[14] = "activation_intent"
      /\ NormalSequence[15] = "activated" /\ NormalSequence[16] = "deploy_intent"
      /\ NormalSequence[17] = "deployed" /\ NormalSequence[18] = "service_start_intent"
      /\ NormalSequence[19] = "service_started" /\ NormalSequence[20] = "health_verified"
      /\ NormalSequence[21] = "success"
  BY DEF NormalSequence
<1>3. ASSUME NEW i \in 1 .. 20, NEW j \in 2 .. 21, j = i + 1
      PROVE  NormalSequence[j] \in FollowingIn(NormalSequence, NormalSequence[i])
  BY <1>3, Following
<1>4. /\ NormalSequence[2] \in FollowingIn(NormalSequence, NormalSequence[1])
      /\ NormalSequence[3] \in FollowingIn(NormalSequence, NormalSequence[2])
      /\ NormalSequence[4] \in FollowingIn(NormalSequence, NormalSequence[3])
      /\ NormalSequence[5] \in FollowingIn(NormalSequence, NormalSequence[4])
      /\ NormalSequence[6] \in FollowingIn(NormalSequence, NormalSequence[5])
      /\ NormalSequence[7] \in FollowingIn(NormalSequence, NormalSequence[6])
      /\ NormalSequence[8] \in FollowingIn(NormalSequence, NormalSequence[7])
      /\ NormalSequence[9] \in FollowingIn(NormalSequence, NormalSequence[8])
      /\ NormalSequence[10] \in FollowingIn(NormalSequence, NormalSequence[9])
      /\ NormalSequence[11] \in FollowingIn(NormalSequence, NormalSequence[10])
  BY <1>3
<1>5. /\ NormalSequence[12] \in FollowingIn(NormalSequence, NormalSequence[11])
      /\ NormalSequence[13] \in FollowingIn(NormalSequence, NormalSequence[12])
      /\ NormalSequence[14] \in FollowingIn(NormalSequence, NormalSequence[13])
      /\ NormalSequence[15] \in FollowingIn(NormalSequence, NormalSequence[14])
      /\ NormalSequence[16] \in FollowingIn(NormalSequence, NormalSequence[15])
      /\ NormalSequence[17] \in FollowingIn(NormalSequence, NormalSequence[16])
      /\ NormalSequence[18] \in FollowingIn(NormalSequence, NormalSequence[17])
      /\ NormalSequence[19] \in FollowingIn(NormalSequence, NormalSequence[18])
      /\ NormalSequence[20] \in FollowingIn(NormalSequence, NormalSequence[19])
      /\ NormalSequence[21] \in FollowingIn(NormalSequence, NormalSequence[20])
  BY <1>3
<1> QED BY <1>2, <1>4, <1>5

LEMMA HandAgrees == Hand => DriverAgreesWithLog
<1> SUFFICES ASSUME Hand, pc \in DOMAIN MarkPoints
             PROVE  MarkPoints[pc] \in FollowingIn(NormalSequence, Doc.phase)
  BY DEF DriverAgreesWithLog
<1>1. Fits(pc, Doc.phase)
  BY DEF Hand
<1>2. CASE pc \in {"own_intent", "own_done", "bk_intent", "bk_done", "cand_intent",
                   "cand_done", "down_intent", "down_mark", "conv_intent", "conv_done"}
  BY <1>1, <1>2, MarksFollow DEF MarkPoints, Fits
<1>3. CASE pc \in {"trust_intent", "trust_done", "act_intent", "act_done", "dep_intent",
                   "dep_done", "svc_intent", "svc_done", "health_done", "success"}
  BY <1>1, <1>3, MarksFollow DEF MarkPoints, Fits
<1> QED BY <1>2, <1>3 DEF MarkPoints

-----------------------------------------------------------------------------
(* The command that runs is the one the engine waits for                    *)

WaitSteps == {"cand_stage_wait", "cand_final_wait", "rec_cand_wait", "exit_cand_wait",
              "conv_wait", "act_wait", "gc_wait", "rb_select_wait", "rb_convert_wait"}

ResultStays == op = OpIdle /\ UNCHANGED <<op, diskVars, tx, before>> /\ res' = "none"

LEMMA ResultActionsGo ==
  ASSUME ResultActions
  PROVE  ResultStays /\ pc \in WaitSteps /\ pc' \notin WaitSteps \cup {"conv_run"}
BY DEF ResultActions, TakeResult, RollbackCommandDone, RecoverCandidateDone,
  CandidateStaged, CandidateFinalized, ConversionResult, ActivationResult,
  GarbageCollected, ExitCandidateDone, RollbackActivationDone, RollbackConversionDone,
  Answered, ResultStays, WaitSteps, Exit

(* The engine moves on by itself, or stands while the host around it moves. *)
EngineMoves ==
  /\ UNCHANGED storeVars
  /\ \/ pc \notin WaitSteps /\ pc' \notin WaitSteps \cup {"conv_run"}
     \/ ConversionIntent
     \/ UNCHANGED <<pc, proc, tx, before>>

LEMMA StoreCases ==
  ASSUME [Next]_vars
  PROVE  \/ CallActions \/ ResultActions \/ CandidateInstall \/ KillActions
         \/ CommandActions \/ EngineMoves
<1>1. CASE UNCHANGED vars
  BY <1>1 DEF vars, EngineMoves
<1>2. CASE Next /\ ~(CallActions \/ ResultActions \/ CandidateInstall \/ KillActions
                       \/ CommandActions)
  <2>1. UNCHANGED storeVars
    BY <1>2, StoreUntouched
  <2> SUFFICES \/ pc \notin WaitSteps /\ pc' \notin WaitSteps \cup {"conv_run"}
               \/ ConversionIntent
               \/ UNCHANGED <<pc, proc, tx, before>>
    BY <2>1 DEF EngineMoves
  <2>2. CASE MarkActions /\ ~ConversionIntent
    BY <2>2 DEF MarkActions, MarkStep, OwnershipIntent, OwnershipComplete,
      BackupIntent, BackupComplete, CandidateIntent, CandidateReady, DowntimeIntent,
      DowntimeStarted, ConversionComplete, TrustIntent, TrustComplete,
      ActivationIntent, Activated, DeployIntent, Deployed, ServiceStartIntent,
      ServiceStarted, HealthVerified, Success, WaitSteps
  <2>3. CASE CheckpointActions \/ LogicActions
    BY <2>3 DEF CheckpointActions, Checkpoint, RuntimeRestored, FilesRestored,
      ServiceRestoreIntent, LogicActions, StartEngine, Recover, RecoverClassify, RecoverCheck,
      Cancel, BackupOwned, CandidateReuse, DowntimeFlag, ConversionNotNeeded,
      ActivationGate, HealthPasses, SuccessFlag, Finish, ExitTrap, ExitClassify,
      RollbackEnter, RollbackCheck, NoActivationToUndo, NoConversionToUndo,
      RollbackVerifyRuntime, ServiceRestoreRefused, RollbackHealth, RollbackEnd, WaitSteps,
      Exit, RollbackReturns
  <2>4. CASE ServiceWrites \/ RotateBackup
    BY <2>4 DEF ServiceWrites, RotateBackup
  <2>5. CASE ~MarkActions /\ ~CheckpointActions /\ ~LogicActions /\ ~ServiceWrites /\ ~RotateBackup
    BY <1>2, <2>5 DEF Next, Engine, MarkActions, CheckpointActions, LogicActions, CallActions,
      ResultActions, KillActions, CommandActions, RecoverBackup, BeginAttempt, BackupMkdir,
      BackupCopy, StopService, DeployRsync, DeployCode, DeployHelpers, DeployBin,
      StartService, ExitBackup, RollbackStop, RollbackConf, RollbackRsync,
      RollbackCode, RollbackBinRemove, RollbackBinCopy, RollbackStart, RollbackStepFails,
      WaitSteps
  <2> QED BY <2>2, <2>3, <2>4, <2>5
<1> QED BY <1>1, <1>2

Converted == FactOf("converted_by_attempt") = "True"

CommandFits ==
  /\ pc = "conv_run" => Converted
  /\ \/ op = OpIdle
     \/ /\ op.att = proc.att
        /\ \/ op.name = "stage" /\ pc = "cand_stage_wait" /\ op.id = proc.rel
           \/ op.name = "finalize" /\ pc = "cand_final_wait" /\ op.id = proc.rel
           \/ /\ op.name = "reconcile" /\ pc \in {"rec_cand_wait", "exit_cand_wait"}
              /\ op.id \in Releases
           \/ op.name = "convert" /\ pc = "conv_wait" /\ Converted
           \/ op.name = "activate" /\ pc = "act_wait" /\ op.id = proc.rel
           \/ op.name = "gc" /\ pc = "gc_wait"
           \/ op.name = "rollback_activation" /\ pc = "rb_select_wait"
           \/ op.name = "rollback_conversion" /\ pc = "rb_convert_wait" /\ Converted

(* A command keeps its name, its attempt and, but for a collection and a    *)
(* rollback, its runtime.                                                   *)
LEMMA CommandGoesOn ==
  ASSUME StoreShape, StoreStep \/ CommandRaises \/ ReconcileMisjudges
  PROVE  \/ op' = OpIdle
         \/ /\ op'.name = op.name /\ op'.att = op.att
            /\ op'.id = op.id \/ op.name \in {"gc", "rollback_activation"}
<1>a. op \in Commands
  BY DEF StoreShape, StoreTypeOK
<1> USE DEF StoreShape, StoreTypeOK, Commands, At, Goto, Return
<1>1. CASE StageCandidate \/ FinalizeCheck \/ FinalizeManifest \/ FinalizeRename
             \/ FinalizeVerify \/ FinalizeCleanup \/ FinalizeUnlink
  BY <1>1 DEF StageCandidate, FinalizeCheck, FinalizeManifest, FinalizeRename,
    FinalizeVerify, FinalizeCleanup, FinalizeUnlink
<1>2. CASE ReconcileStaging \/ ReconcileAbsent \/ ReconcileRetain \/ ReconcileReject
             \/ ReconcileRemove \/ ReconcileUnlink \/ ReconcileMisjudges
  BY <1>2 DEF ReconcileStaging, ReconcileAbsent, ReconcileRetain, ReconcileReject,
    ReconcileRemove, ReconcileUnlink, ReconcileMisjudges, Reject
<1>3. CASE ConvertStart \/ ConvertMove \/ ConvertMoved \/ ConvertManifest
             \/ ConvertPublish \/ ConvertPublished \/ ConvertFinish
  <2>1. CASE ConvertPublish
    <3>1. op' = OpIdle \/ \E at : op' = [op EXCEPT !.at = at]
      BY <2>1 DEF ConvertPublish
    <3> QED BY <3>1
  <2>2. CASE ~ConvertPublish
    BY <1>3, <2>2 DEF ConvertStart, ConvertMove, ConvertMoved, ConvertManifest,
      ConvertPublished, ConvertFinish
  <2> QED BY <2>1, <2>2
<1>4. CASE UnconvertUnlink \/ UnconvertRestore \/ UnconvertRecord
  BY <1>4 DEF UnconvertUnlink, UnconvertRestore, UnconvertRecord
<1>5. CASE ActivateGate \/ DeactivateGate \/ FlipSelector \/ FlipVerified \/ FlipRestored
  <2>1. CASE ActivateGate
    <3>1. op' = OpIdle \/ op' = [op EXCEPT !.at = "flip", !.old = selector]
      BY <2>1 DEF ActivateGate
    <3> HIDE DEF StoreShape
    <3> QED BY <1>a, <3>1
  <2>2. CASE DeactivateGate
    <3>1. \/ op' = OpIdle
          \/ op' = [op EXCEPT !.at = "flip", !.old = selector, !.id = prevRec.previous]
      BY <2>2 DEF DeactivateGate
    <3>2. op.name = "rollback_activation"
      BY <2>2 DEF DeactivateGate
    <3> HIDE DEF StoreShape
    <3> QED BY <1>a, <3>1, <3>2
  <2>3. CASE FlipSelector \/ FlipVerified \/ FlipRestored
    BY <2>3 DEF FlipSelector, FlipVerified, FlipRestored
  <2> QED BY <1>5, <2>1, <2>2, <2>3
<1>6. CASE GcStart \/ GcDamage \/ GcRemove \/ GcUnlink \/ GcDone
  <2>1. CASE GcStart
    BY <2>1 DEF GcStart
  <2>2. CASE GcDamage
    <3>1. op.name = "gc" /\ \E r : op' = [op EXCEPT !.at = "remove", !.id = r]
      BY <2>2 DEF GcDamage
    <3> HIDE DEF StoreShape
    <3> QED BY <1>a, <3>1
  <2>3. CASE GcRemove \/ GcUnlink \/ GcDone
    BY <2>3 DEF GcRemove, GcUnlink, GcDone
  <2> QED BY <1>6, <2>1, <2>2, <2>3
<1>7. CASE CommandRaises
  BY <1>7 DEF CommandRaises
<1> QED BY <1>1, <1>2, <1>3, <1>4, <1>5, <1>6, <1>7 DEF StoreStep

LEMMA CommandRuns ==
  ASSUME StoreStep \/ CommandRaises \/ ReconcileMisjudges
  PROVE  op # OpIdle
<1>1. OpIdle.name = "none"
  BY DEF OpIdle
<1> QED BY <1>1 DEF StoreStep, StageCandidate, FinalizeCheck, FinalizeManifest, FinalizeRename,
      FinalizeVerify, FinalizeCleanup, FinalizeUnlink, ReconcileStaging, ReconcileAbsent,
      ReconcileRetain, ReconcileReject, ReconcileRemove, ReconcileUnlink, ReconcileMisjudges,
      ConvertStart, ConvertMove, ConvertMoved, ConvertManifest, ConvertPublish,
      ConvertPublished, ConvertFinish, UnconvertUnlink, UnconvertRestore, UnconvertRecord,
      ActivateGate, DeactivateGate, FlipSelector, FlipVerified, FlipRestored, GcStart,
      GcDamage, GcRemove, GcUnlink, GcDone, CommandRaises, At

LEMMA ConversionAsked ==
  ASSUME TypeInv, Hand, ConversionIntent, pc' = "conv_run"
  PROVE  Converted'
<1>1. /\ pc = "conv_intent" /\ proc' = proc /\ proc.att \in Attempts /\ selector \notin Runtimes
      /\ CanMark(Doc, "conversion_intent", Fact("converted_by_attempt", "True"))
      /\ tx' = [tx EXCEPT ![proc.att] =
                  Marked(@, "conversion_intent", Fact("converted_by_attempt", "True"))]
  BY DEF ConversionIntent, MarkStep, TypeInv, PcShape, AttemptSteps, ForwardSteps
<1>2. /\ Doc.phase = "downtime_started" /\ tx \in [Attempts -> Documents]
      /\ tx[proc.att] \in Documents
  BY <1>1 DEF Hand, Fits, TypeInv, EngineTypeOK, LogTypeOK
<1>3. Doc' = Marked(tx[proc.att], "conversion_intent", Fact("converted_by_attempt", "True"))
  BY <1>1, <1>2 DEF Doc
<1>4. Doc'.facts = Merged(tx[proc.att], Fact("converted_by_attempt", "True"))
  BY <1>2, <1>3 DEF Marked, Documents, Doc
<1> QED BY <1>4, FactKeysAre DEF Merged, Fact, Converted, FactOf

LEMMA CommandFitsInit == Init => CommandFits
BY DEF Init, CommandFits

LEMMA CommandFitsStep ==
  ASSUME TypeInv, Hand, CommandFits, [Next]_vars
  PROVE  CommandFits'
<1>1. CASE CallActions
  <2>1. UNCHANGED <<tx, proc>> /\ Doc' = Doc /\ (Converted <=> Converted')
    BY <1>1, CallActionsGo DEF Doc, Converted, FactOf
  <2>2. ASSUME NEW name, NEW id, Call(name, id, proc.att)
        PROVE  op'.att = proc'.att /\ op'.name = name /\ op'.id = id
    BY <2>1, <2>2 DEF Call, OpIdle
  <2>3. pc \in {"rec_cand", "exit_cand"} => FactOf("candidate_id") \in Releases
    BY DEF TypeInv, PcShape, FactShape, FactOf, Doc, AttemptSteps, ExitSteps, RecoverySteps
  <2>4. pc' # "conv_run"
    BY <1>1, CallActionsGo
  <2>5. CASE \/ pc = "rec_cand" /\ pc' = "rec_cand_wait"
               /\ Call("reconcile", FactOf("candidate_id"), proc.att)
             \/ pc = "exit_cand" /\ pc' = "exit_cand_wait"
               /\ Call("reconcile", FactOf("candidate_id"), proc.att)
    BY <2>2, <2>3, <2>4, <2>5 DEF CommandFits
  <2>6. CASE pc = "cand_build" /\ pc' = "cand_stage_wait" /\ Call("stage", proc.rel, proc.att)
    BY <2>1, <2>2, <2>4, <2>6 DEF CommandFits
  <2>7. CASE pc = "cand_final" /\ pc' = "cand_final_wait"
               /\ Call("finalize", proc.rel, proc.att)
    BY <2>1, <2>2, <2>4, <2>7 DEF CommandFits
  <2>8. CASE pc = "conv_run" /\ pc' = "conv_wait" /\ Call("convert", Legacy, proc.att)
    BY <2>1, <2>2, <2>4, <2>8 DEF CommandFits
  <2>9. CASE pc = "act_run" /\ pc' = "act_wait" /\ Call("activate", proc.rel, proc.att)
    BY <2>1, <2>2, <2>4, <2>9 DEF CommandFits
  <2>10. CASE pc = "gc" /\ pc' = "gc_wait" /\ Call("gc", "none", proc.att)
    BY <2>2, <2>4, <2>10 DEF CommandFits
  <2>11. CASE pc = "rb_select" /\ pc' = "rb_select_wait"
               /\ Call("rollback_activation", "none", proc.att)
    BY <2>2, <2>4, <2>11 DEF CommandFits
  <2>12. CASE pc = "rb_convert" /\ pc' = "rb_convert_wait" /\ Converted
               /\ Call("rollback_conversion", Legacy, proc.att)
    BY <2>1, <2>2, <2>4, <2>12 DEF CommandFits
  <2> QED BY <1>1, <2>5, <2>6, <2>7, <2>8, <2>9, <2>10, <2>11, <2>12, CallActionsGo
        DEF Converted
<1>2. CASE ResultActions
  BY <1>2, ResultActionsGo DEF ResultStays, CommandFits
<1>3. CASE CandidateInstall
  BY <1>3 DEF CandidateInstall, CommandFits
<1>4. CASE KillActions
  BY <1>4 DEF KillActions, Interrupted, Killed, Reboot, Exit, CommandFits
<1>5. CASE CommandActions
  <2>1. UNCHANGED <<tx, proc, pc>> /\ Doc' = Doc /\ (Converted <=> Converted')
    BY <1>5 DEF CommandActions, RuntimeCommand, RuntimeCommandFails, Doc, Converted, FactOf
  <2>2. \/ op' = OpIdle
        \/ /\ op'.name = op.name /\ op'.att = op.att
           /\ op'.id = op.id \/ op.name \in {"gc", "rollback_activation"}
    BY <1>5, CommandGoesOn DEF CommandActions, RuntimeCommand, RuntimeCommandFails, TypeInv,
      StoreShape, EngineTypeOK
  <2>3. op # OpIdle
    BY <1>5, CommandRuns DEF CommandActions, RuntimeCommand, RuntimeCommandFails
  <2> QED BY <2>1, <2>2, <2>3 DEF CommandFits
<1>6. CASE EngineMoves
  <2>1. op' = op
    BY <1>6 DEF EngineMoves, storeVars
  <2>2. CASE UNCHANGED <<pc, proc, tx>>
    BY <2>1, <2>2 DEF CommandFits, Converted, FactOf, Doc
  <2>3. CASE pc \notin WaitSteps /\ pc' \notin WaitSteps \cup {"conv_run"}
    <3>1. op = OpIdle
      BY <2>3 DEF CommandFits, WaitSteps
    <3> QED BY <2>1, <2>3, <3>1 DEF CommandFits
  <2>4. CASE ConversionIntent
    <3>1. op = OpIdle
      BY <2>4 DEF CommandFits, ConversionIntent, MarkStep
    <3> QED BY <2>1, <2>4, <3>1, ConversionAsked DEF CommandFits
  <2> QED BY <1>6, <2>2, <2>3, <2>4 DEF EngineMoves
<1> QED BY <1>1, <1>2, <1>3, <1>4, <1>5, <1>6, StoreCases

LEMMA CommandFitsAlways == Spec => []CommandFits
<1>1. TypeInv /\ Hand /\ CommandFits /\ [Next]_vars => CommandFits'
  BY CommandFitsStep
<1> QED BY <1>1, TypeAlways, HandAlways, CommandFitsInit, PTL DEF Spec

-----------------------------------------------------------------------------
(* Who writes a record, and when                                            *)

LEMMA MarkStepIs ==
  ASSUME LogTypeOK, NEW here, NEW p, NEW facts, NEW next, MarkStep(here, p, facts, next)
  PROVE  /\ pc = here /\ proc' = proc
         /\ \A a \in Attempts :
              \/ tx'[a] = tx[a]
              \/ a = proc.att /\ CanMark(tx[a], p, facts) /\ tx'[a] = Marked(tx[a], p, facts)
                   /\ tx'[a].phase = p
<1>1. \A doc \in Documents : Marked(doc, p, facts).phase = p
  BY DEF Marked, Documents
<1> QED BY <1>1 DEF MarkStep, LogTypeOK, Doc

(* An attempt is begun, or the record in hand is marked.                    *)
LEMMA Writers ==
  ASSUME TypeInv, [Next]_vars, NEW a \in Attempts, tx'[a] # tx[a]
  PROVE  \/ BeginAttempt /\ tx[a].phase = "none"
         \/ /\ a = proc.att
            /\ \/ pc \in DOMAIN MarkPoints /\ tx'[a].phase = MarkPoints[pc]
               \/ pc = "rb_enter" /\ tx'[a].phase = "rollback_started"
               \/ /\ pc \in {"rec_mark", "exit_mark", "rb_check", "rb_runtime", "rb_files",
                             "rb_intent", "rb_end"}
                  /\ tx'[a].facts = tx[a].facts
                  /\ pc \in {"rec_mark", "exit_mark"} => tx'[a].phase = "diagnostic_failure"
<1> USE DEF TypeInv, EngineTypeOK
<1>1. ASSUME NEW here \in DOMAIN MarkPoints, NEW p, NEW facts, NEW next,
             MarkStep(here, p, facts, next), MarkPoints[here] = p
      PROVE  a = proc.att /\ pc \in DOMAIN MarkPoints /\ tx'[a].phase = MarkPoints[pc]
  BY <1>1, MarkStepIs
<1>2. CASE MarkActions
  <2>1. PICK here \in DOMAIN MarkPoints : \E facts, next :
          MarkStep(here, MarkPoints[here], facts, next)
    <3>1. CASE OwnershipIntent \/ OwnershipComplete \/ BackupIntent \/ BackupComplete
      BY <3>1 DEF OwnershipIntent, OwnershipComplete, BackupIntent, BackupComplete, MarkPoints
    <3>2. CASE CandidateIntent \/ CandidateReady \/ DowntimeIntent \/ DowntimeStarted
      BY <3>2 DEF CandidateIntent, CandidateReady, DowntimeIntent, DowntimeStarted, MarkPoints
    <3>3. CASE ConversionIntent \/ ConversionComplete \/ TrustIntent \/ TrustComplete
      BY <3>3 DEF ConversionIntent, ConversionComplete, TrustIntent, TrustComplete, MarkPoints
    <3>4. CASE ActivationIntent \/ Activated \/ DeployIntent \/ Deployed
      BY <3>4 DEF ActivationIntent, Activated, DeployIntent, Deployed, MarkPoints
    <3>5. CASE ServiceStartIntent \/ ServiceStarted \/ HealthVerified \/ Success
      BY <3>5 DEF ServiceStartIntent, ServiceStarted, HealthVerified, Success, MarkPoints
    <3> QED BY <1>2, <3>1, <3>2, <3>3, <3>4, <3>5 DEF MarkActions
  <2> QED BY <1>1, <2>1
<1>3. CASE TryMarkActions
  <2>1. \E p : /\ tx' = tx \/ tx' = TryMarked(p)
               /\ \/ pc = "rb_enter" /\ p = "rollback_started"
                  \/ /\ pc \in {"rec_mark", "exit_mark", "rb_check", "rb_runtime", "rb_files",
                                "rb_intent", "rb_end"}
                     /\ pc \in {"rec_mark", "exit_mark"} => p = "diagnostic_failure"
    <3>1. CASE RecoverClassify \/ ExitClassify \/ RollbackCheck
      BY <3>1 DEF RecoverClassify, ExitClassify, RollbackCheck
    <3>2. CASE RollbackEnter
      BY <3>2 DEF RollbackEnter
    <3>3. CASE RollbackEnd
      BY <3>3 DEF RollbackEnd
    <3>4. CASE CheckpointActions
      BY <3>4 DEF CheckpointActions, Checkpoint, RuntimeRestored, FilesRestored,
        ServiceRestoreIntent
    <3> QED BY <1>3, <3>1, <3>2, <3>3, <3>4 DEF TryMarkActions
  <2>2. pc \in AttemptSteps
    BY <2>1 DEF AttemptSteps, RollbackSteps, ExitSteps, RecoverySteps
  <2>3. proc.att \in Attempts
    BY <2>2 DEF PcShape
  <2>4. PICK p : /\ tx' = TryMarked(p)
                 /\ \/ pc = "rb_enter" /\ p = "rollback_started"
                    \/ /\ pc \in {"rec_mark", "exit_mark", "rb_check", "rb_runtime", "rb_files",
                                  "rb_intent", "rb_end"}
                       /\ pc \in {"rec_mark", "exit_mark"} => p = "diagnostic_failure"
    BY <2>1
  <2>5. /\ \A b \in Attempts \ {proc.att} : tx'[b] = tx[b]
        /\ tx'[proc.att].facts = Doc.facts
        /\ tx'[proc.att].phase = p \/ tx'[proc.att] = Doc
    BY <2>3, <2>4, TryMarkedAny
  <2> QED BY <2>4, <2>5 DEF Doc
<1>4. CASE BeginAttempt
  <2>1. PICK b \in Attempts : tx[b] = NoDocument /\ Begin(b, proc.rel)
    BY <1>4 DEF BeginAttempt
  <2>2. a = b
    BY <2>1 DEF Begin, LogTypeOK
  <2> QED BY <1>4, <2>1, <2>2 DEF NoDocument
<1>5. CASE SilentActions \/ UNCHANGED vars
  BY <1>5, SilentActionsKeepLog DEF vars
<1> QED BY <1>2, <1>3, <1>4, <1>5, NextCases DEF MarkActions, PlainMarks, FactMarks

-----------------------------------------------------------------------------
(* Staging trees                                                            *)

StagedUnderIntent ==
  \A a \in Attempts : staging[a] # "absent" => tx[a].phase = "candidate_intent"

(* Where the engine closes a record, or takes a candidate for ready, the    *)
(* staging tree of the attempt is gone.                                     *)
StagingGone ==
  /\ pc \in {"cand_build", "cand_done", "rec_mark", "exit_mark"} =>
       staging[proc.att] = "absent"
  /\ op.name = "finalize" /\ op.at = "verify" => staging[op.att] = "absent"
  /\ op.name = "reconcile" /\ op.at # "start" => staging[op.att] = "absent"
  /\ pc \in {"cand_final_wait", "rec_cand_wait", "exit_cand_wait"} /\ op = OpIdle /\ res = "ok"
       => staging[proc.att] = "absent"

Staging == StagedUnderIntent /\ StagingGone

LEMMA StagingInit == Init => Staging
BY DEF Init, Staging, StagedUnderIntent, StagingGone, OpIdle

LEMMA LeavesIntent ==
  ASSUME TypeInv, Hand, [Next]_vars, NEW a \in Attempts,
         tx[a].phase = "candidate_intent", tx'[a].phase # "candidate_intent"
  PROVE  a = proc.att /\ pc \in {"cand_done", "rec_mark", "exit_mark"}
<1>1. tx'[a] # tx[a]
  OBVIOUS
<1>2. Fits(pc, Doc.phase) /\ "candidate_intent" \in EarlyPhases
        /\ "candidate_intent" \notin RollbackPhases
  BY DEF Hand, EarlyPhases, PreDowntimePhases, RollbackPhases
<1>3. \/ pc \in DOMAIN MarkPoints /\ tx'[a].phase = MarkPoints[pc] /\ a = proc.att
      \/ a = proc.att /\ pc \in {"rb_enter", "rec_mark", "exit_mark", "rb_check", "rb_runtime",
                                 "rb_files", "rb_intent", "rb_end"}
  BY <1>1, Writers
<1>4. Doc.phase = "candidate_intent" /\ a = proc.att
  BY <1>3 DEF Doc
<1>5. pc \notin {"rb_enter", "rb_check", "rb_runtime", "rb_files", "rb_intent", "rb_end"}
  BY <1>2, <1>4 DEF Fits, RollbackSteps
<1> QED BY <1>2, <1>3, <1>4, <1>5 DEF MarkPoints, Fits

LEMMA CommandStaging ==
  ASSUME TypeInv, Hand, CommandFits, Staging, CommandActions
  PROVE  Staging'
<1>1. /\ UNCHANGED <<tx, pc, proc>> /\ StoreShape
      /\ StoreStep \/ CommandRaises \/ ReconcileMisjudges
  BY DEF CommandActions, RuntimeCommand, RuntimeCommandFails, TypeInv, StoreShape, EngineTypeOK
<1>2. CASE StageCandidate
  <2>1. pc = "cand_stage_wait" /\ op.att = proc.att /\ proc.att \in Attempts
    BY <1>2, <1>1 DEF CommandFits, StageCandidate, At, OpIdle, StoreShape, OpShape
  <2>2. Doc.phase = "candidate_intent"
    BY <2>1 DEF Hand, Fits
  <2>3. op' = OpIdle /\ \A a \in Attempts \ {proc.att} : staging'[a] = staging[a]
    BY <1>2, <2>1 DEF StageCandidate, Return, TypeInv, EngineTypeOK, StoreTypeOK
  <2>4. StagedUnderIntent'
    BY <1>1, <2>2, <2>3 DEF Staging, StagedUnderIntent, Doc
  <2>5. StagingGone'
    BY <1>1, <2>1, <2>3 DEF StagingGone, OpIdle
  <2> QED BY <2>4, <2>5 DEF Staging
<1>3. CASE ~StageCandidate
  <2>1. \A a \in Attempts : staging'[a] \in {staging[a], "absent"}
    BY <1>1, <1>3 DEF StoreShape, StoreTypeOK, StoreStep, FinalizeCheck, FinalizeManifest, FinalizeRename,
      FinalizeVerify, FinalizeCleanup, FinalizeUnlink, ReconcileStaging, ReconcileAbsent,
      ReconcileRetain, ReconcileReject, Reject, ReconcileRemove, ReconcileUnlink,
      ReconcileMisjudges, ConvertStart, ConvertMove, ConvertMoved, ConvertManifest,
      ConvertPublish, ConvertPublished, ConvertFinish, UnconvertUnlink, UnconvertRestore,
      UnconvertRecord, ActivateGate, DeactivateGate, FlipSelector, FlipVerified, FlipRestored,
      GcStart, GcDamage, GcRemove, GcUnlink, GcDone, CommandRaises, diskVars
  <2>2. op # OpIdle
    BY <1>1, CommandRuns
  <2>3. CASE op.name = "finalize"
    <3>1. \/ op' = OpIdle /\ res' = "err"
          \/ op' = OpIdle /\ staging'[op.att] = "absent"
          \/ op'.name = "finalize" /\ op'.at # "verify"
          \/ op'.name = "finalize" /\ op'.att = op.att /\ staging'[op.att] = "absent"
      <4>1. CASE FinalizeCheck \/ FinalizeManifest \/ FinalizeCleanup \/ FinalizeUnlink
        BY <4>1, <1>1 DEF FinalizeCheck, FinalizeManifest, FinalizeCleanup, FinalizeUnlink, Goto,
          Return, StoreShape, StoreTypeOK, Commands, At
      <4>2. CASE FinalizeRename
        BY <4>2, <1>1 DEF FinalizeRename, Goto, StoreShape, StoreTypeOK, Commands, At, OpShape
      <4>3. CASE FinalizeVerify
        BY <4>3 DEF FinalizeVerify, Return, Staging, StagingGone, At, diskVars
      <4>4. CASE CommandRaises
        BY <2>3, <4>4, <1>1 DEF CommandRaises, Goto, Return, StoreShape, StoreTypeOK, Commands
      <4> QED BY <1>1, <1>3, <2>3, <4>1, <4>2, <4>3, <4>4 DEF StoreStep, At, ReconcileStaging, ReconcileAbsent,
            ReconcileRetain, ReconcileReject, ReconcileRemove, ReconcileUnlink,
            ReconcileMisjudges, ConvertStart, ConvertMove, ConvertMoved, ConvertManifest,
            ConvertPublish, ConvertPublished, ConvertFinish, UnconvertUnlink, UnconvertRestore,
            UnconvertRecord, ActivateGate, DeactivateGate, FlipSelector, FlipVerified,
            FlipRestored, GcStart, GcDamage, GcRemove, GcUnlink, GcDone
    <3>2. op.att = proc.att /\ pc = "cand_final_wait" /\ proc.att \in Attempts
      BY <1>1, <2>2, <2>3 DEF CommandFits, StoreShape, OpShape
    <3>3. StagingGone'
      BY <1>1, <2>1, <3>1, <3>2 DEF StagingGone, OpIdle
    <3> QED BY <1>1, <2>1, <3>3 DEF Staging, StagedUnderIntent
  <2>4. CASE op.name = "reconcile"
    <3>1. \/ op' = OpIdle /\ res' = "err"
          \/ op' = OpIdle /\ staging'[op.att] = "absent"
          \/ op'.name = "reconcile" /\ op'.att = op.att /\ staging'[op.att] = "absent"
      <4>1. CASE ReconcileStaging
        BY <4>1, <1>1 DEF ReconcileStaging, Goto, StoreShape, StoreTypeOK, Commands, At, OpShape
      <4>2. CASE ReconcileAbsent \/ ReconcileRetain \/ ReconcileReject \/ ReconcileRemove
                   \/ ReconcileUnlink \/ ReconcileMisjudges
        <5>1. /\ op.at # "start" /\ UNCHANGED staging
              /\ op' = OpIdle \/ \E at : op' = [op EXCEPT !.at = at]
          BY <4>2 DEF ReconcileAbsent, ReconcileRetain, ReconcileReject, ReconcileRemove,
            ReconcileUnlink, ReconcileMisjudges, Reject, Goto, Return, At, diskVars
        <5> QED BY <2>4, <5>1, <1>1 DEF Staging, StagingGone, StoreShape, StoreTypeOK, Commands
      <4>3. CASE CommandRaises
        BY <2>4, <4>3 DEF CommandRaises, Return
      <4> QED BY <1>1, <1>3, <2>4, <4>1, <4>2, <4>3 DEF StoreStep, At, FinalizeCheck, FinalizeManifest,
            FinalizeRename, FinalizeVerify, FinalizeCleanup, FinalizeUnlink,
            ConvertStart, ConvertMove, ConvertMoved, ConvertManifest,
            ConvertPublish, ConvertPublished, ConvertFinish, UnconvertUnlink, UnconvertRestore,
            UnconvertRecord, ActivateGate, DeactivateGate, FlipSelector, FlipVerified,
            FlipRestored, GcStart, GcDamage, GcRemove, GcUnlink, GcDone
    <3>2. op.att = proc.att /\ pc \in {"rec_cand_wait", "exit_cand_wait"} /\ proc.att \in Attempts
      BY <1>1, <2>2, <2>4 DEF CommandFits, StoreShape, OpShape
    <3>3. StagingGone'
      BY <1>1, <2>1, <3>1, <3>2 DEF StagingGone, OpIdle
    <3> QED BY <1>1, <2>1, <3>3 DEF Staging, StagedUnderIntent
  <2>5. CASE op.name \notin {"finalize", "reconcile"}
    <3>1. pc \in WaitSteps \ {"cand_final_wait", "rec_cand_wait", "exit_cand_wait"}
      BY <2>2, <2>5 DEF CommandFits, WaitSteps
    <3>2. op' = OpIdle \/ op'.name = op.name
      BY <1>1, CommandGoesOn
    <3>3. StagingGone'
      BY <1>1, <2>1, <2>5, <3>1, <3>2 DEF StagingGone, OpIdle, WaitSteps
    <3> QED BY <1>1, <2>1, <3>3 DEF Staging, StagedUnderIntent
  <2> QED BY <2>3, <2>4, <2>5
<1> QED BY <1>2, <1>3

LEMMA ResultStaging ==
  ASSUME TypeInv, Hand, Staging, ResultActions
  PROVE  Staging'
<1>1. ResultStays /\ pc' \notin WaitSteps
  BY ResultActionsGo
<1>2. UNCHANGED <<staging, op, tx>> /\ op = OpIdle
  BY <1>1 DEF ResultStays, diskVars
<1>3. pc' \in {"cand_build", "cand_done", "rec_mark", "exit_mark"} =>
        /\ proc' = proc /\ res = "ok"
        /\ pc \in {"cand_final_wait", "rec_cand_wait", "exit_cand_wait"}
  BY DEF ResultActions, TakeResult, RollbackCommandDone, RecoverCandidateDone,
    CandidateStaged, CandidateFinalized, ConversionResult, ActivationResult,
    GarbageCollected, ExitCandidateDone, RollbackActivationDone, RollbackConversionDone,
    Answered, Exit
<1>4. StagingGone'
  BY <1>1, <1>2, <1>3 DEF Staging, StagingGone, OpIdle, WaitSteps
<1> QED BY <1>2, <1>4 DEF Staging, StagedUnderIntent

(* The engine comes to close a record, or to build a candidate.             *)
LEMMA EntersGone ==
  ASSUME TypeInv, Next, EngineMoves,
         ~(CallActions \/ ResultActions \/ CandidateInstall \/ KillActions \/ CommandActions),
         pc' \in {"cand_build", "cand_done", "rec_mark", "exit_mark"}
  PROVE  \/ CandidateIntent \/ CandidateReuse \/ RecoverBackup \/ ExitBackup
         \/ UNCHANGED <<pc, proc, tx>>
<1>1. CASE MarkActions /\ ~CandidateIntent
  BY <1>1 DEF MarkActions, MarkStep, OwnershipIntent, OwnershipComplete,
    BackupIntent, BackupComplete, CandidateReady, DowntimeIntent,
    DowntimeStarted, ConversionIntent, ConversionComplete, TrustIntent, TrustComplete,
    ActivationIntent, Activated, DeployIntent, Deployed, ServiceStartIntent,
    ServiceStarted, HealthVerified, Success
<1>2. CASE (CheckpointActions \/ LogicActions) /\ ~CandidateReuse
  BY <1>2 DEF CheckpointActions, Checkpoint, RuntimeRestored, FilesRestored,
    ServiceRestoreIntent, LogicActions, StartEngine, Recover, RecoverClassify, RecoverCheck,
    Cancel, BackupOwned, DowntimeFlag, ConversionNotNeeded,
    ActivationGate, HealthPasses, SuccessFlag, Finish, ExitTrap, ExitClassify,
    RollbackEnter, RollbackCheck, NoActivationToUndo, NoConversionToUndo,
    RollbackVerifyRuntime, ServiceRestoreRefused, RollbackHealth, RollbackEnd,
    Exit, RollbackReturns
<1>3. CASE ~MarkActions /\ ~CheckpointActions /\ ~LogicActions
  BY <1>3 DEF Next, Engine, MarkActions, CheckpointActions, LogicActions, CallActions,
    ResultActions, KillActions, CommandActions, BeginAttempt, BackupMkdir,
    BackupCopy, StopService, DeployRsync, DeployCode, DeployHelpers, DeployBin,
    StartService, RollbackStop, RollbackConf, RollbackRsync,
    RollbackCode, RollbackBinRemove, RollbackBinCopy, RollbackStart, RollbackStepFails,
    ServiceWrites, RotateBackup
<1> QED BY <1>1, <1>2, <1>3

LEMMA EngineStaging ==
  ASSUME TypeInv, Hand, CommandFits, Staging, [Next]_vars, EngineMoves,
         ~(CallActions \/ ResultActions \/ CandidateInstall \/ KillActions \/ CommandActions)
  PROVE  Staging'
<1>1. UNCHANGED <<staging, op, res>>
  BY DEF EngineMoves, storeVars
<1>2. StagedUnderIntent'
  <2>1. \A a \in Attempts : staging[a] # "absent" => tx[a].phase = "candidate_intent"
    BY DEF Staging, StagedUnderIntent
  <2>2. ASSUME NEW a \in Attempts, staging[a] # "absent"
        PROVE  tx'[a].phase = "candidate_intent"
    BY <2>1, <2>2, LeavesIntent DEF Staging, StagingGone
  <2> QED BY <1>1, <2>2 DEF StagedUnderIntent
<1>3. ASSUME pc' \in {"cand_build", "cand_done", "rec_mark", "exit_mark"}
      PROVE  staging'[proc'.att] = "absent"
  <2>1. CASE UNCHANGED <<pc, proc, tx>>
    BY <1>1, <1>3, <2>1 DEF Staging, StagingGone
  <2>2. CASE CandidateIntent \/ CandidateReuse \/ RecoverBackup \/ ExitBackup
    <3>1. /\ proc' = proc
          /\ pc \in {"cand_intent", "cand_build", "rec_backup", "exit_backup"}
          /\ pc = "rec_backup" /\ pc' = "rec_mark" => FactOf("candidate_id") = Unset
          /\ pc = "exit_backup" => proc.durable \notin {"candidate_intent", "candidate_ready"}
      BY <1>3, <2>2 DEF CandidateIntent, MarkStep, CandidateReuse, RecoverBackup, ExitBackup
    <3>2. pc \in AttemptSteps
      BY <3>1 DEF AttemptSteps, ForwardSteps, ExitSteps, RecoverySteps
    <3>3. /\ proc.att \in Attempts /\ Fits(pc, Doc.phase)
          /\ pc = "exit_backup" => proc.durable = Doc.phase
      BY <3>2 DEF TypeInv, PcShape, Hand
    <3>4. pc = "rec_backup" => pc' = "rec_mark"
      BY <1>3, <2>2, <3>1 DEF CandidateIntent, MarkStep, CandidateReuse, RecoverBackup, ExitBackup
    <3>5. pc = "cand_build" \/ Doc.phase # "candidate_intent"
      BY <3>1, <3>3, <3>4 DEF Fits, TypeInv, FactShape, FactOf, Doc
    <3> QED BY <1>1, <3>1, <3>3, <3>5 DEF Staging, StagedUnderIntent, StagingGone, Doc
  <2>3. UNCHANGED vars => UNCHANGED <<pc, proc, tx>>
    BY DEF vars
  <2> QED BY <1>3, <2>1, <2>2, <2>3, EntersGone
<1>4. ASSUME pc' \in {"cand_final_wait", "rec_cand_wait", "exit_cand_wait"},
             op' = OpIdle, res' = "ok"
      PROVE  staging'[proc'.att] = "absent"
  <2>1. pc' \in WaitSteps
    BY <1>4 DEF WaitSteps
  <2>2. CASE UNCHANGED <<pc, proc, tx>>
    BY <1>1, <1>4, <2>2 DEF Staging, StagingGone
  <2>3. CASE ConversionIntent
    BY <1>4, <2>3 DEF ConversionIntent, MarkStep
  <2> QED BY <2>1, <2>2, <2>3 DEF EngineMoves
<1>5. StagingGone'
  BY <1>1, <1>3, <1>4 DEF Staging, StagingGone
<1> QED BY <1>2, <1>5 DEF Staging

LEMMA StagingStep ==
  ASSUME TypeInv, Hand, CommandFits, Staging, [Next]_vars
  PROVE  Staging'
<1>1. CASE CallActions
  <2>1. /\ UNCHANGED <<tx, proc, diskVars>> /\ pc' \in WaitSteps
        /\ op'.at = "start" /\ op'.name # "none" /\ res' = "none"
    BY <1>1, CallActionsGo DEF Call, OpIdle, WaitSteps
  <2> QED BY <2>1 DEF Staging, StagedUnderIntent, StagingGone, diskVars, WaitSteps, OpIdle
<1>2. CASE ResultActions
  BY <1>2, ResultStaging
<1>3. CASE CandidateInstall
  <2>1. pc = "cand_install" /\ pc' = "cand_final" /\ UNCHANGED <<tx, proc, op>> /\ op = OpIdle
    BY <1>3 DEF CandidateInstall, CommandFits
  <2>2. Doc.phase = "candidate_intent" /\ proc.att \in Attempts
    BY <2>1 DEF Hand, Fits, TypeInv, PcShape, AttemptSteps, ForwardSteps
  <2>3. \A a \in Attempts \ {proc.att} : staging'[a] = staging[a]
    BY <1>3 DEF CandidateInstall, TypeInv, EngineTypeOK, StoreTypeOK
  <2> QED BY <2>1, <2>2, <2>3 DEF Staging, StagedUnderIntent, StagingGone, Doc, OpIdle
<1>4. CASE KillActions
  <2>1. /\ UNCHANGED <<tx, diskVars>> /\ pc' \in {"exit", "idle"}
        /\ op' = OpIdle /\ res' = "none"
    BY <1>4 DEF KillActions, Interrupted, Killed, Reboot, Exit
  <2> QED BY <2>1 DEF Staging, StagedUnderIntent, StagingGone, diskVars, OpIdle
<1>5. CASE CommandActions
  BY <1>5, CommandStaging
<1>6. CASE EngineMoves /\ ~(CallActions \/ ResultActions \/ CandidateInstall \/ KillActions
                              \/ CommandActions)
  BY <1>6, EngineStaging
<1> QED BY <1>1, <1>2, <1>3, <1>4, <1>5, <1>6, StoreCases

LEMMA StagingAlways == Spec => []Staging
<1>1. TypeInv /\ Hand /\ CommandFits /\ Staging /\ [Next]_vars => Staging'
  BY StagingStep
<1> QED BY <1>1, TypeAlways, HandAlways, CommandFitsAlways, StagingInit, PTL DEF Spec

LEMMA StagingClears == Staging => TerminalLeavesNoStaging
BY DEF Staging, StagedUnderIntent, TerminalLeavesNoStaging, IsTerminal, TerminalPhases

-----------------------------------------------------------------------------
(* What the observation records                                             *)

LEMMA BeforeStays ==
  ASSUME [Next]_vars
  PROVE  before' = before \/ BeginAttempt
<1>1. CASE MarkActions \/ CallActions \/ ResultActions
  BY <1>1, ResultActionsGo, CallActionsGo DEF MarkActions, MarkStep, logFrame, OwnershipIntent,
    OwnershipComplete, BackupIntent, BackupComplete, CandidateIntent, CandidateReady,
    DowntimeIntent, DowntimeStarted, ConversionIntent, ConversionComplete, TrustIntent,
    TrustComplete, ActivationIntent, Activated, DeployIntent, Deployed, ServiceStartIntent,
    ServiceStarted, HealthVerified, Success, ResultStays
<1>2. CASE CheckpointActions \/ LogicActions
  BY <1>2 DEF CheckpointActions, Checkpoint, logFrame, RuntimeRestored, FilesRestored,
    ServiceRestoreIntent, LogicActions, StartEngine, Recover, RecoverClassify, RecoverCheck,
    Cancel, BackupOwned, CandidateReuse, DowntimeFlag, ConversionNotNeeded,
    ActivationGate, HealthPasses, SuccessFlag, Finish, ExitTrap, ExitClassify,
    RollbackEnter, RollbackCheck, NoActivationToUndo, NoConversionToUndo,
    RollbackVerifyRuntime, ServiceRestoreRefused, RollbackHealth, RollbackEnd
<1>3. CASE ~MarkActions /\ ~CallActions /\ ~ResultActions /\ ~CheckpointActions /\ ~LogicActions
  BY <1>3 DEF Next, Engine, vars, MarkActions, CheckpointActions, LogicActions,
    CallActions, ResultActions, RecoverBackup, BeginAttempt, BackupMkdir, CandidateInstall,
    BackupCopy, StopService, DeployRsync, DeployCode, DeployHelpers, DeployBin,
    StartService, RotateBackup, ExitBackup, RollbackStop, RollbackConf, RollbackRsync,
    RollbackCode, RollbackBinRemove, RollbackBinCopy, RollbackStart, RollbackStepFails,
    ServiceWrites, RuntimeCommand, RuntimeCommandFails, Interrupted, Killed, Reboot
<1> QED BY <1>1, <1>2, <1>3

(* An attempt that begins has the host before it recorded, and only it has. *)
LEMMA BeginIs ==
  ASSUME TypeInv, BeginAttempt
  PROVE  \E a \in Attempts :
           /\ tx[a] = NoDocument /\ tx'[a] = FreshDocument(proc.rel) /\ before'[a] = Snapshot
           /\ proc'.att = a /\ proc'.cur = proc.cur /\ proc'.rel = proc.rel
           /\ \A b \in Attempts \ {a} : tx'[b] = tx[b] /\ before'[b] = before[b]
<1>1. PICK a \in Attempts :
        /\ tx[a] = NoDocument /\ Begin(a, proc.rel)
        /\ proc' = [proc EXCEPT !.att = a, !.begun = TRUE]
        /\ before' = [before EXCEPT ![a] = Snapshot]
  BY DEF BeginAttempt
<1>2. /\ tx'[a] = FreshDocument(proc.rel) /\ before'[a] = Snapshot
      /\ \A b \in Attempts \ {a} : tx'[b] = tx[b] /\ before'[b] = before[b]
  BY <1>1 DEF Begin, TypeInv, EngineTypeOK, LogTypeOK, ObserverTypeOK
<1>3. proc'.att = a /\ proc'.cur = proc.cur /\ proc'.rel = proc.rel
  BY <1>1 DEF TypeInv, EngineTypeOK, ProcTypeOK
<1> QED BY <1>1, <1>2, <1>3

LEMMA OpensBegins ==
  ASSUME TypeInv, Hand, [Next]_vars, NEW a \in Attempts, Opens(a)
  PROVE  before'[a] = Snapshot
<1>1. tx[a].phase = "none" /\ tx'[a] # tx[a]
  BY DEF Opens, NoDocument, FreshDocument
<1>2. ASSUME pc \in AttemptSteps, a = proc.att
      PROVE  FALSE
  BY <1>1, <1>2 DEF Hand, InHand, Doc, Phases, PhasesOf, NormalSequence, RollbackSequence
<1>3. DOMAIN MarkPoints \cup {"rb_enter", "rec_mark", "exit_mark", "rb_check", "rb_runtime",
        "rb_files", "rb_intent", "rb_end"} \subseteq AttemptSteps
  BY DEF MarkPoints, AttemptSteps, ForwardSteps, RollbackSteps, ExitSteps, RecoverySteps
<1>4. BeginAttempt
  BY <1>1, <1>2, <1>3, Writers
<1> QED BY <1>1, <1>4, BeginIs

LEMMA BeforeMoves ==
  ASSUME TypeInv, [Next]_vars, NEW a \in Attempts, tx[a].phase # "none"
  PROVE  before'[a] = before[a]
<1>1. CASE BeginAttempt
  BY <1>1, BeginIs DEF NoDocument
<1> QED BY <1>1, BeforeStays

(* Only a conversion intent records a conversion, and only of a host whose  *)
(* selector is no link.                                                     *)
LEMMA ConversionFact ==
  ASSUME TypeInv, Hand, [Next]_vars, NEW a \in Attempts,
         tx[a].facts["converted_by_attempt"] # "True",
         tx'[a].facts["converted_by_attempt"] = "True"
  PROVE  /\ a = proc.att /\ selector \notin Runtimes /\ UNCHANGED storeVars
         /\ Doc.phase = "downtime_started" /\ before' = before
<1>1. LogTypeOK /\ "converted_by_attempt" \in FactKeys /\ "True" # Unset
  BY EngineConstants, UnsetIsNoValue, FactKeysAre DEF TypeInv, EngineTypeOK, EngineFacts
<1>2. ASSUME NEW here, NEW p, NEW k \in FactKeys, NEW v, NEW next,
             MarkStep(here, p, Fact(k, v), next), k # "converted_by_attempt"
      PROVE  FALSE
  BY <1>1, <1>2, FactMarkKeepsOthers
<1>3. CASE BackupIntent \/ BackupComplete \/ CandidateIntent \/ DowntimeStarted
             \/ TrustComplete \/ ActivationIntent \/ Activated
  <2>1. {"backup_dir", "previous_version", "candidate_id", "downtime_started", "trust_done",
         "previous_runtime", "activation_done"} \subseteq FactKeys
    BY FactKeysAre
  <2>2. CASE BackupIntent
    BY <1>2, <2>1, <2>2 DEF BackupIntent
  <2>3. CASE BackupComplete
    BY <1>2, <2>1, <2>3 DEF BackupComplete
  <2>4. CASE CandidateIntent
    BY <1>2, <2>1, <2>4 DEF CandidateIntent
  <2>5. CASE DowntimeStarted
    BY <1>2, <2>1, <2>5 DEF DowntimeStarted
  <2>6. CASE TrustComplete
    BY <1>2, <2>1, <2>6 DEF TrustComplete
  <2>7. CASE ActivationIntent
    BY <1>2, <2>1, <2>7 DEF ActivationIntent
  <2>8. CASE Activated
    BY <1>2, <2>1, <2>8 DEF Activated
  <2> QED BY <1>3, <2>2, <2>3, <2>4, <2>5, <2>6, <2>7, <2>8
<1>4. CASE ConversionIntent
  <2>1. PICK next : MarkStep("conv_intent", "conversion_intent",
                      Fact("converted_by_attempt", IF selector \notin Runtimes THEN "True" ELSE "False"),
                      next)
    BY <1>4 DEF ConversionIntent
  <2>2. pc = "conv_intent" /\ UNCHANGED <<storeVars, before>>
    BY <2>1 DEF MarkStep, logFrame
  <2>3. Doc.phase = "downtime_started"
    BY <2>2 DEF Hand, Fits
  <2>4. a = proc.att /\ (IF selector \notin Runtimes THEN "True" ELSE "False") = "True"
    BY <1>1, <2>1, FactMarkKeepsOthers
  <2> QED BY <2>2, <2>3, <2>4
<1>5. CASE BeginAttempt
  <2>1. FreshDocument(proc.rel).facts["converted_by_attempt"] = Unset
    BY <1>1 DEF FreshDocument
  <2> QED BY <1>1, <1>5, <2>1, BeginIs
<1>6. CASE SilentActions \/ UNCHANGED vars
  BY <1>6, SilentActionsKeepLog DEF vars
<1> QED BY <1>1, <1>3, <1>4, <1>5, <1>6, NextCases, PlainMarksKeepFacts, TryMarkActionsKeepFacts
      DEF FactMarks

LEMMA NextLogMoves ==
  ASSUME TypeInv, [Next]_vars, NEW a \in Attempts
  PROVE  LogMove(a)
BY EngineLogStep, LogMoves DEF TypeInv, EngineTypeOK

-----------------------------------------------------------------------------
(* The runtime store                                                        *)

(* From the validation of the candidate to its activation.                  *)
CandidateSteps == {"cand_done", "down_intent", "down_stop", "down_flag", "down_mark",
  "conv_intent", "conv_run", "conv_wait", "conv_check", "conv_done", "trust_intent",
  "trust_done", "act_gate", "act_intent", "act_run", "act_wait"}

(* Up to here the selector has not been touched.                            *)
UnderWay == PreDowntimePhases \cup {"downtime_started"}

ConvertedBy(a) == IsOpen(tx[a]) /\ tx[a].facts["converted_by_attempt"] = "True"

AbsentMeansMoved == selector = "absent" => tree[Legacy] = "valid"

PreviousKept ==
  /\ prevRec.previous \in Releases => Sound(prevRec.previous)
  /\ prevRec.previous = Legacy /\ tree[Legacy] # "absent" => tree[Legacy] = "valid"

(* What an attempt has published is neither the legacy runtime nor, before  *)
(* the downtime, one the host runs on or would go back to.                  *)
OwnersApart ==
  \A r \in Runtimes, a \in Attempts : manifest[r] = a =>
    /\ tx[a].phase # "none" /\ r # Legacy
    /\ (tx[a].phase \in PreDowntimePhases => r # selector /\ r # prevRec.previous)

LegacyKept ==
  \A a \in Attempts : ConvertedBy(a) /\ selector \in Runtimes => Sound(Legacy)

CandidateSound == pc \in CandidateSteps => Sound(proc.rel)

(* What the host had before attempt a is still there.                       *)
WayBack(a) ==
  /\ before[a].selector \in Runtimes => Sound(before[a].selector)
  /\ before[a].selector = "dir" =>
       \/ selector = "dir"
       \/ Sound(Legacy)
       \/ tree[Legacy] = "valid" /\ convRec # "none"
  /\ tx[a].phase \in UnderWay => selector = before[a].selector
  /\ ConvertedBy(a) => before[a].selector \notin Runtimes

BeforeKept == \A a \in Attempts : IsOpen(tx[a]) => WayBack(a)

Disk ==
  /\ SelectorIntact /\ AbsentMeansMoved /\ PreviousKept /\ OwnersApart
  /\ LegacyKept /\ CandidateSound /\ BeforeKept

(* What a command knows at the points between its steps.                    *)
FinalizePoints ==
  op.name = "finalize" =>
    /\ (op.at \in {"manifest", "rename", "unlink"} => tree[op.id] = "absent")
    /\ (op.at = "rename" => Published(op.id))
    /\ (op.at = "verify" => Sound(op.id))

ReconcilePoints ==
  op.name = "reconcile" /\ op.at \in {"remove", "unlink"} => manifest[op.id] = op.att

FlipPoints ==
  op.name \in {"activate", "rollback_activation"} /\ op.at \in {"flip", "verify", "restore"} =>
    selector \in Runtimes /\ Sound(op.old) /\ Sound(op.id)

GcPoints ==
  /\ op.name = "gc" /\ op.at \in {"sweep", "remove", "unlink"} =>
       selector \in Runtimes /\ op.keep = {selector, prevRec.previous}
  /\ op.name = "gc" /\ op.at \in {"remove", "unlink"} => op.id \notin op.keep

ConvertPoints ==
  /\ op.name = "convert" /\ op.at # "start" => convRec # "none"
  /\ op.name = "convert" /\ op.at \in {"publish", "published", "finish"} => Published(Legacy)
  /\ op.name = "rollback_conversion" /\ op.at # "start" => selector \notin Runtimes
  /\ op.name = "rollback_conversion" /\ op.at = "record" => selector = "dir"

Finalized == pc = "cand_final_wait" /\ op = OpIdle /\ res = "ok" => Sound(proc.rel)

Points ==
  FinalizePoints /\ ReconcilePoints /\ FlipPoints /\ GcPoints /\ ConvertPoints /\ Finalized

LEMMA StoreInit == Init => Disk /\ Points
<1> SUFFICES ASSUME Init PROVE Disk /\ Points
  OBVIOUS
<1>1. Points
  BY DEF Init, OpIdle, Points, FinalizePoints, ReconcilePoints, FlipPoints, GcPoints,
    ConvertPoints, Finalized
<1>2. /\ prevRec.previous = "none" /\ pc = "idle" /\ selector # "absent"
      /\ selector \in Runtimes => Sound(selector)
  BY EngineConstants, IdsAreNoMarkers, LegacyIsNoRelease DEF Init, NoRecord, Sound, Published, Runtimes
<1>3. \A a \in Attempts : ~IsOpen(tx[a])
  BY DEF Init, LogInit, NoDocument, IsOpen
<1>4. \A r \in Runtimes, a \in Attempts : manifest[r] # a
  BY IdsAreNoMarkers DEF Init
<1> QED BY <1>1, <1>2, <1>3, <1>4, IdsAreNoMarkers DEF Disk, SelectorIntact, AbsentMeansMoved,
      PreviousKept, OwnersApart, LegacyKept, CandidateSound, BeforeKept, ConvertedBy,
      CandidateSteps, Runtimes

(* The attempt a command runs for, and how far it has come.                 *)
LEMMA CommandHand ==
  ASSUME TypeInv, Hand, CommandFits, op # OpIdle
  PROVE  /\ proc.att \in Attempts /\ op.att = proc.att
         /\ \A a \in Attempts : IsOpen(tx[a]) => a = proc.att
         /\ op.name \in {"stage", "finalize"} =>
              Doc.phase = "candidate_intent" /\ op.id \in Releases /\ op.id = proc.rel
                /\ pc \in {"cand_stage_wait", "cand_final_wait"}
         /\ op.name = "reconcile" => Doc.phase \in PreDowntimePhases /\ op.id \in Releases
                /\ pc \in {"rec_cand_wait", "exit_cand_wait"}
         /\ op.name = "convert" => Doc.phase = "conversion_intent" /\ ConvertedBy(proc.att)
         /\ op.name = "activate" => Doc.phase = "activation_intent"
         /\ op.name = "gc" => pc = "gc_wait" /\ \A a \in Attempts : ~IsOpen(tx[a])
         /\ op.name = "rollback_activation" => Doc.phase \in RollbackPhases /\ pc = "rb_select_wait"
         /\ op.name = "rollback_conversion" => /\ Doc.phase \in RollbackPhases
                /\ pc = "rb_convert_wait" /\ ConvertedBy(proc.att)
<1>1. pc \in WaitSteps /\ op.att = proc.att
  BY DEF CommandFits, WaitSteps
<1>2. pc \in AttemptSteps /\ pc # "idle"
  BY <1>1 DEF AttemptSteps, ForwardSteps, ExitSteps, RecoverySteps, RollbackSteps, WaitSteps
<1>3. /\ proc.att \in Attempts /\ proc.rel \in Releases
      /\ \A a \in Attempts : IsOpen(tx[a]) => a = proc.att
      /\ Fits(pc, Doc.phase)
  BY <1>2 DEF TypeInv, PcShape, Hand, InHand
<1>4. {"candidate_intent", "candidate_ready"} \subseteq PreDowntimePhases
        /\ \A p \in RollbackPhases \cup {"conversion_intent"} : p \notin TerminalPhases \cup {"none"}
  BY DEF PreDowntimePhases, RollbackPhases, TerminalPhases
<1>5. CASE op.name \in {"stage", "finalize"}
  BY <1>1, <1>3, <1>5 DEF CommandFits, Fits
<1>6. CASE op.name = "reconcile"
  BY <1>1, <1>3, <1>4, <1>6 DEF CommandFits, Fits
<1>7. CASE op.name = "convert"
  BY <1>1, <1>3, <1>4, <1>7 DEF CommandFits, Fits, ConvertedBy, Converted, FactOf, Doc, IsOpen,
    IsTerminal
<1>8. CASE op.name = "activate"
  BY <1>1, <1>3, <1>8 DEF CommandFits, Fits
<1>9. CASE op.name = "gc"
  <2>1. pc = "gc_wait" /\ Doc.phase = "success"
    BY <1>3, <1>9 DEF CommandFits, Fits
  <2>2. ~IsOpen(tx[proc.att])
    BY <2>1 DEF Doc, IsOpen, IsTerminal, TerminalPhases
  <2> QED BY <1>1, <1>3, <1>9, <2>1, <2>2
<1>10. CASE op.name = "rollback_activation"
  BY <1>1, <1>3, <1>10 DEF CommandFits, Fits, RollbackSteps
<1>11. CASE op.name = "rollback_conversion"
  BY <1>1, <1>3, <1>4, <1>11 DEF CommandFits, Fits, RollbackSteps, ConvertedBy, Converted,
    FactOf, Doc, IsOpen, IsTerminal
<1> QED BY <1>1, <1>3, <1>5, <1>6, <1>7, <1>8, <1>9, <1>10, <1>11 DEF CommandFits

(* What surrounds a command stands still while it runs.                     *)
Aside == UNCHANGED <<tx, before, pc, proc>>

LEMMA SoundIs == \A r : Sound(r) <=> tree[r] = "valid" /\ manifest[r] # "absent"
BY DEF Sound, Published

(* No runtime suffers.                                                      *)
LEMMA DiskGrows ==
  ASSUME TypeInv, Disk, Aside, UNCHANGED <<selector, prevRec>>,
         convRec' = convRec \/ convRec' # "none",
         \A r \in Runtimes : Sound(r) => Sound(r)',
         tree'[Legacy] = tree[Legacy], OwnersApart'
  PROVE  Disk'
<1> USE DEF Disk, Aside
<1>1. Legacy \in Runtimes /\ Releases \subseteq Runtimes
  BY DEF Runtimes
<1>2. SelectorIntact' /\ AbsentMeansMoved' /\ PreviousKept'
  BY <1>1 DEF SelectorIntact, AbsentMeansMoved, PreviousKept
<1>3. LegacyKept'
  BY <1>1 DEF LegacyKept, ConvertedBy
<1>4. CandidateSound'
  <2>1. pc \in CandidateSteps => proc.rel \in Runtimes
    BY <1>1 DEF TypeInv, PcShape, CandidateSteps
  <2> QED BY <2>1 DEF CandidateSound
<1>5. BeforeKept'
  <2>1. ASSUME NEW a \in Attempts, IsOpen(tx'[a])
        PROVE  WayBack(a)'
    BY <1>1, <2>1 DEF BeforeKept, WayBack, ConvertedBy, Sound, Published
  <2> QED BY <2>1 DEF BeforeKept
<1> QED BY <1>2, <1>3, <1>4, <1>5

(* One runtime suffers that nothing depends on.                             *)
LEMMA DiskLoses ==
  ASSUME TypeInv, Disk, Aside, UNCHANGED <<selector, prevRec, convRec>>, NEW d \in Runtimes,
         \A r \in Runtimes \ {d} : tree'[r] = tree[r] /\ manifest'[r] = manifest[r],
         manifest'[d] \in {manifest[d], "absent"},
         d # selector, d # prevRec.previous,
         pc \in CandidateSteps => d # proc.rel,
         \A a \in Attempts : IsOpen(tx[a]) => d # Legacy /\ d # before[a].selector,
         d # Legacy \/ selector \in Runtimes
  PROVE  Disk'
<1> USE DEF Disk, Aside
<1>1. Legacy \in Runtimes /\ Releases \subseteq Runtimes
  BY DEF Runtimes
<1>2. \A r \in Runtimes \ {d} : Sound(r) => Sound(r)'
  BY DEF Sound, Published
<1>3. SelectorIntact' /\ PreviousKept'
  BY <1>1, <1>2 DEF SelectorIntact, PreviousKept
<1>4. AbsentMeansMoved'
  BY <1>1, IdsAreNoMarkers DEF AbsentMeansMoved, Runtimes
<1>5. OwnersApart'
  <2>1. ASSUME NEW r \in Runtimes, NEW a \in Attempts, manifest'[r] = a
        PROVE  manifest[r] = a
    BY <2>1, IdsAreNoMarkers
  <2> QED BY <2>1 DEF OwnersApart
<1>6. LegacyKept'
  BY <1>1, <1>2 DEF LegacyKept, ConvertedBy
<1>7. CandidateSound'
  <2>1. pc \in CandidateSteps => proc.rel \in Runtimes
    BY <1>1 DEF TypeInv, PcShape, CandidateSteps
  <2> QED BY <1>2, <2>1 DEF CandidateSound
<1>8. BeforeKept'
  <2>1. ASSUME NEW a \in Attempts, IsOpen(tx'[a])
        PROVE  WayBack(a)'
    BY <1>1, <1>2, <2>1 DEF BeforeKept, WayBack, ConvertedBy, Sound, Published
  <2> QED BY <2>1 DEF BeforeKept
<1> QED BY <1>3, <1>4, <1>5, <1>6, <1>7, <1>8

(* The selector moves between runtimes, past the downtime.                  *)
LEMMA DiskFlips ==
  ASSUME TypeInv, Disk, Aside, UNCHANGED <<tree, manifest, prevRec, convRec>>,
         selector \in Runtimes, selector' \in Runtimes, Sound(selector'),
         \A a \in Attempts : IsOpen(tx[a]) => tx[a].phase \notin UnderWay
  PROVE  Disk'
<1> USE DEF Disk, Aside
<1>1. selector' # "dir" /\ selector # "dir" /\ selector' # "absent"
  BY IdsAreNoMarkers DEF Runtimes
<1>2. \A r \in Runtimes : Sound(r)' <=> Sound(r)
  BY DEF Sound, Published
<1>3. SelectorIntact' /\ PreviousKept' /\ AbsentMeansMoved' /\ CandidateSound'
  BY <1>1 DEF SelectorIntact, PreviousKept, AbsentMeansMoved, CandidateSound, Sound, Published
<1>4. OwnersApart'
  <2>1. \A p \in PreDowntimePhases : p \in UnderWay /\ p \notin TerminalPhases /\ p # "none"
    BY DEF UnderWay, PreDowntimePhases, TerminalPhases
  <2>2. \A a \in Attempts : tx[a].phase \notin PreDowntimePhases
    BY <2>1 DEF IsOpen, IsTerminal
  <2> QED BY <2>2 DEF OwnersApart
<1>5. LegacyKept'
  BY DEF LegacyKept, ConvertedBy, Sound, Published
<1>6. BeforeKept'
  <2>1. ASSUME NEW a \in Attempts, IsOpen(tx'[a])
        PROVE  WayBack(a)'
    BY <1>1, <1>2, <2>1 DEF BeforeKept, WayBack, ConvertedBy, Sound, Published, Runtimes
  <2> QED BY <2>1 DEF BeforeKept
<1> QED BY <1>3, <1>4, <1>5, <1>6

(* A conversion or its undoing takes a step; only the attempt in hand is    *)
(* open, and it converts.                                                   *)
LEMMA DiskConverts ==
  ASSUME TypeInv, Disk, Aside, UNCHANGED <<manifest, prevRec>>, NEW h \in Attempts,
         ConvertedBy(h), \A a \in Attempts : IsOpen(tx[a]) => a = h,
         tx[h].phase \notin UnderWay,
         \A r \in Runtimes \ {Legacy} : tree'[r] = tree[r],
         tree'[Legacy] \in {tree[Legacy], "valid", "absent"},
         selector' \in {selector, "absent", "dir", Legacy},
         selector' = "absent" => tree'[Legacy] = "valid",
         selector' \in Runtimes => tree'[Legacy] = "valid" /\ Published(Legacy),
         \/ selector' = "dir"
         \/ tree'[Legacy] = "valid" /\ Published(Legacy)
         \/ tree'[Legacy] = "valid" /\ convRec' # "none"
  PROVE  Disk'
<1> USE DEF Disk, Aside
<1>1. Legacy \in Runtimes /\ Releases \subseteq Runtimes /\ "dir" \notin Runtimes
        /\ "absent" \notin Runtimes /\ Legacy \notin Releases
  BY IdsAreNoMarkers, LegacyIsNoRelease DEF Runtimes
<1>2. \A r \in Runtimes \ {Legacy} : Sound(r) => Sound(r)'
  BY DEF Sound, Published
<1>a. tree'[Legacy] = "valid" /\ Published(Legacy) => Sound(Legacy)'
  BY DEF Sound, Published
<1>3. SelectorIntact'
  BY <1>1, <1>2, <1>a DEF SelectorIntact
<1>4. AbsentMeansMoved' /\ PreviousKept'
  BY <1>1, <1>2 DEF AbsentMeansMoved, PreviousKept
<1>5. OwnersApart'
  BY <1>1 DEF OwnersApart
<1>6. LegacyKept'
  BY <1>a DEF LegacyKept
<1>7. CandidateSound'
  <2>1. pc \in CandidateSteps => proc.rel \in Releases
    BY DEF TypeInv, PcShape, CandidateSteps
  <2> QED BY <1>1, <1>2, <2>1 DEF CandidateSound
<1>8. BeforeKept'
  <2>1. ASSUME NEW a \in Attempts, IsOpen(tx'[a])
        PROVE  WayBack(a)'
    BY <1>a, <2>1 DEF BeforeKept, WayBack, ConvertedBy
  <2> QED BY <2>1 DEF BeforeKept
<1> QED BY <1>3, <1>4, <1>5, <1>6, <1>7, <1>8

LEMMA CommandSteps ==
  ASSUME StoreStep \/ CommandRaises \/ ReconcileMisjudges
  PROVE  \/ CommandRaises
         \/ op.name = "stage" /\ StageCandidate
         \/ op.name = "finalize" /\ (FinalizeCheck \/ FinalizeManifest \/ FinalizeRename
              \/ FinalizeVerify \/ FinalizeCleanup \/ FinalizeUnlink)
         \/ op.name = "reconcile" /\ (ReconcileStaging \/ ReconcileAbsent \/ ReconcileRetain
              \/ ReconcileReject \/ ReconcileMisjudges \/ ReconcileRemove \/ ReconcileUnlink)
         \/ op.name = "convert" /\ (ConvertStart \/ ConvertMove \/ ConvertMoved
              \/ ConvertManifest \/ ConvertPublish \/ ConvertPublished \/ ConvertFinish)
         \/ op.name = "rollback_conversion" /\ (UnconvertUnlink \/ UnconvertRestore
              \/ UnconvertRecord)
         \/ op.name = "activate" /\ ActivateGate
         \/ op.name = "rollback_activation" /\ DeactivateGate
         \/ op.name \in {"activate", "rollback_activation"} /\
              (FlipSelector \/ FlipVerified \/ FlipRestored)
         \/ op.name = "gc" /\ (GcStart \/ GcDamage \/ GcRemove \/ GcUnlink \/ GcDone)
<1>1. /\ StageCandidate => op.name = "stage"
      /\ FinalizeCheck \/ FinalizeManifest \/ FinalizeRename \/ FinalizeVerify
           \/ FinalizeCleanup \/ FinalizeUnlink => op.name = "finalize"
  BY DEF StageCandidate, FinalizeCheck, FinalizeManifest, FinalizeRename, FinalizeVerify,
    FinalizeCleanup, FinalizeUnlink, At
<1>2. ReconcileStaging \/ ReconcileAbsent \/ ReconcileRetain \/ ReconcileReject
        \/ ReconcileMisjudges \/ ReconcileRemove \/ ReconcileUnlink => op.name = "reconcile"
  BY DEF ReconcileStaging, ReconcileAbsent, ReconcileRetain, ReconcileReject,
    ReconcileMisjudges, ReconcileRemove, ReconcileUnlink, At
<1>3. /\ ConvertStart \/ ConvertMove \/ ConvertMoved \/ ConvertManifest \/ ConvertPublish
           \/ ConvertPublished \/ ConvertFinish => op.name = "convert"
      /\ UnconvertUnlink \/ UnconvertRestore \/ UnconvertRecord =>
           op.name = "rollback_conversion"
  BY DEF ConvertStart, ConvertMove, ConvertMoved, ConvertManifest, ConvertPublish,
    ConvertPublished, ConvertFinish, UnconvertUnlink, UnconvertRestore, UnconvertRecord, At
<1>4. /\ ActivateGate => op.name = "activate"
      /\ DeactivateGate => op.name = "rollback_activation"
      /\ FlipSelector \/ FlipVerified \/ FlipRestored =>
           op.name \in {"activate", "rollback_activation"}
      /\ GcStart \/ GcDamage \/ GcRemove \/ GcUnlink \/ GcDone => op.name = "gc"
  BY DEF ActivateGate, DeactivateGate, FlipSelector, FlipVerified, FlipRestored, GcStart,
    GcDamage, GcRemove, GcUnlink, GcDone, At
<1> QED BY <1>1, <1>2, <1>3, <1>4 DEF StoreStep

LEMMA DiskQuiet ==
  ASSUME TypeInv, Disk, Aside, UNCHANGED <<tree, manifest, selector, prevRec>>,
         convRec' = convRec \/ convRec' # "none"
  PROVE  Disk'
<1>1. OwnersApart'
  BY DEF Disk, OwnersApart, Aside
<1>2. \A r \in Runtimes : Sound(r) => Sound(r)'
  BY DEF Sound, Published
<1> QED BY <1>1, <1>2, DiskGrows

(* A command that has ended knows nothing any more.                         *)
LEMMA PointsIdle ==
  ASSUME op' = OpIdle, pc' = "cand_final_wait" /\ res' = "ok" => Sound(proc.rel)'
  PROVE  Points'
BY DEF OpIdle, Points, FinalizePoints, ReconcilePoints, FlipPoints, GcPoints, ConvertPoints,
  Finalized

(* A command that goes on knows what belongs to its own points.             *)
LEMMA PointsOn ==
  ASSUME op' # OpIdle
  PROVE  /\ op'.name = "finalize" /\ FinalizePoints' => Points'
         /\ op'.name = "reconcile" /\ ReconcilePoints' => Points'
         /\ op'.name \in {"activate", "rollback_activation"} /\ FlipPoints' => Points'
         /\ op'.name = "gc" /\ GcPoints' => Points'
         /\ op'.name \in {"convert", "rollback_conversion"} /\ ConvertPoints' => Points'
BY DEF Points, FinalizePoints, ReconcilePoints, FlipPoints, GcPoints, ConvertPoints,
  Finalized

(* The command moves to its next point, or ends.                            *)
LEMMA GotoIs ==
  ASSUME StoreTypeOK, op.name # "none", NEW step, Goto(step)
  PROVE  /\ op' # OpIdle /\ op'.at = step /\ op'.name = op.name /\ op'.id = op.id
         /\ op'.att = op.att /\ op'.old = op.old /\ op'.keep = op.keep
<1>1. op \in Commands /\ op' = [op EXCEPT !.at = step]
  BY DEF StoreTypeOK, Goto
<1>2. /\ op'.at = step /\ op'.name = op.name /\ op'.id = op.id
      /\ op'.att = op.att /\ op'.old = op.old /\ op'.keep = op.keep
  BY <1>1 DEF Commands
<1> QED BY <1>2 DEF OpIdle

LEMMA StageStore ==
  ASSUME TypeInv, Hand, CommandFits, Disk, Aside, op # OpIdle, op.name = "stage", StageCandidate
  PROVE  (Disk /\ Points)'
<1>1. pc = "cand_stage_wait"
  BY DEF CommandFits
<1>2. op' = OpIdle /\ UNCHANGED <<tree, manifest, selector, prevRec, convRec>>
  BY DEF StageCandidate, Return
<1> QED BY <1>1, <1>2, DiskQuiet, PointsIdle DEF Aside

LEMMA RaisesStore ==
  ASSUME TypeInv, Hand, CommandFits, Disk, Points, Aside, CommandRaises
  PROVE  (Disk /\ Points)'
<1>1. UNCHANGED diskVars /\ Disk' /\ StoreTypeOK
  BY DiskQuiet DEF CommandRaises, diskVars, TypeInv, EngineTypeOK
<1>2. CASE op.name = "finalize" /\ op.at \notin {"cleanup", "unlink"}
  <2>1. Goto("cleanup")
    BY <1>2 DEF CommandRaises
  <2>2. op' # OpIdle /\ op'.name = "finalize" /\ op'.at = "cleanup"
    BY <1>1, <1>2, <2>1, GotoIs
  <2> QED BY <1>1, <2>2, PointsOn DEF FinalizePoints
<1>3. CASE op.name \in {"activate", "rollback_activation"} /\ op.at = "verify"
  <2>1. Goto("restore")
    BY <1>3 DEF CommandRaises
  <2>2. op' # OpIdle /\ op'.name = op.name /\ op'.at = "restore" /\ op'.old = op.old /\ op'.id = op.id
    BY <1>1, <1>3, <2>1, GotoIs
  <2>3. FlipPoints'
    BY <1>1, <1>3, <2>2 DEF Points, FlipPoints, Sound, Published, diskVars
  <2> QED BY <1>1, <1>3, <2>2, <2>3, PointsOn
<1>4. CASE /\ ~(op.name = "finalize" /\ op.at \notin {"cleanup", "unlink"})
           /\ ~(op.name \in {"activate", "rollback_activation"} /\ op.at = "verify")
  <2>1. op' = OpIdle /\ res' = "err"
    BY <1>4 DEF CommandRaises, Return
  <2> QED BY <1>1, <2>1, PointsIdle
<1> QED BY <1>2, <1>3, <1>4

LEMMA FinalizeStore ==
  ASSUME TypeInv, Hand, CommandFits, Disk, Points, Aside, op # OpIdle, op.name = "finalize",
         FinalizeCheck \/ FinalizeManifest \/ FinalizeRename \/ FinalizeVerify
           \/ FinalizeCleanup \/ FinalizeUnlink
  PROVE  (Disk /\ Points)'
<1>1. /\ proc.att \in Attempts /\ op.att = proc.att /\ op.id \in Releases /\ op.id = proc.rel
      /\ Doc.phase = "candidate_intent" /\ op.id \in Runtimes /\ op.id # Legacy
      /\ proc.att \notin {"absent"}
  BY CommandHand, LegacyIsNoRelease, IdsAreNoMarkers DEF Runtimes
<1>2. StoreTypeOK /\ tree \in [Runtimes -> {"absent", "partial", "valid"}]
        /\ manifest \in [Runtimes -> {"absent", "legacy", "installer"} \cup Attempts]
  BY DEF TypeInv, EngineTypeOK, StoreTypeOK
<1>3. FinalizePoints
  BY DEF Points
<1>4. CASE FinalizeCheck
  <2>1. UNCHANGED diskVars
    BY <1>4 DEF FinalizeCheck
  <2>2. CASE Goto("manifest") /\ tree[op.id] = "absent"
    <3>1. /\ op' # OpIdle /\ op'.at = "manifest" /\ op'.name = "finalize" /\ op'.id = op.id
      BY <1>2, <2>2, GotoIs
    <3> QED BY <2>1, <2>2, <3>1, DiskQuiet, PointsOn DEF FinalizePoints, diskVars
  <2>3. CASE Goto("cleanup")
    <3>1. /\ op' # OpIdle /\ op'.at = "cleanup" /\ op'.name = "finalize"
      BY <1>2, <2>3, GotoIs
    <3> QED BY <2>1, <3>1, DiskQuiet, PointsOn DEF FinalizePoints, diskVars
  <2> QED BY <1>4, <2>2, <2>3 DEF FinalizeCheck
<1>5. CASE FinalizeManifest
  <2>1. /\ tree[op.id] = "absent" /\ manifest' = [manifest EXCEPT ![op.id] = op.att]
        /\ Goto("rename") /\ UNCHANGED <<tree, staging, selector, prevRec, convRec>>
    BY <1>3, <1>5 DEF FinalizeManifest, At, FinalizePoints
  <2>2. /\ manifest'[op.id] = proc.att /\ \A r \in Runtimes \ {op.id} : manifest'[r] = manifest[r]
    BY <1>1, <1>2, <2>1
  <2>3. \A r \in Runtimes : Sound(r) => Sound(r)'
    BY <2>1, <2>2 DEF Sound, Published
  <2>4. op.id # selector /\ op.id # prevRec.previous
    BY <1>1, <2>1 DEF Disk, SelectorIntact, PreviousKept, Sound
  <2>5. OwnersApart'
    <3>1. SUFFICES ASSUME NEW r \in Runtimes, NEW a \in Attempts, manifest'[r] = a
                   PROVE  /\ tx'[a].phase # "none" /\ r # Legacy
                          /\ (tx'[a].phase \in PreDowntimePhases => r # selector' /\ r # prevRec'.previous)
      BY DEF OwnersApart
    <3>2. CASE r = op.id
      BY <1>1, <2>1, <2>2, <2>4, <3>1, <3>2 DEF Aside, Doc
    <3>3. CASE r # op.id
      BY <2>1, <2>2, <3>1, <3>3 DEF Aside, Disk, OwnersApart
    <3> QED BY <3>2, <3>3
  <2>6. Disk'
    BY <1>1, <2>1, <2>3, <2>5, DiskGrows
  <2>7. op' # OpIdle /\ op'.at = "rename" /\ op'.name = "finalize" /\ op'.id = op.id
    BY <1>2, <2>1, GotoIs
  <2> QED BY <1>1, <2>1, <2>2, <2>6, <2>7, PointsOn DEF FinalizePoints, Published
<1>6. CASE FinalizeRename
  <2>1. /\ Published(op.id) /\ tree[op.id] = "absent" /\ tree' = [tree EXCEPT ![op.id] = "valid"]
        /\ Goto("verify") /\ UNCHANGED <<manifest, selector, prevRec, convRec>>
    BY <1>3, <1>6 DEF FinalizeRename, At, FinalizePoints
  <2>2. tree'[op.id] = "valid" /\ \A r \in Runtimes \ {op.id} : tree'[r] = tree[r]
    BY <1>1, <1>2, <2>1
  <2>3. (\A r \in Runtimes : Sound(r) => Sound(r)') /\ tree'[Legacy] = tree[Legacy]
    BY <1>1, <2>1, <2>2 DEF Sound, Published, Runtimes
  <2>4. OwnersApart'
    BY <2>1 DEF Aside, Disk, OwnersApart
  <2>5. Disk'
    BY <2>1, <2>3, <2>4, DiskGrows
  <2>6. op' # OpIdle /\ op'.at = "verify" /\ op'.name = "finalize" /\ op'.id = op.id
    BY <1>2, <2>1, GotoIs
  <2> QED BY <2>1, <2>2, <2>5, <2>6, PointsOn DEF FinalizePoints, Published, Sound
<1>7. CASE FinalizeVerify
  <2>1. op' = OpIdle /\ UNCHANGED diskVars /\ Sound(proc.rel)
    BY <1>1, <1>3, <1>7 DEF FinalizeVerify, Return, FinalizePoints, At
  <2> QED BY <2>1, DiskQuiet, PointsIdle DEF Aside, Sound, Published, diskVars
<1>8. CASE FinalizeCleanup
  <2>1. UNCHANGED <<tree, manifest, selector, prevRec, convRec>>
    BY <1>8 DEF FinalizeCleanup
  <2>2. CASE Goto("unlink") /\ tree[op.id] = "absent"
    <3>1. op' # OpIdle /\ op'.at = "unlink" /\ op'.name = "finalize" /\ op'.id = op.id
      BY <1>2, <2>2, GotoIs
    <3> QED BY <2>1, <2>2, <3>1, DiskQuiet, PointsOn DEF FinalizePoints
  <2>3. CASE Return("err")
    BY <2>1, <2>3, DiskQuiet, PointsIdle DEF Return
  <2> QED BY <1>8, <2>2, <2>3 DEF FinalizeCleanup
<1>9. CASE FinalizeUnlink
  <2>1. /\ tree[op.id] = "absent" /\ manifest' = [manifest EXCEPT ![op.id] = "absent"]
        /\ op' = OpIdle /\ res' = "err" /\ UNCHANGED <<tree, staging, selector, prevRec, convRec>>
    BY <1>3, <1>9 DEF FinalizeUnlink, At, FinalizePoints, Return
  <2>2. Disk'
    <3>1. /\ manifest'[op.id] = "absent" /\ \A r \in Runtimes \ {op.id} : manifest'[r] = manifest[r]
      BY <1>1, <1>2, <2>1
    <3>2. \A r \in Runtimes : Sound(r) => Sound(r)'
      BY <2>1, <3>1 DEF Sound, Published
    <3>3. OwnersApart'
      BY <2>1, <3>1, IdsAreNoMarkers DEF Aside, Disk, OwnersApart
    <3> QED BY <2>1, <3>2, <3>3, DiskGrows
  <2> QED BY <2>1, <2>2, PointsIdle
<1> QED BY <1>4, <1>5, <1>6, <1>7, <1>8, <1>9

LEMMA PreDowntimeUnderWay ==
  \A p \in PreDowntimePhases : p \in UnderWay /\ p \in OpenPhases
BY PreDowntimeOpen DEF UnderWay

(* What a reconciliation removes is its own attempt's candidate.            *)
LEMMA OwnCandidate ==
  ASSUME TypeInv, Hand, CommandFits, Disk, op # OpIdle, op.name = "reconcile",
         manifest[op.id] = op.att
  PROVE  /\ op.id # selector /\ op.id # prevRec.previous /\ op.id # Legacy
         /\ pc \notin CandidateSteps
         /\ \A a \in Attempts : IsOpen(tx[a]) => op.id # before[a].selector
<1>1. /\ proc.att \in Attempts /\ op.att = proc.att /\ op.id \in Runtimes
      /\ \A a \in Attempts : IsOpen(tx[a]) => a = proc.att
      /\ Doc.phase \in PreDowntimePhases /\ pc \in {"rec_cand_wait", "exit_cand_wait"}
  BY CommandHand DEF Runtimes
<1>2. op.id # selector /\ op.id # prevRec.previous /\ op.id # Legacy
  BY <1>1 DEF Disk, OwnersApart, Doc
<1>3. IsOpen(tx[proc.att]) => WayBack(proc.att)
  BY <1>1 DEF Disk, BeforeKept
<1>4. selector = before[proc.att].selector \/ ~IsOpen(tx[proc.att])
  BY <1>1, <1>3, PreDowntimeUnderWay DEF WayBack, Doc
<1> QED BY <1>1, <1>2, <1>4 DEF CandidateSteps

LEMMA RejectStore ==
  ASSUME TypeInv, Hand, CommandFits, Disk, Points, Aside, op # OpIdle, op.name = "reconcile",
         Reject
  PROVE  (Disk /\ Points)'
<1>1. CASE Return("err") /\ UNCHANGED tree
  <2>1. op' = OpIdle /\ res' = "err" /\ UNCHANGED <<tree, manifest, selector, prevRec, convRec>>
    BY <1>1 DEF Reject, Return
  <2> QED BY <2>1, DiskQuiet, PointsIdle
<1>2. CASE /\ manifest[op.id] = op.att
           /\ tree' = [tree EXCEPT ![op.id] = "partial"] /\ Goto("remove")
  <2>1. /\ StoreTypeOK /\ op.id \in Runtimes /\ UNCHANGED <<manifest, selector, prevRec, convRec>>
        /\ \A r \in Runtimes \ {op.id} : tree'[r] = tree[r]
    BY <1>2 DEF Reject, TypeInv, EngineTypeOK, StoreTypeOK, OpShape
  <2>2. Disk'
    BY <1>2, <2>1, OwnCandidate, DiskLoses
  <2>3. op' # OpIdle /\ op'.name = "reconcile" /\ op'.id = op.id /\ op'.att = op.att
    BY <1>2, <2>1, GotoIs
  <2> QED BY <1>2, <2>1, <2>2, <2>3, PointsOn DEF ReconcilePoints
<1> QED BY <1>1, <1>2 DEF Reject

LEMMA ReconcileStore ==
  ASSUME TypeInv, Hand, CommandFits, Disk, Points, Aside, op # OpIdle, op.name = "reconcile",
         ReconcileStaging \/ ReconcileAbsent \/ ReconcileRetain \/ ReconcileReject
           \/ ReconcileMisjudges \/ ReconcileRemove \/ ReconcileUnlink
  PROVE  (Disk /\ Points)'
<1>1. StoreTypeOK /\ op.id \in Runtimes /\ ReconcilePoints
  BY DEF TypeInv, EngineTypeOK, OpShape, Points
<1>2. tree \in [Runtimes -> {"absent", "partial", "valid"}]
        /\ manifest \in [Runtimes -> {"absent", "legacy", "installer"} \cup Attempts]
  BY <1>1 DEF StoreTypeOK
<1>3. CASE ReconcileStaging
  <2>1. Goto("final") /\ UNCHANGED <<tree, manifest, selector, prevRec, convRec>>
    BY <1>3 DEF ReconcileStaging
  <2>2. op' # OpIdle /\ op'.name = "reconcile" /\ op'.at = "final"
    BY <1>1, <2>1, GotoIs
  <2> QED BY <2>1, <2>2, DiskQuiet, PointsOn DEF ReconcilePoints
<1>4. CASE ReconcileAbsent
  <2>1. /\ tree[op.id] = "absent" /\ op' = OpIdle
        /\ UNCHANGED <<tree, selector, prevRec, convRec>>
        /\ manifest' = manifest \/ manifest' = [manifest EXCEPT ![op.id] = "absent"]
    BY <1>4 DEF ReconcileAbsent, Return
  <2>2. pc # "cand_final_wait"
    BY CommandHand
  <2>3. \A r \in Runtimes : manifest'[r] = manifest[r] \/ (r = op.id /\ manifest'[r] = "absent")
    BY <1>1, <1>2, <2>1
  <2>4. \A r \in Runtimes : Sound(r) => Sound(r)'
    BY <2>1, <2>3 DEF Sound, Published
  <2>5. OwnersApart'
    BY <2>1, <2>3, IdsAreNoMarkers DEF Aside, Disk, OwnersApart
  <2> QED BY <2>1, <2>2, <2>4, <2>5, DiskGrows, PointsIdle DEF Aside
<1>5. CASE ReconcileRetain
  <2>1. op' = OpIdle /\ UNCHANGED diskVars /\ pc # "cand_final_wait"
    BY <1>5, CommandHand DEF ReconcileRetain, Return
  <2> QED BY <2>1, DiskQuiet, PointsIdle DEF diskVars, Aside
<1>6. CASE ReconcileReject \/ ReconcileMisjudges
  BY <1>6, RejectStore DEF ReconcileReject, ReconcileMisjudges
<1>7. CASE ReconcileRemove
  <2>1. /\ manifest[op.id] = op.att /\ tree' = [tree EXCEPT ![op.id] = "absent"]
        /\ Goto("unlink") /\ UNCHANGED <<manifest, selector, prevRec, convRec>>
    BY <1>1, <1>7 DEF ReconcileRemove, ReconcilePoints, At
  <2>2. \A r \in Runtimes \ {op.id} : tree'[r] = tree[r]
    BY <1>2, <2>1
  <2>3. Disk'
    BY <1>1, <2>1, <2>2, OwnCandidate, DiskLoses
  <2>4. op' # OpIdle /\ op'.name = "reconcile" /\ op'.id = op.id /\ op'.att = op.att
    BY <1>1, <2>1, GotoIs
  <2> QED BY <2>1, <2>3, <2>4, PointsOn DEF ReconcilePoints
<1>8. CASE ReconcileUnlink
  <2>1. /\ manifest[op.id] = op.att /\ manifest' = [manifest EXCEPT ![op.id] = "absent"]
        /\ op' = OpIdle /\ UNCHANGED <<tree, selector, prevRec, convRec>>
    BY <1>1, <1>8 DEF ReconcileUnlink, ReconcilePoints, At, Return
  <2>2. manifest'[op.id] = "absent" /\ \A r \in Runtimes \ {op.id} : manifest'[r] = manifest[r]
    BY <1>1, <1>2, <2>1
  <2>3. Disk'
    BY <1>1, <2>1, <2>2, OwnCandidate, DiskLoses
  <2>4. pc # "cand_final_wait"
    BY CommandHand
  <2> QED BY <2>1, <2>3, <2>4, PointsIdle DEF Aside
<1> QED BY <1>3, <1>4, <1>5, <1>6, <1>7, <1>8

LEMMA GcStore ==
  ASSUME TypeInv, Hand, CommandFits, Disk, Points, Aside, op # OpIdle, op.name = "gc",
         GcStart \/ GcDamage \/ GcRemove \/ GcUnlink \/ GcDone
  PROVE  (Disk /\ Points)'
<1>1. /\ StoreTypeOK /\ GcPoints /\ pc = "gc_wait" /\ \A a \in Attempts : ~IsOpen(tx[a])
      /\ op.at \in {"remove", "unlink"} => op.id \in Runtimes
      /\ "gc_wait" \notin CandidateSteps
  BY CommandHand DEF TypeInv, EngineTypeOK, OpShape, Points, CandidateSteps
<1>2. tree \in [Runtimes -> {"absent", "partial", "valid"}] /\ op \in Commands
        /\ manifest \in [Runtimes -> {"absent", "legacy", "installer"} \cup Attempts]
  BY <1>1 DEF StoreTypeOK
<1>3. CASE GcStart
  <2>1. UNCHANGED diskVars /\ Disk'
    BY <1>3, DiskQuiet DEF GcStart, diskVars
  <2>2. CASE SelectorValid /\ op' = [op EXCEPT !.at = "sweep", !.keep = {selector, prevRec.previous}]
    <3>1. op'.name = "gc" /\ op'.at = "sweep" /\ op'.keep = {selector, prevRec.previous}
      BY <1>2, <2>2 DEF Commands
    <3>2. GcPoints'
      BY <2>1, <2>2, <3>1 DEF GcPoints, SelectorValid, diskVars
    <3> QED BY <2>1, <3>1, <3>2, PointsOn DEF OpIdle
  <2>3. CASE Return("err")
    BY <2>1, <2>3, PointsIdle DEF Return
  <2> QED BY <1>3, <2>2, <2>3 DEF GcStart
<1>4. CASE GcDamage
  <2>1. PICK d \in Collectable :
          /\ tree' = [tree EXCEPT ![d] = "partial"]
          /\ op' = [op EXCEPT !.at = "remove", !.id = d]
    BY <1>4 DEF GcDamage
  <2>2. /\ op.at = "sweep" /\ selector \in Runtimes /\ op.keep = {selector, prevRec.previous}
        /\ d \in Runtimes \ op.keep /\ UNCHANGED <<manifest, selector, prevRec, convRec>>
    BY <1>1, <1>4, <2>1 DEF GcDamage, At, GcPoints, Collectable
  <2>3. \A r \in Runtimes \ {d} : tree'[r] = tree[r]
    BY <1>2, <2>1, <2>2
  <2>4. Disk'
    BY <1>1, <2>2, <2>3, DiskLoses
  <2>5. op'.name = "gc" /\ op'.at = "remove" /\ op'.keep = op.keep /\ op'.id = d
    BY <1>2, <2>1 DEF Commands
  <2>6. GcPoints'
    BY <2>2, <2>5 DEF GcPoints
  <2> QED BY <2>4, <2>5, <2>6, PointsOn DEF OpIdle
<1>5. CASE GcRemove
  <2>1. /\ op.at = "remove" /\ selector \in Runtimes /\ op.keep = {selector, prevRec.previous}
        /\ op.id \notin op.keep /\ UNCHANGED <<manifest, selector, prevRec, convRec>>
        /\ tree' = [tree EXCEPT ![op.id] = "absent"] /\ Goto("unlink")
    BY <1>1, <1>5 DEF GcRemove, At, GcPoints
  <2>2. \A r \in Runtimes \ {op.id} : tree'[r] = tree[r]
    BY <1>1, <1>2, <2>1
  <2>3. Disk'
    BY <1>1, <2>1, <2>2, DiskLoses
  <2>4. op' # OpIdle /\ op'.name = "gc" /\ op'.keep = op.keep /\ op'.id = op.id
    BY <1>1, <2>1, GotoIs
  <2>5. GcPoints'
    BY <2>1, <2>4 DEF GcPoints
  <2> QED BY <2>3, <2>4, <2>5, PointsOn
<1>6. CASE GcUnlink
  <2>1. /\ op.at = "unlink" /\ selector \in Runtimes /\ op.keep = {selector, prevRec.previous}
        /\ op.id \notin op.keep /\ UNCHANGED <<tree, selector, prevRec, convRec>>
        /\ manifest' = [manifest EXCEPT ![op.id] = "absent"] /\ Goto("sweep")
    BY <1>1, <1>6 DEF GcUnlink, At, GcPoints
  <2>2. manifest'[op.id] = "absent" /\ \A r \in Runtimes \ {op.id} : manifest'[r] = manifest[r]
    BY <1>1, <1>2, <2>1
  <2>3. Disk'
    BY <1>1, <2>1, <2>2, DiskLoses
  <2>4. op' # OpIdle /\ op'.name = "gc" /\ op'.keep = op.keep /\ op'.at = "sweep"
    BY <1>1, <2>1, GotoIs
  <2>5. GcPoints'
    BY <2>1, <2>4 DEF GcPoints
  <2> QED BY <2>3, <2>4, <2>5, PointsOn
<1>7. CASE GcDone
  <2>1. op' = OpIdle /\ UNCHANGED diskVars
    BY <1>7 DEF GcDone, Return
  <2> QED BY <1>1, <2>1, DiskQuiet, PointsIdle DEF diskVars, Aside
<1> QED BY <1>3, <1>4, <1>5, <1>6, <1>7

(* A conversion runs past the point where the selector must be untouched.   *)
LEMMA ConvertingHand ==
  ASSUME TypeInv, Hand, CommandFits, op # OpIdle,
         op.name \in {"convert", "rollback_conversion"}
  PROVE  /\ proc.att \in Attempts /\ ConvertedBy(proc.att) /\ Doc.phase \notin UnderWay
         /\ \A a \in Attempts : IsOpen(tx[a]) => a = proc.att
         /\ pc # "cand_final_wait"
<1>1. \A p \in RollbackPhases \cup {"conversion_intent"} : p \notin UnderWay
  BY DEF RollbackPhases, UnderWay, PreDowntimePhases
<1>2. pc # "cand_final_wait"
  BY DEF CommandFits
<1> QED BY <1>1, <1>2, CommandHand

(* A step of a conversion that leaves trees and selector alone.             *)
LEMMA ConvertQuiet ==
  ASSUME TypeInv, Hand, CommandFits, Disk, Points, Aside, op # OpIdle, op.name = "convert",
         UNCHANGED <<tree, manifest, selector, prevRec>>,
         convRec' = convRec \/ convRec' # "none",
         \/ op' = OpIdle
         \/ /\ op' # OpIdle /\ op'.name = "convert" /\ convRec' # "none"
            /\ op'.at \in {"publish", "published", "finish"} => Published(Legacy)
  PROVE  (Disk /\ Points)'
<1>1. Disk'
  BY DiskQuiet
<1>2. CASE op' = OpIdle
  BY <1>1, <1>2, ConvertingHand, PointsIdle DEF Aside
<1>3. CASE /\ op' # OpIdle /\ op'.name = "convert" /\ convRec' # "none"
           /\ op'.at \in {"publish", "published", "finish"} => Published(Legacy)
  BY <1>1, <1>3, PointsOn DEF ConvertPoints, Published
<1> QED BY <1>2, <1>3

LEMMA ConvertStore ==
  ASSUME TypeInv, Hand, CommandFits, Disk, Points, Aside, op # OpIdle, op.name = "convert",
         ConvertStart \/ ConvertMove \/ ConvertMoved \/ ConvertManifest \/ ConvertPublish
           \/ ConvertPublished \/ ConvertFinish
  PROVE  (Disk /\ Points)'
<1>1. /\ StoreTypeOK /\ ConvertPoints /\ Legacy \in Runtimes /\ "dir" \notin Runtimes
      /\ "absent" \notin Runtimes
  BY IdsAreNoMarkers DEF TypeInv, EngineTypeOK, Points, Runtimes
<1>2. tree \in [Runtimes -> {"absent", "partial", "valid"}] /\ op \in Commands
        /\ manifest \in [Runtimes -> {"absent", "legacy", "installer"} \cup Attempts]
        /\ selector \in {"absent", "dir"} \cup Runtimes
  BY <1>1 DEF StoreTypeOK
<1>3. CASE ConvertStart
  <2>1. UNCHANGED <<tree, manifest, selector, prevRec>>
    BY <1>3 DEF ConvertStart
  <2>2. \/ Goto("move") /\ convRec # "none" /\ convRec' = convRec
        \/ op' = OpIdle /\ convRec' = convRec
        \/ Goto("move") /\ convRec' = "recorded"
    BY <1>3 DEF ConvertStart, Return
  <2>3. Goto("move") => op' # OpIdle /\ op'.name = "convert" /\ op'.at = "move"
    BY <1>1, GotoIs
  <2> QED BY <2>1, <2>2, <2>3, ConvertQuiet
<1>4. CASE ConvertMove
  <2>1. convRec # "none" /\ UNCHANGED <<manifest, prevRec, convRec>>
    BY <1>1, <1>4 DEF ConvertMove, At, ConvertPoints
  <2>2. CASE /\ selector = "dir" /\ tree[Legacy] = "absent" /\ selector' = "absent"
             /\ tree' = [tree EXCEPT ![Legacy] = "valid"] /\ Goto("moved")
    <3>1. /\ tree'[Legacy] = "valid" /\ \A r \in Runtimes \ {Legacy} : tree'[r] = tree[r]
      BY <1>1, <1>2, <2>2
    <3>2. Disk'
      BY <1>1, <2>1, <2>2, <3>1, ConvertingHand, DiskConverts DEF Doc
    <3>3. op' # OpIdle /\ op'.name = "convert" /\ op'.at = "moved"
      BY <1>1, <2>2, GotoIs
    <3> QED BY <2>1, <3>2, <3>3, PointsOn DEF ConvertPoints
  <2>3. CASE Goto("manifest") /\ UNCHANGED <<tree, selector>>
    <3>1. op' # OpIdle /\ op'.name = "convert" /\ op'.at = "manifest"
      BY <1>1, <2>3, GotoIs
    <3> QED BY <2>1, <2>3, <3>1, ConvertQuiet
  <2> QED BY <1>4, <2>2, <2>3 DEF ConvertMove
<1>5. CASE ConvertMoved
  <2>1. /\ convRec' = "moved" /\ Goto("manifest") /\ UNCHANGED <<tree, manifest, selector, prevRec>>
    BY <1>5 DEF ConvertMoved
  <2>2. op' # OpIdle /\ op'.name = "convert" /\ op'.at = "manifest"
    BY <1>1, <2>1, GotoIs
  <2> QED BY <2>1, <2>2, ConvertQuiet
<1>6. CASE ConvertManifest
  <2>1. /\ convRec # "none" /\ UNCHANGED <<tree, selector, prevRec, convRec>> /\ Goto("publish")
        /\ manifest' = IF Published(Legacy) THEN manifest ELSE [manifest EXCEPT ![Legacy] = "legacy"]
    BY <1>1, <1>6 DEF ConvertManifest, At, ConvertPoints
  <2>2. /\ manifest'[Legacy] # "absent" /\ manifest'[Legacy] \in {manifest[Legacy], "legacy"}
        /\ \A r \in Runtimes \ {Legacy} : manifest'[r] = manifest[r]
    BY <1>1, <1>2, <2>1 DEF Published
  <2>3. \A r \in Runtimes : Sound(r) => Sound(r)'
    BY <2>1, <2>2 DEF Sound, Published
  <2>4. OwnersApart'
    <3>1. ASSUME NEW r \in Runtimes, NEW a \in Attempts, manifest'[r] = a
          PROVE  manifest[r] = a
      BY <2>2, <3>1, IdsAreNoMarkers
    <3> QED BY <2>1, <3>1 DEF Aside, Disk, OwnersApart
  <2>5. Disk'
    BY <2>1, <2>3, <2>4, DiskGrows
  <2>6. op' # OpIdle /\ op'.name = "convert" /\ op'.at = "publish"
    BY <1>1, <2>1, GotoIs
  <2> QED BY <2>1, <2>2, <2>5, <2>6, PointsOn DEF ConvertPoints, Published
<1>7. CASE ConvertPublish
  <2>1. /\ convRec # "none" /\ Published(Legacy) /\ UNCHANGED <<tree, manifest, prevRec, convRec>>
    BY <1>1, <1>7 DEF ConvertPublish, At, ConvertPoints
  <2>2. CASE selector \in Runtimes
    <3>1. Goto("finish") /\ UNCHANGED selector
      BY <1>1, <1>7, <2>2 DEF ConvertPublish
    <3>2. op' # OpIdle /\ op'.name = "convert" /\ op'.at = "finish"
      BY <1>1, <3>1, GotoIs
    <3> QED BY <2>1, <3>1, <3>2, ConvertQuiet
  <2>3. CASE selector = "dir"
    <3>1. op' = OpIdle /\ UNCHANGED selector
      BY <1>1, <1>7, <2>3 DEF ConvertPublish, Return
    <3> QED BY <2>1, <3>1, ConvertQuiet
  <2>4. CASE selector = "absent"
    <3>1. selector' = Legacy /\ Goto("published")
      BY <1>1, <1>7, <2>4 DEF ConvertPublish
    <3>2. tree[Legacy] = "valid"
      BY <2>4 DEF Disk, AbsentMeansMoved
    <3>3. Disk'
      BY <1>1, <2>1, <3>1, <3>2, ConvertingHand, DiskConverts DEF Doc
    <3>4. op' # OpIdle /\ op'.name = "convert" /\ op'.at = "published"
      BY <1>1, <3>1, GotoIs
    <3> QED BY <2>1, <3>3, <3>4, PointsOn DEF ConvertPoints, Published
  <2> QED BY <1>2, <2>2, <2>3, <2>4
<1>8. CASE ConvertPublished
  <2>1. /\ convRec' = "published" /\ Goto("finish") /\ Published(Legacy)
        /\ UNCHANGED <<tree, manifest, selector, prevRec>>
    BY <1>1, <1>8 DEF ConvertPublished, At, ConvertPoints
  <2>2. op' # OpIdle /\ op'.name = "convert" /\ op'.at = "finish"
    BY <1>1, <2>1, GotoIs
  <2> QED BY <2>1, <2>2, ConvertQuiet
<1>9. CASE ConvertFinish
  <2>1. op' = OpIdle /\ UNCHANGED <<tree, manifest, selector, prevRec>>
    BY <1>9 DEF ConvertFinish, Return
  <2>2. CASE UNCHANGED convRec
    BY <2>1, <2>2, ConvertQuiet
  <2>3. CASE SelectorValid
    <3>1. Sound(Legacy) /\ selector \in Runtimes
      BY <2>3, ConvertingHand DEF Disk, LegacyKept, SelectorValid
    <3>2. Disk'
      BY <1>1, <2>1, <3>1, ConvertingHand, DiskConverts DEF Doc, Sound
    <3> QED BY <2>1, <3>2, ConvertingHand, PointsIdle DEF Aside
  <2> QED BY <1>9, <2>2, <2>3 DEF ConvertFinish
<1> QED BY <1>3, <1>4, <1>5, <1>6, <1>7, <1>8, <1>9

LEMMA UnconvertStore ==
  ASSUME TypeInv, Hand, CommandFits, Disk, Points, Aside, op # OpIdle,
         op.name = "rollback_conversion",
         UnconvertUnlink \/ UnconvertRestore \/ UnconvertRecord
  PROVE  (Disk /\ Points)'
<1>1. /\ StoreTypeOK /\ ConvertPoints /\ Legacy \in Runtimes /\ "dir" \notin Runtimes
      /\ "absent" \notin Runtimes
  BY IdsAreNoMarkers DEF TypeInv, EngineTypeOK, Points, Runtimes
<1>2. tree \in [Runtimes -> {"absent", "partial", "valid"}] /\ op \in Commands
        /\ selector \in {"absent", "dir"} \cup Runtimes
  BY <1>1 DEF StoreTypeOK
<1>3. CASE UnconvertUnlink
  <2>1. /\ selector' = IF selector \in Runtimes THEN "absent" ELSE selector
        /\ Goto("restore") /\ UNCHANGED <<tree, manifest, prevRec, convRec>>
    BY <1>3 DEF UnconvertUnlink
  <2>2. op' # OpIdle /\ op'.name = "rollback_conversion" /\ op'.at = "restore"
    BY <1>1, <2>1, GotoIs
  <2>3. Disk'
    <3>1. CASE selector \in Runtimes
      <4>1. Sound(Legacy)
        BY <3>1, ConvertingHand DEF Disk, LegacyKept
      <4> QED BY <1>1, <2>1, <3>1, <4>1, ConvertingHand, DiskConverts DEF Doc, Sound
    <3>2. CASE selector \notin Runtimes
      BY <2>1, <3>2, DiskQuiet
    <3> QED BY <3>1, <3>2
  <2> QED BY <1>1, <2>1, <2>2, <2>3, PointsOn DEF ConvertPoints
<1>4. CASE UnconvertRestore
  <2>1. selector \notin Runtimes /\ Goto("record") /\ UNCHANGED <<manifest, prevRec, convRec>>
    BY <1>1, <1>4 DEF UnconvertRestore, At, ConvertPoints
  <2>2. op' # OpIdle /\ op'.name = "rollback_conversion" /\ op'.at = "record"
    BY <1>1, <2>1, GotoIs
  <2>3. CASE selector = "absent"
    <3>1. tree[Legacy] = "valid"
      BY <2>3 DEF Disk, AbsentMeansMoved
    <3>2. selector' = "dir" /\ tree' = [tree EXCEPT ![Legacy] = "absent"]
      BY <1>4, <2>3, <3>1 DEF UnconvertRestore
    <3>3. /\ tree'[Legacy] = "absent" /\ \A r \in Runtimes \ {Legacy} : tree'[r] = tree[r]
      BY <1>1, <1>2, <3>2
    <3>4. Disk'
      BY <1>1, <2>1, <3>2, <3>3, ConvertingHand, DiskConverts DEF Doc
    <3> QED BY <1>1, <2>2, <3>2, <3>4, PointsOn DEF ConvertPoints
  <2>4. CASE selector = "dir"
    <3>1. UNCHANGED <<tree, selector>>
      BY <1>4, <2>4 DEF UnconvertRestore
    <3> QED BY <1>1, <2>1, <2>2, <2>4, <3>1, DiskQuiet, PointsOn DEF ConvertPoints
  <2> QED BY <1>2, <2>1, <2>3, <2>4
<1>5. CASE UnconvertRecord
  <2>1. selector = "dir" /\ op' = OpIdle /\ UNCHANGED <<tree, manifest, selector, prevRec>>
    BY <1>1, <1>5 DEF UnconvertRecord, At, ConvertPoints, Return
  <2>2. Disk'
    BY <1>1, <2>1, ConvertingHand, DiskConverts DEF Doc
  <2> QED BY <2>1, <2>2, ConvertingHand, PointsIdle DEF Aside
<1> QED BY <1>3, <1>4, <1>5

LEMMA FlippingHand ==
  ASSUME TypeInv, Hand, CommandFits, op # OpIdle,
         op.name \in {"activate", "rollback_activation"}
  PROVE  /\ \A a \in Attempts : IsOpen(tx[a]) => tx[a].phase \notin UnderWay
         /\ pc # "cand_final_wait"
<1>1. \A p \in RollbackPhases \cup {"activation_intent"} : p \notin UnderWay
  BY DEF RollbackPhases, UnderWay, PreDowntimePhases
<1>2. pc # "cand_final_wait"
  BY DEF CommandFits
<1> QED BY <1>1, <1>2, CommandHand DEF Doc

(* The targets of a flip, and of its undoing, are sound.                    *)
LEMMA FlipGates ==
  ASSUME TypeInv, Hand, CommandFits, Disk, Points, Aside, op # OpIdle,
         ActivateGate \/ DeactivateGate
  PROVE  (Disk /\ Points)'
<1>1. StoreTypeOK /\ op \in Commands /\ prevRec.previous \in Runtimes \cup {"none"}
  BY DEF TypeInv, EngineTypeOK, StoreTypeOK
<1>2. op.name \in {"activate", "rollback_activation"}
  BY DEF ActivateGate, DeactivateGate, At
<1>3. UNCHANGED <<tree, manifest, selector, convRec>>
  BY DEF ActivateGate, DeactivateGate, diskVars
<1>4. SelectorValid => selector \in Runtimes /\ Sound(selector)
  BY DEF SelectorValid, Disk, SelectorIntact
<1>5. CASE ActivateGate
  <2>1. CASE op' = OpIdle /\ UNCHANGED prevRec
    BY <1>2, <1>3, <2>1, FlippingHand, DiskQuiet, PointsIdle DEF Aside
  <2>2. CASE /\ SelectorValid /\ prevRec' = [previous |-> selector, current |-> op.id]
             /\ op' = [op EXCEPT !.at = "flip", !.old = selector]
    <3>1. prevRec'.previous = selector
      BY <2>2
    <3>2. op.name = "activate" /\ op.id = proc.rel /\ pc = "act_wait"
      BY <1>5 DEF ActivateGate, At, CommandFits
    <3>3. Sound(op.id)
      BY <3>2 DEF Disk, CandidateSound, CandidateSteps
    <3>4. SelectorIntact' /\ AbsentMeansMoved' /\ CandidateSound'
      BY <1>3 DEF Disk, SelectorIntact, AbsentMeansMoved, CandidateSound, Sound, Published, Aside
    <3>5. PreviousKept'
      BY <1>3, <1>4, <2>2, <3>1 DEF PreviousKept, Sound, Published
    <3>6. OwnersApart'
      BY <1>3, <3>1 DEF Disk, OwnersApart, Aside
    <3>7. LegacyKept' /\ BeforeKept'
      BY <1>3 DEF Disk, LegacyKept, ConvertedBy, BeforeKept, WayBack, Sound, Published, Aside
    <3>8. /\ op'.name = "activate" /\ op'.id = op.id /\ op'.old = selector
      BY <1>1, <2>2, <3>2 DEF Commands
    <3>9. FlipPoints'
      BY <1>3, <1>4, <2>2, <3>3, <3>8 DEF FlipPoints, Sound, Published
    <3> QED BY <3>4, <3>5, <3>6, <3>7, <3>8, <3>9, PointsOn DEF Disk, OpIdle
  <2> QED BY <1>5, <2>1, <2>2 DEF ActivateGate, Return
<1>6. CASE DeactivateGate
  <2>1. UNCHANGED prevRec /\ Disk'
    BY <1>3, <1>6, DiskQuiet DEF DeactivateGate, diskVars
  <2>2. CASE op' = OpIdle
    BY <1>2, <2>1, <2>2, FlippingHand, PointsIdle DEF Aside
  <2>3. CASE /\ prevRec.previous # "none" /\ SelectorValid /\ TargetGate(prevRec.previous, TRUE)
             /\ op' = [op EXCEPT !.at = "flip", !.old = selector, !.id = prevRec.previous]
    <3>1. Sound(prevRec.previous)
      BY <1>1, <2>3 DEF Disk, PreviousKept, TargetGate, Runtimes, Sound
    <3>2. /\ op'.name = op.name /\ op'.id = prevRec.previous /\ op'.old = selector
      BY <1>1, <2>3 DEF Commands
    <3>3. FlipPoints'
      BY <1>3, <1>4, <2>3, <3>1, <3>2 DEF FlipPoints, Sound, Published
    <3> QED BY <1>2, <2>1, <3>2, <3>3, PointsOn DEF OpIdle
  <2> QED BY <1>6, <2>2, <2>3 DEF DeactivateGate, Return
<1> QED BY <1>5, <1>6

LEMMA FlipStore ==
  ASSUME TypeInv, Hand, CommandFits, Disk, Points, Aside, op # OpIdle,
         op.name \in {"activate", "rollback_activation"},
         FlipSelector \/ FlipVerified \/ FlipRestored
  PROVE  (Disk /\ Points)'
<1>1. StoreTypeOK
  BY DEF TypeInv, EngineTypeOK
<1>2. selector \in Runtimes /\ Sound(op.old) /\ Sound(op.id) /\ op.old \in Runtimes /\ op.id \in Runtimes
  BY CommandHand DEF Points, FlipPoints, FlipSelector, FlipVerified, FlipRestored, TypeInv, OpShape
<1>3. CASE FlipSelector
  <2>1. selector' = op.id /\ Goto("verify") /\ UNCHANGED <<tree, manifest, prevRec, convRec>>
    BY <1>3 DEF FlipSelector
  <2>2. Disk'
    BY <1>2, <2>1, FlippingHand, DiskFlips
  <2>3. op' # OpIdle /\ op'.name = op.name /\ op'.old = op.old /\ op'.id = op.id
    BY <1>1, <2>1, GotoIs
  <2>4. FlipPoints'
    BY <1>2, <2>1, <2>3 DEF FlipPoints, Sound, Published
  <2> QED BY <2>2, <2>3, <2>4, PointsOn
<1>4. CASE FlipVerified
  <2>1. UNCHANGED diskVars /\ Disk'
    BY <1>4, DiskQuiet DEF FlipVerified, diskVars
  <2>2. CASE op' = OpIdle
    BY <2>1, <2>2, FlippingHand, PointsIdle DEF Aside
  <2>3. CASE Goto("restore")
    <3>1. op' # OpIdle /\ op'.name = op.name /\ op'.old = op.old /\ op'.id = op.id
      BY <1>1, <2>3, GotoIs
    <3>2. FlipPoints'
      BY <1>2, <2>1, <3>1 DEF FlipPoints, Sound, Published, diskVars
    <3> QED BY <2>1, <3>1, <3>2, PointsOn
  <2> QED BY <1>4, <2>2, <2>3 DEF FlipVerified, Return
<1>5. CASE FlipRestored
  <2>1. selector' = op.old /\ op' = OpIdle /\ UNCHANGED <<tree, manifest, prevRec, convRec>>
    BY <1>5 DEF FlipRestored, Return
  <2>2. Disk'
    BY <1>2, <2>1, FlippingHand, DiskFlips
  <2> QED BY <2>1, <2>2, FlippingHand, PointsIdle DEF Aside
<1> QED BY <1>3, <1>4, <1>5

LEMMA CommandStore ==
  ASSUME TypeInv, Hand, CommandFits, Disk, Points, CommandActions
  PROVE  (Disk /\ Points)'
<1>1. Aside /\ op # OpIdle /\ (StoreStep \/ CommandRaises \/ ReconcileMisjudges)
  BY CommandRuns DEF CommandActions, RuntimeCommand, RuntimeCommandFails, Aside
<1>2. CASE CommandRaises
  BY <1>1, <1>2, RaisesStore
<1>3. CASE op.name \in {"stage", "finalize", "reconcile"} /\ ~CommandRaises
  BY <1>1, <1>3, CommandSteps, StageStore, FinalizeStore, ReconcileStore
<1>4. CASE op.name \in {"convert", "rollback_conversion", "gc"} /\ ~CommandRaises
  BY <1>1, <1>4, CommandSteps, ConvertStore, UnconvertStore, GcStore
<1>5. CASE op.name \in {"activate", "rollback_activation"} /\ ~CommandRaises
  BY <1>1, <1>5, CommandSteps, FlipGates, FlipStore
<1> QED BY <1>1, <1>2, <1>3, <1>4, <1>5, CommandSteps

(* The engine holds a candidate for sound only after it has been shown so.  *)
LEMMA EntersCandidate ==
  ASSUME TypeInv, [Next]_vars, pc' \in CandidateSteps
  PROVE  \/ pc \in CandidateSteps /\ proc'.rel = proc.rel
         \/ CandidateReuse \/ CandidateFinalized
<1> USE DEF CandidateSteps
<1>1. CASE MarkActions
  BY <1>1 DEF MarkActions, MarkStep, OwnershipIntent, OwnershipComplete,
    BackupIntent, BackupComplete, CandidateIntent, CandidateReady, DowntimeIntent,
    DowntimeStarted, ConversionIntent, ConversionComplete, TrustIntent, TrustComplete,
    ActivationIntent, Activated, DeployIntent, Deployed, ServiceStartIntent,
    ServiceStarted, HealthVerified, Success
<1>2. CASE CallActions
  BY <1>2, CallActionsGo
<1>3. CASE ResultActions
  <2>1. CASE RecoverCandidateDone \/ CandidateStaged \/ GarbageCollected
    BY <2>1 DEF TakeResult, RecoverCandidateDone, CandidateStaged, GarbageCollected
  <2>2. CASE ConversionResult \/ ActivationResult
    BY <2>2 DEF TakeResult, Answered, ConversionResult, ActivationResult
  <2>3. CASE ExitCandidateDone \/ RollbackActivationDone \/ RollbackConversionDone
    BY <2>3 DEF RollbackCommandDone, ExitCandidateDone, RollbackActivationDone,
      RollbackConversionDone, Exit
  <2> QED BY <1>3, <2>1, <2>2, <2>3 DEF ResultActions
<1>4. CASE CheckpointActions \/ LogicActions
  BY <1>4 DEF CheckpointActions, Checkpoint, RuntimeRestored, FilesRestored,
    ServiceRestoreIntent, LogicActions, StartEngine, Recover, RecoverClassify, RecoverCheck,
    Cancel, BackupOwned, DowntimeFlag, ConversionNotNeeded, TypeInv, EngineTypeOK, ProcTypeOK,
    ActivationGate, HealthPasses, SuccessFlag, Finish, ExitTrap, ExitClassify,
    RollbackEnter, RollbackCheck, NoActivationToUndo, NoConversionToUndo,
    RollbackVerifyRuntime, ServiceRestoreRefused, RollbackHealth, RollbackEnd,
    Exit, RollbackReturns
<1>5. CASE ~MarkActions /\ ~CallActions /\ ~ResultActions /\ ~CheckpointActions /\ ~LogicActions
  BY <1>5 DEF Next, Engine, vars, MarkActions, CheckpointActions, LogicActions,
    CallActions, ResultActions, RecoverBackup, BeginAttempt, BackupMkdir, CandidateInstall,
    BackupCopy, StopService, DeployRsync, DeployCode, DeployHelpers, DeployBin,
    StartService, RotateBackup, ExitBackup, RollbackStop, RollbackConf, RollbackRsync,
    RollbackCode, RollbackBinRemove, RollbackBinCopy, RollbackStart, RollbackStepFails,
    ServiceWrites, RuntimeCommand, RuntimeCommandFails, Interrupted, Killed, Reboot, Exit
<1> QED BY <1>1, <1>2, <1>3, <1>4, <1>5

(* Steps that leave the store alone.                                        *)
LEMMA EngineDisk ==
  ASSUME TypeInv, Hand, Disk, Points, [Next]_vars,
         UNCHANGED <<tree, manifest, selector, prevRec, convRec>>
  PROVE  Disk'
<1> USE DEF Disk
<1>1. \A r : Sound(r)' <=> Sound(r)
  BY DEF Sound, Published
<1>2. SelectorIntact' /\ AbsentMeansMoved' /\ PreviousKept'
  BY DEF SelectorIntact, AbsentMeansMoved, PreviousKept, Sound, Published
<1>3. \A a \in Attempts : LogMove(a)
  BY NextLogMoves
<1>4. LogTypeOK /\ "True" # Unset /\ "converted_by_attempt" \in FactKeys
  BY EngineConstants, UnsetIsNoValue, FactKeysAre DEF TypeInv, EngineTypeOK, EngineFacts
<1>5. ASSUME NEW a \in Attempts, Opens(a)
      PROVE  tx[a].phase = "none" /\ ~ConvertedBy(a)' /\ before'[a] = Snapshot
  <2>1. \A r : FreshDocument(r).facts["converted_by_attempt"] = Unset
    BY <1>4 DEF FreshDocument
  <2> QED BY <1>4, <1>5, <2>1, OpensBegins DEF Opens, NoDocument, ConvertedBy
<1>6. ASSUME NEW a \in Attempts, ConvertedBy(a)'
      PROVE  \/ ConvertedBy(a)
             \/ a = proc.att /\ selector \notin Runtimes /\ Doc.phase = "downtime_started"
  <2>1. IsOpen(tx[a])
    BY <1>3, <1>4, <1>5, <1>6, PhaseMoves DEF ConvertedBy
  <2>2. tx'[a].facts["converted_by_attempt"] = "True"
    BY <1>6 DEF ConvertedBy
  <2>3. CASE tx[a].facts["converted_by_attempt"] = "True"
    BY <2>1, <2>3 DEF ConvertedBy
  <2>4. CASE tx[a].facts["converted_by_attempt"] # "True"
    BY <2>2, <2>4, ConversionFact
  <2> QED BY <2>3, <2>4
<1>7. OwnersApart'
  <2>1. SUFFICES ASSUME NEW r \in Runtimes, NEW a \in Attempts, manifest'[r] = a
                 PROVE  /\ tx'[a].phase # "none" /\ r # Legacy
                        /\ (tx'[a].phase \in PreDowntimePhases => r # selector' /\ r # prevRec'.previous)
    BY DEF OwnersApart
  <2>2. /\ tx[a].phase # "none" /\ r # Legacy
        /\ (tx[a].phase \in PreDowntimePhases => r # selector /\ r # prevRec.previous)
    BY <2>1 DEF OwnersApart
  <2> QED BY <1>3, <1>4, <1>5, <2>2, PhaseMoves
<1>8. LegacyKept'
  <2>1. SUFFICES ASSUME NEW a \in Attempts, ConvertedBy(a)', selector \in Runtimes
                 PROVE  Sound(Legacy)'
    BY DEF LegacyKept
  <2> QED BY <1>1, <1>6, <2>1 DEF LegacyKept
<1>9. CandidateSound'
  <2>1. SUFFICES ASSUME pc' \in CandidateSteps
                 PROVE  tree[proc'.rel] = "valid" /\ manifest[proc'.rel] # "absent"
    BY DEF CandidateSound, Sound, Published
  <2>2. CASE pc \in CandidateSteps /\ proc'.rel = proc.rel
    BY <2>2 DEF CandidateSound, Sound, Published
  <2>3. CASE CandidateReuse
    <3>1. Sound(proc.rel) /\ proc' = proc
      BY <2>1, <2>3 DEF CandidateReuse, CandidateSteps
    <3> QED BY <3>1 DEF Sound, Published
  <2>4. CASE CandidateFinalized
    <3>1. Sound(proc.rel) /\ proc' = proc
      BY <2>1, <2>4 DEF CandidateFinalized, TakeResult, Answered, CandidateSteps, Points, Finalized
    <3> QED BY <3>1 DEF Sound, Published
  <2> QED BY <2>1, <2>2, <2>3, <2>4, EntersCandidate
<1>10. BeforeKept'
  <2>1. SUFFICES ASSUME NEW a \in Attempts, IsOpen(tx'[a])
                 PROVE  WayBack(a)'
    BY DEF BeforeKept
  <2>2. CASE Opens(a)
    <3>1. before'[a].selector = selector /\ ~ConvertedBy(a)'
      BY <1>5, <2>2 DEF Snapshot
    <3> QED BY <3>1 DEF WayBack, SelectorIntact, Sound, Published
  <2>3. CASE ~Opens(a)
    <3>1. IsOpen(tx[a]) /\ (tx'[a].phase \in UnderWay => tx[a].phase \in UnderWay)
      BY <1>3, <1>4, <2>1, <2>3, PhaseMoves DEF UnderWay
    <3>2. before'[a] = before[a]
      BY <3>1, BeforeMoves DEF IsOpen
    <3>3. WayBack(a)
      BY <3>1 DEF BeforeKept
    <3>4. ConvertedBy(a)' => before[a].selector \notin Runtimes
      <4>1. CASE ConvertedBy(a)
        BY <3>3, <4>1 DEF WayBack
      <4>2. CASE a = proc.att /\ selector \notin Runtimes /\ Doc.phase = "downtime_started"
        <5>1. tx[a].phase \in UnderWay
          BY <4>2 DEF Doc, UnderWay
        <5> QED BY <3>3, <4>2, <5>1 DEF WayBack
      <4> QED BY <1>6, <4>1, <4>2
    <3> QED BY <3>1, <3>2, <3>3, <3>4 DEF WayBack, Sound, Published
  <2> QED BY <2>2, <2>3
<1> QED BY <1>2, <1>7, <1>8, <1>9, <1>10

LEMMA PointsStart ==
  ASSUME op'.at = "start", res' = "none"
  PROVE  Points'
BY DEF Points, FinalizePoints, ReconcilePoints, FlipPoints, GcPoints, ConvertPoints,
  Finalized

LEMMA StoreInvStep ==
  ASSUME TypeInv, Hand, CommandFits, Disk, Points, [Next]_vars
  PROVE  (Disk /\ Points)'
<1>1. CASE CallActions
  <2>1. UNCHANGED diskVars /\ op'.at = "start" /\ res' = "none"
    BY <1>1, CallActionsGo DEF Call, OpIdle
  <2> QED BY <2>1, EngineDisk, PointsStart DEF diskVars
<1>2. CASE ResultActions
  <2>1. UNCHANGED diskVars /\ op' = OpIdle /\ res' = "none"
    BY <1>2, ResultActionsGo DEF ResultStays
  <2> QED BY <2>1, EngineDisk, PointsIdle DEF diskVars
<1>3. CASE CandidateInstall
  <2>1. /\ UNCHANGED <<tree, manifest, selector, prevRec, convRec, op, res>> /\ op = OpIdle
        /\ pc' = "cand_final"
    BY <1>3 DEF CandidateInstall, CommandFits
  <2> QED BY <2>1, EngineDisk, PointsIdle
<1>4. CASE KillActions
  <2>1. UNCHANGED diskVars /\ op' = OpIdle /\ res' = "none"
    BY <1>4 DEF KillActions, Interrupted, Killed, Reboot
  <2> QED BY <2>1, EngineDisk, PointsIdle DEF diskVars
<1>5. CASE CommandActions
  BY <1>5, CommandStore
<1>6. CASE EngineMoves
  <2>1. UNCHANGED storeVars
    BY <1>6 DEF EngineMoves
  <2>2. Disk'
    BY <2>1, EngineDisk DEF storeVars
  <2>3. /\ FinalizePoints' /\ ReconcilePoints' /\ FlipPoints' /\ GcPoints' /\ ConvertPoints'
    BY <2>1 DEF storeVars, Points, FinalizePoints, ReconcilePoints, FlipPoints, GcPoints,
      ConvertPoints, Sound, Published
  <2>4. Finalized'
    <3>1. CASE pc' # "cand_final_wait"
      BY <3>1 DEF Finalized
    <3>2. CASE UNCHANGED <<pc, proc, tx, before>>
      BY <2>1, <3>2 DEF storeVars, Points, Finalized, Sound, Published
    <3> QED BY <1>6, <3>1, <3>2 DEF EngineMoves, ConversionIntent, MarkStep, WaitSteps
  <2> QED BY <2>2, <2>3, <2>4 DEF Points
<1> QED BY <1>1, <1>2, <1>3, <1>4, <1>5, <1>6, StoreCases

LEMMA StoreAlways == Spec => [](Disk /\ Points)
<1>1. TypeInv /\ Hand /\ CommandFits /\ Disk /\ Points /\ [Next]_vars => (Disk /\ Points)'
  BY StoreInvStep
<1> QED BY <1>1, TypeAlways, HandAlways, CommandFitsAlways, StoreInit, PTL DEF Spec

-----------------------------------------------------------------------------
(* The backup, and what it is a backup of                                   *)

(* Up to here the attempt has no complete backup to go back to.             *)
UnbackedPhases == {"begun", "ownership_intent", "ownership_complete", "backup_intent"}

Untouched(a) == code = before[a].code /\ bin = before[a].bin

Saved(a) ==
  /\ backup[a].state = "complete"
  /\ backup[a].code = before[a].code /\ backup[a].bin = before[a].bin

HostKept ==
  \A a \in Attempts : IsOpen(tx[a]) =>
    /\ tx[a].phase \in PreDowntimePhases => Untouched(a)
    /\ tx[a].phase \notin UnbackedPhases =>
         Saved(a) /\ tx[a].facts["previous_version"] = before[a].code.ver

(* The version the engine goes by is the one the host had.                  *)
VersionKept ==
  /\ pc = "bk_done" => Saved(proc.att)
  /\ pc \in RecoverySteps => proc.cur = code.ver
  /\ pc \in ForwardSteps \/ proc.downtime => proc.cur = before[proc.att].code.ver

LateStaysLate ==
  \A a \in Attempts : Reached(tx[a], "downtime_started") => tx[a].phase \notin UnbackedPhases

Reserve == HostKept /\ VersionKept /\ LateStaysLate

LEMMA ReserveInit == Init => Reserve
<1> SUFFICES ASSUME Init PROVE Reserve
  OBVIOUS
<1>1. pc = "idle" /\ proc.downtime = FALSE
  BY DEF Init, ProcIdle
<1>2. \A a \in Attempts : ~IsOpen(tx[a]) /\ tx[a].phase = "none"
  BY DEF Init, LogInit, NoDocument, IsOpen
<1>3. HostKept /\ LateStaysLate
  BY <1>2 DEF HostKept, LateStaysLate, UnbackedPhases
<1>4. VersionKept
  BY <1>1 DEF VersionKept, RecoverySteps, ForwardSteps
<1> QED BY <1>3, <1>4 DEF Reserve

LEMMA UnbackedEarly == UnbackedPhases \subseteq EarlyPhases /\ EarlyPhases \subseteq PreDowntimePhases
BY DEF UnbackedPhases, EarlyPhases, PreDowntimePhases

(* The application and its helpers change only in a deployment or rollback. *)
LEMMA CodeMoves ==
  ASSUME [Next]_vars
  PROVE  \/ UNCHANGED <<code, bin>>
         \/ /\ pc \in {"dep_rsync", "dep_code", "dep_helpers", "dep_bin", "rb_rsync", "rb_code",
                       "rb_bin", "rb_bin_copy"}
            /\ pc' \notin RecoverySteps /\ UNCHANGED tx
<1>1. CASE UNCHANGED hostVars \/ BackupActions \/ ServiceActions \/ DataActions
  BY <1>1 DEF hostVars, BackupActions, ServiceActions, DataActions, RecoverBackup, BackupMkdir,
    BackupCopy, RotateBackup, ExitBackup, StopService, StartService, RollbackStop, RollbackStart,
    Reboot, RollbackConf, ServiceWrites
<1>2. CASE CodeActions \/ HelperActions
  BY <1>2 DEF CodeActions, HelperActions, DeployRsync, DeployCode, DeployHelpers, DeployBin,
    RollbackRsync, RollbackCode, RollbackBinRemove, RollbackBinCopy, RollbackStepFails,
    RecoverySteps
<1> QED BY <1>1, <1>2, HostCases

(* A backup changes while it is taken or dropped, or once its attempt has   *)
(* ended.                                                                   *)
LEMMA BackupMoves ==
  ASSUME TypeInv, Hand, [Next]_vars, NEW a \in Attempts, backup'[a] # backup[a]
  PROVE  /\ UNCHANGED <<tx, code, bin>>
         /\ \/ IsTerminal(tx[a]) /\ pc = "rotate" /\ pc' = "rotate"
            \/ /\ a = proc.att /\ Doc.phase = "backup_intent" /\ proc' = proc
               /\ (pc' # "bk_done" \/ BackupCopy)
<1>1. CASE UNCHANGED hostVars \/ CodeActions \/ HelperActions \/ ServiceActions \/ DataActions
  BY <1>1 DEF hostVars, CodeActions, HelperActions, ServiceActions, DataActions, DeployRsync,
    DeployCode, DeployHelpers, DeployBin, RollbackRsync, RollbackCode, RollbackBinRemove,
    RollbackBinCopy, RollbackStepFails, StopService, StartService, RollbackStop, RollbackStart,
    Reboot, RollbackConf, ServiceWrites
<1>2. backup \in [Attempts -> [state : {"absent", "partial", "complete"},
                               code : CodeTrees, bin : BinSets, data : Nat]]
  BY DEF TypeInv, EngineTypeOK, HostTypeOK
<1>3. CASE RotateBackup
  <2>1. PICK b \in RetainedBackups : backup' = [backup EXCEPT ![b] = NoBackup]
    BY <1>3 DEF RotateBackup
  <2>2. a = b
    BY <1>2, <2>1 DEF RetainedBackups
  <2> QED BY <1>3, <2>1, <2>2 DEF RotateBackup, RetainedBackups
<1>4. CASE RecoverBackup \/ BackupMkdir \/ BackupCopy \/ ExitBackup
  <2>1. /\ pc \in {"rec_backup", "bk_mkdir", "bk_copy", "exit_backup"}
        /\ UNCHANGED <<tx, code, bin, proc>> /\ (pc' # "bk_done" \/ BackupCopy)
    BY <1>4 DEF RecoverBackup, BackupMkdir, BackupCopy, ExitBackup
  <2>2. pc \in AttemptSteps
    BY <2>1 DEF AttemptSteps, ForwardSteps, ExitSteps, RecoverySteps
  <2>3. proc.att \in Attempts /\ Fits(pc, Doc.phase) /\ (pc = "exit_backup" => proc.durable = Doc.phase)
    BY <2>2 DEF TypeInv, PcShape, Hand
  <2>4. \A b \in Attempts \ {proc.att} : backup'[b] = backup[b]
    BY <1>2, <1>4 DEF RecoverBackup, BackupMkdir, BackupCopy, ExitBackup
  <2>5. Doc.phase = "backup_intent"
    <3>1. CASE RecoverBackup \/ ExitBackup
      BY <2>3, <3>1 DEF RecoverBackup, ExitBackup
    <3>2. CASE BackupMkdir \/ BackupCopy
      BY <2>3, <3>2 DEF BackupMkdir, BackupCopy, Fits
    <3> QED BY <1>4, <3>1, <3>2
  <2> QED BY <2>1, <2>4, <2>5
<1> QED BY <1>1, <1>3, <1>4, HostCases DEF BackupActions

LEMMA BackupCompletes ==
  ASSUME TypeInv, [Next]_vars, tx' # tx, pc = "bk_done"
  PROVE  BackupComplete
<1>1. CASE PlainMarks \/ FactMarks
  BY <1>1 DEF PlainMarks, FactMarks, MarkStep, OwnershipIntent, OwnershipComplete,
    BackupIntent, CandidateIntent, CandidateReady, DowntimeIntent,
    DowntimeStarted, ConversionIntent, ConversionComplete, TrustIntent, TrustComplete,
    ActivationIntent, Activated, DeployIntent, Deployed, ServiceStartIntent,
    ServiceStarted, HealthVerified, Success
<1>2. CASE TryMarkActions \/ BeginAttempt
  BY <1>2 DEF TryMarkActions, BeginAttempt, CheckpointActions, Checkpoint, RuntimeRestored,
    FilesRestored, ServiceRestoreIntent, RecoverClassify, ExitClassify, RollbackEnter,
    RollbackCheck, RollbackEnd
<1>3. ~SilentActions /\ ~UNCHANGED vars
  BY SilentActionsKeepLog DEF vars
<1> QED BY <1>1, <1>2, <1>3, NextCases

(* The record leaves the phases without a backup with the backup complete.  *)
LEMMA LeavesUnbacked ==
  ASSUME TypeInv, Hand, [Next]_vars, NEW a \in Attempts, IsOpen(tx'[a]),
         tx[a].phase \in UnbackedPhases, tx'[a].phase \notin UnbackedPhases
  PROVE  a = proc.att /\ pc = "bk_done" /\ BackupComplete
<1>1. tx'[a] # tx[a] /\ tx' # tx /\ tx[a].phase # "none"
  BY DEF UnbackedPhases
<1>2. \/ pc \in DOMAIN MarkPoints /\ tx'[a].phase = MarkPoints[pc] /\ a = proc.att
      \/ a = proc.att /\ pc \in {"rb_enter", "rb_check", "rb_runtime", "rb_files", "rb_intent",
                                 "rb_end"}
      \/ a = proc.att /\ tx'[a].phase = "diagnostic_failure"
  BY <1>1, Writers
<1>3. tx'[a].phase # "diagnostic_failure"
  BY DEF IsOpen, IsTerminal, TerminalPhases
<1>4. Fits(pc, tx[a].phase) /\ a = proc.att
  BY <1>2, <1>3 DEF Hand, Doc
<1>5. tx[a].phase \in EarlyPhases /\ tx[a].phase \notin RollbackPhases
  BY UnbackedEarly, RollbackPhasesOpen
<1>6. pc \notin {"rb_enter", "rb_check", "rb_runtime", "rb_files", "rb_intent", "rb_end"}
  BY <1>4, <1>5 DEF Fits, RollbackSteps
<1>7. pc \in DOMAIN MarkPoints /\ tx'[a].phase = MarkPoints[pc]
  BY <1>2, <1>3, <1>6
<1>8. pc = "bk_done"
  BY <1>4, <1>7 DEF MarkPoints, Fits, UnbackedPhases
<1> QED BY <1>1, <1>4, <1>8, BackupCompletes

(* Where the version the engine goes by comes from.                         *)
CurKept == proc'.cur = proc.cur /\ proc'.att = proc.att

CurComes ==
  /\ pc' \in RecoverySteps => (pc \in RecoverySteps /\ CurKept) \/ proc'.cur = code.ver
                                \/ (pc \in RecoverySteps /\ proc'.cur = proc.cur)
  /\ pc' \in ForwardSteps => BeginAttempt \/ (pc \in ForwardSteps /\ CurKept)
  /\ proc'.downtime = TRUE =>
       RecoverCheck \/ ((proc.downtime = TRUE \/ pc \in ForwardSteps) /\ CurKept)

LEMMA ForwardGoesOn ==
  ASSUME MarkActions \/ PlainMoves
  PROVE  /\ proc' = proc
         /\ pc' \in ForwardSteps => pc \in ForwardSteps
         /\ pc' \in RecoverySteps => pc \in RecoverySteps
<1>1. CASE MarkActions
  BY <1>1 DEF MarkActions, MarkStep, OwnershipIntent, OwnershipComplete,
    BackupIntent, BackupComplete, CandidateIntent, CandidateReady, DowntimeIntent,
    DowntimeStarted, ConversionIntent, ConversionComplete, TrustIntent, TrustComplete,
    ActivationIntent, Activated, DeployIntent, Deployed, ServiceStartIntent,
    ServiceStarted, HealthVerified, Success, ForwardSteps, RecoverySteps
<1>2. CASE CallActions
  BY <1>2, CallActionsGo DEF ForwardSteps, RecoverySteps
<1>3. CASE RecoverCandidateDone \/ CandidateStaged \/ CandidateFinalized
             \/ ConversionResult \/ ActivationResult \/ GarbageCollected
  BY <1>3 DEF TakeResult, Answered, RecoverCandidateDone, CandidateStaged,
    CandidateFinalized, ConversionResult, ActivationResult, GarbageCollected, ForwardSteps,
    RecoverySteps
<1>4. CASE PlainMoves /\ ~CallActions /\ ~RecoverCandidateDone /\ ~CandidateStaged
             /\ ~CandidateFinalized /\ ~ConversionResult /\ ~ActivationResult
             /\ ~GarbageCollected
  BY <1>4 DEF PlainMoves, BackupMkdir, BackupCopy, CandidateReuse, CandidateInstall,
    StopService, ConversionNotNeeded, ActivationGate, DeployRsync, DeployCode,
    DeployHelpers, DeployBin, StartService, HealthPasses, RollbackStop, logFrame,
    NoConversionToUndo, RollbackConf, RollbackCode, RollbackBinRemove, RollbackBinCopy,
    Interrupted, ForwardSteps, RecoverySteps
<1> QED BY <1>1, <1>2, <1>3, <1>4

LEMMA CurMoves ==
  ASSUME TypeInv, [Next]_vars
  PROVE  CurComes
<1> USE DEF CurComes, CurKept
<1>1. ProcTypeOK
  BY DEF TypeInv, EngineTypeOK
<1>2. CASE MarkActions \/ PlainMoves
  BY <1>2, ForwardGoesOn
<1>3. CASE NoteActions
  <2>1. pc' \notin RecoverySteps \cup ForwardSteps
    BY <1>1, <1>3, NoteKeeps DEF RollbackSteps, RecoverySteps, ForwardSteps
  <2> QED BY <1>1, <1>3, <2>1, NoteKeeps
<1>4. CASE BackupOwned \/ DowntimeFlag \/ SuccessFlag
  <2>1. /\ pc \in ForwardSteps /\ pc' \notin RecoverySteps
    BY <1>4 DEF BackupOwned, DowntimeFlag, SuccessFlag, ForwardSteps, RecoverySteps
  <2>2. \/ proc' = [proc EXCEPT !.mine = TRUE]
        \/ proc' = [proc EXCEPT !.downtime = TRUE]
        \/ proc' = [proc EXCEPT !.succeeded = TRUE]
    BY <1>4 DEF BackupOwned, DowntimeFlag, SuccessFlag
  <2> QED BY <1>1, <2>1, <2>2 DEF ProcTypeOK
<1>5. CASE StandingActions \/ UNCHANGED vars
  BY <1>5 DEF StandingActions, RuntimeCommand, RuntimeCommandFails, ServiceWrites,
    RotateBackup, vars
<1>6. ASSUME Exit
      PROVE  CurComes
  BY <1>6 DEF Exit, ProcIdle, RecoverySteps, ForwardSteps
<1>7. CASE Finish \/ Cancel \/ Killed \/ Reboot \/ ExitClassify
  BY <1>6, <1>7 DEF Finish, Cancel, Killed, Reboot, ExitClassify
<1>8. CASE StartEngine
  <2>1. proc'.cur = code.ver /\ proc'.downtime = FALSE /\ pc' = "recover"
    BY <1>8 DEF StartEngine, ProcIdle
  <2> QED BY <2>1 DEF ForwardSteps
<1>9. CASE Recover \/ RecoverClassify \/ RecoverBackup
  <2>1. \/ Exit
        \/ /\ pc \in RecoverySteps /\ proc'.cur = proc.cur /\ proc'.downtime = proc.downtime
           /\ pc' \notin ForwardSteps
    BY <1>1, <1>9 DEF Recover, RecoverClassify, RecoverBackup, ProcTypeOK, RecoverySteps, ForwardSteps
  <2>2. pc \in RecoverySteps => proc.downtime = FALSE
    BY <1>1 DEF TypeInv, PcShape, ProcTypeOK
  <2> QED BY <1>6, <2>1, <2>2
<1>10. CASE RecoverCheck
  BY <1>10 DEF RecoverCheck, RecoverySteps, ForwardSteps
<1>11. CASE BeginAttempt
  <2>1. pc = "begin" /\ pc' = "own_intent" /\ \E a : proc' = [proc EXCEPT !.att = a, !.begun = TRUE]
    BY <1>11 DEF BeginAttempt
  <2>2. proc.downtime = FALSE /\ proc'.downtime = proc.downtime
    BY <1>1, <2>1 DEF TypeInv, PcShape, ProcTypeOK, RecoverySteps
  <2> QED BY <1>11, <2>1, <2>2 DEF RecoverySteps
<1>12. CASE ExitTrap \/ ExitBackup \/ ExitCandidateDone
  <2>1. \/ Exit
        \/ /\ pc' \notin RecoverySteps \cup ForwardSteps
           /\ \/ proc' = [proc EXCEPT !.recovering = FALSE]
              \/ \E d : proc' = [proc EXCEPT !.durable = d]
              \/ proc' = proc
    BY <1>12 DEF ExitTrap, ExitBackup, ExitCandidateDone, RecoverySteps, ForwardSteps
  <2> QED BY <1>1, <1>6, <2>1 DEF ProcTypeOK
<1>13. CASE RollbackEnter \/ RollbackCheck \/ RollbackEnd
  <2>1. \/ Exit
        \/ /\ pc' = "begin" /\ proc' = [ProcIdle EXCEPT !.rel = proc.rel, !.staged = proc.staged,
                                                      !.cur = code.ver]
        \/ /\ pc' \in {"rb_check", "rb_stop"}
           /\ \/ \E p : proc' = [proc EXCEPT !.rbPhase = p, !.rbActive = TRUE,
                                             !.rbAttempted = TRUE]
              \/ proc' = proc
    BY <1>13 DEF RollbackEnter, RollbackCheck, RollbackEnd, RollbackReturns
  <2>2. CASE /\ pc' = "begin" /\ proc' = [ProcIdle EXCEPT !.rel = proc.rel, !.staged = proc.staged,
                                                      !.cur = code.ver]
    <3>1. proc'.cur = code.ver /\ proc'.downtime = FALSE
      BY <2>2 DEF ProcIdle
    <3> QED BY <2>2, <3>1 DEF ForwardSteps
  <2>3. CASE /\ pc' \in {"rb_check", "rb_stop"}
             /\ \/ \E p : proc' = [proc EXCEPT !.rbPhase = p, !.rbActive = TRUE,
                                               !.rbAttempted = TRUE]
                \/ proc' = proc
    <3>1. proc'.cur = proc.cur /\ proc'.att = proc.att /\ proc'.downtime = proc.downtime
      BY <1>1, <2>3 DEF ProcTypeOK
    <3> QED BY <2>3, <3>1 DEF RecoverySteps, ForwardSteps
  <2> QED BY <1>6, <2>1, <2>2, <2>3
<1> QED
  BY <1>2, <1>3, <1>4, <1>5, <1>7, <1>8, <1>9, <1>10, <1>11, <1>12, <1>13 DEF Next, Engine,
    MarkActions, PlainMoves, CallActions, NoteActions, CheckpointActions, StandingActions

LEMMA HostStays ==
  ASSUME TypeInv, Hand, [Next]_vars, NEW a \in Attempts, IsOpen(tx[a]),
         tx[a].phase \in PreDowntimePhases
  PROVE  UNCHANGED <<code, bin>>
<1> SUFFICES ASSUME pc \in {"dep_rsync", "dep_code", "dep_helpers", "dep_bin", "rb_rsync",
                            "rb_code", "rb_bin", "rb_bin_copy"}
             PROVE  FALSE
  BY CodeMoves
<1>1. pc \in AttemptSteps /\ (pc \in RollbackSteps \ {"rb_enter"} \/ pc \in
        {"dep_rsync", "dep_code", "dep_helpers", "dep_bin", "dep_done"})
  BY DEF AttemptSteps, ForwardSteps, RollbackSteps
<1>2. a = proc.att
  BY <1>1 DEF Hand, InHand
<1>3. tx[a].phase \in RollbackPhases \cup {"deploy_intent"}
  BY <1>1, <1>2 DEF Hand, Fits, Doc
<1> QED BY <1>3, PreDowntimeOpen DEF PreDowntimePhases

LEMMA VersionFact ==
  ASSUME TypeInv, BackupComplete, tx'[proc.att] # tx[proc.att], proc.att \in Attempts
  PROVE  tx'[proc.att].facts["previous_version"] = proc.cur
<1>1. LogTypeOK /\ "previous_version" \in FactKeys
  BY FactKeysAre DEF TypeInv, EngineTypeOK
<1>2. tx'[proc.att] = Marked(tx[proc.att], "backup_complete", Fact("previous_version", proc.cur))
      /\ tx'[proc.att].phase = "backup_complete"
  BY <1>1, MarkStepIs DEF BackupComplete
<1>3. tx[proc.att].phase # "backup_complete" /\ tx[proc.att] \in Documents
  BY <1>1, <1>2 DEF Marked, LogTypeOK
<1> QED BY <1>1, <1>2, <1>3 DEF Marked, Merged, Fact, Documents

LEMMA HostKeptStep ==
  ASSUME TypeInv, Hand, HostKept, VersionKept, [Next]_vars
  PROVE  HostKept'
<1> SUFFICES ASSUME NEW a \in Attempts, IsOpen(tx'[a])
             PROVE  /\ tx'[a].phase \in PreDowntimePhases => Untouched(a)'
                    /\ tx'[a].phase \notin UnbackedPhases =>
                         Saved(a)' /\ tx'[a].facts["previous_version"] = before'[a].code.ver
  BY DEF HostKept
<1> USE DEF TypeInv, EngineTypeOK
<1>1. CASE Opens(a)
  <2>1. before'[a] = Snapshot /\ tx'[a] # tx[a] /\ tx'[a].phase = "begun"
    BY <1>1, OpensBegins DEF Opens, FreshDocument, NoDocument
  <2>2. UNCHANGED <<code, bin>>
    BY <2>1, CodeMoves
  <2> QED BY <2>1, <2>2 DEF Snapshot, Untouched, UnbackedPhases
<1>2. CASE ~Opens(a)
  <2>1. /\ IsOpen(tx[a]) /\ LogMove(a)
        /\ tx'[a].phase \in PreDowntimePhases => tx[a].phase \in PreDowntimePhases
    BY <1>2, NextLogMoves, PhaseMoves
  <2>2. before'[a] = before[a]
    BY <2>1, BeforeMoves DEF IsOpen
  <2>3. tx'[a].phase \in PreDowntimePhases => Untouched(a)'
    BY <2>1, <2>2, HostStays DEF HostKept, Untouched
  <2>4. CASE tx[a].phase \notin UnbackedPhases
    <3>1. Saved(a) /\ tx[a].facts["previous_version"] = before[a].code.ver
      BY <2>1, <2>4 DEF HostKept
    <3>2. backup'[a] = backup[a]
      BY <2>1, <2>4, BackupMoves DEF IsOpen, Doc, UnbackedPhases
    <3>3. before[a].code.ver \in Versions /\ Versions \subseteq FactValues
      BY EngineConstants DEF ObserverTypeOK, CodeTrees, EngineFacts, Versions, Runtimes
    <3>4. tx'[a].facts["previous_version"] = tx[a].facts["previous_version"]
      <4>1. "previous_version" \in FactKeys /\ tx[a].facts["previous_version"] # Unset
        BY <3>1, <3>3, FactKeysAre, UnsetIsNoValue
      <4> QED BY <1>2, <2>1, <4>1 DEF LogMove, Writes
    <3> QED BY <2>2, <2>3, <3>1, <3>2, <3>4 DEF Saved
  <2>5. CASE tx[a].phase \in UnbackedPhases /\ tx'[a].phase \notin UnbackedPhases
    <3>1. a = proc.att /\ pc = "bk_done" /\ BackupComplete /\ tx'[a] # tx[a]
      BY <2>5, LeavesUnbacked
    <3>2. Saved(a) /\ proc.cur = before[a].code.ver
      BY <3>1 DEF VersionKept, ForwardSteps
    <3>3. backup' = backup
      BY <3>1 DEF BackupComplete, MarkStep, logFrame, hostVars
    <3>4. tx'[a].facts["previous_version"] = proc.cur
      BY <3>1, VersionFact
    <3> QED BY <2>2, <2>3, <3>2, <3>3, <3>4 DEF Saved
  <2> QED BY <2>3, <2>4, <2>5
<1> QED BY <1>1, <1>2

(* The backup is done by copying only.                                      *)
LEMMA DoneByCopy ==
  ASSUME TypeInv, [Next]_vars, pc' = "bk_done"
  PROVE  BackupCopy \/ (pc = "bk_done" /\ proc' = proc)
<1> SUFFICES ASSUME ~BackupCopy
             PROVE  pc = "bk_done" /\ proc' = proc
  OBVIOUS
<1>1. ~MarkActions
  BY DEF MarkActions, MarkStep, OwnershipIntent, OwnershipComplete,
    BackupIntent, BackupComplete, CandidateIntent, CandidateReady, DowntimeIntent,
    DowntimeStarted, ConversionIntent, ConversionComplete, TrustIntent, TrustComplete,
    ActivationIntent, Activated, DeployIntent, Deployed, ServiceStartIntent,
    ServiceStarted, HealthVerified, Success
<1>2. ~CallActions
  BY CallActionsGo
<1>3. ~RecoverCandidateDone /\ ~CandidateStaged /\ ~CandidateFinalized /\ ~ConversionResult
      /\ ~ActivationResult /\ ~GarbageCollected
  BY DEF TakeResult, Answered, RecoverCandidateDone, CandidateStaged,
    CandidateFinalized, ConversionResult, ActivationResult, GarbageCollected
<1>4. ~PlainMoves
  BY <1>2, <1>3 DEF PlainMoves, BackupMkdir, CandidateReuse, CandidateInstall,
    StopService, ConversionNotNeeded, ActivationGate, DeployRsync, DeployCode,
    DeployHelpers, DeployBin, StartService, HealthPasses, RollbackStop,
    NoConversionToUndo, RollbackConf, RollbackCode, RollbackBinRemove, RollbackBinCopy,
    Interrupted
<1>5. ~NoteActions
  BY NoteKeeps DEF RollbackSteps, TypeInv, EngineTypeOK
<1>6. ~(BackupOwned \/ DowntimeFlag \/ SuccessFlag)
  BY DEF BackupOwned, DowntimeFlag, SuccessFlag
<1>7. ~(Finish \/ Cancel \/ Killed \/ Reboot \/ ExitClassify)
  BY DEF Finish, Cancel, Killed, Reboot, ExitClassify, Exit
<1>8. ~(StartEngine \/ Recover \/ RecoverClassify \/ RecoverBackup \/ RecoverCheck \/ BeginAttempt)
  BY DEF StartEngine, Recover, RecoverClassify, RecoverBackup, RecoverCheck, BeginAttempt, Exit
<1>9. ~(ExitTrap \/ ExitBackup \/ ExitCandidateDone)
  BY DEF ExitTrap, ExitBackup, ExitCandidateDone, Exit
<1>10. ~(RollbackEnter \/ RollbackCheck \/ RollbackEnd)
  BY DEF RollbackEnter, RollbackCheck, RollbackEnd, RollbackReturns, Exit
<1>11. CASE StandingActions \/ UNCHANGED vars
  BY <1>11 DEF StandingActions, RuntimeCommand, RuntimeCommandFails, ServiceWrites,
    RotateBackup, vars
<1> QED
  BY <1>1, <1>4, <1>5, <1>6, <1>7, <1>8, <1>9, <1>10, <1>11 DEF Next, Engine,
    MarkActions, PlainMoves, CallActions, NoteActions, CheckpointActions, StandingActions

LEMMA InHandOpen ==
  ASSUME TypeInv, Hand, pc \in AttemptSteps \/ proc.begun = TRUE \/ proc.downtime = TRUE
  PROVE  proc.att \in Attempts /\ tx[proc.att].phase # "none"
BY DEF TypeInv, EngineTypeOK, ProcTypeOK, PcShape, Hand, InHand, Doc, Phases, PhasesOf,
  NormalSequence, RollbackSequence, TerminalPhases

LEMMA DoneSaved ==
  ASSUME TypeInv, Hand, HostKept, VersionKept, [Next]_vars, pc' = "bk_done"
  PROVE  Saved(proc.att)' /\ proc' = proc
<1>1. CASE BackupCopy
  <2>1. pc = "bk_copy" /\ pc \in AttemptSteps
    BY <1>1 DEF BackupCopy, AttemptSteps, ForwardSteps
  <2>2. Doc.phase = "backup_intent" /\ proc.att \in Attempts
    BY <2>1, InHandOpen DEF Hand, Fits
  <2>3. IsOpen(tx[proc.att]) /\ tx[proc.att].phase \in PreDowntimePhases
    BY <2>2 DEF Doc, IsOpen, IsTerminal, TerminalPhases, PreDowntimePhases
  <2>4. code = before[proc.att].code /\ bin = before[proc.att].bin
    BY <2>2, <2>3 DEF HostKept, Untouched
  <2>5. /\ proc' = proc /\ UNCHANGED before
        /\ backup'[proc.att] = [state |-> "complete", code |-> code, bin |-> bin, data |-> data]
    BY <1>1, <2>2 DEF BackupCopy, TypeInv, EngineTypeOK, HostTypeOK
  <2> QED BY <2>4, <2>5 DEF Saved
<1>2. CASE ~BackupCopy
  <2>1. pc = "bk_done" /\ proc' = proc /\ pc \in AttemptSteps
    BY <1>2, DoneByCopy DEF AttemptSteps, ForwardSteps
  <2>2. proc.att \in Attempts /\ before'[proc.att] = before[proc.att]
    BY <2>1, InHandOpen, BeforeMoves
  <2>3. backup'[proc.att] = backup[proc.att]
    BY <1>2, <2>1, <2>2, BackupMoves
  <2> QED BY <2>1, <2>2, <2>3 DEF VersionKept, Saved
<1> QED BY <1>1, <1>2

LEMMA VersionKeptStep ==
  ASSUME TypeInv, Hand, HostKept, VersionKept, [Next]_vars
  PROVE  VersionKept'
<1>1. (pc = "bk_done" => Saved(proc.att))'
  BY DoneSaved
<1>2. ASSUME pc' \in RecoverySteps
      PROVE  proc'.cur = code'.ver
  <2>1. UNCHANGED <<code, bin>>
    BY <1>2, CodeMoves
  <2> QED BY <1>2, <2>1, CurMoves DEF CurComes, CurKept, VersionKept
<1>3. ASSUME (pc \in ForwardSteps \/ proc.downtime = TRUE), CurKept
      PROVE  proc'.cur = before'[proc'.att].code.ver
  <2>1. pc \in AttemptSteps \/ proc.downtime = TRUE
    BY <1>3 DEF AttemptSteps
  <2>2. before'[proc.att] = before[proc.att]
    BY <2>1, InHandOpen, BeforeMoves
  <2> QED BY <1>3, <2>2 DEF CurKept, VersionKept
<1>4. ASSUME BeginAttempt
      PROVE  proc'.cur = before'[proc'.att].code.ver
  <2>1. proc'.cur = proc.cur /\ before'[proc'.att] = Snapshot
    BY <1>4, BeginIs
  <2>2. proc.cur = code.ver
    BY <1>4 DEF BeginAttempt, VersionKept, RecoverySteps
  <2> QED BY <2>1, <2>2 DEF Snapshot
<1>5. ASSUME RecoverCheck, proc'.downtime = TRUE
      PROVE  proc'.cur = before'[proc'.att].code.ver
  <2>1. pc = "rec_check" /\ pc \in AttemptSteps /\ before' = before
    BY <1>5 DEF RecoverCheck, AttemptSteps, RecoverySteps, logFrame
  <2>2. Doc.phase \in OpenPhases \ EarlyPhases /\ proc.att \in Attempts /\ proc.downtime = FALSE
    BY <2>1, InHandOpen DEF Hand, Fits, TypeInv, EngineTypeOK, ProcTypeOK, PcShape, RecoverySteps
  <2>3. IsOpen(tx[proc.att]) /\ tx[proc.att].phase \notin UnbackedPhases
    BY <2>1, <2>2, InHandOpen, UnbackedEarly DEF Doc, IsOpen, IsTerminal
  <2>4. FactOf("previous_version") = before[proc.att].code.ver
    BY <2>2, <2>3 DEF HostKept, FactOf, Doc
  <2>5. proc'.cur = FactOf("previous_version") /\ proc'.att = proc.att
    BY <1>5, <2>2 DEF RecoverCheck, TypeInv, EngineTypeOK, ProcTypeOK
  <2> QED BY <2>1, <2>4, <2>5
<1>6. ASSUME pc' \in ForwardSteps
      PROVE  proc'.cur = before'[proc'.att].code.ver
  BY <1>3, <1>4, <1>6, CurMoves DEF CurComes
<1>7. ASSUME proc'.downtime = TRUE
      PROVE  proc'.cur = before'[proc'.att].code.ver
  BY <1>3, <1>5, <1>7, CurMoves DEF CurComes
<1>8. proc'.downtime \in BOOLEAN
  BY TypeStep DEF TypeInv, EngineTypeOK, ProcTypeOK
<1> QED BY <1>1, <1>2, <1>6, <1>7, <1>8 DEF VersionKept

(* A record reaches a phase by being written with it.                       *)
LEMMA ReachedMoves ==
  ASSUME LogTypeOK, [LogNext]_tx, NEW a \in Attempts, NEW p, p # "begun", Reached(tx'[a], p)
  PROVE  Reached(tx[a], p) \/ tx'[a].phase = p
<1>1. ASSUME NEW b \in Attempts, NEW r \in Releases, Begin(b, r)
      PROVE  Reached(tx[a], p)
  <2>1. tx'[a] = tx[a] \/ tx'[a] = FreshDocument(r)
    BY <1>1 DEF Begin, LogTypeOK
  <2> QED BY <2>1 DEF FreshDocument, Reached
<1>2. ASSUME NEW b \in Attempts, NEW q \in Phases, NEW ks \in SUBSET FactKeys,
             NEW updates \in [ks -> FactValues], Mark(b, q, updates)
      PROVE  Reached(tx[a], p) \/ tx'[a].phase = p
  <2>1. CASE tx'[a] = tx[a]
    BY <2>1
  <2>2. CASE tx'[a] # tx[a]
    <3>1. tx'[a].phase = q /\ tx'[a].history = Append(tx[a].history, q)
      BY <1>2, <2>2 DEF Mark, Marked, LogTypeOK, Documents
    <3>2. tx[a].history \in Seq(Phases)
      BY DEF LogTypeOK, Documents
    <3> QED BY <3>1, <3>2 DEF Reached
  <2> QED BY <2>1, <2>2
<1>3. CASE UNCHANGED tx
  BY <1>3
<1> QED BY <1>1, <1>2, <1>3 DEF LogNext

LEMMA LateStaysLateStep ==
  ASSUME TypeInv, LateStaysLate, [Next]_vars
  PROVE  LateStaysLate'
<1> SUFFICES ASSUME NEW a \in Attempts, Reached(tx'[a], "downtime_started"),
                    tx'[a].phase \in UnbackedPhases
             PROVE  FALSE
  BY DEF LateStaysLate
<1>1. LogTypeOK /\ [LogNext]_tx /\ LogMove(a)
  BY EngineLogStep, NextLogMoves DEF TypeInv, EngineTypeOK
<1>2. Reached(tx[a], "downtime_started")
  BY <1>1, ReachedMoves DEF UnbackedPhases
<1>3. tx[a].phase \notin UnbackedPhases
  BY <1>2 DEF LateStaysLate
<1>4. CASE Opens(a)
  BY <1>2, <1>4 DEF Opens, NoDocument, Reached
<1>5. CASE Writes(a)
  BY <1>3, <1>5, SuccessorTable DEF Writes, UnbackedPhases
<1> QED BY <1>1, <1>3, <1>4, <1>5 DEF LogMove

LEMMA ReserveAlways == Spec => []Reserve
<1>1. TypeInv /\ Hand /\ Reserve /\ [Next]_vars => Reserve'
  BY HostKeptStep, VersionKeptStep, LateStaysLateStep DEF Reserve
<1> QED BY <1>1, TypeAlways, HandAlways, ReserveInit, PTL DEF Spec

-----------------------------------------------------------------------------
(* The engine is prepared                                                   *)

(* A complete backup, the recorded version and the way back to the previous *)
(* runtime are the rollback point.                                          *)
LEMMA ReserveIsThere == Disk /\ Reserve => RollbackReserve
<1> SUFFICES ASSUME Disk, Reserve, NEW a \in Attempts, IsOpen(tx[a]),
                    Reached(tx[a], "downtime_started")
             PROVE  /\ backup[a].state = "complete"
                    /\ backup[a].code = before[a].code
                    /\ backup[a].bin = before[a].bin
                    /\ tx[a].facts["previous_version"] = before[a].code.ver
                    /\ before[a].selector \in Runtimes => Sound(before[a].selector)
                    /\ before[a].selector = "dir" =>
                         \/ selector = "dir"
                         \/ Sound(Legacy)
                         \/ tree[Legacy] = "valid" /\ convRec # "none"
  BY DEF RollbackReserve, Incomplete
<1>1. Saved(a) /\ tx[a].facts["previous_version"] = before[a].code.ver
  BY DEF Reserve, LateStaysLate, HostKept
<1>2. WayBack(a)
  BY DEF Disk, BeforeKept
<1> QED BY <1>1, <1>2 DEF Saved, WayBack

(* A command of the store may be cut short anywhere: a selector that is a   *)
(* link still names a complete published runtime (ccc-runtime activate,     *)
(* rollback-activation, convert-legacy, rollback-conversion, gc).           *)
THEOREM SelectorStaysIntact == Spec => []SelectorIntact
<1>1. Disk => SelectorIntact
  BY DEF Disk
<1> QED BY <1>1, StoreAlways, PTL

(* Wherever the engine, its EXIT trap, its recovery, its rollback or a      *)
(* command was cut short, what comes next finds what it needs: the selector *)
(* is sound, an attempt in its downtime has a rollback point that is the    *)
(* host as it was, a closed attempt has left no staging tree, and the next  *)
(* mark is the next phase of the log (update.sh, phase0 to phase6).         *)
THEOREM EnginePrepared == Spec => []EngineIsPrepared
<1>1. /\ TypeInv /\ Hand /\ Staging /\ (Disk /\ Points) /\ Reserve => EngineIsPrepared
  BY HandAgrees, StagingClears, ReserveIsThere DEF EngineIsPrepared, Disk
<1> QED BY <1>1, TypeAlways, HandAlways, StagingAlways, StoreAlways, ReserveAlways, PTL

-----------------------------------------------------------------------------
(* Shared state changes under its intent only                               *)

LEMMA OpenPhaseFacts ==
  /\ RollingBack = RollbackPhases
  /\ {"conversion_intent", "activation_intent", "deploy_intent", "downtime_intent",
      "candidate_intent", "candidate_ready"} \cup RollingBack \subseteq OpenPhases
BY DEF RollingBack, RollbackPhases, Phases, PhasesOf, NormalSequence, RollbackSequence,
  TerminalPhases

(* The attempt in hand is open in one of the phases.                        *)
LEMMA OpenInHand ==
  ASSUME TypeInv, Hand, pc \in AttemptSteps, NEW phases, phases \subseteq OpenPhases,
         Doc.phase \in phases
  PROVE  OpenIn(phases)
<1>1. proc.att \in Attempts /\ tx[proc.att].phase \in phases
  BY InHandOpen DEF Doc
<1>2. IsOpen(tx[proc.att])
  BY <1>1, InHandOpen DEF IsOpen, IsTerminal
<1> QED BY <1>1, <1>2 DEF OpenIn, Incomplete

SelectorPhases == {"conversion_intent", "activation_intent"} \cup RollingBack

LEMMA SelectorUnderIntent ==
  ASSUME TypeInv, Hand, CommandFits, [Next]_vars, selector' # selector
  PROVE  OpenIn(SelectorPhases)
<1>1. CommandActions
  BY StoreCases, CallActionsGo, ResultActionsGo DEF diskVars, ResultStays, CandidateInstall,
    KillActions, Interrupted, Killed, Reboot, EngineMoves, storeVars
<1>2. StoreStep \/ CommandRaises \/ ReconcileMisjudges
  BY <1>1 DEF CommandActions, RuntimeCommand, RuntimeCommandFails
<1>3. ~CommandRaises
  BY DEF CommandRaises, diskVars
<1>4. ~(StageCandidate \/ FinalizeCheck \/ FinalizeManifest \/ FinalizeRename
          \/ FinalizeVerify \/ FinalizeCleanup \/ FinalizeUnlink)
  BY DEF StageCandidate, FinalizeCheck, FinalizeManifest, FinalizeRename, FinalizeVerify,
    FinalizeCleanup, FinalizeUnlink, diskVars
<1>5. ~(ReconcileStaging \/ ReconcileAbsent \/ ReconcileRetain \/ ReconcileReject
          \/ ReconcileMisjudges \/ ReconcileRemove \/ ReconcileUnlink)
  <2>1. ~(ReconcileStaging \/ ReconcileAbsent \/ ReconcileRetain)
    BY DEF ReconcileStaging, ReconcileAbsent, ReconcileRetain, diskVars
  <2>2. ~(ReconcileReject \/ ReconcileMisjudges)
    BY DEF ReconcileReject, ReconcileMisjudges, Reject
  <2>3. ~(ReconcileRemove \/ ReconcileUnlink)
    BY DEF ReconcileRemove, ReconcileUnlink, diskVars
  <2> QED BY <2>1, <2>2, <2>3
<1>6. ~(GcStart \/ GcDamage \/ GcRemove \/ GcUnlink \/ GcDone)
  BY DEF GcStart, GcDamage, GcRemove, GcUnlink, GcDone, diskVars
<1>7. op.name \in {"convert", "activate", "rollback_activation", "rollback_conversion"}
  BY <1>2, <1>3, <1>4, <1>5, <1>6, CommandSteps
<1>8. pc \in {"conv_wait", "act_wait", "rb_select_wait", "rb_convert_wait"}
  BY <1>7 DEF CommandFits, OpIdle
<1>9. pc \in AttemptSteps /\ Doc.phase \in SelectorPhases
  BY <1>8, OpenPhaseFacts DEF AttemptSteps, ForwardSteps, RollbackSteps, Hand, Fits,
    SelectorPhases
<1>10. SelectorPhases \subseteq OpenPhases
  BY OpenPhaseFacts DEF SelectorPhases
<1> QED BY <1>9, <1>10, OpenInHand

LEMMA CodeUnderIntent ==
  ASSUME TypeInv, Hand, [Next]_vars, <<code, bin>>' # <<code, bin>>
  PROVE  OpenIn({"deploy_intent"} \cup RollingBack)
<1>1. pc \in {"dep_rsync", "dep_code", "dep_helpers", "dep_bin", "rb_rsync", "rb_code",
              "rb_bin", "rb_bin_copy"}
  BY CodeMoves
<1>2. pc \in AttemptSteps
  BY <1>1 DEF AttemptSteps, ForwardSteps, RollbackSteps
<1>3. Doc.phase \in {"deploy_intent"} \cup RollingBack
  BY <1>1, OpenPhaseFacts DEF Hand, Fits, RollbackSteps
<1>4. {"deploy_intent"} \cup RollingBack \subseteq OpenPhases
  BY OpenPhaseFacts
<1> QED BY <1>2, <1>3, <1>4, OpenInHand

LEMMA ServiceUnderIntent ==
  ASSUME TypeInv, Hand, [Next]_vars, service.up, ~service'.up
  PROVE  faults' # faults \/ OpenIn({"downtime_intent"} \cup RollingBack)
<1>1. ASSUME pc \in {"down_stop", "rb_stop", "rb_start"}
      PROVE  OpenIn({"downtime_intent"} \cup RollingBack)
  <2>1. pc \in AttemptSteps
    BY <1>1 DEF AttemptSteps, ForwardSteps, RollbackSteps
  <2>2. Doc.phase \in {"downtime_intent"} \cup RollingBack
    BY <1>1, OpenPhaseFacts DEF Hand, Fits, RollbackSteps
  <2>3. {"downtime_intent"} \cup RollingBack \subseteq OpenPhases
    BY OpenPhaseFacts
  <2> QED BY <2>1, <2>2, <2>3, OpenInHand
<1>2. service' # service
  OBVIOUS
<1>3. ServiceActions
  BY <1>2, HostCases DEF BackupActions, CodeActions, HelperActions, DataActions, hostVars,
    RecoverBackup, BackupMkdir, BackupCopy, RotateBackup, ExitBackup, DeployRsync, DeployCode,
    DeployHelpers, DeployBin, RollbackRsync, RollbackCode, RollbackBinRemove,
    RollbackBinCopy, RollbackStepFails, RollbackConf, ServiceWrites
<1>4. CASE StopService \/ RollbackStop \/ RollbackStart
  BY <1>1, <1>4 DEF StopService, RollbackStop, RollbackStart
<1>5. CASE StartService
  BY <1>5 DEF StartService, Loaded
<1>6. CASE Reboot
  BY <1>6 DEF Reboot, Fault, TypeInv, EngineTypeOK, ObserverTypeOK
<1> QED BY <1>3, <1>4, <1>5, <1>6 DEF ServiceActions

LEMMA StagingUnderIntent ==
  ASSUME TypeInv, Hand, CommandFits, Staging, [Next]_vars, staging' # staging
  PROVE  OpenIn({"candidate_intent", "candidate_ready"})
<1>1. PICK a \in Attempts : staging'[a] # staging[a]
  BY TypeStep DEF TypeInv, EngineTypeOK, StoreTypeOK
<1>2. CommandActions \/ CandidateInstall
  BY StoreCases, CallActionsGo, ResultActionsGo DEF diskVars, ResultStays,
    KillActions, Interrupted, Killed, Reboot, EngineMoves, storeVars
<1>3. UNCHANGED tx
  BY <1>2 DEF CommandActions, RuntimeCommand, RuntimeCommandFails, CandidateInstall
<1>4. tx[a].phase = "candidate_intent"
  BY <1>1, <1>3, StagingStep DEF Staging, StagedUnderIntent
<1> QED BY <1>4 DEF OpenIn, Incomplete, IsOpen, IsTerminal, TerminalPhases

(* Every change of the selector, of the application and its helpers, of the *)
(* service and of a staging tree happens under the durable intent recovery  *)
(* classifies it by, whatever else fails (ADR 0005; update.sh, _tx_mark).   *)
THEOREM IntentsComeFirst == Spec => WriteAhead
<1>1. ASSUME TypeInv, Hand, CommandFits, Staging, [Next]_vars
      PROVE  [ /\ selector' # selector =>
                    OpenIn({"conversion_intent", "activation_intent"} \cup RollingBack)
               /\ <<code, bin>>' # <<code, bin>> => OpenIn({"deploy_intent"} \cup RollingBack)
               /\ service.up /\ ~service.up' =>
                    \/ faults' # faults
                    \/ OpenIn({"downtime_intent"} \cup RollingBack)
               /\ staging' # staging => OpenIn({"candidate_intent", "candidate_ready"}) ]_vars
  BY <1>1, SelectorUnderIntent, CodeUnderIntent, ServiceUnderIntent, StagingUnderIntent
    DEF SelectorPhases
<1> QED BY <1>1, TypeAlways, HandAlways, CommandFitsAlways, StagingAlways, PTL
      DEF Spec, WriteAhead

-----------------------------------------------------------------------------
(* What the records of finished attempts say: success                       *)

(* Steps after the activation, after the code, the helpers and the start.   *)
AfterStart == {"svc_done", "health", "health_done", "success"}
AfterHelpers == {"dep_done", "svc_intent", "svc_start"} \cup AfterStart
AfterCode == {"dep_helpers", "dep_bin"} \cup AfterHelpers
AfterActivation == {"act_done", "dep_intent", "dep_rsync", "dep_code"} \cup AfterCode

(* What is in place is that of the release the engine installs.             *)
Ahead ==
  /\ pc \in AfterActivation => selector = proc.rel
  /\ pc \in AfterCode => code = [ver |-> proc.rel, intact |-> TRUE]
  /\ pc \in AfterHelpers => bin = proc.rel
  /\ pc \in AfterStart => service = [up |-> TRUE, ver |-> proc.rel, rt |-> proc.rel]

(* A flip that is verified has happened.                                    *)
FlipDone ==
  op.name \in {"activate", "rollback_activation"} /\ op.at = "verify" => selector = op.id

ActivationDone == pc = "act_wait" /\ op = OpIdle /\ res = "ok" => selector = proc.rel

Forward == Ahead /\ FlipDone /\ ActivationDone

LEMMA ForwardInit == Init => Forward
<1> SUFFICES ASSUME Init PROVE Forward
  OBVIOUS
<1>1. pc = "idle" /\ op.name = "none"
  BY DEF Init, OpIdle
<1> QED BY <1>1 DEF Forward, Ahead, FlipDone, ActivationDone, AfterActivation, AfterCode,
      AfterHelpers, AfterStart

(* The step of the engine after which more is in place, or as much.         *)
AheadMoves ==
  /\ UNCHANGED <<proc, selector>>
  /\ \/ /\ UNCHANGED <<code, bin, service>> /\ pc \in AfterActivation
        /\ pc' \in AfterCode => pc \in AfterCode
        /\ pc' \in AfterHelpers => pc \in AfterHelpers
        /\ pc' \in AfterStart => pc \in AfterStart
     \/ DeployRsync \/ DeployCode \/ DeployHelpers \/ DeployBin \/ StartService

LEMMA EntersAhead ==
  ASSUME TypeInv, [Next]_vars, pc' \in AfterActivation
  PROVE  AheadMoves \/ ActivationResult \/ (CommandActions /\ pc \in AfterActivation)
<1> USE DEF AfterActivation, AfterCode, AfterHelpers, AfterStart
<1>1. CASE MarkActions
  BY <1>1 DEF AheadMoves, MarkActions, MarkStep, OwnershipIntent, OwnershipComplete,
    BackupIntent, BackupComplete, CandidateIntent, CandidateReady, DowntimeIntent,
    DowntimeStarted, ConversionIntent, ConversionComplete, TrustIntent, TrustComplete,
    ActivationIntent, Activated, DeployIntent, Deployed, ServiceStartIntent,
    ServiceStarted, HealthVerified, Success, logFrame, storeVars, hostVars
<1>2. CASE CallActions
  BY <1>2, CallActionsGo
<1>3. CASE ResultActions
  <2>1. CASE RecoverCandidateDone \/ CandidateStaged \/ CandidateFinalized \/ GarbageCollected
    BY <2>1 DEF TakeResult, RecoverCandidateDone, CandidateStaged, CandidateFinalized,
      GarbageCollected
  <2>2. CASE ConversionResult
    BY <2>2 DEF TakeResult, Answered, ConversionResult
  <2>3. CASE ExitCandidateDone \/ RollbackActivationDone \/ RollbackConversionDone
    BY <2>3 DEF RollbackCommandDone, ExitCandidateDone, RollbackActivationDone,
      RollbackConversionDone, Exit
  <2> QED BY <1>3, <2>1, <2>2, <2>3 DEF ResultActions
<1>4. CASE CheckpointActions \/ LogicActions
  <2>1. CASE HealthPasses
    BY <2>1 DEF HealthPasses, AheadMoves, logFrame, storeVars, hostVars
  <2>2. CASE ~HealthPasses
    BY <1>4, <2>2 DEF CheckpointActions, Checkpoint, RuntimeRestored, FilesRestored,
      ServiceRestoreIntent, LogicActions, StartEngine, Recover, RecoverClassify, RecoverCheck,
      Cancel, BackupOwned, CandidateReuse, DowntimeFlag, ConversionNotNeeded,
      ActivationGate, SuccessFlag, Finish, ExitTrap, ExitClassify,
      RollbackEnter, RollbackCheck, NoActivationToUndo, NoConversionToUndo,
      RollbackVerifyRuntime, ServiceRestoreRefused, RollbackHealth, RollbackEnd,
      Exit, RollbackReturns
  <2> QED BY <2>1, <2>2
<1>5. CASE DeployRsync \/ DeployCode \/ DeployHelpers \/ DeployBin \/ StartService
  <2>1. UNCHANGED <<proc, selector>>
    BY <1>5 DEF DeployRsync, DeployCode, DeployHelpers, DeployBin, StartService, storeVars
  <2> QED BY <1>5, <2>1 DEF AheadMoves
<1>6. CASE ServiceWrites \/ UNCHANGED vars
  BY <1>6 DEF ServiceWrites, vars, AheadMoves, storeVars, hostVars
<1>7. CASE CommandActions
  BY <1>7 DEF CommandActions, RuntimeCommand, RuntimeCommandFails
<1>8. CASE RecoverBackup \/ BeginAttempt \/ BackupMkdir \/ CandidateInstall
             \/ BackupCopy \/ StopService \/ RotateBackup \/ ExitBackup
  BY <1>8 DEF RecoverBackup, BeginAttempt, BackupMkdir, CandidateInstall,
    BackupCopy, StopService, RotateBackup, ExitBackup
<1>9. CASE RollbackStop \/ RollbackConf \/ RollbackRsync \/ RollbackCode \/ RollbackBinRemove
             \/ RollbackBinCopy \/ RollbackStart \/ RollbackStepFails
  BY <1>9 DEF RollbackStop, RollbackConf, RollbackRsync, RollbackCode, RollbackBinRemove,
    RollbackBinCopy, RollbackStart, RollbackStepFails
<1>10. CASE KillActions
  BY <1>10 DEF KillActions, Interrupted, Killed, Reboot, Exit
<1> QED BY <1>1, <1>2, <1>3, <1>4, <1>5, <1>6, <1>7, <1>8, <1>9, <1>10 DEF Next, Engine,
      MarkActions, CheckpointActions, LogicActions, CallActions, ResultActions, KillActions,
      CommandActions

LEMMA AheadStep ==
  ASSUME TypeInv, Hand, CommandFits, Forward, [Next]_vars
  PROVE  Ahead'
<1> SUFFICES ASSUME pc' \in AfterActivation PROVE Ahead'
  BY DEF Ahead, AfterActivation, AfterCode, AfterHelpers
<1> USE DEF Ahead
<1>1. CASE ActivationResult
  <2>1. /\ pc' = "act_done" /\ selector' = selector /\ proc' = proc
        /\ pc = "act_wait" /\ op = OpIdle /\ res = "ok"
    BY <1>1 DEF ActivationResult, TakeResult, Answered, diskVars, AfterActivation, AfterCode,
      AfterHelpers, AfterStart
  <2>2. selector' = proc'.rel
    BY <2>1 DEF Forward, ActivationDone
  <2> QED BY <2>1, <2>2 DEF AfterCode, AfterHelpers, AfterStart
<1>2. CASE CommandActions /\ pc \in AfterActivation
  <2>1. op # OpIdle
    BY <1>2, CommandRuns DEF CommandActions, RuntimeCommand, RuntimeCommandFails
  <2> QED BY <1>2, <2>1 DEF CommandFits, AfterActivation, AfterCode, AfterHelpers, AfterStart
<1>3. CASE AheadMoves
  <2> USE DEF Forward
  <2>1. UNCHANGED <<proc, selector>>
    BY <1>3 DEF AheadMoves
  <2>2. CASE /\ UNCHANGED <<code, bin, service>> /\ pc \in AfterActivation
             /\ pc' \in AfterCode => pc \in AfterCode
             /\ pc' \in AfterHelpers => pc \in AfterHelpers
             /\ pc' \in AfterStart => pc \in AfterStart
    BY <2>1, <2>2
  <2>3. CASE DeployRsync \/ DeployCode \/ DeployHelpers
    <3>1. /\ pc \in AfterActivation
          /\ \/ pc' = "dep_code"
             \/ pc' = "dep_helpers" /\ code' = [ver |-> proc.rel, intact |-> TRUE]
             \/ pc' = "dep_bin" /\ pc \in AfterCode /\ code' = code
      BY <2>3 DEF DeployRsync, DeployCode, DeployHelpers, AfterActivation, AfterCode
    <3> QED BY <2>1, <3>1 DEF AfterHelpers, AfterStart, AfterCode
  <2>4. CASE DeployBin
    <3>1. pc \in AfterActivation \cap AfterCode /\ pc' = "dep_done" /\ bin' = proc.rel /\ code' = code
      BY <2>4 DEF DeployBin, AfterActivation, AfterCode
    <3> QED BY <2>1, <3>1 DEF AfterStart
  <2>5. CASE StartService
    <3>1. /\ pc \in AfterActivation \cap AfterCode \cap AfterHelpers /\ service' = Loaded
          /\ UNCHANGED <<code, bin>>
      BY <2>5 DEF StartService, AfterActivation, AfterCode, AfterHelpers
    <3>2. selector = proc.rel /\ code = [ver |-> proc.rel, intact |-> TRUE] /\ bin = proc.rel
      BY <3>1
    <3>3. code.ver = proc.rel
      BY <3>2
    <3>4. Loaded = [up |-> TRUE, ver |-> proc.rel, rt |-> proc.rel]
      BY <3>2, <3>3 DEF Loaded
    <3> QED BY <2>1, <3>1, <3>2, <3>4
  <2> QED BY <1>3, <2>2, <2>3, <2>4, <2>5 DEF AheadMoves
<1> QED BY <1>1, <1>2, <1>3, EntersAhead

-----------------------------------------------------------------------------
(* What the records of finished attempts say: the way back                  *)

Found(a) == before[a].selector

Converts(a) == tx[a].facts["converted_by_attempt"] = "True"

(* The selector is the one attempt a found, unless the attempt was for the  *)
(* runtime already selected.                                                *)
Home(a) == selector = Found(a) \/ (Found(a) = tx[a].target /\ selector \in Runtimes)

(* Wherever a is: the selector is where it was found, or what moved it is   *)
(* known and can be undone.                                                 *)
Between(a) ==
  /\ Found(a) # "absent"
  /\ Found(a) = "dir" => selector = "dir" \/ Converts(a)
  /\ Found(a) \in Runtimes => selector \in Runtimes
  /\ Found(a) \in Runtimes /\ Found(a) # tx[a].target =>
       selector = Found(a) \/ (selector = tx[a].target /\ prevRec.previous = Found(a))

OnTheWay == \A a \in Attempts : IsOpen(tx[a]) => Between(a)

(* Between its steps a flip for attempt a keeps both ends in mind.          *)
FlipWays(a) ==
  /\ op.name = "rollback_activation" /\ op.at = "start" => selector = tx[a].target
  /\ /\ op.name \in {"activate", "rollback_activation"} /\ op.at \in {"flip", "verify", "restore"}
     /\ Found(a) \in Runtimes /\ Found(a) # tx[a].target
     => /\ prevRec.previous = Found(a) /\ {op.old, op.id} \subseteq {Found(a), tx[a].target}
        /\ op.name = "rollback_activation" => op.id = Found(a)

SelectDone == pc = "rb_select_wait" /\ op = OpIdle /\ res = "ok" => Converted \/ Home(proc.att)

UnconvertDone == pc = "rb_convert_wait" /\ op = OpIdle /\ res = "ok" => selector = "dir"

Answers == FlipDone /\ ActivationDone /\ FlipWays(proc.att) /\ SelectDone /\ UnconvertDone

LEMMA WayStays ==
  ASSUME OnTheWay, Aside, UNCHANGED <<selector, prevRec>>
  PROVE  OnTheWay'
BY DEF OnTheWay, Between, Aside, Found, Converts

(* The attempt of a flip or a conversion is open.                           *)
LEMMA MovingHand ==
  ASSUME TypeInv, Hand, CommandFits, Disk, OnTheWay, op # OpIdle,
         op.name \in {"activate", "rollback_activation", "convert", "rollback_conversion"}
  PROVE  /\ proc.att \in Attempts /\ IsOpen(tx[proc.att]) /\ Between(proc.att)
         /\ WayBack(proc.att)
         /\ \A a \in Attempts : IsOpen(tx[a]) => a = proc.att
<1>1. Doc.phase \in RollbackPhases \cup {"conversion_intent", "activation_intent"}
  BY CommandHand
<1>2. \A p \in RollbackPhases \cup {"conversion_intent", "activation_intent"} :
         p \notin TerminalPhases \cup {"none"}
  BY DEF RollbackPhases, TerminalPhases
<1>3. IsOpen(tx[proc.att])
  BY <1>1, <1>2 DEF IsOpen, IsTerminal, Doc
<1> QED BY <1>3, CommandHand DEF OnTheWay, Disk, BeforeKept

(* A command that has ended has only its result.                            *)
LEMMA AnswersIdle ==
  ASSUME op' = OpIdle,
         pc' = "act_wait" /\ res' = "ok" => selector' = proc'.rel,
         pc' = "rb_select_wait" /\ res' = "ok" => (Converted \/ Home(proc.att))',
         pc' = "rb_convert_wait" /\ res' = "ok" => selector' = "dir"
  PROVE  Answers'
<1>1. op'.name = "none"
  BY DEF OpIdle
<1> QED BY <1>1 DEF Answers, FlipDone, ActivationDone, FlipWays, SelectDone, UnconvertDone

(* A command that goes on has no result yet.                                *)
LEMMA AnswersOn ==
  ASSUME op' # OpIdle, FlipDone', FlipWays(proc.att)'
  PROVE  Answers'
BY DEF Answers, ActivationDone, SelectDone, UnconvertDone

LEMMA OtherAnswers ==
  ASSUME TypeInv, Hand, CommandFits, Disk, Points, OnTheWay, Answers, Aside, op # OpIdle,
         StoreStep \/ ReconcileMisjudges,
         op.name \notin {"activate", "rollback_activation"}
  PROVE  OnTheWay' /\ Answers'
<1>1. StoreShape
  BY DEF TypeInv, EngineTypeOK, StoreShape
<1>2. op' = OpIdle \/ op'.name = op.name
  BY <1>1, CommandGoesOn
<1>3. pc \notin {"act_wait", "rb_select_wait"} /\ (pc = "rb_convert_wait" => op.name = "rollback_conversion")
  BY DEF CommandFits
<1>4. ASSUME op.name = "rollback_conversion", ~CommandRaises, op' = OpIdle, res' = "ok"
      PROVE  selector' = "dir"
  <2>1. UnconvertUnlink \/ UnconvertRestore \/ UnconvertRecord
    BY <1>4, CommandSteps
  <2>2. StoreTypeOK
    BY DEF TypeInv, EngineTypeOK
  <2>3. ~UnconvertUnlink /\ ~UnconvertRestore
    BY <1>4, <2>2, GotoIs DEF UnconvertUnlink, UnconvertRestore
  <2> QED BY <1>4, <2>1, <2>3 DEF UnconvertRecord, Return
<1>5. ~CommandRaises \/ res' # "ok" \/ op' # OpIdle
  <2>1. SUFFICES ASSUME CommandRaises, op' = OpIdle PROVE res' # "ok"
    OBVIOUS
  <2>2. StoreTypeOK /\ op.name # "none"
    BY DEF TypeInv, EngineTypeOK, CommandFits
  <2>3. ~Goto("cleanup") /\ ~Goto("restore")
    BY <2>1, <2>2, GotoIs
  <2> QED BY <2>1, <2>3 DEF CommandRaises, Return
<1>6. Answers'
  <2>1. CASE op' = OpIdle
    <3>1. pc' = pc
      BY DEF Aside
    <3> QED BY <1>3, <1>4, <1>5, <2>1, <3>1, AnswersIdle
  <2>2. CASE op' # OpIdle
    <3>1. op'.name \notin {"activate", "rollback_activation"}
      BY <1>2, <2>2
    <3> QED BY <2>2, <3>1, AnswersOn DEF FlipDone, FlipWays
  <2> QED BY <2>1, <2>2
<1>7. OnTheWay'
  <2>1. CASE op.name \in {"convert", "rollback_conversion"}
    <3>1. ConvertedBy(proc.att) /\ Found(proc.att) \notin Runtimes /\ Found(proc.att) # "absent"
          /\ \A a \in Attempts : IsOpen(tx[a]) => a = proc.att
      BY <2>1, MovingHand, ConvertingHand DEF WayBack, Between, Found
    <3>2. Converts(proc.att)' /\ Found(proc.att)' = Found(proc.att)
      BY <3>1 DEF Converts, ConvertedBy, Aside, Found
    <3>3. Between(proc.att)'
      BY <3>1, <3>2 DEF Between
    <3> QED BY <3>1, <3>3 DEF OnTheWay, Aside
  <2>2. CASE op.name \notin {"convert", "rollback_conversion"} /\ ~CommandRaises
    <3>1. CASE op.name \in {"stage", "finalize"}
      <4>1. UNCHANGED <<selector, prevRec>>
        BY <2>2, <3>1, CommandSteps DEF StageCandidate, FinalizeCheck, FinalizeManifest,
          FinalizeRename, FinalizeVerify, FinalizeCleanup, FinalizeUnlink, diskVars
      <4> QED BY <4>1, WayStays
    <3>2. CASE op.name = "reconcile"
      <4>1. UNCHANGED <<selector, prevRec>>
        BY <2>2, <3>2, CommandSteps DEF ReconcileStaging, ReconcileAbsent, ReconcileRetain,
          ReconcileReject, ReconcileMisjudges, Reject, ReconcileRemove, ReconcileUnlink, diskVars
      <4> QED BY <4>1, WayStays
    <3>3. CASE op.name = "gc"
      <4>1. UNCHANGED <<selector, prevRec>>
        BY <2>2, <3>3, CommandSteps DEF GcStart, GcDamage, GcRemove, GcUnlink, GcDone, diskVars
      <4> QED BY <4>1, WayStays
    <3> QED BY <2>2, <3>1, <3>2, <3>3, CommandSteps
  <2>3. CASE CommandRaises
    BY <2>3, WayStays DEF CommandRaises, diskVars
  <2> QED BY <2>1, <2>2, <2>3
<1> QED BY <1>6, <1>7

LEMMA RaisesAnswers ==
  ASSUME TypeInv, Hand, CommandFits, OnTheWay, Answers, Aside, op # OpIdle, CommandRaises
  PROVE  OnTheWay' /\ Answers'
<1>1. UNCHANGED diskVars /\ OnTheWay'
  BY WayStays DEF CommandRaises, diskVars
<1>2. StoreTypeOK /\ op.name # "none"
  BY DEF TypeInv, EngineTypeOK, CommandFits
<1>3. CASE Return("err")
  BY <1>1, <1>3, AnswersIdle DEF Return
<1>4. CASE Goto("cleanup") /\ op.name = "finalize"
  <2>1. op' # OpIdle /\ op'.name = "finalize"
    BY <1>2, <1>4, GotoIs
  <2> QED BY <1>1, <2>1, AnswersOn DEF FlipDone, FlipWays
<1>5. CASE /\ Goto("restore") /\ op.name \in {"activate", "rollback_activation"}
           /\ op.at = "verify"
  <2>1. /\ op' # OpIdle /\ op'.name = op.name /\ op'.at = "restore"
        /\ op'.id = op.id /\ op'.old = op.old
    BY <1>2, <1>5, GotoIs
  <2>2. FlipWays(proc.att)'
    BY <1>1, <1>5, <2>1 DEF Answers, FlipWays, diskVars, Aside, Found
  <2> QED BY <1>1, <2>1, <2>2, AnswersOn DEF FlipDone
<1> QED BY <1>1, <1>3, <1>4, <1>5 DEF CommandRaises

LEMMA ActivateAnswers ==
  ASSUME TypeInv, Hand, CommandFits, Disk, Points, OnTheWay, Answers, Aside, op # OpIdle,
         ActivateGate
  PROVE  OnTheWay' /\ Answers'
<1> DEFINE a == proc.att
<1>1. /\ op.name = "activate" /\ pc = "act_wait" /\ op.id = proc.rel /\ op \in Commands
      /\ UNCHANGED selector
  BY DEF ActivateGate, At, CommandFits, TypeInv, EngineTypeOK, StoreTypeOK
<1>2. /\ a \in Attempts /\ IsOpen(tx[a]) /\ Between(a)
      /\ \A b \in Attempts : IsOpen(tx[b]) => b = a
  BY <1>1, MovingHand
<1>3. tx[a].target = op.id
  BY <1>1 DEF Hand, InHand, Doc, ForwardSteps
<1>4. CASE op' = OpIdle /\ UNCHANGED prevRec
  <2>1. res' = "ok" => selector = op.id
    <3>1. SUFFICES ASSUME res' = "ok", selector # op.id
                   PROVE  FALSE
      OBVIOUS
    <3>2. op'.name # op.name
      BY <1>1, <1>4 DEF OpIdle
    <3>3. op' # [op EXCEPT !.at = "flip", !.old = selector]
      BY <1>1, <3>2 DEF Commands
    <3> QED BY <1>4, <3>1, <3>3 DEF ActivateGate, Return
  <2> QED BY <1>1, <1>4, <2>1, WayStays, AnswersIdle DEF Aside
<1>5. CASE /\ selector # op.id /\ prevRec' = [previous |-> selector, current |-> op.id]
           /\ op' = [op EXCEPT !.at = "flip", !.old = selector]
  <2>1. prevRec'.previous = selector
    BY <1>5
  <2>2. /\ op'.name = "activate" /\ op'.at = "flip" /\ op'.id = op.id /\ op'.old = selector
    BY <1>1, <1>5 DEF Commands
  <2>3. UNCHANGED <<tx, before, proc>>
    BY DEF Aside
  <2>4. Between(a)'
    BY <1>1, <1>2, <1>3, <1>5, <2>1, <2>3 DEF Between, Found, Converts
  <2>5. OnTheWay'
    BY <1>2, <2>3, <2>4 DEF OnTheWay
  <2>6. FlipWays(a)'
    BY <1>1, <1>2, <1>3, <1>5, <2>1, <2>2, <2>3 DEF FlipWays, Between, Found
  <2> QED BY <2>2, <2>5, <2>6, AnswersOn DEF FlipDone, OpIdle
<1> QED BY <1>4, <1>5 DEF ActivateGate, Return

LEMMA DeactivateAnswers ==
  ASSUME TypeInv, Hand, CommandFits, Disk, Points, OnTheWay, Answers, Aside, op # OpIdle,
         DeactivateGate
  PROVE  OnTheWay' /\ Answers'
<1> DEFINE a == proc.att
<1>1. /\ op.name = "rollback_activation" /\ op.at = "start" /\ op \in Commands
      /\ pc = "rb_select_wait" /\ UNCHANGED <<selector, prevRec>>
  BY DEF DeactivateGate, At, CommandFits, diskVars, TypeInv, EngineTypeOK, StoreTypeOK
<1>2. /\ a \in Attempts /\ IsOpen(tx[a]) /\ Between(a)
  BY <1>1, MovingHand
<1>3. tx[a].target = selector
  BY <1>1 DEF Answers, FlipWays
<1>4. OnTheWay'
  BY <1>1, WayStays
<1>5. CASE op' = OpIdle /\ res' = "err"
  BY <1>4, <1>5, AnswersIdle
<1>6. CASE op' = [op EXCEPT !.at = "flip", !.old = selector, !.id = prevRec.previous]
  <2>1. /\ op'.name = "rollback_activation" /\ op'.at = "flip" /\ op'.id = prevRec.previous
        /\ op'.old = selector
    BY <1>1, <1>6 DEF Commands
  <2>2. FlipWays(a)'
    BY <1>1, <1>2, <1>3, <2>1 DEF FlipWays, Between, Found, Aside
  <2> QED BY <1>4, <2>1, <2>2, AnswersOn DEF FlipDone, OpIdle
<1> QED BY <1>5, <1>6 DEF DeactivateGate, Return

LEMMA FlipAnswers ==
  ASSUME TypeInv, Hand, CommandFits, Disk, Points, OnTheWay, Answers, Aside, op # OpIdle,
         FlipSelector \/ FlipVerified \/ FlipRestored
  PROVE  OnTheWay' /\ Answers'
<1> DEFINE a == proc.att
<1>1. /\ op.name \in {"activate", "rollback_activation"} /\ op.at \in {"flip", "verify", "restore"}
      /\ StoreTypeOK
  BY DEF FlipSelector, FlipVerified, FlipRestored, TypeInv, EngineTypeOK
<1>2. /\ a \in Attempts /\ IsOpen(tx[a]) /\ Between(a)
      /\ \A b \in Attempts : IsOpen(tx[b]) => b = a
  BY <1>1, MovingHand
<1>3. selector \in Runtimes /\ op.old \in Runtimes /\ op.id \in Runtimes
  BY <1>1 DEF Points, FlipPoints, TypeInv, OpShape
<1>4. "dir" \notin Runtimes /\ (Found(a) = "dir" => Converts(a))
  BY <1>2, <1>3, IdsAreNoMarkers DEF Between, Runtimes
<1>5. Found(a) \in Runtimes /\ Found(a) # tx[a].target =>
        /\ prevRec.previous = Found(a) /\ {op.old, op.id} \subseteq {Found(a), tx[a].target}
        /\ op.name = "rollback_activation" => op.id = Found(a)
  BY <1>1 DEF Answers, FlipWays
<1>6. ASSUME selector' \in {op.old, op.id}, UNCHANGED prevRec
      PROVE  OnTheWay'
  <2>1. UNCHANGED <<tx, before, proc>>
    BY DEF Aside
  <2>2. Between(a)'
    BY <1>2, <1>3, <1>4, <1>5, <1>6, <2>1 DEF Between, Found, Converts
  <2> QED BY <1>2, <2>1, <2>2 DEF OnTheWay
<1>7. CASE FlipSelector
  <2>1. selector' = op.id /\ UNCHANGED prevRec /\ Goto("verify")
    BY <1>7 DEF FlipSelector
  <2>2. /\ op' # OpIdle /\ op'.name = op.name /\ op'.at = "verify" /\ op'.id = op.id
        /\ op'.old = op.old
    BY <1>1, <2>1, GotoIs
  <2>3. FlipWays(a)'
    BY <1>5, <2>1, <2>2 DEF FlipWays, Found, Aside
  <2> QED BY <1>6, <2>1, <2>2, <2>3, AnswersOn DEF FlipDone
<1>8. CASE FlipVerified
  <2>1. UNCHANGED <<selector, prevRec>> /\ selector = op.id
    BY <1>8 DEF FlipVerified, diskVars, Answers, FlipDone
  <2>2. OnTheWay'
    BY <2>1, WayStays
  <2>3. CASE Return("ok")
    <3>1. pc = "act_wait" => selector = proc.rel
      BY <1>1, <2>1 DEF CommandFits
    <3>2. pc = "rb_select_wait" => Converted \/ Home(a)
      <4>1. SUFFICES ASSUME pc = "rb_select_wait", ~Converts(a)
                     PROVE  Home(a)
        BY DEF Converts, Converted, FactOf, Doc
      <4>2. op.name = "rollback_activation"
        BY <4>1 DEF CommandFits
      <4>3. Found(a) \in Runtimes
        BY <1>2, <1>4, <4>1 DEF Between, Found, TypeInv, EngineTypeOK, ObserverTypeOK
      <4> QED BY <1>3, <1>5, <2>1, <4>2, <4>3 DEF Home
    <3>3. pc # "rb_convert_wait"
      BY <1>1 DEF CommandFits
    <3>4. /\ pc' = "act_wait" => selector' = proc'.rel
          /\ pc' = "rb_select_wait" => (Converted \/ Home(proc.att))'
      BY <2>1, <3>1, <3>2 DEF Aside, Converted, FactOf, Doc, Home, Found
    <3> QED BY <2>2, <2>3, <3>3, <3>4, AnswersIdle DEF Return, Aside
  <2>4. CASE Goto("restore")
    <3>1. /\ op' # OpIdle /\ op'.name = op.name /\ op'.at = "restore" /\ op'.id = op.id
          /\ op'.old = op.old
      BY <1>1, <2>4, GotoIs
    <3>2. FlipWays(a)'
      BY <1>5, <2>1, <3>1 DEF FlipWays, Found, Aside
    <3> QED BY <2>2, <3>1, <3>2, AnswersOn DEF FlipDone
  <2> QED BY <1>8, <2>3, <2>4 DEF FlipVerified
<1>9. CASE FlipRestored
  <2>1. selector' = op.old /\ UNCHANGED prevRec /\ op' = OpIdle /\ res' = "err"
    BY <1>9 DEF FlipRestored, Return
  <2> QED BY <1>6, <2>1, AnswersIdle
<1> QED BY <1>7, <1>8, <1>9

LEMMA CommandAnswers ==
  ASSUME TypeInv, Hand, CommandFits, Disk, Points, OnTheWay, Answers, CommandActions
  PROVE  OnTheWay' /\ Answers'
<1>1. Aside /\ op # OpIdle /\ (StoreStep \/ CommandRaises \/ ReconcileMisjudges)
  BY CommandRuns DEF CommandActions, RuntimeCommand, RuntimeCommandFails, Aside
<1>2. CASE CommandRaises
  BY <1>1, <1>2, RaisesAnswers
<1>3. CASE ~CommandRaises /\ op.name \notin {"activate", "rollback_activation"}
  BY <1>1, <1>3, OtherAnswers
<1>4. CASE ~CommandRaises /\ op.name \in {"activate", "rollback_activation"}
  BY <1>1, <1>4, CommandSteps, ActivateAnswers, DeactivateAnswers, FlipAnswers
<1> QED BY <1>2, <1>3, <1>4

-----------------------------------------------------------------------------
(* From its candidate intent on, the record names the candidate.            *)

UnnamedPhases == UnbackedPhases \cup {"backup_complete"}

CandidateNamed ==
  \A a \in Attempts : IsOpen(tx[a]) /\ tx[a].phase \notin UnnamedPhases =>
    tx[a].facts["candidate_id"] = tx[a].target

LEMMA CandidateIsNamed ==
  ASSUME TypeInv, [Next]_vars, tx' # tx, pc = "cand_intent"
  PROVE  CandidateIntent
<1>1. CASE PlainMarks \/ FactMarks
  BY <1>1 DEF PlainMarks, FactMarks, MarkStep, OwnershipIntent, OwnershipComplete,
    BackupIntent, BackupComplete, CandidateReady, DowntimeIntent,
    DowntimeStarted, ConversionIntent, ConversionComplete, TrustIntent, TrustComplete,
    ActivationIntent, Activated, DeployIntent, Deployed, ServiceStartIntent,
    ServiceStarted, HealthVerified, Success
<1>2. CASE TryMarkActions \/ BeginAttempt
  BY <1>2 DEF TryMarkActions, BeginAttempt, CheckpointActions, Checkpoint, RuntimeRestored,
    FilesRestored, ServiceRestoreIntent, RecoverClassify, ExitClassify, RollbackEnter,
    RollbackCheck, RollbackEnd
<1>3. ~SilentActions /\ ~UNCHANGED vars
  BY SilentActionsKeepLog DEF vars
<1> QED BY <1>1, <1>2, <1>3, NextCases

LEMMA LeavesUnnamed ==
  ASSUME TypeInv, Hand, [Next]_vars, NEW a \in Attempts, IsOpen(tx'[a]),
         tx[a].phase \in UnnamedPhases, tx'[a].phase \notin UnnamedPhases
  PROVE  a = proc.att /\ pc = "cand_intent" /\ CandidateIntent
<1>1. tx'[a] # tx[a] /\ tx' # tx /\ tx[a].phase # "none"
  BY DEF UnbackedPhases, UnnamedPhases
<1>2. \/ pc \in DOMAIN MarkPoints /\ tx'[a].phase = MarkPoints[pc] /\ a = proc.att
      \/ a = proc.att /\ pc \in {"rb_enter", "rb_check", "rb_runtime", "rb_files", "rb_intent",
                                 "rb_end"}
      \/ a = proc.att /\ tx'[a].phase = "diagnostic_failure"
  BY <1>1, Writers
<1>3. tx'[a].phase # "diagnostic_failure"
  BY DEF IsOpen, IsTerminal, TerminalPhases
<1>4. Fits(pc, tx[a].phase) /\ a = proc.att
  BY <1>2, <1>3 DEF Hand, Doc
<1>5. tx[a].phase \in EarlyPhases /\ tx[a].phase \notin RollbackPhases
  BY RollbackPhasesOpen DEF UnnamedPhases, UnbackedPhases, EarlyPhases, PreDowntimePhases
<1>6. pc \notin {"rb_enter", "rb_check", "rb_runtime", "rb_files", "rb_intent", "rb_end"}
  BY <1>4, <1>5 DEF Fits, RollbackSteps
<1>7. pc \in DOMAIN MarkPoints /\ tx'[a].phase = MarkPoints[pc]
  BY <1>2, <1>3, <1>6
<1>8. pc = "cand_intent"
  BY <1>4, <1>7 DEF MarkPoints, Fits, UnbackedPhases, UnnamedPhases
<1> QED BY <1>1, <1>4, <1>8, CandidateIsNamed

LEMMA CandidateFact ==
  ASSUME TypeInv, CandidateIntent, tx'[proc.att] # tx[proc.att], proc.att \in Attempts
  PROVE  tx'[proc.att].facts["candidate_id"] = proc.rel
<1>1. LogTypeOK /\ "candidate_id" \in FactKeys
  BY FactKeysAre DEF TypeInv, EngineTypeOK
<1>2. tx'[proc.att] = Marked(tx[proc.att], "candidate_intent", Fact("candidate_id", proc.rel))
      /\ tx'[proc.att].phase = "candidate_intent"
  BY <1>1, MarkStepIs DEF CandidateIntent
<1>3. tx[proc.att].phase # "candidate_intent" /\ tx[proc.att] \in Documents
  BY <1>1, <1>2 DEF Marked, LogTypeOK
<1> QED BY <1>1, <1>2, <1>3 DEF Marked, Merged, Fact, Documents

LEMMA CandidateNamedStep ==
  ASSUME TypeInv, Hand, CandidateNamed, [Next]_vars
  PROVE  CandidateNamed'
<1> SUFFICES ASSUME NEW a \in Attempts, IsOpen(tx'[a]), tx'[a].phase \notin UnnamedPhases
             PROVE  tx'[a].facts["candidate_id"] = tx'[a].target
  BY DEF CandidateNamed
<1>1. LogMove(a) /\ ~Opens(a)
  <2>1. \A r : FreshDocument(r).phase = "begun"
    BY DEF FreshDocument
  <2>2. LogMove(a)
    BY NextLogMoves DEF TypeInv, EngineTypeOK
  <2> QED BY <2>1, <2>2 DEF Opens, UnnamedPhases, UnbackedPhases
<1>2. IsOpen(tx[a]) /\ tx'[a].target = tx[a].target
  BY <1>1, PhaseMoves DEF LogMove, Writes, TypeInv, EngineTypeOK
<1>3. CASE tx[a].phase \notin UnnamedPhases
  <2>1. tx[a].facts["candidate_id"] = tx[a].target
    BY <1>2, <1>3 DEF CandidateNamed
  <2>2. "candidate_id" \in FactKeys
    BY FactKeysAre
  <2>3. tx[a].facts["candidate_id"] # Unset
    <3>1. tx[a].target \in Releases \cup {"none"}
      BY DEF TypeInv, EngineTypeOK, LogTypeOK, Documents
    <3> QED BY <2>1, <3>1, EngineConstants, UnsetIsNoValue DEF EngineFacts, Runtimes
  <2>4. tx'[a].facts["candidate_id"] = tx[a].facts["candidate_id"]
    BY <1>1, <2>2, <2>3 DEF LogMove, Writes
  <2> QED BY <1>2, <2>1, <2>4
<1>4. CASE tx[a].phase \in UnnamedPhases
  <2>1. a = proc.att /\ pc = "cand_intent" /\ CandidateIntent /\ tx'[a] # tx[a]
    BY <1>4, LeavesUnnamed
  <2>2. tx[a].target = proc.rel
    BY <2>1 DEF Hand, InHand, Doc, ForwardSteps
  <2> QED BY <1>2, <2>1, <2>2, CandidateFact
<1> QED BY <1>3, <1>4

-----------------------------------------------------------------------------
(* The way back while the engine itself moves                               *)

(* Wherever an engine may begin an attempt, a selector is there to go back  *)
(* to.                                                                      *)
SelectorThere == pc \in RecoverySteps => selector # "absent"

LEMMA OpensAtBegin ==
  ASSUME TypeInv, Hand, [Next]_vars, NEW a \in Attempts, Opens(a)
  PROVE  pc = "begin"
<1>1. tx[a].phase = "none" /\ tx'[a] # tx[a]
  BY DEF Opens, NoDocument, FreshDocument
<1>2. ASSUME pc \in AttemptSteps, a = proc.att
      PROVE  FALSE
  BY <1>1, <1>2 DEF Hand, InHand, Doc, Phases, PhasesOf, NormalSequence, RollbackSequence
<1>3. DOMAIN MarkPoints \cup {"rb_enter", "rec_mark", "exit_mark", "rb_check", "rb_runtime",
        "rb_files", "rb_intent", "rb_end"} \subseteq AttemptSteps
  BY DEF MarkPoints, AttemptSteps, ForwardSteps, RollbackSteps, ExitSteps, RecoverySteps
<1>4. BeginAttempt
  BY <1>1, <1>2, <1>3, Writers
<1> QED BY <1>4 DEF BeginAttempt

(* A recorded conversion stays recorded.                                    *)
LEMMA ConvertsStays ==
  ASSUME TypeInv, [Next]_vars, NEW a \in Attempts, Converts(a), ~Opens(a)
  PROVE  Converts(a)'
<1>1. "converted_by_attempt" \in FactKeys /\ "True" # Unset
  BY EngineConstants, UnsetIsNoValue, FactKeysAre DEF EngineFacts
<1> QED BY <1>1, NextLogMoves DEF Converts, LogMove, Writes

LEMMA WayKept ==
  ASSUME TypeInv, Hand, OnTheWay, SelectorThere, [Next]_vars, UNCHANGED <<selector, prevRec>>
  PROVE  OnTheWay'
<1> SUFFICES ASSUME NEW a \in Attempts, IsOpen(tx'[a])
             PROVE  Between(a)'
  BY DEF OnTheWay
<1>1. CASE Opens(a)
  <2>1. before'[a] = Snapshot /\ pc = "begin"
    BY <1>1, OpensBegins, OpensAtBegin
  <2>2. before'[a].selector = selector
    BY <2>1 DEF Snapshot
  <2>3. selector # "absent"
    BY <2>1 DEF SelectorThere, RecoverySteps
  <2> QED BY <2>2, <2>3 DEF Between, Found
<1>2. CASE ~Opens(a)
  <2>1. IsOpen(tx[a]) /\ LogMove(a)
    BY <1>2, NextLogMoves, PhaseMoves DEF TypeInv, EngineTypeOK
  <2>2. tx'[a].target = tx[a].target
    BY <1>2, <2>1 DEF LogMove, Writes
  <2>3. before'[a] = before[a]
    BY <2>1, BeforeMoves DEF IsOpen
  <2>4. Converts(a) => Converts(a)'
    BY <1>2, ConvertsStays
  <2> QED BY <2>1, <2>2, <2>3, <2>4 DEF OnTheWay, Between, Found
<1> QED BY <1>1, <1>2

(* The engine asks to undo an activation only with the candidate selected.  *)
LEMMA OnCandidateIs ==
  ASSUME TypeInv, Hand, CandidateNamed, pc = "rb_select"
  PROVE  /\ proc.att \in Attempts /\ IsOpen(Doc) /\ Doc.facts["candidate_id"] = Doc.target
         /\ FactOf("candidate_id") # Unset
         /\ OnCandidate => selector = Doc.target
<1>1. proc.att \in Attempts /\ Doc.phase \in RollbackPhases
  BY DEF TypeInv, PcShape, Hand, Fits, AttemptSteps, RollbackSteps
<1>2. Doc.phase \notin UnnamedPhases \cup TerminalPhases \cup {"none"}
  BY <1>1 DEF RollbackPhases, UnnamedPhases, UnbackedPhases, TerminalPhases
<1>3. IsOpen(Doc) /\ Doc.facts["candidate_id"] = Doc.target
  BY <1>1, <1>2 DEF CandidateNamed, IsOpen, IsTerminal, Doc
<1>4. Doc.target \in Releases \cup {"none"}
  BY <1>1 DEF TypeInv, EngineTypeOK, LogTypeOK, Documents, Doc
<1>5. FactOf("candidate_id") # Unset
  BY <1>3, <1>4, EngineConstants, UnsetIsNoValue DEF FactOf, EngineFacts, Runtimes
<1>6. Doc.target # "none"
  BY <1>1, <1>3, <1>5, IdsAreNoMarkers DEF TypeInv, FactShape, FactOf, Doc
<1> QED BY <1>1, <1>3, <1>5, <1>6 DEF OnCandidate, ActiveRuntime, FactOf

LEMMA CallAnswers ==
  ASSUME TypeInv, Hand, CandidateNamed, CallActions
  PROVE  Answers'
<1>1. /\ op'.at = "start" /\ res' = "none" /\ op' # OpIdle
      /\ op'.name = "rollback_activation" => pc = "rb_select"
  <2>1. ASSUME NEW name, NEW id, Call(name, id, proc.att)
        PROVE  op'.name = name /\ op'.at = "start" /\ res' = "none" /\ op' # OpIdle
    BY <2>1 DEF Call, OpIdle
  <2> QED BY <2>1, CallActionsGo
<1>2. FlipDone' /\ ActivationDone' /\ SelectDone' /\ UnconvertDone'
  BY <1>1 DEF FlipDone, ActivationDone, SelectDone, UnconvertDone
<1>3. CASE op'.name = "rollback_activation"
  <2>1. pc = "rb_select"
    BY <1>1, <1>3
  <2>2. RollbackActivation
    BY <2>1 DEF CallActions, CallAt, RecoverCandidate, CandidateStage, CandidateFinalize,
      ConversionRun, Activation, CollectGarbage, ExitCandidate, RollbackConversion
  <2>3. OnCandidate /\ UNCHANGED <<tx, proc, selector>>
    BY <2>2 DEF RollbackActivation, CallAt, diskVars
  <2>4. FlipWays(proc.att)'
    BY <1>1, <2>1, <2>3, OnCandidateIs DEF FlipWays, Doc
  <2> QED BY <1>2, <2>4 DEF Answers
<1>4. CASE op'.name # "rollback_activation"
  <2>1. FlipWays(proc.att)'
    BY <1>1, <1>4 DEF FlipWays
  <2> QED BY <1>2, <2>1 DEF Answers
<1> QED BY <1>3, <1>4

LEMMA WayStep ==
  ASSUME TypeInv, Hand, CommandFits, Disk, Points, CandidateNamed, SelectorThere, OnTheWay, Answers,
         [Next]_vars
  PROVE  OnTheWay' /\ Answers'
<1>1. CASE CallActions
  <2>1. UNCHANGED diskVars
    BY <1>1, CallActionsGo
  <2> QED BY <1>1, <2>1, WayKept, CallAnswers DEF diskVars
<1>2. CASE ResultActions
  <2>1. UNCHANGED diskVars /\ op' = OpIdle /\ res' = "none"
    BY <1>2, ResultActionsGo DEF ResultStays
  <2> QED BY <2>1, WayKept, AnswersIdle DEF diskVars
<1>3. CASE CandidateInstall
  <2>1. UNCHANGED <<selector, prevRec, op, res>> /\ op = OpIdle /\ pc' = "cand_final"
    BY <1>3 DEF CandidateInstall, CommandFits
  <2> QED BY <2>1, WayKept, AnswersIdle
<1>4. CASE KillActions
  <2>1. UNCHANGED diskVars /\ op' = OpIdle /\ res' = "none"
    BY <1>4 DEF KillActions, Interrupted, Killed, Reboot
  <2> QED BY <2>1, WayKept, AnswersIdle DEF diskVars
<1>5. CASE CommandActions
  BY <1>5, CommandAnswers
<1>6. CASE EngineMoves
  <2>1. UNCHANGED <<selector, prevRec, op, res>>
    BY <1>6 DEF EngineMoves, storeVars
  <2>2. OnTheWay'
    BY <2>1, WayKept
  <2>3. CASE UNCHANGED <<pc, proc, tx, before>>
    <3>1. Answers'
      BY <2>1, <2>3 DEF Answers, FlipDone, ActivationDone, FlipWays, SelectDone, UnconvertDone,
        Found, Home, Converted, FactOf, Doc
    <3> QED BY <2>2, <3>1
  <2>4. CASE (pc \notin WaitSteps /\ pc' \notin WaitSteps) \/ ConversionIntent
    <3>1. pc \notin WaitSteps /\ pc' \notin WaitSteps
      BY <2>4 DEF ConversionIntent, MarkStep, WaitSteps
    <3>2. op' = OpIdle
      BY <2>1, <3>1 DEF CommandFits, WaitSteps
    <3> QED BY <2>2, <3>1, <3>2, AnswersIdle DEF WaitSteps
  <2> QED BY <1>6, <2>3, <2>4 DEF EngineMoves
<1> QED BY <1>1, <1>2, <1>3, <1>4, <1>5, <1>6, StoreCases

-----------------------------------------------------------------------------
(* What the records of finished attempts say: rolled_back                   *)

ReturnActions == RollbackEnter \/ RollbackCheck \/ RollbackEnd

(* The steps of the engine, by what they do to its own variables.           *)
LEMMA ProcCases ==
  ASSUME [Next]_vars
  PROVE  \/ MarkActions \/ PlainMoves \/ NoteActions
         \/ BackupOwned \/ DowntimeFlag \/ SuccessFlag
         \/ StandingActions \/ UNCHANGED vars
         \/ Finish \/ Cancel \/ Killed \/ Reboot \/ ExitClassify
         \/ StartEngine \/ Recover \/ RecoverClassify \/ RecoverBackup \/ RecoverCheck
         \/ BeginAttempt \/ ExitTrap \/ ExitBackup \/ ExitCandidateDone
         \/ ReturnActions
BY DEF Next, Engine, MarkActions, PlainMoves, CallActions, NoteActions, CheckpointActions,
  StandingActions, ReturnActions

DownInRollback == pc \in RollbackSteps => proc.downtime = TRUE

(* A rollback is entered after a downtime only.                             *)
LEMMA DownStep ==
  ASSUME TypeInv, DownInRollback, [Next]_vars
  PROVE  DownInRollback'
<1> SUFFICES ASSUME pc' \in RollbackSteps PROVE proc'.downtime = TRUE
  BY DEF DownInRollback
<1> USE DEF RollbackSteps
<1>1. ProcTypeOK
  BY DEF TypeInv, EngineTypeOK
<1>2. CASE MarkActions
  BY <1>2 DEF MarkActions, MarkStep, OwnershipIntent, OwnershipComplete,
    BackupIntent, BackupComplete, CandidateIntent, CandidateReady, DowntimeIntent,
    DowntimeStarted, ConversionIntent, ConversionComplete, TrustIntent, TrustComplete,
    ActivationIntent, Activated, DeployIntent, Deployed, ServiceStartIntent,
    ServiceStarted, HealthVerified, Success
<1>3. CASE PlainMoves
  <2>1. proc' = proc
    BY <1>3, ForwardGoesOn
  <2>2. pc \in RollbackSteps
    <3>1. CASE CallActions
      BY <3>1, CallActionsGo
    <3>2. CASE RecoverCandidateDone \/ CandidateStaged \/ CandidateFinalized
                 \/ ConversionResult \/ ActivationResult \/ GarbageCollected
      BY <3>2 DEF TakeResult, Answered, RecoverCandidateDone, CandidateStaged,
        CandidateFinalized, ConversionResult, ActivationResult, GarbageCollected
    <3>3. CASE PlainMoves /\ ~CallActions /\ ~RecoverCandidateDone /\ ~CandidateStaged
                 /\ ~CandidateFinalized /\ ~ConversionResult /\ ~ActivationResult
                 /\ ~GarbageCollected
      BY <3>3 DEF PlainMoves, BackupMkdir, BackupCopy, CandidateReuse, CandidateInstall,
        StopService, ConversionNotNeeded, ActivationGate, DeployRsync, DeployCode,
        DeployHelpers, DeployBin, StartService, HealthPasses, RollbackStop,
        NoConversionToUndo, RollbackConf, RollbackCode, RollbackBinRemove, RollbackBinCopy,
        Interrupted
    <3> QED BY <1>3, <3>1, <3>2, <3>3
  <2> QED BY <2>1, <2>2 DEF DownInRollback
<1>4. CASE NoteActions
  BY <1>1, <1>4, NoteKeeps DEF DownInRollback
<1>5. CASE StandingActions \/ UNCHANGED vars
  BY <1>5 DEF StandingActions, RuntimeCommand, RuntimeCommandFails, ServiceWrites,
    RotateBackup, vars, DownInRollback
<1>6. CASE \/ BackupOwned \/ DowntimeFlag \/ SuccessFlag
           \/ Finish \/ Cancel \/ Killed \/ Reboot \/ ExitClassify
           \/ StartEngine \/ Recover \/ RecoverClassify \/ RecoverBackup
           \/ BeginAttempt \/ ExitBackup \/ ExitCandidateDone
  BY <1>6 DEF BackupOwned, DowntimeFlag, SuccessFlag, Finish, Cancel, Killed, Reboot,
    ExitClassify, StartEngine, Recover, RecoverClassify, RecoverBackup, BeginAttempt,
    ExitBackup, ExitCandidateDone, Exit
<1>7. CASE RecoverCheck
  BY <1>1, <1>7 DEF RecoverCheck, ProcTypeOK
<1>8. CASE ExitTrap
  <2>1. proc.downtime = TRUE /\ proc' = [proc EXCEPT !.recovering = FALSE]
    BY <1>1, <1>8 DEF ExitTrap, Exit, ProcTypeOK
  <2> QED BY <1>1, <2>1 DEF ProcTypeOK
<1>9. CASE ReturnActions
  <2>1. \/ Exit \/ pc' = "begin"
        \/ /\ pc \in {"rb_enter", "rb_check"}
           /\ \/ \E p : proc' = [proc EXCEPT !.rbPhase = p, !.rbActive = TRUE,
                                             !.rbAttempted = TRUE]
              \/ proc' = proc
    BY <1>9 DEF ReturnActions, RollbackEnter, RollbackCheck, RollbackEnd, RollbackReturns
  <2>2. pc' \notin {"idle", "begin"}
    OBVIOUS
  <2>3. pc \in RollbackSteps /\ proc'.downtime = proc.downtime
    BY <1>1, <2>1, <2>2 DEF Exit, ProcTypeOK
  <2> QED BY <2>3 DEF DownInRollback
<1> QED BY <1>2, <1>3, <1>4, <1>5, <1>6, <1>7, <1>8, <1>9, ProcCases

(* After the conversion is undone, the code put back, the helpers put back. *)
AfterHelpersBack == {"rb_files", "rb_intent", "rb_start", "rb_health", "rb_end"}
AfterCodeBack == {"rb_verify", "rb_bin", "rb_bin_copy"} \cup AfterHelpersBack
AfterUndo == {"rb_runtime", "rb_conf", "rb_rsync", "rb_code"} \cup AfterCodeBack

(* What a rollback that notes no failure has put back.                      *)
Back ==
  pc \in {"rb_convert"} \cup AfterUndo /\ proc.failed = FALSE =>
    /\ pc = "rb_convert" => Converted \/ Home(proc.att)
    /\ pc \in AfterUndo => Home(proc.att)
    /\ pc \in AfterCodeBack => code = before[proc.att].code
    /\ pc \in AfterHelpersBack => bin = before[proc.att].bin
    /\ pc \in {"rb_health", "rb_end"} => service.rt = selector
    /\ pc = "rb_end" => service.up = TRUE /\ service.ver = proc.cur

LEMMA BackInit == Init => Back /\ DownInRollback /\ SelectorThere
<1> SUFFICES ASSUME Init PROVE Back /\ DownInRollback /\ SelectorThere
  OBVIOUS
<1>1. pc = "idle"
  BY DEF Init
<1> QED BY <1>1 DEF Back, DownInRollback, SelectorThere, RollbackSteps, RecoverySteps,
      AfterUndo, AfterCodeBack, AfterHelpersBack

(* The steps of a rollback after its activation is undone.                  *)
UndoSteps ==
  \/ NoteActions \/ NoConversionToUndo \/ RollbackConf \/ RollbackCode
  \/ RollbackBinRemove \/ RollbackBinCopy \/ StandingActions \/ UNCHANGED vars

LEMMA EntersBack ==
  ASSUME [Next]_vars, pc' \in {"rb_convert"} \cup AfterUndo
  PROVE  UndoSteps
<1> USE DEF AfterUndo, AfterCodeBack, AfterHelpersBack, UndoSteps
<1>1. CASE MarkActions
  BY <1>1 DEF MarkActions, MarkStep, OwnershipIntent, OwnershipComplete,
    BackupIntent, BackupComplete, CandidateIntent, CandidateReady, DowntimeIntent,
    DowntimeStarted, ConversionIntent, ConversionComplete, TrustIntent, TrustComplete,
    ActivationIntent, Activated, DeployIntent, Deployed, ServiceStartIntent,
    ServiceStarted, HealthVerified, Success
<1>2. CASE PlainMoves
  <2>1. CASE CallActions
    BY <2>1, CallActionsGo
  <2>2. CASE RecoverCandidateDone \/ CandidateStaged \/ CandidateFinalized
               \/ ConversionResult \/ ActivationResult \/ GarbageCollected
    BY <2>2 DEF TakeResult, Answered, RecoverCandidateDone, CandidateStaged,
      CandidateFinalized, ConversionResult, ActivationResult, GarbageCollected
  <2>3. CASE \/ BackupMkdir \/ BackupCopy \/ CandidateReuse \/ CandidateInstall
             \/ StopService \/ ConversionNotNeeded \/ ActivationGate \/ DeployRsync
             \/ DeployCode \/ DeployHelpers \/ DeployBin \/ StartService \/ HealthPasses
             \/ RollbackStop \/ Interrupted
    BY <2>3 DEF BackupMkdir, BackupCopy, CandidateReuse, CandidateInstall, StopService,
      ConversionNotNeeded, ActivationGate, DeployRsync, DeployCode, DeployHelpers, DeployBin,
      StartService, HealthPasses, RollbackStop, Interrupted
  <2> QED BY <1>2, <2>1, <2>2, <2>3 DEF PlainMoves
<1>3. CASE \/ BackupOwned \/ DowntimeFlag \/ SuccessFlag
           \/ Finish \/ Cancel \/ Killed \/ Reboot \/ ExitClassify
           \/ StartEngine \/ Recover \/ RecoverClassify \/ RecoverBackup \/ RecoverCheck
           \/ BeginAttempt \/ ExitTrap \/ ExitBackup \/ ExitCandidateDone
  BY <1>3 DEF BackupOwned, DowntimeFlag, SuccessFlag, Finish, Cancel, Killed, Reboot,
    ExitClassify, StartEngine, Recover, RecoverClassify, RecoverBackup, RecoverCheck,
    BeginAttempt, ExitTrap, ExitBackup, ExitCandidateDone, Exit
<1>4. CASE ReturnActions
  BY <1>4 DEF ReturnActions, RollbackEnter, RollbackCheck, RollbackEnd, RollbackReturns, Exit
<1> QED BY <1>1, <1>2, <1>3, <1>4, ProcCases

(* A failure that is noted stays noted.                                     *)
LEMMA NoteFails ==
  ASSUME ProcTypeOK, NoteActions, proc'.failed = FALSE
  PROVE  proc.failed = FALSE /\ ~RollbackStepFails /\ ~ServiceRestoreRefused
<1> USE DEF ProcTypeOK
<1>1. CASE RollbackActivationDone \/ RollbackConversionDone \/ NoActivationToUndo
  <2>1. \/ proc' = proc \/ \E f \in BOOLEAN : proc' = [proc EXCEPT !.failed = proc.failed \/ f]
    BY <1>1 DEF RollbackCommandDone, RollbackActivationDone, RollbackConversionDone,
      NoActivationToUndo
  <2>2. proc.failed = FALSE
    BY <2>1
  <2> QED BY <1>1, <2>2 DEF RollbackCommandDone, Answered, RollbackActivationDone,
    RollbackConversionDone, NoActivationToUndo, RollbackStepFails, ServiceRestoreRefused
<1>2. CASE RollbackVerifyRuntime \/ RollbackStart \/ RollbackHealth
  <2>1. \E f \in BOOLEAN : proc' = [proc EXCEPT !.failed = proc.failed \/ f]
    BY <1>2, Zenon DEF RollbackVerifyRuntime, RollbackStart, RollbackHealth
  <2>2. proc.failed = FALSE
    BY <2>1
  <2>3. ~RollbackStepFails
    BY DEF RollbackStepFails
  <2>4. ~ServiceRestoreRefused
    BY DEF ServiceRestoreRefused
  <2> QED BY <2>2, <2>3, <2>4
<1>3. ~RollbackStepFails
  BY DEF RollbackStepFails
<1>4. ~ServiceRestoreRefused
  BY DEF ServiceRestoreRefused
<1>5. CASE RollbackRsync
  BY <1>3, <1>4, <1>5 DEF RollbackRsync
<1>6. CASE RuntimeRestored \/ FilesRestored
  BY <1>3, <1>4, <1>6 DEF RuntimeRestored, FilesRestored, Checkpoint
<1>7. CASE ServiceRestoreIntent
  <2> DEFINE p == "service_restore_intent"
             marks == ToolPresent(proc.staged) /\ CanMark(Doc, p, NoFacts)
             f0 == proc.failed \/ ~marks
             p0 == IF marks /\ ~proc.failed THEN p ELSE proc.rbPhase
  <2>1. UNCHANGED proc \/ proc' = [proc EXCEPT !.failed = f0, !.rbPhase = p0]
    BY <1>7, Zenon DEF ServiceRestoreIntent
  <2>2. f0 = FALSE => proc.failed = FALSE
    OBVIOUS
  <2> HIDE DEF f0, p0
  <2>3. proc.failed = FALSE
    BY <2>1, <2>2
  <2> QED BY <1>3, <1>4, <2>3
<1> QED BY <1>1, <1>2, <1>3, <1>4, <1>5, <1>6, <1>7 DEF NoteActions, CheckpointActions

(* A step of the rollback leaves the record's target, the snapshot and the  *)
(* selector alone.                                                          *)
LEMMA NoteFrame ==
  ASSUME TypeInv, NoteActions
  PROVE  /\ proc.att \in Attempts /\ proc'.att = proc.att /\ proc'.cur = proc.cur
         /\ UNCHANGED <<selector, prevRec, before>>
         /\ tx'[proc.att].target = tx[proc.att].target
         /\ Home(proc.att)' <=> Home(proc.att)
<1>1. /\ pc \in RollbackSteps /\ proc'.att = proc.att /\ proc'.cur = proc.cur
  BY NoteKeeps DEF TypeInv, EngineTypeOK
<1>2. proc.att \in Attempts
  BY <1>1 DEF TypeInv, PcShape, AttemptSteps
<1>3. UNCHANGED <<selector, prevRec, before>>
  <2>1. CASE RollbackActivationDone \/ RollbackConversionDone
    BY <2>1 DEF RollbackCommandDone, RollbackActivationDone, RollbackConversionDone, diskVars
  <2>2. CASE \/ NoActivationToUndo \/ RollbackVerifyRuntime \/ ServiceRestoreRefused
             \/ RollbackHealth
    BY <2>2 DEF NoActivationToUndo, RollbackVerifyRuntime, ServiceRestoreRefused,
      RollbackHealth, logFrame, storeVars
  <2>3. CASE RollbackStart \/ RollbackStepFails \/ RollbackRsync
    BY <2>3 DEF RollbackStart, RollbackStepFails, RollbackRsync, storeVars
  <2>4. CASE CheckpointActions
    BY <2>4 DEF CheckpointActions, RuntimeRestored, FilesRestored, ServiceRestoreIntent,
      Checkpoint, logFrame, storeVars
  <2> QED BY <2>1, <2>2, <2>3, <2>4 DEF NoteActions
<1>4. tx'[proc.att].target = tx[proc.att].target
  BY <1>2, NoteLog, TryMarkedAny DEF TypeInv, EngineTypeOK, Doc
<1> QED BY <1>1, <1>2, <1>3, <1>4 DEF Home, Found

(* Nothing to flip back: the selector is home, or a conversion is to undo.  *)
LEMMA NothingToFlip ==
  ASSUME TypeInv, Hand, Disk, CandidateNamed, OnTheWay, NoActivationToUndo
  PROVE  Converted \/ Home(proc.att)
<1> DEFINE a == proc.att
<1>1. pc = "rb_select" /\ ~OnCandidate
  BY DEF NoActivationToUndo
<1>2. a \in Attempts /\ IsOpen(tx[a]) /\ tx[a].facts["candidate_id"] = tx[a].target
      /\ FactOf("candidate_id") # Unset
  BY <1>1, OnCandidateIs DEF Doc
<1>3. Between(a)
  BY <1>2 DEF OnTheWay
<1>4. SUFFICES ASSUME ~Converts(a)
               PROVE  Home(a)
  BY DEF Converted, Converts, FactOf, Doc
<1>5. CASE Found(a) = "dir"
  BY <1>3, <1>4, <1>5 DEF Between, Home
<1>6. CASE Found(a) \in Runtimes
  <2>1. selector \in Runtimes
    BY <1>3, <1>6 DEF Between
  <2>2. ActiveRuntime = selector
    BY <2>1 DEF Disk, SelectorIntact, Sound, ActiveRuntime, SelectorValid
  <2>3. selector # tx[a].target
    BY <1>1, <1>2, <2>2 DEF OnCandidate, FactOf, Doc
  <2> QED BY <1>3, <1>6, <2>1, <2>3 DEF Between, Home
<1> QED BY <1>2, <1>3, <1>5, <1>6 DEF Between, Found, TypeInv, EngineTypeOK, ObserverTypeOK

(* A conversion that is undone brings back the directory that was found.    *)
LEMMA UndoneIsHome ==
  ASSUME TypeInv, Hand, Disk, OnTheWay, proc.att \in Attempts, IsOpen(tx[proc.att]),
         Converted, selector = "dir"
  PROVE  Home(proc.att)
<1>1. ConvertedBy(proc.att) /\ WayBack(proc.att) /\ Between(proc.att)
  BY DEF Disk, BeforeKept, OnTheWay, ConvertedBy, Converted, FactOf, Doc
<1>2. Found(proc.att) = "dir"
  BY <1>1 DEF WayBack, Between, Found, TypeInv, EngineTypeOK, ObserverTypeOK
<1> QED BY <1>2 DEF Home

(* Between its first step and its last a rollback has a complete backup.    *)
LEMMA RollbackHand ==
  ASSUME TypeInv, Hand, Reserve, DownInRollback, pc \in RollbackSteps \ {"rb_enter"}
  PROVE  /\ proc.att \in Attempts /\ IsOpen(tx[proc.att])
         /\ Saved(proc.att) /\ proc.cur = before[proc.att].code.ver
<1>1. proc.att \in Attempts /\ tx[proc.att].phase \in RollbackPhases
  BY DEF TypeInv, PcShape, Hand, Fits, AttemptSteps, Doc
<1>2. tx[proc.att].phase \notin UnbackedPhases \cup TerminalPhases \cup {"none"}
  BY <1>1 DEF RollbackPhases, UnbackedPhases, TerminalPhases
<1> QED BY <1>1, <1>2 DEF Reserve, HostKept, VersionKept, DownInRollback, IsOpen, IsTerminal

(* Each of its steps puts back what the next ones count on.                 *)
LEMMA NoteBack ==
  ASSUME TypeInv, Hand, CommandFits, Disk, Reserve, CandidateNamed, OnTheWay, Answers,
         DownInRollback, Back, NoteActions,
         pc' \in {"rb_convert"} \cup AfterUndo, proc'.failed = FALSE
  PROVE  Back'
<1> DEFINE a == proc.att
<1> USE DEF AfterUndo, AfterCodeBack, AfterHelpersBack
<1>1. ProcTypeOK
  BY DEF TypeInv, EngineTypeOK
<1>2. proc.failed = FALSE /\ ~RollbackStepFails /\ ~ServiceRestoreRefused
  BY <1>1, NoteFails
<1>3. /\ a \in Attempts /\ proc'.att = a /\ proc'.cur = proc.cur
      /\ UNCHANGED <<selector, before>>
  BY NoteFrame
<1>4. Home(proc.att)' <=> Home(a)
  BY NoteFrame
<1>5. CASE RollbackActivationDone
  <2>1. pc' = "rb_convert" /\ pc = "rb_select_wait" /\ op = OpIdle /\ res = "ok" /\ tx' = tx
    BY <1>1, <1>2, <1>5 DEF RollbackActivationDone, RollbackCommandDone, Answered, ProcTypeOK
  <2>2. Converted \/ Home(a)
    BY <2>1 DEF Answers, SelectDone
  <2>3. Converted' <=> Converted
    BY <1>3, <2>1 DEF Converted, FactOf, Doc
  <2> QED BY <1>4, <2>1, <2>2, <2>3 DEF Back
<1>6. CASE NoActivationToUndo
  <2>1. pc' = "rb_convert" /\ tx' = tx
    BY <1>6 DEF NoActivationToUndo
  <2>2. Converted \/ Home(a)
    BY <1>6, NothingToFlip
  <2>3. Converted' <=> Converted
    BY <1>3, <2>1 DEF Converted, FactOf, Doc
  <2> QED BY <1>4, <2>1, <2>2, <2>3 DEF Back
<1>7. CASE RollbackConversionDone
  <2>1. pc' = "rb_runtime" /\ pc = "rb_convert_wait" /\ op = OpIdle /\ res = "ok"
    BY <1>1, <1>2, <1>7 DEF RollbackConversionDone, RollbackCommandDone, Answered, ProcTypeOK
  <2>2. selector = "dir" /\ pc \in RollbackSteps \ {"rb_enter"}
    BY <2>1 DEF Answers, UnconvertDone, RollbackSteps
  <2>3. IsOpen(tx[a])
    BY <2>2, RollbackHand
  <2>4. Home(a)
    <3>1. CASE Converted
      BY <1>3, <2>2, <2>3, <3>1, UndoneIsHome
    <3>2. CASE ~Converted
      <4>1. Between(a) /\ "dir" \notin Runtimes
        BY <1>3, <2>3, IdsAreNoMarkers DEF OnTheWay, Runtimes
      <4> QED BY <1>3, <2>2, <4>1 DEF Between, Home, Found, TypeInv, EngineTypeOK, ObserverTypeOK
    <3> QED BY <3>1, <3>2
  <2> QED BY <1>4, <2>1, <2>4 DEF Back
<1>8. CASE RuntimeRestored \/ RollbackRsync
  <2>1. (pc = "rb_runtime" /\ pc' = "rb_conf") \/ (pc = "rb_rsync" /\ pc' = "rb_code")
    BY <1>1, <1>2, <1>8 DEF RuntimeRestored, Checkpoint, RollbackRsync, ProcTypeOK
  <2>2. Home(a)
    BY <1>2, <2>1 DEF Back
  <2> QED BY <1>4, <2>1, <2>2 DEF Back
<1>9. CASE RollbackVerifyRuntime
  <2>1. pc = "rb_verify" /\ pc' = "rb_bin" /\ code' = code
    BY <1>9 DEF RollbackVerifyRuntime, logFrame, hostVars
  <2>2. Home(a) /\ code = before[a].code
    BY <1>2, <2>1 DEF Back
  <2> QED BY <1>3, <1>4, <2>1, <2>2 DEF Back
<1>10. CASE FilesRestored \/ ServiceRestoreIntent
  <2>1. /\ (pc = "rb_files" /\ pc' = "rb_intent") \/ (pc = "rb_intent" /\ pc' = "rb_start")
        /\ UNCHANGED <<code, bin>>
    BY <1>10 DEF FilesRestored, ServiceRestoreIntent, Checkpoint, logFrame, hostVars
  <2>2. Home(a) /\ code = before[a].code /\ bin = before[a].bin
    BY <1>2, <2>1 DEF Back
  <2> QED BY <1>3, <1>4, <2>1, <2>2 DEF Back
<1>11. CASE RollbackStart
  <2>1. /\ pc = "rb_start" /\ pc' = "rb_health" /\ UNCHANGED <<code, bin>>
        /\ service' = IF Startable THEN Loaded ELSE Stopped
        /\ proc' = [proc EXCEPT !.failed = @ \/ ~Startable]
    BY <1>11 DEF RollbackStart
  <2>2. Startable
    BY <1>1, <2>1 DEF ProcTypeOK
  <2>3. service'.rt = selector
    BY <2>1, <2>2 DEF Loaded
  <2>4. Home(a) /\ code = before[a].code /\ bin = before[a].bin
    BY <1>2, <2>1 DEF Back
  <2> QED BY <1>3, <1>4, <2>1, <2>3, <2>4 DEF Back
<1>12. CASE RollbackHealth
  <2>1. /\ pc = "rb_health" /\ pc' = "rb_end" /\ UNCHANGED <<code, bin, service>>
        /\ proc' = [proc EXCEPT !.failed = @ \/ ~(service.up /\ service.ver = proc.cur)]
    BY <1>12 DEF RollbackHealth, logFrame, hostVars
  <2>2. service.up /\ service.ver = proc.cur
    BY <1>1, <2>1 DEF ProcTypeOK
  <2>3. service.up = TRUE
    BY <2>2 DEF TypeInv, EngineTypeOK, HostTypeOK
  <2>4. Home(a) /\ code = before[a].code /\ bin = before[a].bin /\ service.rt = selector
    BY <1>2, <2>1 DEF Back
  <2> QED BY <1>3, <1>4, <2>1, <2>2, <2>3, <2>4 DEF Back
<1> QED BY <1>2, <1>5, <1>6, <1>7, <1>8, <1>9, <1>10, <1>11, <1>12 DEF NoteActions, CheckpointActions

LEMMA BackStep ==
  ASSUME TypeInv, Hand, CommandFits, Disk, Reserve, CandidateNamed, OnTheWay, Answers,
         DownInRollback, Back, [Next]_vars
  PROVE  Back'
<1> DEFINE a == proc.att
<1> SUFFICES ASSUME pc' \in {"rb_convert"} \cup AfterUndo, proc'.failed = FALSE
             PROVE  Back'
  BY DEF Back
<1>1. CASE NoteActions
  BY <1>1, NoteBack
<1> USE DEF AfterUndo, AfterCodeBack, AfterHelpersBack
<1>2. CASE NoConversionToUndo
  <2>1. /\ pc = "rb_convert" /\ ~Converted /\ pc' = "rb_runtime"
        /\ UNCHANGED <<tx, proc, selector, before>>
    BY <1>2 DEF NoConversionToUndo, Converted, logFrame, storeVars
  <2>2. Home(a)'
    BY <2>1 DEF Back, Home, Found
  <2> QED BY <2>1, <2>2 DEF Back
<1>3. CASE RollbackConf \/ RollbackBinRemove
  <2>1. /\ \/ pc = "rb_conf" /\ pc' = "rb_rsync"
           \/ pc = "rb_bin" /\ pc' = "rb_bin_copy" /\ code' = code
        /\ UNCHANGED <<tx, proc, selector, before>>
    BY <1>3 DEF RollbackConf, RollbackBinRemove, storeVars
  <2>2. Home(a)' /\ (pc = "rb_bin" => code = before[a].code)
    BY <2>1 DEF Back, Home, Found
  <2> QED BY <2>1, <2>2 DEF Back
<1>4. CASE RollbackCode
  <2>1. /\ pc = "rb_code" /\ pc' = "rb_verify" /\ code' = backup[a].code
        /\ UNCHANGED <<tx, proc, selector, before>>
    BY <1>4 DEF RollbackCode, storeVars
  <2>2. Saved(a)
    BY <2>1, RollbackHand DEF RollbackSteps
  <2>3. Home(a)'
    BY <2>1 DEF Back, Home, Found
  <2> QED BY <2>1, <2>2, <2>3 DEF Back, Saved
<1>5. CASE RollbackBinCopy
  <2>1. /\ pc = "rb_bin_copy" /\ pc' = "rb_files" /\ code' = code
        /\ bin' = IF backup[a].state = "complete" THEN backup[a].bin ELSE bin
        /\ UNCHANGED <<tx, proc, selector, before>>
    BY <1>5 DEF RollbackBinCopy, storeVars
  <2>2. Saved(a)
    BY <2>1, RollbackHand DEF RollbackSteps
  <2>3. Home(a)' /\ code = before[a].code
    BY <2>1 DEF Back, Home, Found
  <2> QED BY <2>1, <2>2, <2>3 DEF Back, Saved
<1>6. CASE StandingActions \/ UNCHANGED vars
  <2>1. CASE CommandActions
    <3>1. op # OpIdle /\ pc' = pc
      BY <2>1, CommandRuns DEF CommandActions, RuntimeCommand, RuntimeCommandFails
    <3> QED BY <3>1 DEF CommandFits
  <2>2. CASE RotateBackup
    BY <2>2 DEF RotateBackup
  <2>3. CASE ServiceWrites \/ UNCHANGED vars
    <3>1. UNCHANGED <<tx, selector, code, bin, service, pc, proc, before>>
      BY <2>3 DEF ServiceWrites, vars, storeVars, hostVars
    <3> QED BY <3>1 DEF Back, Home, Found, Converted, FactOf, Doc
  <2> QED BY <1>6, <2>1, <2>2, <2>3 DEF StandingActions, CommandActions
<1> QED BY <1>1, <1>2, <1>3, <1>4, <1>5, <1>6, EntersBack DEF UndoSteps

LEMMA RecoveryGoesOn ==
  ASSUME TypeInv, Hand, [Next]_vars, pc' \in RecoverySteps
  PROVE  pc \in RecoverySteps \/ StartEngine \/ (RollbackEnd /\ proc.failed = FALSE)
<1> USE DEF RecoverySteps
<1>1. CASE MarkActions \/ PlainMoves
  BY <1>1, ForwardGoesOn
<1>2. CASE NoteActions
  BY <1>2, NoteKeeps DEF RollbackSteps, TypeInv, EngineTypeOK
<1>3. CASE StandingActions \/ UNCHANGED vars
  BY <1>3 DEF StandingActions, RuntimeCommand, RuntimeCommandFails, ServiceWrites,
    RotateBackup, vars
<1>4. CASE \/ BackupOwned \/ DowntimeFlag \/ SuccessFlag
           \/ Finish \/ Cancel \/ Killed \/ Reboot \/ ExitClassify
           \/ Recover \/ RecoverClassify \/ RecoverBackup \/ RecoverCheck
           \/ BeginAttempt \/ ExitTrap \/ ExitBackup \/ ExitCandidateDone
  BY <1>4 DEF BackupOwned, DowntimeFlag, SuccessFlag, Finish, Cancel, Killed, Reboot,
    ExitClassify, Recover, RecoverClassify, RecoverBackup, RecoverCheck,
    BeginAttempt, ExitTrap, ExitBackup, ExitCandidateDone, Exit
<1>5. CASE RollbackEnter
  <2>1. Doc.phase \notin TerminalPhases
    BY <1>5 DEF RollbackEnter, Hand, Fits
  <2> QED BY <1>5, <2>1 DEF RollbackEnter, TerminalPhases, RollbackReturns, Exit
<1>6. CASE RollbackCheck
  BY <1>6 DEF RollbackCheck, RollbackReturns, Exit
<1>7. CASE RollbackEnd
  BY <1>7 DEF RollbackEnd, RollbackReturns, Exit, TypeInv, EngineTypeOK, ProcTypeOK
<1> QED BY <1>1, <1>2, <1>3, <1>4, <1>5, <1>6, <1>7, ProcCases DEF ReturnActions

LEMMA SelectorMoves ==
  ASSUME [Next]_vars
  PROVE  selector' = selector \/ CommandActions
<1>1. CASE CallActions
  BY <1>1, CallActionsGo DEF diskVars
<1>2. CASE ResultActions
  BY <1>2, ResultActionsGo DEF ResultStays, diskVars
<1>3. CASE CandidateInstall \/ KillActions
  BY <1>3 DEF CandidateInstall, KillActions, Interrupted, Killed, Reboot, diskVars
<1>4. CASE EngineMoves
  BY <1>4 DEF EngineMoves, storeVars
<1> QED BY <1>1, <1>2, <1>3, <1>4, StoreCases

LEMMA SelectorThereStep ==
  ASSUME TypeInv, Hand, CommandFits, OnTheWay, SelectorThere, Back, [Next]_vars
  PROVE  SelectorThere'
<1> SUFFICES ASSUME pc' \in RecoverySteps PROVE selector' # "absent"
  BY DEF SelectorThere
<1>1. CASE CommandActions
  <2>1. op # OpIdle /\ pc' = pc /\ (StoreStep \/ CommandRaises \/ ReconcileMisjudges)
    BY <1>1, CommandRuns DEF CommandActions, RuntimeCommand, RuntimeCommandFails
  <2>2. op.name = "reconcile"
    BY <2>1 DEF CommandFits, RecoverySteps
  <2>3. selector' = selector
    BY <2>1, <2>2, CommandSteps DEF ReconcileStaging, ReconcileAbsent, ReconcileRetain,
      ReconcileReject, ReconcileMisjudges, Reject, ReconcileRemove, ReconcileUnlink, diskVars,
      CommandRaises
  <2> QED BY <2>1, <2>3 DEF SelectorThere
<1>2. CASE ~CommandActions
  <2>1. selector' = selector
    BY <1>2, SelectorMoves
  <2>2. CASE pc \in RecoverySteps
    BY <2>1, <2>2 DEF SelectorThere
  <2>3. CASE StartEngine
    BY <2>1, <2>3, IdsAreNoMarkers DEF StartEngine, Preflight, VenvPresent, Runtimes
  <2>4. CASE RollbackEnd /\ proc.failed = FALSE
    <3>1. pc = "rb_end"
      BY <2>4 DEF RollbackEnd
    <3>2. Home(proc.att)
      BY <2>4, <3>1 DEF Back, AfterUndo, AfterCodeBack, AfterHelpersBack
    <3>3. proc.att \in Attempts /\ Doc.phase \in RollbackPhases
      BY <3>1 DEF TypeInv, PcShape, Hand, Fits, AttemptSteps, RollbackSteps
    <3>4. IsOpen(tx[proc.att])
      BY <3>3 DEF RollbackPhases, IsOpen, IsTerminal, TerminalPhases, Doc
    <3>5. Found(proc.att) # "absent"
      BY <3>3, <3>4 DEF OnTheWay, Between
    <3> QED BY <2>1, <3>2, <3>5, IdsAreNoMarkers DEF Home, Runtimes
  <2> QED BY <2>2, <2>3, <2>4, RecoveryGoesOn
<1> QED BY <1>1, <1>2

LEMMA WayInit == Init => OnTheWay /\ Answers /\ CandidateNamed
<1> SUFFICES ASSUME Init PROVE OnTheWay /\ Answers /\ CandidateNamed
  OBVIOUS
<1>1. \A a \in Attempts : ~IsOpen(tx[a])
  BY DEF Init, LogInit, NoDocument, IsOpen
<1>2. op.name = "none" /\ pc = "idle"
  BY DEF Init, OpIdle
<1> QED BY <1>1, <1>2 DEF OnTheWay, Answers, CandidateNamed, FlipDone, ActivationDone, FlipWays,
      SelectDone, UnconvertDone

(* All that the way back rests on.                                          *)
Way == Ahead /\ OnTheWay /\ Answers /\ CandidateNamed /\ SelectorThere /\ DownInRollback /\ Back

LEMMA WayHolds ==
  ASSUME TypeInv, Hand, CommandFits, Disk, Points, Reserve, Way, [Next]_vars
  PROVE  Way'
<1> USE DEF Way
<1>1. Forward
  BY DEF Forward, Answers
<1>2. Ahead'
  BY <1>1, AheadStep
<1>3. OnTheWay' /\ Answers'
  BY WayStep
<1>4. CandidateNamed' /\ DownInRollback'
  BY CandidateNamedStep, DownStep
<1>5. Back' /\ SelectorThere'
  BY BackStep, SelectorThereStep
<1> QED BY <1>2, <1>3, <1>4, <1>5

LEMMA WayAlways == Spec => []Way
<1>1. Init => Way
  BY ForwardInit, WayInit, BackInit DEF Way, Forward
<1>2. TypeInv /\ Hand /\ CommandFits /\ Disk /\ Points /\ Reserve /\ Way /\ [Next]_vars => Way'
  BY WayHolds
<1> QED BY <1>1, <1>2, TypeAlways, HandAlways, CommandFitsAlways, StoreAlways, ReserveAlways,
      PTL DEF Spec

-----------------------------------------------------------------------------
(* The outcome                                                              *)

(* Which step writes an outcome.                                            *)
LEMMA TryMarkPhases ==
  ASSUME TypeInv, TryMarkActions, NEW a \in Attempts, tx'[a] # tx[a]
  PROVE  /\ a = proc.att
         /\ tx'[a].phase \in RollbackPhases \cup {"diagnostic_failure", "rolled_back"}
         /\ tx'[a].phase = "rolled_back" => RollbackEnd /\ proc.failed = FALSE
<1>1. ASSUME NEW p, tx' = TryMarked(p)
      PROVE  a = proc.att /\ tx'[a].phase = p
  <2>1. proc.att \in Attempts
    BY <1>1 DEF TryMarked
  <2> QED BY <1>1, <2>1, TryMarkedAny DEF TypeInv, EngineTypeOK, Doc
<1>2. CASE CheckpointActions
  BY <1>1, <1>2 DEF CheckpointActions, RuntimeRestored, FilesRestored, Checkpoint,
    ServiceRestoreIntent, RollbackPhases
<1>3. CASE RecoverClassify \/ ExitClassify \/ RollbackCheck
  <2>1. tx' = TryMarked("diagnostic_failure")
    BY <1>3 DEF RecoverClassify, ExitClassify, RollbackCheck
  <2>2. a = proc.att /\ tx'[a].phase = "diagnostic_failure"
    BY <1>1, <2>1
  <2> QED BY <2>2
<1>4. CASE RollbackEnter
  BY <1>1, <1>4 DEF RollbackEnter, RollbackPhases
<1>5. CASE RollbackEnd
  <2>1. proc.failed \in BOOLEAN
    BY DEF TypeInv, EngineTypeOK, ProcTypeOK
  <2>2. tx' = TryMarked(IF proc.failed THEN "diagnostic_failure" ELSE "rolled_back")
    BY <1>5 DEF RollbackEnd
  <2> QED BY <1>1, <1>5, <2>1, <2>2
<1> QED BY <1>2, <1>3, <1>4, <1>5 DEF TryMarkActions

LEMMA MarkPhases ==
  ASSUME TypeInv, PlainMarks \/ FactMarks, [Next]_vars, NEW a \in Attempts, tx'[a] # tx[a]
  PROVE  a = proc.att /\ pc \in DOMAIN MarkPoints /\ tx'[a].phase = MarkPoints[pc]
<1>1. pc \in DOMAIN MarkPoints
  <2>1. CASE PlainMarks
    BY <2>1 DEF PlainMarks, MarkStep, OwnershipIntent, OwnershipComplete, CandidateReady,
      DowntimeIntent, ConversionComplete, TrustIntent, DeployIntent, Deployed,
      ServiceStartIntent, ServiceStarted, HealthVerified, Success, MarkPoints
  <2>2. CASE FactMarks
    BY <2>2 DEF FactMarks, MarkStep, BackupIntent, BackupComplete, CandidateIntent,
      DowntimeStarted, ConversionIntent, TrustComplete, ActivationIntent, Activated, MarkPoints
  <2> QED BY <2>1, <2>2
<1>2. pc \notin {"begin", "rb_enter", "rec_mark", "exit_mark", "rb_check", "rb_runtime",
                 "rb_files", "rb_intent", "rb_end"}
  BY <1>1 DEF MarkPoints
<1>3. ~BeginAttempt
  BY <1>2 DEF BeginAttempt
<1> QED BY <1>2, <1>3, Writers

LEMMA OutcomeWriters ==
  ASSUME TypeInv, [Next]_vars, NEW a \in Attempts
  PROVE  /\ Concludes(a, "success") => a = proc.att /\ pc = "success"
         /\ Concludes(a, "rolled_back") => a = proc.att /\ RollbackEnd /\ proc.failed = FALSE
<1>1. SUFFICES ASSUME tx'[a].phase # tx[a].phase, tx'[a].phase \in {"success", "rolled_back"}
               PROVE  /\ tx'[a].phase = "success" => a = proc.att /\ pc = "success"
                      /\ tx'[a].phase = "rolled_back" =>
                           a = proc.att /\ RollbackEnd /\ proc.failed = FALSE
  BY DEF Concludes
<1>2. tx'[a] # tx[a]
  BY <1>1
<1>3. CASE PlainMarks \/ FactMarks
  BY <1>1, <1>2, <1>3, MarkPhases DEF MarkPoints
<1>4. CASE TryMarkActions
  BY <1>1, <1>2, <1>4, TryMarkPhases DEF RollbackPhases
<1>5. CASE BeginAttempt
  <2>1. \E b \in Attempts : tx'[b] = FreshDocument(proc.rel)
                            /\ \A c \in Attempts \ {b} : tx'[c] = tx[c]
    BY <1>5, BeginIs
  <2>2. tx'[a].phase = "begun"
    BY <1>2, <2>1 DEF FreshDocument
  <2> QED BY <1>1, <2>2
<1>6. CASE SilentActions \/ UNCHANGED vars
  BY <1>2, <1>6, SilentActionsKeepLog DEF vars
<1> QED BY <1>3, <1>4, <1>5, <1>6, NextCases

(* A record is closed as a success with the target in place and running.    *)
LEMMA SuccessIsTrue ==
  ASSUME TypeInv, Hand, Disk, Ahead, pc = "success"
  PROVE  SuccessIsComplete(proc.att)
<1>1. /\ pc \in AfterActivation \cap AfterCode \cap AfterHelpers \cap AfterStart
      /\ pc \in ForwardSteps /\ pc # "idle"
  BY DEF AfterActivation, AfterCode, AfterHelpers, AfterStart, ForwardSteps
<1>2. tx[proc.att].target = proc.rel /\ proc.rel \in Runtimes
  BY <1>1 DEF Hand, InHand, Doc, TypeInv, PcShape, Runtimes
<1>3. /\ selector = proc.rel /\ code = [ver |-> proc.rel, intact |-> TRUE] /\ bin = proc.rel
      /\ service = [up |-> TRUE, ver |-> proc.rel, rt |-> proc.rel]
  BY <1>1 DEF Ahead
<1>4. Sound(proc.rel)
  BY <1>2, <1>3 DEF Disk, SelectorIntact
<1> QED BY <1>2, <1>3, <1>4 DEF SuccessIsComplete

(* A record is closed as rolled back with the previous version running.     *)
LEMMA RolledBackIsTrue ==
  ASSUME TypeInv, Hand, Reserve, DownInRollback, Back, pc = "rb_end", proc.failed = FALSE
  PROVE  RolledBackIsPrevious(proc.att)
<1>1. /\ Home(proc.att) /\ service.rt = selector
      /\ service.up /\ service.ver = proc.cur
  BY DEF Back, AfterUndo, AfterCodeBack, AfterHelpersBack
<1>2. proc.cur = before[proc.att].code.ver
  BY RollbackHand DEF RollbackSteps
<1>3. selector \in {before[proc.att].selector} \cup
        (IF before[proc.att].selector = tx[proc.att].target THEN Runtimes ELSE {})
  BY <1>1 DEF Home, Found
<1> QED BY <1>1, <1>2, <1>3 DEF RolledBackIsPrevious

(* OutcomeIsTrue: what a record says when it is closed is so on the host,   *)
(* however often the engine was killed, signalled or restarted on the way   *)
(* (_tx_mark success, phase5_rollback).                                     *)
THEOREM OutcomesAreTrue == Spec => OutcomeIsTrue
<1> DEFINE Inv == /\ TypeInv /\ Hand /\ Disk /\ Reserve
                  /\ Ahead /\ DownInRollback /\ Back
<1>1. ASSUME Inv, [Next]_vars
      PROVE  [ \A a \in Attempts :
                 /\ Concludes(a, "success") => SuccessIsComplete(a)
                 /\ Concludes(a, "rolled_back") => RolledBackIsPrevious(a) ]_vars
  <2> SUFFICES ASSUME NEW a \in Attempts
               PROVE  /\ Concludes(a, "success") => SuccessIsComplete(a)
                      /\ Concludes(a, "rolled_back") => RolledBackIsPrevious(a)
    OBVIOUS
  <2>1. ASSUME Concludes(a, "success") PROVE SuccessIsComplete(a)
    <3>1. a = proc.att /\ pc = "success"
      BY <1>1, <2>1, OutcomeWriters
    <3> QED BY <1>1, <3>1, SuccessIsTrue
  <2>2. ASSUME Concludes(a, "rolled_back") PROVE RolledBackIsPrevious(a)
    <3>1. a = proc.att /\ pc = "rb_end" /\ proc.failed = FALSE
      BY <1>1, <2>2, OutcomeWriters DEF RollbackEnd
    <3> QED BY <1>1, <3>1, RolledBackIsTrue
  <2> QED BY <2>1, <2>2
<1>2. Spec => []Inv
  BY TypeAlways, HandAlways, StoreAlways, ReserveAlways, WayAlways, PTL DEF Way
<1> QED BY <1>1, <1>2, PTL DEF Spec, OutcomeIsTrue

-----------------------------------------------------------------------------
(* The engine implements UpdateOutcome                                      *)

Late(a) == Reached(tx[a], "downtime_started") \/ Reached(tx[a], "rollback_started")

(* An open attempt is past its downtime intent when its history says so.    *)
LateReached ==
  \A a \in Attempts : IsOpen(tx[a]) => (tx[a].phase \in PreDowntimePhases <=> ~Late(a))

LEMMA ReachedGrows ==
  ASSUME LogTypeOK, [LogNext]_tx, NEW a \in Attempts
  PROVE  /\ \A p : Reached(tx[a], p) => Reached(tx'[a], p)
         /\ tx'[a] # tx[a] => Reached(tx'[a], tx'[a].phase)
<1>1. ASSUME NEW b \in Attempts, NEW r \in Releases, Begin(b, r), tx'[a] # tx[a]
      PROVE  (\A p : Reached(tx[a], p) => Reached(tx'[a], p)) /\ Reached(tx'[a], tx'[a].phase)
  <2>1. tx[a] = NoDocument /\ tx'[a] = FreshDocument(r)
    BY <1>1 DEF Begin, LogTypeOK
  <2> QED BY <2>1 DEF NoDocument, FreshDocument, Reached
<1>2. ASSUME NEW b \in Attempts, NEW q \in Phases, NEW ks \in SUBSET FactKeys,
             NEW updates \in [ks -> FactValues], Mark(b, q, updates), tx'[a] # tx[a]
      PROVE  (\A p : Reached(tx[a], p) => Reached(tx'[a], p)) /\ Reached(tx'[a], tx'[a].phase)
  <2>1. tx'[a].phase = q /\ tx'[a].history = Append(tx[a].history, q)
    BY <1>2 DEF Mark, Marked, LogTypeOK, Documents
  <2>2. tx[a].history \in Seq(Phases)
    BY DEF LogTypeOK, Documents
  <2>3. /\ Len(tx'[a].history) = Len(tx[a].history) + 1
        /\ \A i \in 1 .. Len(tx[a].history) : tx'[a].history[i] = tx[a].history[i]
        /\ tx'[a].history[Len(tx[a].history) + 1] = q
        /\ DOMAIN tx[a].history = 1 .. Len(tx[a].history)
        /\ DOMAIN tx'[a].history = 1 .. Len(tx[a].history) + 1
        /\ Len(tx[a].history) \in Nat
    BY <1>2, <2>1, <2>2
  <2> QED BY <2>1, <2>3 DEF Reached
<1>3. CASE tx'[a] = tx[a]
  BY <1>3
<1> QED BY <1>1, <1>2, <1>3 DEF LogNext

(* Out of the phases before the downtime.                                   *)
LEMMA PreDowntimeGoes ==
  ASSUME NEW p \in PreDowntimePhases, NEW q \in AllowedSuccessors(p)
  PROVE  q \in PreDowntimePhases \cup {"downtime_started", "rollback_started",
                                       "diagnostic_failure"}
<1>1. Len(NormalSequence) = 21 /\ Len(RollbackSequence) = 5
  BY DEF NormalSequence, RollbackSequence
<1>2. \/ \E i \in 1 .. 20 : q = NormalSequence[i + 1] /\ p = NormalSequence[i]
      \/ \E i \in 1 .. 4 : q = RollbackSequence[i + 1] /\ p = RollbackSequence[i]
      \/ q \in {"diagnostic_failure", "rollback_started"}
  BY <1>1 DEF AllowedSuccessors, FollowingIn
<1>3. CASE \E i \in 1 .. 20 : q = NormalSequence[i + 1] /\ p = NormalSequence[i]
  BY <1>3 DEF NormalSequence, PreDowntimePhases
<1>4. CASE \E i \in 1 .. 4 : q = RollbackSequence[i + 1] /\ p = RollbackSequence[i]
  BY <1>4 DEF RollbackSequence, PreDowntimePhases
<1> QED BY <1>2, <1>3, <1>4

LEMMA LateReachedStep ==
  ASSUME TypeInv, LateReached, [Next]_vars
  PROVE  LateReached'
<1> SUFFICES ASSUME NEW a \in Attempts, IsOpen(tx'[a])
             PROVE  tx'[a].phase \in PreDowntimePhases <=> ~Late(a)'
  BY DEF LateReached
<1>1. LogTypeOK /\ [LogNext]_tx /\ LogMove(a)
  BY EngineLogStep, NextLogMoves DEF TypeInv, EngineTypeOK
<1>2. CASE Opens(a)
  <2>1. \A r : FreshDocument(r).phase = "begun" /\ FreshDocument(r).history = <<"begun">>
    BY DEF FreshDocument
  <2>2. tx'[a].phase = "begun" /\ tx'[a].history = <<"begun">>
    BY <1>2, <2>1 DEF Opens
  <2> QED BY <2>2 DEF Late, Reached, PreDowntimePhases
<1>3. CASE tx'[a] = tx[a]
  BY <1>3 DEF LateReached, Late
<1>4. CASE Writes(a) /\ tx'[a] # tx[a] /\ ~Opens(a)
  <2>1. IsOpen(tx[a]) /\ tx'[a].phase \in AllowedSuccessors(tx[a].phase)
    BY <1>4 DEF Writes
  <2>2. CASE tx[a].phase \in PreDowntimePhases /\ tx'[a].phase \in PreDowntimePhases
    <3>1. ~Late(a)
      BY <2>1, <2>2 DEF LateReached
    <3>2. tx'[a].phase \notin {"downtime_started", "rollback_started"}
      BY <2>2 DEF PreDowntimePhases
    <3>3. ~Late(a)'
      BY <1>1, <3>1, <3>2, ReachedMoves DEF Late
    <3> QED BY <2>2, <3>3
  <2>3. CASE tx[a].phase \in PreDowntimePhases /\ tx'[a].phase \notin PreDowntimePhases
    <3>1. tx'[a].phase \in {"downtime_started", "rollback_started"}
      BY <2>1, <2>3, PreDowntimeGoes DEF IsOpen, IsTerminal, TerminalPhases
    <3>2. Reached(tx'[a], tx'[a].phase)
      BY <1>1, <1>4, ReachedGrows
    <3> QED BY <2>3, <3>1, <3>2 DEF Late
  <2>4. CASE tx[a].phase \notin PreDowntimePhases
    <3>1. Late(a) /\ tx'[a].phase \notin PreDowntimePhases
      BY <1>1, <1>4, <2>1, <2>4, PhaseMoves DEF LateReached
    <3>2. Late(a)'
      BY <1>1, <3>1, ReachedGrows DEF Late
    <3> QED BY <3>1, <3>2
  <2> QED BY <2>2, <2>3, <2>4
<1> QED BY <1>1, <1>2, <1>3, <1>4 DEF LogMove

LEMMA LateReachedAlways == Spec => []LateReached
<1>1. Init => LateReached
  BY DEF Init, LogInit, NoDocument, IsOpen, LateReached
<1>2. TypeInv /\ LateReached /\ [Next]_vars => LateReached'
  BY LateReachedStep
<1> QED BY <1>1, <1>2, TypeAlways, PTL DEF Spec

-----------------------------------------------------------------------------
(* The outcome of a record, once how far it got is read from its phase.     *)
LEMMA OutcomeIs ==
  ASSUME TypeInv, LateReached, NEW a \in Attempts
  PROVE  /\ tx[a].phase = "none" => Outcome(a) = "none"
         /\ tx[a].phase = "success" => Outcome(a) = "success"
         /\ tx[a].phase = "rolled_back" => Outcome(a) = "rolled_back"
         /\ tx[a].phase = "diagnostic_failure" => Outcome(a) = "failed"
         /\ IsOpen(tx[a]) => Outcome(a) = IF tx[a].phase \in PreDowntimePhases
                                          THEN "open" ELSE "exposed"
<1>1. IsOpen(tx[a]) => (tx[a].phase \in PreDowntimePhases <=> ~Late(a))
  BY DEF LateReached
<1>2. IsOpen(tx[a]) <=>
        tx[a].phase \notin {"none", "success", "rolled_back", "diagnostic_failure"}
  BY DEF IsOpen, IsTerminal, TerminalPhases
<1> QED BY <1>1, <1>2 DEF Outcome, Late

LEMMA OutcomeWillBe ==
  ASSUME TypeInv', LateReached', NEW a \in Attempts
  PROVE  /\ tx'[a].phase = "none" => Outcome(a)' = "none"
         /\ tx'[a].phase = "success" => Outcome(a)' = "success"
         /\ tx'[a].phase = "rolled_back" => Outcome(a)' = "rolled_back"
         /\ tx'[a].phase = "diagnostic_failure" => Outcome(a)' = "failed"
         /\ IsOpen(tx'[a]) => Outcome(a)' = IF tx'[a].phase \in PreDowntimePhases
                                            THEN "open" ELSE "exposed"
<1>1. IsOpen(tx'[a]) => (tx'[a].phase \in PreDowntimePhases <=> ~Late(a)')
  BY DEF LateReached
<1>2. IsOpen(tx'[a]) <=>
        tx'[a].phase \notin {"none", "success", "rolled_back", "diagnostic_failure"}
  BY DEF IsOpen, IsTerminal, TerminalPhases
<1> QED BY <1>1, <1>2 DEF Outcome, Late

Exposed(a) == IsOpen(tx[a]) /\ tx[a].phase \notin PreDowntimePhases

LEMMA ExposedIs ==
  ASSUME TypeInv, LateReached, NEW a \in Attempts
  PROVE  Outcome(a) = "exposed" <=> Exposed(a)
BY OutcomeIs DEF Exposed, IsOpen, IsTerminal, TerminalPhases

LEMMA ExposedWillBe ==
  ASSUME TypeInv', LateReached', NEW a \in Attempts
  PROVE  Outcome(a)' = "exposed" <=> Exposed(a)'
BY OutcomeWillBe DEF Exposed, IsOpen, IsTerminal, TerminalPhases

(* What counts as installed, now and after the step.                        *)
LEMMA SettledIs ==
  ASSUME TypeInv, Hand, LateReached
  PROVE  /\ \A h \in Attempts : Exposed(h) =>
              Settled = Installation(before[h].code, before[h].bin)
         /\ (\A h \in Attempts : ~Exposed(h)) => Settled = Installation(code, bin)
<1>1. ASSUME NEW h \in Attempts, Exposed(h)
      PROVE  Settled = Installation(before[h].code, before[h].bin)
  <2>1. \A a \in Attempts : Outcome(a) = "exposed" <=> a = h
    BY <1>1, ExposedIs DEF Exposed, Hand, OneOpen
  <2>2. (CHOOSE a \in Attempts : Outcome(a) = "exposed") = h
    BY <2>1
  <2>3. \E a \in Attempts : Outcome(a) = "exposed"
    BY <2>1
  <2> QED BY <2>2, <2>3 DEF Settled
<1>2. ASSUME \A h \in Attempts : ~Exposed(h)
      PROVE  Settled = Installation(code, bin)
  BY <1>2, ExposedIs DEF Settled
<1> QED BY <1>1, <1>2

LEMMA SettledWillBe ==
  ASSUME TypeInv', Hand', LateReached'
  PROVE  /\ \A h \in Attempts : Exposed(h)' =>
              Settled' = Installation(before'[h].code, before'[h].bin)
         /\ (\A h \in Attempts : ~Exposed(h)') => Settled' = Installation(code', bin')
<1>1. ASSUME NEW h \in Attempts, Exposed(h)'
      PROVE  Settled' = Installation(before'[h].code, before'[h].bin)
  <2>1. \A a \in Attempts : Outcome(a)' = "exposed" <=> a = h
    BY <1>1, ExposedWillBe DEF Exposed, Hand, OneOpen
  <2>2. (CHOOSE a \in Attempts : Outcome(a)' = "exposed") = h
    BY <2>1
  <2>3. \E a \in Attempts : Outcome(a)' = "exposed"
    BY <2>1
  <2> QED BY <2>2, <2>3 DEF Settled, Installation
<1>2. ASSUME \A h \in Attempts : ~Exposed(h)'
      PROVE  Settled' = Installation(code', bin')
  BY <1>2, ExposedWillBe DEF Settled, Installation
<1> QED BY <1>1, <1>2

(* One record changes at a time.                                            *)
LEMMA OneWrites ==
  ASSUME TypeInv, [Next]_vars, NEW a \in Attempts, tx'[a] # tx[a]
  PROVE  \A b \in Attempts \ {a} : tx'[b] = tx[b]
<1>1. CASE BeginAttempt
  BY <1>1, BeginIs
<1>2. CASE ~BeginAttempt
  BY <1>2, Writers
<1> QED BY <1>1, <1>2

(* All the refinement rests on.                                             *)
Ground == TypeInv /\ Hand /\ Disk /\ Reserve /\ Way /\ LateReached

(* Nothing is installed but by an exposed attempt.                          *)
LEMMA InstallsExposed ==
  ASSUME TypeInv, Hand, [Next]_vars, <<code, bin>>' # <<code, bin>>
  PROVE  UNCHANGED tx /\ \E a \in Attempts : Exposed(a)
<1>1. PICK a \in Incomplete : tx[a].phase \in {"deploy_intent"} \cup RollingBack
  BY CodeUnderIntent DEF OpenIn
<1>2. tx[a].phase \notin PreDowntimePhases
  BY <1>1 DEF PreDowntimePhases, RollingBack
<1>3. UNCHANGED tx
  BY CodeMoves
<1> QED BY <1>1, <1>2, <1>3 DEF Incomplete, Exposed

(* While the same attempts are exposed, what counts as installed stays.     *)
LEMMA SettledStays ==
  ASSUME Ground, Ground', [Next]_vars, \A a \in Attempts : Exposed(a)' <=> Exposed(a)
  PROVE  Settled' = Settled
<1> USE DEF Ground
<1>1. ASSUME NEW h \in Attempts, Exposed(h)
      PROVE  Settled' = Settled
  <2>1. Exposed(h)' /\ tx[h].phase # "none"
    BY <1>1 DEF Exposed, IsOpen
  <2>2. before'[h] = before[h]
    BY <2>1, BeforeMoves
  <2>3. Settled' = Installation(before'[h].code, before'[h].bin)
    BY <2>1, SettledWillBe
  <2>4. Settled = Installation(before[h].code, before[h].bin)
    BY <1>1, SettledIs
  <2> QED BY <2>2, <2>3, <2>4
<1>2. ASSUME \A h \in Attempts : ~Exposed(h)
      PROVE  Settled' = Settled
  <2>1. code' = code /\ bin' = bin
    BY <1>2, InstallsExposed
  <2>2. Settled' = Installation(code', bin')
    BY <1>2, SettledWillBe
  <2>3. Settled = Installation(code, bin)
    BY <1>2, SettledIs
  <2> QED BY <2>1, <2>2, <2>3
<1> QED BY <1>1, <1>2

(* The record of one attempt moves and those of the others stay.            *)
Shifts(a, from, to) ==
  /\ Outcome(a) = from /\ Outcome(a)' = to
  /\ tx'[a] # tx[a]
  /\ \A b \in Attempts \ {a} : tx'[b] = tx[b]

Moves(a) ==
  \/ Opens(a) /\ Shifts(a, "none", "open")
  \/ /\ tx'[a].target = tx[a].target
     /\ \/ Shifts(a, "open", "open") \/ Shifts(a, "open", "exposed")
        \/ Shifts(a, "open", "failed") \/ Shifts(a, "exposed", "exposed")
        \/ Shifts(a, "exposed", "failed")
        \/ Shifts(a, "exposed", "success") /\ Concludes(a, "success")
        \/ Shifts(a, "exposed", "rolled_back") /\ Concludes(a, "rolled_back")

LEMMA OutcomeMoves ==
  ASSUME Ground, Ground', [Next]_vars, NEW a \in Attempts, tx'[a] # tx[a]
  PROVE  Moves(a)
<1> USE DEF Ground
<1>1. LogMove(a) /\ \A b \in Attempts \ {a} : tx'[b] = tx[b]
  BY NextLogMoves, OneWrites
<1>2. CASE Opens(a)
  <2>1. tx[a].phase = "none" /\ tx'[a].phase = "begun"
    BY <1>2 DEF Opens, NoDocument, FreshDocument
  <2>2. IsOpen(tx'[a]) /\ tx'[a].phase \in PreDowntimePhases
    BY <2>1 DEF IsOpen, IsTerminal, TerminalPhases, PreDowntimePhases
  <2>3. Outcome(a) = "none"
    BY <2>1, OutcomeIs
  <2>4. Outcome(a)' = "open"
    BY <2>2, OutcomeWillBe
  <2> QED BY <1>1, <1>2, <2>3, <2>4 DEF Moves, Shifts
<1>3. CASE ~Opens(a)
  <2>1. /\ IsOpen(tx[a]) /\ tx'[a].phase \in AllowedSuccessors(tx[a].phase)
        /\ tx'[a].target = tx[a].target
    BY <1>1, <1>3 DEF LogMove, Writes
  <2>2. tx'[a].phase # "none"
    BY <1>1, <2>1, PhaseMoves DEF TypeInv, EngineTypeOK, IsOpen
  <2>3. Outcome(a) = IF tx[a].phase \in PreDowntimePhases THEN "open" ELSE "exposed"
    BY <2>1, OutcomeIs
  <2>4. \/ tx'[a].phase \in {"success", "rolled_back"} /\ Outcome(a)' = tx'[a].phase
        \/ tx'[a].phase = "diagnostic_failure" /\ Outcome(a)' = "failed"
        \/ IsOpen(tx'[a]) /\ Outcome(a)' = IF tx'[a].phase \in PreDowntimePhases
                                           THEN "open" ELSE "exposed"
    BY <2>2, OutcomeWillBe DEF IsOpen, IsTerminal, TerminalPhases
  <2>5. CASE tx[a].phase \in PreDowntimePhases
    <3>1. tx'[a].phase \notin {"success", "rolled_back"}
      BY <2>1, <2>5, PreDowntimeGoes DEF PreDowntimePhases
    <3> QED BY <1>1, <2>1, <2>3, <2>4, <2>5, <3>1 DEF Moves, Shifts
  <2>6. CASE tx[a].phase \notin PreDowntimePhases
    <3>1. tx'[a].phase \notin PreDowntimePhases
      BY <1>1, <1>3, <2>6, PhaseMoves DEF TypeInv, EngineTypeOK
    <3>2. tx[a].phase \notin {"success", "rolled_back"}
      BY <2>1 DEF IsOpen, IsTerminal, TerminalPhases
    <3> QED BY <1>1, <2>1, <2>3, <2>4, <2>6, <3>1, <3>2 DEF Moves, Shifts, Concludes
  <2> QED BY <2>5, <2>6
<1> QED BY <1>2, <1>3

(* Shifts and the abstract outcomes and targets.                            *)
LEMMA ShiftShows ==
  ASSUME Ground, Ground', NEW a \in Attempts, NEW from, NEW to, Shifts(a, from, to)
  PROVE  [b \in Attempts |-> Outcome(b)]' =
           [[b \in Attempts |-> Outcome(b)] EXCEPT ![a] = to]
<1>1. \A b \in Attempts \ {a} : Outcome(b)' = Outcome(b)
  BY DEF Shifts, Outcome
<1> QED BY <1>1 DEF Shifts

LEMMA TargetsStay ==
  ASSUME \A a \in Attempts : tx'[a].target = tx[a].target
  PROVE  [a \in Attempts |-> IF tx[a].target = "none" THEN "none"
                             ELSE WholeRelease(tx[a].target)]' =
         [a \in Attempts |-> IF tx[a].target = "none" THEN "none"
                             ELSE WholeRelease(tx[a].target)]
OBVIOUS

(* Which attempt is exposed before and after a record moves.                *)
LEMMA ExposedMoves ==
  ASSUME Ground, Ground', [Next]_vars, NEW a \in Attempts, NEW from, NEW to, Shifts(a, from, to)
  PROVE  /\ \A b \in Attempts \ {a} : Exposed(b)' <=> Exposed(b)
         /\ Exposed(a) <=> from = "exposed"
         /\ Exposed(a)' <=> to = "exposed"
         /\ UNCHANGED <<code, bin>>
<1> USE DEF Ground
<1>1. \A b \in Attempts \ {a} : Exposed(b)' <=> Exposed(b)
  BY DEF Shifts, Exposed
<1>2. Exposed(a) <=> from = "exposed"
  BY ExposedIs DEF Shifts
<1>3. Exposed(a)' <=> to = "exposed"
  BY ExposedWillBe DEF Shifts
<1>4. UNCHANGED <<code, bin>>
  BY InstallsExposed DEF Shifts
<1> QED BY <1>1, <1>2, <1>3, <1>4

LEMMA QuietShift ==
  ASSUME Ground, Ground', [Next]_vars, NEW a \in Attempts, NEW from, NEW to,
         Shifts(a, from, to), from = "exposed" <=> to = "exposed"
  PROVE  Settled' = Settled
BY ExposedMoves, SettledStays

(* An attempt that closes leaves on the host what is then installed.        *)
LEMMA ExposedEnds ==
  ASSUME Ground, Ground', [Next]_vars, NEW a \in Attempts, NEW to,
         Shifts(a, "exposed", to), to # "exposed"
  PROVE  /\ Settled = Installation(before[a].code, before[a].bin)
         /\ Settled' = Installation(code, bin)
<1> USE DEF Ground
<1>1. Exposed(a) /\ ~Exposed(a)' /\ UNCHANGED <<code, bin>>
  BY ExposedMoves
<1>2. \A b \in Attempts : ~Exposed(b)'
  <2>1. ASSUME NEW b \in Attempts \ {a} PROVE ~Exposed(b)
    BY <1>1 DEF Exposed, Hand, OneOpen
  <2> QED BY <1>1, <2>1, ExposedMoves
<1>3. Settled' = Installation(code', bin')
  BY <1>2, SettledWillBe
<1>4. Settled' = Installation(code, bin)
  BY <1>1, <1>3
<1>5. Settled = Installation(before[a].code, before[a].bin)
  BY <1>1, SettledIs
<1> QED BY <1>4, <1>5

Stuttering ==
  UNCHANGED << [a \in Attempts |-> Outcome(a)],
               [a \in Attempts |-> IF tx[a].target = "none" THEN "none"
                                   ELSE WholeRelease(tx[a].target)], Settled >>

LEMMA NoMoveStutters ==
  ASSUME Ground, Ground', [Next]_vars, UNCHANGED tx
  PROVE  Stuttering
<1>1. \A a \in Attempts : Exposed(a)' <=> Exposed(a)
  BY DEF Exposed
<1>2. Settled' = Settled
  BY <1>1, SettledStays
<1>3. \A a \in Attempts : Outcome(a)' = Outcome(a)
  BY DEF Outcome
<1> QED BY <1>2, <1>3 DEF Stuttering

LEMMA SameMoveStutters ==
  ASSUME Ground, Ground', [Next]_vars, NEW a \in Attempts, NEW at, Shifts(a, at, at),
         tx'[a].target = tx[a].target
  PROVE  Stuttering
<1>1. Settled' = Settled
  BY QuietShift
<1>2. \A b \in Attempts : Outcome(b)' = Outcome(b) /\ tx'[b].target = tx[b].target
  <2>1. ASSUME NEW b \in Attempts \ {a}
        PROVE  Outcome(b)' = Outcome(b) /\ tx'[b].target = tx[b].target
    BY DEF Shifts, Outcome
  <2>2. Outcome(a)' = Outcome(a)
    BY DEF Shifts
  <2> QED BY <2>1, <2>2
<1> QED BY <1>1, <1>2 DEF Stuttering

(* An attempt ends, in the terms of UpdateOutcome.                          *)
LEMMA EndsShow ==
  ASSUME Ground, Ground', NEW a \in Attempts, NEW from, NEW to, Shifts(a, from, to),
         tx'[a].target = tx[a].target
  PROVE  Promise!Ends(a, from, to)
<1>1. [b \in Attempts |-> Outcome(b)]' = [[b \in Attempts |-> Outcome(b)] EXCEPT ![a] = to]
  BY ShiftShows
<1>2. \A b \in Attempts : tx'[b].target = tx[b].target
  BY DEF Shifts
<1>3. Outcome(a) = from
  BY DEF Shifts
<1> QED BY <1>1, <1>2, <1>3, TargetsStay DEF Promise!Ends

(* A new attempt.                                                           *)
LEMMA OpeningStarts ==
  ASSUME Ground, Ground', [Next]_vars, NEW a \in Attempts, Opens(a), Shifts(a, "none", "open")
  PROVE  Promise!Start(a)
<1> USE DEF Ground
<1>1. Settled' = Settled
  BY QuietShift
<1>2. \A b \in Attempts : Outcome(b) \notin Promise!InProgress
  <2>1. \A b \in Attempts : ~IsOpen(tx[b])
    BY OpensAtBegin DEF Hand, InHand
  <2>2. ASSUME NEW b \in Attempts PROVE Outcome(b) \notin {"open", "exposed"}
    <3>1. tx[b].phase \in {"none", "success", "rolled_back", "diagnostic_failure"}
      BY <2>1 DEF IsOpen, IsTerminal, TerminalPhases
    <3> QED BY <3>1, OutcomeIs
  <2> QED BY <2>2 DEF Promise!InProgress
<1>3. [b \in Attempts |-> Outcome(b)]' = [[b \in Attempts |-> Outcome(b)] EXCEPT ![a] = "open"]
  BY ShiftShows
<1>4. PICK r \in Releases : tx'[a] = FreshDocument(r)
  BY DEF Opens
<1>5. tx'[a].target = r /\ r # "none"
  BY <1>4, IdsAreNoMarkers DEF FreshDocument
<1>6. \A b \in Attempts \ {a} : tx'[b] = tx[b]
  BY DEF Shifts
<1>7. [b \in Attempts |-> IF tx[b].target = "none" THEN "none"
                          ELSE WholeRelease(tx[b].target)]' =
      [[b \in Attempts |-> IF tx[b].target = "none" THEN "none"
                           ELSE WholeRelease(tx[b].target)] EXCEPT ![a] = WholeRelease(r)]
  BY <1>5, <1>6
<1>8. Outcome(a) = "none"
  BY DEF Shifts
<1> QED BY <1>1, <1>2, <1>3, <1>7, <1>8 DEF Promise!Start

(* The service goes down for an update: what is installed is what the       *)
(* attempt found.                                                           *)
LEMMA ExposingShows ==
  ASSUME Ground, Ground', [Next]_vars, NEW a \in Attempts, Shifts(a, "open", "exposed"),
         tx'[a].target = tx[a].target
  PROVE  Promise!Expose(a)
<1> USE DEF Ground
<1>1. IsOpen(tx[a]) /\ tx[a].phase \in PreDowntimePhases
  <2>1. Outcome(a) = "open"
    BY DEF Shifts
  <2>2. tx[a].phase \notin {"none", "success", "rolled_back", "diagnostic_failure"}
    BY <2>1, OutcomeIs
  <2>3. IsOpen(tx[a])
    BY <2>2 DEF IsOpen, IsTerminal, TerminalPhases
  <2> QED BY <2>1, <2>3, OutcomeIs
<1>2. \A b \in Attempts : ~Exposed(b)
  BY <1>1 DEF Exposed, Hand, OneOpen
<1>3. Settled = Installation(code, bin)
  BY <1>2, SettledIs
<1>4. code = before[a].code /\ bin = before[a].bin
  BY <1>1 DEF Reserve, HostKept, Untouched
<1>5. before'[a] = before[a]
  BY <1>1, BeforeMoves DEF IsOpen
<1>6. Settled' = Installation(before'[a].code, before'[a].bin)
  BY ExposedMoves, SettledWillBe
<1>7. Settled' = Settled
  BY <1>3, <1>4, <1>5, <1>6
<1> QED BY <1>7, EndsShow DEF Promise!Expose

(* Success installs the whole of the target.                                *)
LEMMA SuccessCommits ==
  ASSUME Ground, Ground', [Next]_vars, NEW a \in Attempts, Shifts(a, "exposed", "success"),
         Concludes(a, "success"), tx'[a].target = tx[a].target
  PROVE  Promise!Commit(a)
<1> USE DEF Ground
<1>1. a = proc.att /\ pc = "success"
  BY OutcomeWriters
<1>2. SuccessIsComplete(a)
  BY <1>1, SuccessIsTrue DEF Way
<1>3. code = [ver |-> tx[a].target, intact |-> TRUE] /\ bin = tx[a].target
  BY <1>2 DEF SuccessIsComplete
<1>4. tx[a].target # "none"
  <2>1. proc.rel \in Releases /\ tx[a].target = proc.rel
    BY <1>1 DEF TypeInv, PcShape, Hand, InHand, ForwardSteps, Doc
  <2> QED BY <2>1, IdsAreNoMarkers
<1>5. Settled' = WholeRelease(tx[a].target)
  BY <1>3, ExposedEnds DEF WholeRelease
<1> QED BY <1>4, <1>5, EndsShow DEF Promise!Commit

(* A rollback leaves what the attempt found.                                *)
LEMMA RollbackReverts ==
  ASSUME Ground, Ground', [Next]_vars, NEW a \in Attempts, Shifts(a, "exposed", "rolled_back"),
         Concludes(a, "rolled_back"), tx'[a].target = tx[a].target
  PROVE  Promise!Revert(a)
<1> USE DEF Ground
<1>1. a = proc.att /\ pc = "rb_end" /\ proc.failed = FALSE
  BY OutcomeWriters DEF RollbackEnd
<1>2. code = before[a].code /\ bin = before[a].bin
  BY <1>1 DEF Way, Back, AfterUndo, AfterCodeBack, AfterHelpersBack
<1>3. Settled' = Settled
  BY <1>2, ExposedEnds
<1> QED BY <1>3, EndsShow DEF Promise!Revert

LEMMA FailureDamages ==
  ASSUME Ground, Ground', [Next]_vars, NEW a \in Attempts, Shifts(a, "exposed", "failed"),
         tx'[a].target = tx[a].target
  PROVE  Promise!Damage(a)
<1>1. code \in CodeTrees /\ bin \in BinSets
  BY DEF Ground, TypeInv, EngineTypeOK, HostTypeOK
<1>2. Settled' = Installation(code, bin)
  BY ExposedEnds
<1> QED BY <1>1, <1>2, EndsShow DEF Promise!Damage

LEMMA MovesShow ==
  ASSUME Ground, Ground', [Next]_vars
  PROVE  Promise!OutcomeNext \/ Stuttering
<1>1. CASE \A a \in Attempts : tx'[a] = tx[a]
  <2>1. tx' = tx
    BY <1>1 DEF Ground, TypeInv, EngineTypeOK, LogTypeOK
  <2> QED BY <2>1, NoMoveStutters
<1>2. ASSUME NEW a \in Attempts, tx'[a] # tx[a]
      PROVE  Promise!OutcomeNext \/ Stuttering
  <2>1. Moves(a)
    BY <1>2, OutcomeMoves
  <2>2. CASE Opens(a) /\ Shifts(a, "none", "open")
    BY <2>2, OpeningStarts DEF Promise!OutcomeNext
  <2>3. CASE tx'[a].target = tx[a].target /\ (Shifts(a, "open", "open")
             \/ Shifts(a, "exposed", "exposed"))
    BY <2>3, SameMoveStutters
  <2>4. CASE tx'[a].target = tx[a].target /\ Shifts(a, "open", "exposed")
    BY <2>4, ExposingShows DEF Promise!OutcomeNext
  <2>5. CASE tx'[a].target = tx[a].target /\ Shifts(a, "open", "failed")
    <3>1. Settled' = Settled
      BY <2>5, QuietShift
    <3>2. Promise!Abort(a)
      BY <2>5, <3>1, EndsShow DEF Promise!Abort
    <3> QED BY <3>2 DEF Promise!OutcomeNext
  <2>6. CASE tx'[a].target = tx[a].target /\ Shifts(a, "exposed", "failed")
    BY <2>6, FailureDamages DEF Promise!OutcomeNext
  <2>7. CASE tx'[a].target = tx[a].target /\ Shifts(a, "exposed", "success")
             /\ Concludes(a, "success")
    BY <2>7, SuccessCommits DEF Promise!OutcomeNext
  <2>8. CASE tx'[a].target = tx[a].target /\ Shifts(a, "exposed", "rolled_back")
             /\ Concludes(a, "rolled_back")
    BY <2>8, RollbackReverts DEF Promise!OutcomeNext
  <2> QED BY <2>1, <2>2, <2>3, <2>4, <2>5, <2>6, <2>7, <2>8 DEF Moves
<1> QED BY <1>1, <1>2

(* EngineImplementsPromise: killed, signalled or rebooted at any step, an   *)
(* update installs its whole target or leaves the installation as it found  *)
(* it or closes its record as failed, and only an attempt that had taken    *)
(* the service down may leave anything else (update.sh, phase5_rollback).   *)
THEOREM EngineImplements == Spec => EngineImplementsPromise
<1>1. Init => Promise!OutcomeInit
  <2> SUFFICES ASSUME Init PROVE Promise!OutcomeInit
    OBVIOUS
  <2>1. \A a \in Attempts : tx[a].phase = "none" /\ tx[a].target = "none" /\ ~IsOpen(tx[a])
    BY DEF Init, LogInit, NoDocument, IsOpen
  <2>2. \A a \in Attempts : Outcome(a) = "none"
    BY <2>1 DEF Outcome
  <2>3. Settled = Installation(code, bin)
    BY <2>2 DEF Settled
  <2>4. code \in CodeTrees /\ bin \in BinSets
    BY TypeInit DEF TypeInv, EngineTypeOK, HostTypeOK
  <2> QED BY <2>1, <2>2, <2>3, <2>4 DEF Promise!OutcomeInit
<1>2. Ground /\ Ground' /\ [Next]_vars =>
        [Promise!OutcomeNext]_<< [a \in Attempts |-> Outcome(a)],
          [a \in Attempts |-> IF tx[a].target = "none" THEN "none"
                              ELSE WholeRelease(tx[a].target)], Settled >>
  BY MovesShow DEF Stuttering
<1>3. Spec => []Ground
  BY TypeAlways, HandAlways, StoreAlways, ReserveAlways, WayAlways, LateReachedAlways, PTL
    DEF Ground
<1> QED BY <1>1, <1>2, <1>3, PTL DEF Spec, EngineImplementsPromise, Promise!OutcomeSpec
=============================================================================
