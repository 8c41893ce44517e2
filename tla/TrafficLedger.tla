--------------------------- MODULE TrafficLedger ---------------------------
(***************************************************************************)
(* The traffic tables of ccc.db and what a transaction does to them: the    *)
(* accounting decision (backend/traffic/accounting.py), the rows of a tick  *)
(* (repository.py), and rollups, lifetime checkpoints and retention         *)
(* (retention.py).  An operator takes the contents of the tables and        *)
(* returns those of the committed transaction.                              *)
(*                                                                          *)
(* A timestamp is its UTC day: every bucket and cut-off the code compares   *)
(* is a day, and the hour buckets of a day are written with it and pruned   *)
(* with it, so they are one entry.  Columns nothing reads back (labels,     *)
(* build revisions, row references) are left out.                           *)
(***************************************************************************)
EXTENDS Integers, Sequences, SequencesExt

CONSTANTS
  Directions,     \* the byte counters kept: up and down
  UptimeEps,      \* UPTIME_RESET_EPS_SECONDS
  SnapshotDays,   \* retention of snapshots, in days
  DeltaDays,      \* retention of deltas
  HourlyDays,     \* retention of hour buckets
  None            \* no row

ASSUME LedgerConstants ==
  /\ {UptimeEps, SnapshotDays, DeltaDays, HourlyDays} \subseteq Nat
  /\ None \notin Nat
  /\ None \notin [seq : Nat, uptime : Nat, bytes : [Directions -> Nat], day : Nat, epoch : Nat]

-----------------------------------------------------------------------------
(* Byte counts, one per direction *)

Zero == [d \in Directions |-> 0]
Plus(a, b) == [d \in Directions |-> a[d] + b[d]]
Minus(a, b) == [d \in Directions |-> a[d] - b[d]]
AtMost(a, b) == \A d \in Directions : a[d] <= b[d]

(* SUM over some entries of a table of byte counts. *)
SumOf(table, keys) == FoldFunctionOnSet(Plus, Zero, table, keys)

(* INSERT, or UPDATE of the row with that key. *)
Put(table, key, row) ==
  [k \in DOMAIN table \cup {key} |-> IF k = key THEN row ELSE table[k]]

AddTo(table, day, bytes) ==
  Put(table, day, IF day \in DOMAIN table THEN Plus(table[day], bytes) ELSE bytes)

-----------------------------------------------------------------------------
(* Tables *)

EmptyTables == [
  snapshots   |-> <<>>,   \* id -> row
  deltas      |-> <<>>,   \* id -> row
  epochs      |-> <<>>,   \* "open" or "ended", by id
  hourly      |-> <<>>,   \* day -> bytes
  daily       |-> <<>>,   \* day -> bytes
  checkpoints |-> <<>> ]  \* day -> total bytes

(* ORDER BY seq DESC, id DESC LIMIT 1 *)
LatestSnapshot(t) ==
  IF DOMAIN t.snapshots = {}
  THEN None
  ELSE LET top == CHOOSE i \in DOMAIN t.snapshots : \A j \in DOMAIN t.snapshots :
                    \/ t.snapshots[j].seq < t.snapshots[i].seq
                    \/ t.snapshots[j].seq = t.snapshots[i].seq /\ j <= i
       IN t.snapshots[top]

OpenEpochs(t) == {e \in DOMAIN t.epochs : t.epochs[e] = "open"}

ActiveEpoch(t) ==
  IF OpenEpochs(t) = {}
  THEN None
  ELSE CHOOSE e \in OpenEpochs(t) : \A f \in OpenEpochs(t) : f <= e

LatestCheckpoint(t) ==
  CHOOSE c \in DOMAIN t.checkpoints : \A d \in DOMAIN t.checkpoints : d <= c

(* The counted bytes of the deltas whose day is in a set. *)
CountedOn(t, days) ==
  SumOf([i \in DOMAIN t.deltas |-> t.deltas[i].bytes],
        {i \in DOMAIN t.deltas : t.deltas[i].counted /\ t.deltas[i].day \in days})

DaysOf(t) == {t.deltas[i].day : i \in DOMAIN t.deltas}

ComputeLifetime(t) ==
  IF DOMAIN t.checkpoints = {}
  THEN CountedOn(t, DaysOf(t))
  ELSE LET base == LatestCheckpoint(t)
       IN Plus(t.checkpoints[base], CountedOn(t, {d \in DaysOf(t) : d > base}))

-----------------------------------------------------------------------------
(* The accounting decision *)

CountedFor(source, anomaly) ==
  source # "initial_baseline" /\ anomaly # "negative_clamped"

Decision(newEpoch, endsPrevious, seq, reading, day, source, anomaly, bytes) == [
  newEpoch     |-> newEpoch,
  endsPrevious |-> endsPrevious,
  snapshot     |-> [seq |-> seq, uptime |-> reading.uptime,
                    bytes |-> reading.bytes, day |-> day],
  delta        |-> [bytes |-> bytes, day |-> day,
                    counted |-> CountedFor(source, anomaly)] ]

(* Conduit has restarted since prev: its uptime went back. *)
Restarted(reading, prev) == reading.uptime + UptimeEps < prev.uptime

(* Mutant: a counter that went back is recorded as a negative delta.        *)
DecideUnclamped(reading, prev, day) ==
  IF prev = None
  THEN Decision(TRUE, FALSE, 1, reading, day, "initial_baseline", "none", Zero)
  ELSE LET seq == prev.seq + 1
       IN IF Restarted(reading, prev)
          THEN Decision(TRUE, TRUE, seq, reading, day, "epoch_baseline", "reset",
                        reading.bytes)
          ELSE Decision(FALSE, FALSE, seq, reading, day, "normal", "none",
                        Minus(reading.bytes, prev.bytes))

Decide(reading, prev, day) ==
  IF prev = None
  THEN Decision(TRUE, FALSE, 1, reading, day, "initial_baseline", "none", Zero)
  ELSE LET seq   == prev.seq + 1
           moved == Minus(reading.bytes, prev.bytes)
       IN CASE Restarted(reading, prev) ->
                 Decision(TRUE, TRUE, seq, reading, day, "epoch_baseline", "reset",
                          reading.bytes)
            [] ~Restarted(reading, prev) /\ ~AtMost(Zero, moved) ->
                 Decision(FALSE, FALSE, seq, reading, day, "normal", "negative_clamped",
                          Zero)
            [] OTHER ->
                 Decision(FALSE, FALSE, seq, reading, day, "normal", "none", moved)

-----------------------------------------------------------------------------
(* The transaction of a tick *)

(* A tick of a running epoch needs an epoch to attach to. *)
CanPersist(decision, epoch) == decision.newEpoch \/ epoch # None

EpochOf(t, decision, epoch) ==
  IF decision.newEpoch THEN Len(t.epochs) + 1 ELSE epoch

EndEpoch(epochs, epoch) ==
  IF epoch = None THEN epochs ELSE [epochs EXCEPT ![epoch] = "ended"]

RowOf(snapshot, epoch) == [
  seq |-> snapshot.seq, uptime |-> snapshot.uptime, bytes |-> snapshot.bytes,
  day |-> snapshot.day, epoch |-> epoch]

(* Ids are never used again (AUTOINCREMENT), and a tick adds one row to     *)
(* either table, under the same id; the newest snapshot is never pruned.    *)
NextId(t) == Max({0} \cup DOMAIN t.snapshots) + 1

PersistTick(t, decision, epoch) == [t EXCEPT
  !.epochs =
     IF decision.newEpoch
     THEN Append(IF decision.endsPrevious THEN EndEpoch(@, epoch) ELSE @, "open")
     ELSE @,
  !.snapshots = Put(@, NextId(t), RowOf(decision.snapshot, EpochOf(t, decision, epoch))),
  !.deltas = Put(@, NextId(t), decision.delta)]

UpsertRollups(t, day, bytes) == [t EXCEPT
  !.hourly = AddTo(@, day, bytes),
  !.daily  = AddTo(@, day, bytes)]

(* The checkpoint of the last completed day, when it is due. *)
CheckpointDue(t, yesterday) ==
  /\ \A c \in DOMAIN t.checkpoints : c < yesterday
  /\ \E i \in DOMAIN t.deltas : t.deltas[i].counted /\ t.deltas[i].day <= yesterday

WriteDueCheckpoint(t, today) ==
  LET yesterday == today - 1
      after(day) == \A c \in DOMAIN t.checkpoints : c < day
      base == IF DOMAIN t.checkpoints = {} THEN Zero ELSE t.checkpoints[LatestCheckpoint(t)]
      total == Plus(base, CountedOn(t, {d \in DaysOf(t) : after(d) /\ d <= yesterday}))
  IN IF CheckpointDue(t, yesterday)
     THEN [t EXCEPT !.checkpoints = Put(@, yesterday, total)]
     ELSE t

ApplyTick(t, delta, today) ==
  WriteDueCheckpoint(
    IF delta.counted THEN UpsertRollups(t, delta.day, delta.bytes) ELSE t, today)

Tick(t, decision, epoch, today) ==
  ApplyTick(PersistTick(t, decision, epoch), decision.delta, today)

-----------------------------------------------------------------------------
(* The retention transaction *)

(* Rows older than the window go, the newest row by id never. *)
PruneSnapshots(rows, cut) ==
  Restrict(rows, {i \in DOMAIN rows : rows[i].day >= cut \/ i = Max(DOMAIN rows)})

(* Aged rows go once a checkpoint covers them. *)
PruneDeltas(t, cut) ==
  Restrict(t.deltas, {i \in DOMAIN t.deltas :
    ~(t.deltas[i].day < cut /\ \E c \in DOMAIN t.checkpoints : t.deltas[i].day <= c)})

PruneHourly(t, cut) ==
  Restrict(t.hourly, {d \in DOMAIN t.hourly : ~(d < cut /\ d \in DOMAIN t.daily)})

Prune(t, today) == [t EXCEPT
  !.snapshots = PruneSnapshots(@, today - SnapshotDays),
  !.deltas    = PruneDeltas(t, today - DeltaDays),
  !.hourly    = PruneHourly(t, today - HourlyDays)]
=============================================================================
