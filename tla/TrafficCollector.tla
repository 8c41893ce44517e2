-------------------------- MODULE TrafficCollector --------------------------
(***************************************************************************)
(* The traffic collector (backend/traffic/collector.py): the task that     *)
(* reads the byte counters of Conduit once an interval and adds what they   *)
(* moved to the ledger.  A tick is the sequence of its awaits: the clock is *)
(* found synchronized or not, the wall clock is read, the metrics endpoint  *)
(* answers, the decision is committed, memory advances, and once a day old  *)
(* rows are pruned in a transaction of their own.                           *)
(*                                                                          *)
(* Around it run the host clock, Conduit itself, and the ends a collector   *)
(* can meet: stopped, cancelled or killed at any await, and a power loss,   *)
(* which also takes the commits the write-ahead journal had not synced.     *)
(***************************************************************************)
EXTENDS TrafficLedger

(* A scenario bounds a behaviour: the last day, the uptime Conduit reaches, *)
(* the bytes relayed in each direction, the ticks recorded, the restarts of *)
(* Conduit, the power losses, and whether a synchronized clock is stepped.  *)
CONSTANT Scenarios

ASSUME ScenariosAreBounds ==
  Scenarios \subseteq [day : Nat, uptime : Nat, relayed : Nat, ticks : Nat,
                      restarts : Nat, losses : Nat, steps : BOOLEAN]

VARIABLES
  db,       \* the tables, as the last commit left them
  disk,     \* the tables that survive a power loss
  conduit,  \* the counters and the uptime Conduit exposes
  clock,    \* the true day, the wall clock, and the synchronized marker
  col,      \* the collector task
  truth,    \* what was really relayed: a history the code does not keep
  limits    \* the scenario, which never changes

vars == <<db, disk, conduit, clock, col, truth, limits>>

Days == 1 .. limits.day
Bytes == [Directions -> 0 .. limits.relayed]

-----------------------------------------------------------------------------
(* Conduit and the host *)

NoReading == [uptime |-> 0, bytes |-> Zero, relayed |-> Zero]

Off == [at |-> "off", synced |-> FALSE, now |-> 0, reading |-> NoReading,
        prev |-> None, epoch |-> None, pruned |-> None]

Init ==
  /\ limits \in Scenarios
  /\ db = EmptyTables
  /\ disk = EmptyTables
  /\ conduit = [uptime |-> 0, bytes |-> Zero]
  /\ \E shown \in Days : clock = [day |-> 1, wall |-> shown, synced |-> FALSE]
  /\ col = Off
  /\ truth = [relayed |-> Zero, base |-> Zero, restarts |-> 0, losses |-> 0]

ConduitRuns ==
  /\ conduit.uptime < limits.uptime
  /\ \E moved \in [Directions -> {0, 1}] :
       /\ AtMost(Plus(truth.relayed, moved), [d \in Directions |-> limits.relayed])
       /\ conduit' = [uptime |-> conduit.uptime + 1, bytes |-> Plus(conduit.bytes, moved)]
       /\ truth' = [truth EXCEPT !.relayed = Plus(@, moved)]
  /\ UNCHANGED <<db, disk, clock, col, limits>>

FreshConduit == [uptime |-> 0, bytes |-> Zero]

ConduitRestarts ==
  /\ conduit # FreshConduit
  /\ truth.restarts < limits.restarts
  /\ conduit' = FreshConduit
  /\ truth' = [truth EXCEPT !.restarts = @ + 1]
  /\ UNCHANGED <<db, disk, clock, col, limits>>

(* A day ends. The wall clock follows; unsynchronized, it is off by as much *)
(* as before.                                                               *)
DayEnds ==
  /\ clock.day < limits.day
  /\ clock' = [clock EXCEPT !.day = @ + 1,
                            !.wall = IF @ < limits.day THEN @ + 1 ELSE @]
  /\ UNCHANGED <<db, disk, conduit, col, truth, limits>>

(* timesyncd sets the clock and leaves its marker, in this order. *)
ClockSynchronizes ==
  /\ ~clock.synced
  /\ clock' = [clock EXCEPT !.wall = clock.day, !.synced = TRUE]
  /\ UNCHANGED <<db, disk, conduit, col, truth, limits>>

(* The marker says that the clock was set once since boot; it stays when    *)
(* the clock is set again, by hand or by a faulty server.                   *)
ClockIsStepped ==
  /\ limits.steps
  /\ clock.synced
  /\ \E shown \in Days \ {clock.wall} : clock' = [clock EXCEPT !.wall = shown]
  /\ UNCHANGED <<db, disk, conduit, col, truth, limits>>

(* The journal (WAL, synchronous=NORMAL) is synced at a checkpoint, not at  *)
(* a commit: what is committed before survives a power loss.  Followed only *)
(* while a power loss is still to come.                                     *)
JournalSyncs ==
  /\ truth.losses < limits.losses
  /\ disk # db
  /\ disk' = db
  /\ UNCHANGED <<db, conduit, clock, col, truth, limits>>

PowerLoss ==
  /\ truth.losses < limits.losses
  /\ db' = disk
  /\ conduit' = FreshConduit
  /\ col' = Off
  /\ \E shown \in Days : clock' = [clock EXCEPT !.wall = shown, !.synced = FALSE]
  /\ truth' = [truth EXCEPT !.losses = @ + 1]
  /\ UNCHANGED <<disk, limits>>

-----------------------------------------------------------------------------
(* The collector *)

(* _reseed *)
CollectorStarts ==
  /\ col.at = "off"
  /\ col' = [Off EXCEPT !.at = "waiting", !.prev = LatestSnapshot(db),
                        !.epoch = ActiveEpoch(db)]
  /\ UNCHANGED <<db, disk, conduit, clock, truth, limits>>

(* Stopped, cancelled or killed, at any await: an open transaction is       *)
(* rolled back with its connection, a committed one stays.                  *)
CollectorEnds ==
  /\ col.at # "off"
  /\ col' = Off
  /\ UNCHANGED <<db, disk, conduit, clock, truth, limits>>

(* What a tick holds is dropped when it ends. *)
Waiting(c) == [c EXCEPT !.at = "waiting", !.synced = FALSE, !.now = 0,
                        !.reading = NoReading]

(* The marker is looked at, then the clock read: a clock set in between was *)
(* not synchronized yet for this tick.                                      *)
TickBegins ==
  /\ col.at = "waiting"
  /\ col' = [col EXCEPT !.at = "reader", !.synced = clock.synced, !.now = clock.wall]
  /\ UNCHANGED <<db, disk, conduit, clock, truth, limits>>

(* ConduitUnreachableError or MetricsContractError, or a reading under an   *)
(* unsynchronized clock: only the health row is written.                    *)
TickDefers ==
  /\ col.at = "reader"
  /\ col' = Waiting(col)
  /\ UNCHANGED <<db, disk, conduit, clock, truth, limits>>

(* What the endpoint answers; relayed is what was really relayed by then.   *)
Reading == [uptime |-> conduit.uptime, bytes |-> conduit.bytes, relayed |-> truth.relayed]

(* Mutant: the reading is recorded although the clock is not synchronized.  *)
TickReadsUngated ==
  /\ col.at = "reader"
  /\ col' = [col EXCEPT !.at = "decide",
                        !.reading = Reading]
  /\ UNCHANGED <<db, disk, conduit, clock, truth, limits>>

TickReads ==
  /\ col.at = "reader"
  /\ col.synced
  /\ col' = [col EXCEPT !.at = "decide",
                        !.reading = Reading]
  /\ UNCHANGED <<db, disk, conduit, clock, truth, limits>>

(* Memory after a committed tick: what was decided, not what was stored.    *)
Advanced(c, decision) ==
  LET epoch == EpochOf(db, decision, c.epoch)
  IN [c EXCEPT !.prev = RowOf(decision.snapshot, epoch), !.epoch = epoch]

TickPersists ==
  /\ col.at = "decide"
  /\ LET decision == Decide(col.reading, col.prev, col.now)
     IN /\ CanPersist(decision, col.epoch)
        /\ decision.snapshot.seq <= limits.ticks
        /\ db' = Tick(db, decision, col.epoch, col.now)
        /\ col' = LET moved == Advanced(col, decision)
                  IN IF col.now = col.pruned
                     THEN Waiting(moved)
                     ELSE [moved EXCEPT !.at = "prune", !.reading = NoReading]
        /\ truth' = IF col.prev = None
                    THEN [truth EXCEPT !.base = col.reading.relayed]
                    ELSE truth
  /\ UNCHANGED <<disk, conduit, clock, limits>>

(* Mutant: memory advances although the transaction was rolled back.        *)
TickPersistFailsAdvancing ==
  /\ col.at = "decide"
  /\ col.prev # None
  /\ col' = [Waiting(col) EXCEPT !.prev =
               RowOf(Decide(col.reading, col.prev, col.now).snapshot, col.epoch)]
  /\ UNCHANGED <<db, disk, conduit, clock, truth, limits>>

(* The transaction fails and is rolled back; memory stays. *)
TickPersistFails ==
  /\ col.at = "decide"
  /\ col' = Waiting(col)
  /\ UNCHANGED <<db, disk, conduit, clock, truth, limits>>

PruneCommits ==
  /\ col.at = "prune"
  /\ db' = Prune(db, col.now)
  /\ col' = [Waiting(col) EXCEPT !.pruned = col.now]
  /\ UNCHANGED <<disk, conduit, clock, truth, limits>>

PruneFails ==
  /\ col.at = "prune"
  /\ col' = Waiting(col)
  /\ UNCHANGED <<db, disk, conduit, clock, truth, limits>>

-----------------------------------------------------------------------------

Environment ==
  \/ ConduitRuns \/ ConduitRestarts \/ DayEnds \/ ClockSynchronizes
  \/ ClockIsStepped \/ JournalSyncs \/ PowerLoss

Collector ==
  \/ CollectorStarts \/ CollectorEnds \/ TickBegins \/ TickDefers \/ TickReads \/ TickPersists \/ TickPersistFails
  \/ PruneCommits \/ PruneFails

Next == Environment \/ Collector

Spec == Init /\ [][Next]_vars

-----------------------------------------------------------------------------
(* Properties *)

Rows == [seq : 1 .. limits.ticks, uptime : 0 .. limits.uptime, bytes : Bytes, day : Days,
         epoch : 1 .. limits.ticks]

(* Every variable stays in its type: rows, readings and counters within the *)
(* bounds, and a tick holds data only while it runs (TrafficCollector).     *)
TrafficTypeOK ==
  /\ conduit \in [uptime : 0 .. limits.uptime, bytes : Bytes]
  /\ clock \in [day : Days, wall : Days, synced : BOOLEAN]
  /\ Range(db.snapshots) \subseteq Rows
  /\ Range(db.deltas) \subseteq [bytes : Bytes, day : Days, counted : BOOLEAN]
  /\ ToSet(db.epochs) \subseteq {"open", "ended"}
  /\ DOMAIN db.daily \subseteq Days /\ DOMAIN db.hourly \subseteq Days
  /\ DOMAIN db.checkpoints \subseteq Days
  /\ col.at \in {"off", "waiting", "reader", "decide", "prune"}
  /\ col.prev \in Rows \cup {None}
  /\ col.epoch \in 1 .. limits.ticks \cup {None}

(* The checkpoint of a day is the sum of everything counted up to the end   *)
(* of that day (write_due_checkpoint): restarts, gaps, deferred ticks,      *)
(* failed transactions, pruning and lost commits never make a later tick    *)
(* land on a day that is already folded in, as long as nobody steps a       *)
(* synchronized clock.                                                      *)
CheckpointIsCumulative ==
  ~limits.steps => \A c \in DOMAIN db.checkpoints :
    db.checkpoints[c] = SumOf(db.daily, {d \in DOMAIN db.daily : d <= c})

(* The lifetime total, which the code derives from a checkpoint and the     *)
(* deltas still kept, is the sum of the daily buckets, which are never      *)
(* pruned: the two figures of the dashboard agree (compute_lifetime,        *)
(* upsert_rollups, prune).                                                  *)
LifetimeIsSumOfDays ==
  ~limits.steps => ComputeLifetime(db) = SumOf(db.daily, DOMAIN db.daily)

(* The lifetime total never exceeds what Conduit relayed since recording    *)
(* began, whatever restarts the collector did or did not notice             *)
(* (accounting.decide: "so we never over-count").                           *)
NeverOvercounts ==
  DOMAIN db.snapshots # {} => AtMost(ComputeLifetime(db), Minus(truth.relayed, truth.base))

(* While Conduit has not restarted, the lifetime total is all it relayed    *)
(* between the first and the last recorded reading: ticks missed because    *)
(* the collector was down, the endpoint unreachable, the clock deferred or  *)
(* the database failing are recovered by the next one (accounting.decide),  *)
(* as long as nobody steps a synchronized clock back to a day that is       *)
(* already folded into a checkpoint.                                        *)
NothingLostWithoutRestart ==
  DOMAIN db.snapshots # {} /\ truth.restarts = 0 /\ truth.losses = 0 /\ ~limits.steps =>
    ComputeLifetime(db) = Minus(LatestSnapshot(db).bytes, truth.base)

(* The baseline and the epoch a running collector holds in memory are those *)
(* of the tables, through failed ticks and pruning (_reseed, _tick, prune). *)
MemoryMatchesTables ==
  col.at # "off" => col.prev = LatestSnapshot(db) /\ col.epoch = ActiveEpoch(db)

(* One epoch is open, the newest, and the latest snapshot belongs to it     *)
(* (persist_tick ends an epoch in the transaction that opens the next).     *)
OneOpenEpoch ==
  DOMAIN db.snapshots # {} =>
    /\ OpenEpochs(db) = {Len(db.epochs)}
    /\ LatestSnapshot(db).epoch = Len(db.epochs)

(* The hour buckets of a day that still has them add up to its daily bucket,*)
(* and only days older than the window have lost theirs (upsert_rollups,    *)
(* prune).                                                                  *)
HoursAddUpToDay ==
  ~limits.steps => \A d \in DOMAIN db.hourly \cup DOMAIN db.daily :
    IF d \in DOMAIN db.hourly
    THEN d \in DOMAIN db.daily /\ db.hourly[d] = db.daily[d]
    ELSE d < LatestSnapshot(db).day - HourlyDays

(* The tables agree with each other and with what the running collector     *)
(* remembers of them: checkpoints, buckets and the lifetime total derived   *)
(* from them, epochs and the latest snapshot.                               *)
LedgerIsConsistent ==
  /\ CheckpointIsCumulative /\ LifetimeIsSumOfDays /\ HoursAddUpToDay
  /\ OneOpenEpoch /\ MemoryMatchesTables

(* The lifetime total is what Conduit relayed: never more, and no less than *)
(* the last reading knows of, unless Conduit restarted, commits were lost   *)
(* or somebody stepped the clock.                                           *)
CountsWhatWasRelayed == NeverOvercounts /\ NothingLostWithoutRestart
=============================================================================
