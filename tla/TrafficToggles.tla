--------------------------- MODULE TrafficToggles ---------------------------
(***************************************************************************)
(* TrafficControl with a history: whether so far one request ended before   *)
(* the next was made, and no task and no request failed of an exception.    *)
(* As long as that is so, the toggle does all it promises.                  *)
(***************************************************************************)
EXTENDS TrafficControl

VARIABLE calm

Alone == \A r, s \in InFlight : r = s

NoneDied == \A k \in DOMAIN tasks : tasks[k].at # "failed"

NoneRaised == \A r \in Requests : request[r].at # "raised"

CalmInit == Init /\ calm = TRUE

CalmNext == Next /\ calm' = (calm /\ Alone' /\ NoneDied' /\ NoneRaised')

CalmSpec == CalmInit /\ [][CalmNext]_<<vars, calm>>

(* One after the other, requests leave a collector alive exactly if         *)
(* recording is set (reconcile_traffic_collector).                          *)
CalmRecordingFollowsSetting == calm => RecordingFollowsSetting

(* One after the other, requests never make a new collector meet the lock   *)
(* of the one before: the stop waits for its release                        *)
(* (_stop_traffic_collector, run).                                          *)
NeverDenied ==
  calm => \A k \in DOMAIN tasks : tasks[k].at # "denied" /\ tasks[k].tries = LockTries

(* One after the other, requests do all they promise: the collector follows *)
(* the setting, and none meets the lock of the one before.                  *)
CalmTogglesWork == CalmRecordingFollowsSetting /\ NeverDenied
=============================================================================
