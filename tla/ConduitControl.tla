--------------------------- MODULE ConduitControl ---------------------------
(***************************************************************************)
(* What the dashboard does to the conduit service: apply a configuration,  *)
(* set the limit of personal clients, create, regenerate or restore the    *)
(* personal compartment, start, stop and restart. Sources:                 *)
(* api/conduit.py, api/personal.py, conduit/adapter.py,                    *)
(* conduit/personal.py, conduit/config_validation.py, and the helpers      *)
(* ccc-apply-conduit-config and ccc-personal-compartment.                  *)
(*                                                                         *)
(* A request holds the lock of the application from its look at the        *)
(* configuration to its answer; start, stop and restart take no lock. The  *)
(* helper is a process of its own with a lock of its own, and goes on when *)
(* the request that started it has given up waiting. max_common_clients    *)
(* and the bandwidth are one knob here, "limit": they are read, written,   *)
(* checked and verified together.                                          *)
(***************************************************************************)
EXTENDS Integers, FiniteSets

CONSTANTS
  Requests,    \* each is made at most once
  Ids,         \* identities a compartment can get
  ApiMax,      \* largest limit the API accepts
  HelperMax,   \* largest limit the helper accepts
  MaxPersonal, \* largest number of personal clients
  MaxFaults    \* bound on failures and timeouts together

ASSUME ControlConstants ==
  /\ ApiMax \in Nat \ {0} /\ HelperMax \in 1 .. ApiMax
  /\ MaxPersonal \in Nat \ {0} /\ MaxFaults \in Nat

Free == "free"
None == "none"

ASSUME NamesAreApart == Free \notin Requests /\ None \notin Ids /\ Ids # {}

VARIABLES
  dropin,    \* ccc.conf
  bak,       \* ccc.conf.bak
  unit,      \* the drop-in as systemd last loaded it
  service,   \* what systemctl is-active says of conduit
  loaded,    \* what the process of the service started with
  identity,  \* personal_compartment.json, with its .bak
  lock,      \* holder of conduit_apply_lock
  flock,     \* the helper that holds the lock file, if any
  helper,    \* helper[r, part]: where the helper r started stands
  request,   \* where each request stands, what it asked, what it will write
  faults,
  strayed    \* what the promises below except, read by no action: see Strays

files == <<dropin, bak, unit>>
conduit == <<service, loaded>>
vars == <<files, conduit, identity, lock, flock, helper, request, faults, strayed>>

-----------------------------------------------------------------------------
(* Configurations *)

Knobs == {"limit", "reduced", "personal"}

Keep == -1    \* a knob the request leaves as it is

(* A window of reduced limits is off (0) or has a limit of its own.         *)
Config(limit, reduced, personal) ==
  [limit |-> limit, reduced |-> reduced, personal |-> personal]

Configs == [Knobs -> 0 .. ApiMax + MaxPersonal]

(* The unit as shipped, which is in force without a drop-in. *)
Shipped == Config(1, 0, 0)

NoDropin == Config(0, 0, 0)

InForce(file) == IF file = NoDropin THEN Shipped ELSE file

(* The window is checked against the limit it comes with, so a window that  *)
(* is only kept is not checked at all.                                      *)
ApiAccepts(asked) ==
  /\ asked.limit \in 1 .. ApiMax
  /\ asked.reduced \in {Keep} \cup 0 .. asked.limit
  /\ asked.personal = Keep

(* Mutant: the helper does not check the window against the limit.          *)
HelperAcceptsWindow(target) == target.limit <= HelperMax

HelperAccepts(target) == target.limit <= HelperMax /\ target.reduced <= target.limit

(* Mutant: an apply writes what it was asked and the default of the rest.   *)
MergedWithDefaults(asked, configured) ==
  [k \in Knobs |-> IF asked[k] = Keep THEN Shipped[k] ELSE asked[k]]

(* The drop-in is written as a whole.                                       *)
Merged(asked, configured) ==
  [k \in Knobs |-> IF asked[k] = Keep THEN configured[k] ELSE asked[k]]

Nothing == Config(Keep, Keep, Keep)

-----------------------------------------------------------------------------
(* Requests and helpers *)

Parts == {"apply", "rollback"}

Over == {"none", "ok", "failed"}   \* where a helper no longer acts

Strays == {"outlived",   \* a helper went on after its request gave up on it
           "torn",       \* a helper ended between its write and the restart
           "blind",      \* a request could not read the configuration
           "identity"}   \* a failed create or restore left another identity

Idle == [kind |-> None, at |-> "idle", asked |-> Nothing, target |-> Shipped, active |-> FALSE,
         before |-> NoDropin]

At(r, place) == request[r].at = place

Goes(r, place) == request' = [request EXCEPT ![r].at = place]

(* Mutant: a request refused for drift keeps the lock.                      *)
AnswersHolding(r, answer) ==
  /\ request' = [request EXCEPT ![r] = [Idle EXCEPT
       !.at = answer,
       !.target = IF helper[<<r, "apply">>] \in Over THEN Idle.target ELSE request[r].target]]
  /\ lock' = IF lock = r /\ answer # "refused" THEN Free ELSE lock

(* The request is answered and gives the lock back. A helper it left behind *)
(* has its arguments still.                                                 *)
Answers(r, answer) ==
  /\ request' = [request EXCEPT ![r] = [Idle EXCEPT
       !.at = answer,
       !.target = IF helper[<<r, "apply">>] \in Over THEN Idle.target ELSE request[r].target]]
  /\ lock' = IF lock = r THEN Free ELSE lock

Fails == faults < MaxFaults /\ faults' = faults + 1

Init ==
  /\ dropin \in {NoDropin, Config(1, 0, 1)} /\ bak = NoDropin /\ unit = dropin
  /\ identity = IF dropin = NoDropin THEN [now |-> None, bak |-> None]
                ELSE [now |-> CHOOSE i \in Ids : TRUE, bak |-> None]
  /\ service = "running" /\ loaded = [config |-> InForce(dropin), id |-> identity.now]
  /\ lock = Free /\ flock = {}
  /\ helper = [h \in Requests \X Parts |-> "none"]
  /\ request = [r \in Requests |-> Idle]
  /\ faults = 0
  /\ strayed = {}

-----------------------------------------------------------------------------
(* The service *)

Status == {"running", "starting", "stopping", "stopped", "error"}

(* systemctl restart, and start unless it runs already. *)
Launch ==
  /\ service' = "starting"
  /\ loaded' = [config |-> InForce(unit), id |-> identity.now]

Settles ==
  \/ /\ service = "starting" /\ service' = "running" /\ UNCHANGED faults
  \/ /\ service = "starting" /\ service' = "error" /\ Fails
  \/ /\ service = "stopping" /\ service' = "stopped" /\ UNCHANGED faults

(* Conduit comes up, or fails to, or is down.                               *)
ServiceSettles ==
  /\ Settles
  /\ UNCHANGED <<files, loaded, identity, lock, flock, helper, request, strayed>>

(* Restart=on-failure *)
ServiceRetries ==
  /\ service = "error" /\ Launch
  /\ UNCHANGED <<files, identity, lock, flock, helper, request, faults, strayed>>

-----------------------------------------------------------------------------
(* The helper of the configuration *)

Moves(h, state) == helper' = [helper EXCEPT ![h] = state]

HelperLocks(h) ==
  /\ helper[h] = "waiting" /\ flock = {}
  /\ flock' = {h} /\ Moves(h, "locked")
  /\ UNCHANGED <<files, conduit, identity, lock, request, faults, strayed>>

(* Mutant: a backup that exists is kept.                                    *)
HelperBacksUpOnce(h) ==
  /\ helper[h] = "locked" /\ h[2] = "apply"
  /\ bak' = IF bak = NoDropin THEN dropin ELSE bak
  /\ Moves(h, "backed up")
  /\ UNCHANGED <<dropin, unit, conduit, identity, lock, flock, request, faults, strayed>>

(* Without a drop-in an old .bak goes, so that a rollback removes.          *)
HelperBacksUp(h) ==
  /\ helper[h] = "locked" /\ h[2] = "apply"
  /\ bak' = dropin
  /\ Moves(h, "backed up")
  /\ UNCHANGED <<dropin, unit, conduit, identity, lock, flock, request, faults, strayed>>

HelperWrites(h) ==
  /\ dropin' = request[h[1]].target
  /\ helper[h] = "backed up"
  /\ Moves(h, "written")
  /\ UNCHANGED <<bak, unit, conduit, identity, lock, flock, request, faults, strayed>>

HelperPutsBack(h) ==
  /\ helper[h] = "locked" /\ h[2] = "rollback"
  /\ dropin' = bak
  /\ Moves(h, "written")
  /\ UNCHANGED <<bak, unit, conduit, identity, lock, flock, request, faults, strayed>>

HelperReloads(h) ==
  /\ helper[h] = "written"
  /\ unit' = dropin
  /\ Moves(h, "reloaded")
  /\ UNCHANGED <<dropin, bak, conduit, identity, lock, flock, request, faults, strayed>>

HelperRestarts(h) ==
  /\ helper[h] = "reloaded"
  /\ Launch
  /\ flock' = {} /\ Moves(h, "ok")
  /\ UNCHANGED <<files, identity, lock, request, faults, strayed>>

(* The disk, or systemctl: the helper ends where it is.                     *)
HelperFails(h) ==
  /\ helper[h] \notin Over
  /\ Fails
  /\ Moves(h, "failed")
  /\ flock' = flock \ {h}
  /\ strayed' = IF helper[h] \in {"written", "reloaded"} THEN strayed \cup {"torn"} ELSE strayed
  /\ UNCHANGED <<files, conduit, identity, lock, request>>

HelperStep(h) ==
  \/ HelperLocks(h) \/ HelperBacksUp(h) \/ HelperWrites(h) \/ HelperPutsBack(h)
  \/ HelperReloads(h) \/ HelperRestarts(h)

(* The arguments are checked before anything else happens.                  *)
Started(r, target) == IF HelperAccepts(target) THEN "waiting" ELSE "failed"

-----------------------------------------------------------------------------
(* Apply a configuration, or a limit of personal clients *)

(* A bad value, an unsafe helper, another apply under way, no compartment,  *)
(* no backup of it: nothing has been done yet.                              *)
Refused(r) ==
  /\ At(r, "idle")
  /\ Goes(r, "refused")
  /\ UNCHANGED <<files, conduit, identity, lock, flock, helper, faults, strayed>>

Enters(r, kind, asked) ==
  /\ At(r, "idle") /\ lock = Free
  /\ lock' = r
  /\ request' = [request EXCEPT ![r].kind = kind, ![r].at = "viewing", ![r].asked = asked,
                                  ![r].before = dropin]
  /\ UNCHANGED <<files, conduit, identity, flock, helper, faults, strayed>>

ApplyArrives(r) ==
  \E limit \in 1 .. ApiMax, reduced \in Keep .. ApiMax :
    LET asked == Config(limit, reduced, Keep)
    IN  ApiAccepts(asked) /\ Enters(r, "config", asked)

PersonalArrives(r) ==
  \E n \in 0 .. MaxPersonal :
    /\ n > 0 => identity.now # None
    /\ Enters(r, "personal", Config(Keep, Keep, n))

(* The values the client saw are no longer in force, or for the personal    *)
(* limit the present ones cannot be read.                                   *)
Drifted(r) ==
  /\ At(r, "viewing") /\ request[r].kind \in {"config", "personal"}
  /\ Answers(r, "refused")
  /\ UNCHANGED <<files, conduit, identity, flock, helper, faults, strayed>>

NothingToDo(r) ==
  /\ At(r, "viewing") /\ request[r].kind \in {"config", "personal"}
  /\ Merged(request[r].asked, InForce(unit)) = InForce(unit)
  /\ Answers(r, "unchanged")
  /\ UNCHANGED <<files, conduit, identity, flock, helper, faults, strayed>>

(* The helper is started with the complete configuration. *)
Applies(r, configured) ==
  LET target == Merged(request[r].asked, configured)
  IN  /\ request' = [request EXCEPT ![r].at = "applying", ![r].target = target]
      /\ helper' = [helper EXCEPT ![<<r, "apply">>] = Started(r, target)]

StartsApply(r) ==
  /\ At(r, "viewing") /\ request[r].kind \in {"config", "personal"}
  /\ Merged(request[r].asked, InForce(unit)) # InForce(unit)
  /\ Applies(r, InForce(unit))
  /\ UNCHANGED <<files, conduit, identity, lock, flock, faults, strayed>>

(* systemctl show fails: a request to apply takes what it cannot read for   *)
(* off.                                                                     *)
StartsBlindly(r) ==
  /\ At(r, "viewing") /\ request[r].kind = "config"
  /\ Fails
  /\ Applies(r, Config(1, 0, 0))
  /\ strayed' = strayed \cup {"blind"}
  /\ UNCHANGED <<files, conduit, identity, lock, flock>>

(* The exit status of the helper goes into the audit log and nowhere else. *)
ApplyReturns(r) ==
  /\ At(r, "applying") /\ helper[<<r, "apply">>] \in Over
  /\ Goes(r, "verifying")
  /\ UNCHANGED <<files, conduit, identity, lock, flock, helper, faults, strayed>>

(* After sixty seconds sudo is killed. The helper goes on.                  *)
ApplyGivenUp(r) ==
  /\ \/ At(r, "applying") /\ helper[<<r, "apply">>] \notin Over /\ Goes(r, "verifying")
     \/ At(r, "rolling back") /\ helper[<<r, "rollback">>] \notin Over /\ Goes(r, "checking")
  /\ Fails
  /\ strayed' = strayed \cup {"outlived"}
  /\ UNCHANGED <<files, conduit, identity, lock, flock, helper>>

(* The service runs and reports the limit asked for. *)
Healthy(limit) == service = "running" /\ loaded.config.limit = limit

Verified(r) ==
  /\ At(r, "verifying") /\ Healthy(request[r].target.limit)
  /\ IF request[r].kind = "config"
     THEN Answers(r, "applied")
     ELSE Goes(r, "confirming") /\ UNCHANGED lock
  /\ UNCHANGED <<files, conduit, identity, flock, helper, faults, strayed>>

(* The personal limit is looked at once more, if the metric can be had.     *)
Confirmed(r) ==
  /\ At(r, "confirming")
  /\ service = "running" => loaded.config.personal = request[r].target.personal
  /\ Answers(r, "applied")
  /\ UNCHANGED <<files, conduit, identity, flock, helper, faults, strayed>>

StartsRollback(r) ==
  /\ \/ At(r, "verifying") /\ ~Healthy(request[r].target.limit)
     \/ /\ At(r, "confirming") /\ service = "running"
        /\ loaded.config.personal # request[r].target.personal
  /\ Goes(r, "rolling back")
  /\ Moves(<<r, "rollback">>, "waiting")
  /\ UNCHANGED <<files, conduit, identity, lock, flock, faults, strayed>>

RollbackReturns(r) ==
  /\ At(r, "rolling back") /\ helper[<<r, "rollback">>] \in Over
  /\ Goes(r, "checking")
  /\ UNCHANGED <<files, conduit, identity, lock, flock, helper, faults, strayed>>

(* What is reported is the health of the service, whatever it runs.         *)
Checked(r) ==
  /\ At(r, "checking")
  /\ Answers(r, IF service = "running" THEN "rolled_back" ELSE "rollback_failed")
  /\ UNCHANGED <<files, conduit, identity, flock, helper, faults, strayed>>

-----------------------------------------------------------------------------
(* The compartment *)

(* Creating waits for the lock; the others are refused if it is taken. *)
CreateArrives(r) == Enters(r, "create", Nothing)

RegenerateArrives(r) == identity.now # None /\ Enters(r, "regenerate", Nothing)

RestoreArrives(r) == identity.bak # None /\ Enters(r, "restore", Nothing)

(* Whether personal clients are served: by what runs, else by the unit.     *)
Active ==
  (IF service = "running" THEN loaded.config ELSE InForce(unit)).personal > 0

CreateViews(r) ==
  /\ At(r, "viewing") /\ request[r].kind = "create"
  /\ IF identity.now = None
     THEN Goes(r, "creating") /\ UNCHANGED lock
     ELSE Answers(r, "refused")
  /\ UNCHANGED <<files, conduit, identity, flock, helper, faults, strayed>>

(* What could not be read counts as no personal clients and as no limit.    *)
CompartmentViews(r) ==
  /\ At(r, "viewing") /\ request[r].kind \in {"regenerate", "restore"}
  /\ \E active \in {Active, FALSE}, configured \in {InForce(unit), NoDropin} :
       /\ request' = [request EXCEPT ![r].active = active, ![r].target = configured,
                        ![r].at = IF request[r].kind = "restore" THEN "restoring" ELSE "creating"]
       /\ IF active = Active /\ configured = InForce(unit)
          THEN UNCHANGED <<faults, strayed>>
          ELSE Fails /\ strayed' = strayed \cup {"blind"}
  /\ UNCHANGED <<files, conduit, identity, lock, flock, helper>>

(* Mutant: an active service is not restarted after a change.               *)
ChangedQuietly(r, answer) == Answers(r, answer)

(* What follows a change of the compartment: nothing, or a restart.         *)
Changed(r, answer) ==
  IF request[r].active
  THEN Goes(r, "restarting") /\ UNCHANGED lock
  ELSE Answers(r, answer)

(* A new identity. The old one, if any, is kept beside it. *)
Kept == IF identity.now = None THEN identity.bak ELSE identity.now

Renewed(i) == [now |-> i, bak |-> Kept]

Creates(r) ==
  /\ At(r, "creating")
  /\ \E i \in Ids \ {identity.now, identity.bak} : identity' = Renewed(i)
  /\ Changed(r, "created")
  /\ UNCHANGED <<files, conduit, flock, helper, faults, strayed>>

(* The helper puts back the identity it has just copied over the older      *)
(* backup; if Conduit timed out, or the request gave up on the helper, it   *)
(* does not.                                                                *)
CreateFails(r) ==
  /\ At(r, "creating")
  /\ Fails
  /\ \/ /\ identity' \in {identity, [identity EXCEPT !.bak = Kept]}
        /\ UNCHANGED strayed
     \/ /\ \E i \in Ids \ {identity.now, identity.bak} : identity' = Renewed(i)
        /\ strayed' = strayed \cup {"identity"}
  /\ Answers(r, "failed")
  /\ UNCHANGED <<files, conduit, flock, helper>>

Restores(r) ==
  /\ At(r, "restoring")
  /\ identity' = [identity EXCEPT !.now = identity.bak]
  /\ Changed(r, "created")
  /\ UNCHANGED <<files, conduit, flock, helper, faults, strayed>>

RestoreFails(r) ==
  /\ At(r, "restoring")
  /\ Fails
  /\ Answers(r, "failed")
  /\ UNCHANGED <<files, conduit, identity, flock, helper, strayed>>

(* systemctl restart, then the same check as after an apply. *)
Restarts(r) ==
  /\ At(r, "restarting")
  /\ Launch
  /\ Goes(r, "proving")
  /\ UNCHANGED <<files, identity, lock, flock, helper, faults, strayed>>

(* Without permission to restart the request gives up where it is.          *)
RestartFails(r) ==
  /\ At(r, "restarting")
  /\ Fails
  /\ \/ Goes(r, "proving") /\ UNCHANGED lock
     \/ Answers(r, "failed")
  /\ strayed' = strayed \cup {"identity"}
  /\ UNCHANGED <<files, conduit, identity, flock, helper>>

Proved(r) ==
  /\ At(r, "proving") /\ Healthy(request[r].target.limit)
  /\ Answers(r, "created")
  /\ UNCHANGED <<files, conduit, identity, flock, helper, faults, strayed>>

(* A regeneration goes back to the old identity; a failure to is ignored.   *)
NotProved(r) ==
  /\ At(r, "proving") /\ ~Healthy(request[r].target.limit)
  /\ IF request[r].kind = "restore"
     THEN Answers(r, "failed")
     ELSE Goes(r, "reverting") /\ UNCHANGED lock
  /\ UNCHANGED <<files, conduit, identity, flock, helper, faults, strayed>>

Reverts(r) ==
  /\ At(r, "reverting")
  /\ \/ /\ identity' = [identity EXCEPT !.now = identity.bak]
        /\ UNCHANGED <<faults, strayed>>
     \/ /\ Fails /\ UNCHANGED identity
        /\ strayed' = strayed \cup {"identity"}
  /\ Goes(r, "starting over")
  /\ UNCHANGED <<files, conduit, lock, flock, helper>>

StartsOver(r) ==
  /\ At(r, "starting over")
  /\ \/ Launch /\ UNCHANGED <<faults, strayed>>
     \/ /\ Fails /\ UNCHANGED conduit
        /\ strayed' = strayed \cup {"identity"}
  /\ Goes(r, "checking")
  /\ UNCHANGED <<files, identity, lock, flock, helper>>

-----------------------------------------------------------------------------
(* Start, stop, restart *)

Verbs == {"start", "stop", "restart"}

Blocked(verb) ==
  CASE verb = "start"   -> {"running", "starting", "stopping"}
    [] verb = "stop"    -> {"stopped", "starting", "stopping"}
    [] verb = "restart" -> {"starting", "stopping"}

ActionArrives(r) ==
  /\ At(r, "idle")
  /\ \E verb \in Verbs :
       /\ service \notin Blocked(verb)
       /\ request' = [request EXCEPT ![r].kind = verb, ![r].at = "sending"]
  /\ UNCHANGED <<files, conduit, identity, lock, flock, helper, faults, strayed>>

(* systemctl start leaves a running service alone, and stop a stopped one.  *)
Sends(r) ==
  /\ At(r, "sending")
  /\ CASE request[r].kind = "restart" -> Launch
       [] request[r].kind = "start" ->
            IF service \in {"running", "starting"} THEN UNCHANGED conduit ELSE Launch
       [] request[r].kind = "stop" ->
            /\ service' = IF service = "stopped" THEN "stopped" ELSE "stopping"
            /\ UNCHANGED loaded
  /\ Goes(r, "polling")
  /\ UNCHANGED <<files, identity, lock, flock, helper, faults, strayed>>

SendFails(r) ==
  /\ At(r, "sending")
  /\ Fails
  /\ Answers(r, "failed")
  /\ UNCHANGED <<files, conduit, identity, flock, helper, strayed>>

Desired(verb) == IF verb = "stop" THEN "stopped" ELSE "running"

(* The state asked for is reached, or the time is up. *)
PollEnds(r) ==
  /\ At(r, "polling")
  /\ Answers(r, IF service = Desired(request[r].kind) THEN "succeeded" ELSE "unsuccessful")
  /\ UNCHANGED <<files, conduit, identity, flock, helper, faults, strayed>>

-----------------------------------------------------------------------------
Arrives(r) ==
  \/ Refused(r) \/ ApplyArrives(r) \/ PersonalArrives(r) \/ CreateArrives(r)
  \/ RegenerateArrives(r) \/ RestoreArrives(r) \/ ActionArrives(r)

ConfigStep(r) ==
  \/ Drifted(r) \/ NothingToDo(r) \/ StartsApply(r) \/ StartsBlindly(r)
  \/ ApplyReturns(r) \/ ApplyGivenUp(r) \/ Verified(r) \/ Confirmed(r)
  \/ StartsRollback(r) \/ RollbackReturns(r) \/ Checked(r)

CompartmentStep(r) ==
  \/ CreateViews(r) \/ CompartmentViews(r) \/ Creates(r) \/ CreateFails(r)
  \/ Restores(r) \/ RestoreFails(r) \/ Restarts(r) \/ RestartFails(r)
  \/ Proved(r) \/ NotProved(r) \/ Reverts(r) \/ StartsOver(r)

ActionStep(r) == Sends(r) \/ SendFails(r) \/ PollEnds(r)

RequestStep(r) == ConfigStep(r) \/ CompartmentStep(r) \/ ActionStep(r)

Next ==
  \/ \E r \in Requests : Arrives(r) \/ RequestStep(r)
  \/ \E h \in Requests \X Parts : HelperStep(h) \/ HelperFails(h)
  \/ ServiceSettles \/ ServiceRetries

Spec == Init /\ [][Next]_vars

(* The event loop goes on with every request that can go on.                *)
LiveSpec ==
  /\ Spec
  /\ \A r \in Requests : WF_vars(RequestStep(r))
  /\ \A h \in Requests \X Parts : WF_vars(HelperStep(h))

-----------------------------------------------------------------------------
(* Properties *)

Places ==
  {"idle", "viewing", "applying", "verifying", "confirming", "rolling back", "checking",
   "creating", "restoring", "restarting", "proving", "reverting", "starting over",
   "sending", "polling"}

Answered ==
  {"refused", "unchanged", "applied", "rolled_back", "rollback_failed", "created", "failed",
   "succeeded", "unsuccessful"}

Kinds == {None, "config", "personal", "create", "regenerate", "restore"} \cup Verbs

(* Type invariant; the window of a drop-in never exceeds its limit.         *)
ControlTypeOK ==
  /\ {dropin, bak, unit, loaded.config} \subseteq Configs
  /\ \A c \in {dropin, bak, unit} : c.reduced <= c.limit
  /\ loaded \in [config : Configs, id : Ids \cup {None}]
  /\ service \in Status
  /\ identity \in [now : Ids \cup {None}, bak : Ids \cup {None}]
  /\ lock \in Requests \cup {Free}
  /\ flock \subseteq Requests \X Parts
  /\ helper \in [Requests \X Parts -> Over \cup {"waiting", "locked", "backed up", "written",
                                                 "reloaded"}]
  /\ \A r \in Requests :
       /\ request[r].at \in Places \cup Answered /\ request[r].kind \in Kinds
       /\ request[r].asked \in [Knobs -> Keep .. ApiMax + MaxPersonal]
       /\ request[r].target \in Configs
  /\ faults \in Nat /\ strayed \subseteq Strays

Answer(r, answer) == ~At(r, answer) /\ request'[r].at = answer

(* A write of the drop-in by an apply changes the knobs its request asked   *)
(* to change and no other, although the request looked long before and      *)
(* other requests, starts and stops came in between: no update is lost.     *)
NoLostUpdate(r) ==
  /\ helper[<<r, "apply">>] = "backed up" /\ helper'[<<r, "apply">>] = "written"
  /\ strayed = {}
  => \A k \in Knobs : request[r].asked[k] = Keep => dropin'[k] = InForce(dropin)[k]

(* Creating a compartment replaces none: pairings made with the old one     *)
(* would be lost.                                                           *)
CreateReplacesNothing(r) ==
  At(r, "creating") /\ request[r].kind = "create" /\ identity' # identity
  /\ request' # request /\ ~(request'[r].at = "creating")
  => identity.now = None

(* No request takes away what another one made.                             *)
NothingIsLost == [][\A r \in Requests : NoLostUpdate(r) /\ CreateReplacesNothing(r)]_vars

(* "applied" means that the drop-in is what was asked, unless the helper of *)
(* the request failed or outlived some request.                             *)
AppliedIsWritten(r) ==
  Answer(r, "applied") /\ helper[<<r, "apply">>] = "ok" /\ strayed \cap {"outlived"} = {}
  => dropin = request[r].target

(* "rolled_back" of an apply means the drop-in is what it was when the      *)
(* request got the lock, if both helpers did their work.                    *)
RolledBackExactly(r) ==
  /\ Answer(r, "rolled_back")
  /\ helper[<<r, "apply">>] = "ok" /\ helper[<<r, "rollback">>] = "ok"
  /\ strayed \cap {"outlived"} = {}
  => dropin = request[r].before

(* What an apply answers is what became of the drop-in.                     *)
AnswersAreTrue == [][\A r \in Requests : AppliedIsWritten(r) /\ RolledBackExactly(r)]_vars

AtRest == lock = Free /\ \A h \in Requests \X Parts : helper[h] \in Over

(* Between requests, a service that runs does so with the configuration on  *)
(* disk, in whatever order it was stopped, started and reconfigured.        *)
RunsWhatIsWritten ==
  AtRest /\ "torn" \notin strayed /\ service = "running" =>
    unit = dropin /\ loaded.config = InForce(dropin)

(* Between requests, a service that runs and admits personal clients does   *)
(* so with the identity on disk, the one whose token was handed out.        *)
TokenIsInForce ==
  AtRest /\ strayed = {} /\ service = "running" /\ loaded.config.personal > 0 =>
    loaded.id = identity.now

(* Between requests, a service that runs does so with what is on disk.      *)
ServiceFollowsDisk == RunsWhatIsWritten /\ TokenIsInForce

(* Every request that arrived is answered, and gives the lock back.         *)
EveryRequestAnswered ==
  \A r \in Requests : ~At(r, "idle") ~> (request[r].at \in Answered /\ lock # r)

-----------------------------------------------------------------------------
(* A value that prevents Conduit from starting "triggers automatic rollback *)
(* to the previous drop-in" (docs/closure/bandwidth-scheduling-closure.md). *)
(* Broken without any fault: a helper that refuses its arguments has made   *)
(* no backup, and the rollback then restores that of an older apply.        *)
RollbackToPrevious ==
  [][\A r \in Requests :
       Answer(r, "rolled_back") /\ request[r].kind \in {"config", "personal"}
       => dropin = request[r].before]_vars
=============================================================================
