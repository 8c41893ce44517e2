---------------------------- MODULE ConduitProofs ----------------------------
(***************************************************************************)
(* What holds of the Conduit service and its configuration for any number  *)
(* of requests, identities and faults: nothing one request wrote is lost    *)
(* to another, an answer says what became of the drop-in, and between      *)
(* requests the service does what is on disk.                               *)
(***************************************************************************)
EXTENDS ConduitControl, TLAPS

Asked == [Knobs -> Keep .. ApiMax + MaxPersonal]

LEMMA ConfigType ==
  ASSUME NEW limit \in 0 .. ApiMax + MaxPersonal, NEW reduced \in 0 .. ApiMax + MaxPersonal,
         NEW personal \in 0 .. ApiMax + MaxPersonal
  PROVE  /\ Config(limit, reduced, personal) \in Configs
         /\ Config(limit, reduced, personal).limit = limit
         /\ Config(limit, reduced, personal).reduced = reduced
         /\ Config(limit, reduced, personal).personal = personal
BY DEF Config, Configs, Knobs

LEMMA AskedType ==
  ASSUME NEW limit \in Keep .. ApiMax + MaxPersonal, NEW reduced \in Keep .. ApiMax + MaxPersonal,
         NEW personal \in Keep .. ApiMax + MaxPersonal
  PROVE  /\ Config(limit, reduced, personal) \in Asked
         /\ Config(limit, reduced, personal).personal = personal
BY DEF Config, Asked, Knobs

LEMMA ConfigFields ==
  ASSUME NEW c \in Configs
  PROVE  /\ c.limit \in 0 .. ApiMax + MaxPersonal /\ c.reduced \in 0 .. ApiMax + MaxPersonal
         /\ c.personal \in 0 .. ApiMax + MaxPersonal
BY DEF Configs, Knobs

LEMMA MergedType ==
  ASSUME NEW asked \in Asked, NEW configured \in Configs
  PROVE  /\ Merged(asked, configured) \in Configs
         /\ Merged(asked, configured).personal =
              IF asked.personal = Keep THEN configured.personal ELSE asked.personal
BY ControlConstants DEF Merged, Asked, Configs, Knobs, Keep

LEMMA ShippedType ==
  /\ Shipped \in Configs /\ NoDropin \in Configs
  /\ Shipped.personal = 0 /\ NoDropin.personal = 0
<1>1. 0 \in 0 .. ApiMax + MaxPersonal /\ 1 \in 0 .. ApiMax + MaxPersonal
  BY ControlConstants
<1> QED BY <1>1, ConfigType DEF Shipped, NoDropin

LEMMA InForceType ==
  ASSUME NEW c \in Configs
  PROVE  InForce(c) \in Configs /\ (c # NoDropin => InForce(c) = c)
         /\ (InForce(c).personal = c.personal)
BY ShippedType DEF InForce

-----------------------------------------------------------------------------
(* Types                                                                    *)

RequestRecords ==
  [kind : Kinds, at : Places \cup Answered, asked : Asked, target : Configs,
   active : BOOLEAN, before : Configs]

HelperStates == Over \cup {"waiting", "locked", "backed up", "written", "reloaded"}

Windowed == {c \in Configs : c.reduced <= c.limit}

FileTypes == dropin \in Windowed /\ bak \in Windowed /\ unit \in Windowed
ServiceTypes == service \in Status /\ loaded \in [config : Configs, id : Ids \cup {None}]
IdentityTypes == identity \in [now : Ids \cup {None}, bak : Ids \cup {None}]
LockTypes == lock \in Requests \cup {Free} /\ flock \subseteq Requests \X Parts
HelperTypes == helper \in [Requests \X Parts -> HelperStates]
RequestTypes == request \in [Requests -> RequestRecords]
CountTypes == faults \in Nat /\ strayed \subseteq Strays

LEMMA IdleType == Idle \in RequestRecords /\ Nothing.personal = Keep /\ Nothing \in Asked
<1>1. Nothing \in Asked /\ Nothing.personal = Keep
  BY AskedType, ControlConstants DEF Nothing, Keep
<1> QED BY <1>1, ShippedType DEF Idle, RequestRecords, Kinds, Places

(* The other requests stay as they are. *)
Alone(r) == \A q \in Requests \ {r} : request'[q] = request[q]

(* A request goes on with what it holds. *)
GoesOn(r, place) ==
  /\ Alone(r) /\ request'[r].at = place
  /\ request'[r].kind = request[r].kind /\ request'[r].asked = request[r].asked
  /\ request'[r].target = request[r].target /\ request'[r].active = request[r].active
  /\ request'[r].before = request[r].before

LEMMA GoesShape ==
  ASSUME RequestTypes, NEW r \in Requests, NEW place \in Places \cup Answered, Goes(r, place)
  PROVE  RequestTypes' /\ GoesOn(r, place)
<1> DEFINE record == [request[r] EXCEPT !.at = place]
<1>1. request[r] \in RequestRecords
  BY DEF RequestTypes
<1>2. /\ record \in RequestRecords /\ record.at = place
      /\ record.kind = request[r].kind /\ record.asked = request[r].asked
      /\ record.target = request[r].target /\ record.active = request[r].active
      /\ record.before = request[r].before
  BY <1>1 DEF RequestRecords
<1>3. request' = [request EXCEPT ![r] = record]
  BY DEF Goes
<1> HIDE DEF record
<1> QED BY <1>2, <1>3 DEF RequestTypes, GoesOn, Alone

(* A request is over: what it held is given up.                             *)
IsOver(r, answer) ==
  /\ Alone(r) /\ request'[r].at = answer
  /\ request'[r].kind = None /\ request'[r].asked = Nothing
  /\ request'[r].target = IF helper[<<r, "apply">>] \in Over THEN Shipped ELSE request[r].target
  /\ ~request'[r].active
  /\ lock' = IF lock = r THEN Free ELSE lock

LEMMA AnswersShape ==
  ASSUME RequestTypes, NEW r \in Requests, NEW answer \in Answered, Answers(r, answer)
  PROVE  RequestTypes' /\ IsOver(r, answer)
<1> DEFINE target == IF helper[<<r, "apply">>] \in Over THEN Idle.target ELSE request[r].target
           record == [Idle EXCEPT !.at = answer, !.target = target]
<1>1. request[r] \in RequestRecords
  BY DEF RequestTypes
<1>2. target \in Configs /\ Idle.target = Shipped
  BY <1>1, ConfigType, ControlConstants DEF RequestRecords, Idle, Shipped
<1>3. /\ record \in RequestRecords /\ record.at = answer
      /\ record.kind = None /\ record.asked = Nothing
      /\ record.target = target /\ ~record.active
  <2> HIDE DEF target
  <2> QED BY <1>2, IdleType DEF RequestRecords, Idle
<1>4. request' = [request EXCEPT ![r] = record] /\ lock' = IF lock = r THEN Free ELSE lock
  BY DEF Answers
<1>5. record.target = IF helper[<<r, "apply">>] \in Over THEN Shipped ELSE request[r].target
  BY <1>2, <1>3
<1> HIDE DEF record, target
<1> QED BY <1>3, <1>4, <1>5 DEF RequestTypes, IsOver, Alone

LEMMA EntersShape ==
  ASSUME RequestTypes, FileTypes, NEW r \in Requests, NEW kind \in Kinds, NEW asked \in Asked,
         Enters(r, kind, asked)
  PROVE  /\ RequestTypes' /\ Alone(r)
         /\ request'[r].at = "viewing" /\ request'[r].kind = kind /\ request'[r].asked = asked
         /\ request'[r].target = request[r].target /\ request'[r].active = request[r].active
         /\ request'[r].before = dropin
<1> DEFINE record == [request[r] EXCEPT !.kind = kind, !.at = "viewing", !.asked = asked,
                                        !.before = dropin]
<1>1. request[r] \in RequestRecords /\ dropin \in Configs
  BY DEF RequestTypes, FileTypes, Windowed
<1>2. /\ record \in RequestRecords /\ record.at = "viewing"
      /\ record.kind = kind /\ record.asked = asked
      /\ record.target = request[r].target /\ record.active = request[r].active
      /\ record.before = dropin
  BY <1>1 DEF RequestRecords, Places
<1>3. request' = [request EXCEPT ![r] = record]
  BY <1>1 DEF Enters, RequestTypes
<1> HIDE DEF record
<1> QED BY <1>2, <1>3 DEF RequestTypes, Alone

LEMMA HelperShape ==
  ASSUME HelperTypes, NEW h \in Requests \X Parts, NEW state \in HelperStates, Moves(h, state)
  PROVE  /\ HelperTypes' /\ helper'[h] = state
         /\ \A g \in (Requests \X Parts) \ {h} : helper'[g] = helper[g]
BY DEF HelperTypes, Moves

LEMMA LaunchTypes ==
  ASSUME FileTypes, IdentityTypes, Launch
  PROVE  ServiceTypes'
<1>1. InForce(unit) \in Configs /\ identity.now \in Ids \cup {None}
  BY InForceType DEF FileTypes, IdentityTypes, Windowed
<1> QED BY <1>1 DEF Launch, ServiceTypes, Status

-----------------------------------------------------------------------------
(* Who holds which lock, and who has not begun                              *)

(* Where a request stands that holds the lock of the application. *)
LockPlaces == Places \ {"idle", "sending", "polling"}

Holds == \A r \in Requests : request[r].at \in LockPlaces <=> lock = r

(* A request starts its helper after its look, and the rollback after that; *)
(* those that only send a verb have one.                                    *)
NotYetAt(r) ==
  /\ request[r].at \in {"idle", "viewing"} => helper[<<r, "apply">>] = "none" /\ ~request[r].active
  /\ request[r].at \in {"idle", "viewing", "applying", "verifying", "confirming"} =>
       helper[<<r, "rollback">>] = "none"
  /\ request[r].at = "sending" => request[r].kind \in Verbs

NotYet == \A r \in Requests : NotYetAt(r)

Working == {"locked", "backed up", "written", "reloaded"}

(* A helper at work has the lock file to itself. *)
FlockHeld == \A h \in Requests \X Parts : helper[h] \in Working => flock = {h}

RollbackMakesNoBackup == \A r \in Requests : helper[<<r, "rollback">>] # "backed up"

(* What a helper still may write it has checked. *)
TargetAt(r) ==
  helper[<<r, "apply">>] \notin Over => request[r].target.reduced <= request[r].target.limit

TargetAccepted == \A r \in Requests : TargetAt(r)

Types ==
  /\ FileTypes /\ ServiceTypes /\ IdentityTypes /\ LockTypes /\ HelperTypes /\ RequestTypes
  /\ CountTypes

Base == Types /\ Holds /\ NotYet /\ FlockHeld /\ RollbackMakesNoBackup /\ TargetAccepted

(* What stays true of the locks when one request moves and no helper does.  *)
LEMMA RequestKeepsBase ==
  ASSUME Base, NEW r \in Requests, RequestTypes', Alone(r), UNCHANGED <<files, flock, helper>>,
         ServiceTypes', IdentityTypes', CountTypes', lock' \in Requests \cup {Free},
         request'[r].at \in LockPlaces <=> lock' = r,
         \A q \in Requests \ {r} : lock' = q <=> lock = q,
         NotYetAt(r)', TargetAt(r)'
  PROVE  Base'
<1>1. Types'
  BY DEF Base, Types, FileTypes, files, LockTypes, HelperTypes
<1>2. Holds'
  BY DEF Base, Holds, Alone
<1>3. NotYet'
  BY DEF Base, NotYet, NotYetAt, Alone
<1>4. FlockHeld' /\ RollbackMakesNoBackup'
  BY DEF Base, FlockHeld, RollbackMakesNoBackup
<1>5. TargetAccepted'
  BY DEF Base, TargetAccepted, TargetAt, Alone
<1> QED BY <1>1, <1>2, <1>3, <1>4, <1>5 DEF Base

LEMMA GoesKeepsBase ==
  ASSUME Base, NEW r \in Requests, NEW place \in Places \cup Answered, Goes(r, place),
         UNCHANGED <<files, lock, flock, helper>>,
         ServiceTypes', IdentityTypes', CountTypes',
         request[r].at \in LockPlaces <=> place \in LockPlaces,
         place \notin {"idle", "viewing", "sending"},
         place \in {"applying", "verifying", "confirming"} =>
           request[r].at \in {"applying", "verifying", "confirming"}
  PROVE  Base'
<1>1. RequestTypes' /\ GoesOn(r, place)
  BY GoesShape DEF Base, Types
<1>2. Alone(r) /\ lock' \in Requests \cup {Free} /\ \A q \in Requests \ {r} : lock' = q <=> lock = q
  BY <1>1 DEF GoesOn, Base, Types, LockTypes
<1>3. request'[r].at \in LockPlaces <=> lock' = r
  BY <1>1 DEF GoesOn, Base, Holds
<1>4. NotYetAt(r)' /\ TargetAt(r)'
  BY <1>1 DEF GoesOn, Base, NotYet, NotYetAt, TargetAccepted, TargetAt
<1> QED BY <1>1, <1>2, <1>3, <1>4, RequestKeepsBase

LEMMA AnswersKeepsBase ==
  ASSUME Base, NEW r \in Requests, NEW answer \in Answered, Answers(r, answer),
         UNCHANGED <<files, flock, helper>>,
         ServiceTypes', IdentityTypes', CountTypes'
  PROVE  Base'
<1>1. RequestTypes' /\ IsOver(r, answer)
  BY AnswersShape DEF Base, Types
<1>2. Alone(r) /\ lock' \in Requests \cup {Free} /\ \A q \in Requests \ {r} : lock' = q <=> lock = q
  BY <1>1, NamesAreApart DEF IsOver, Base, Types, LockTypes
<1>3. request'[r].at \in LockPlaces <=> lock' = r
  BY <1>1, NamesAreApart DEF IsOver, LockPlaces, Places, Answered
<1>4. NotYetAt(r)' /\ TargetAt(r)'
  BY <1>1 DEF IsOver, Answered, Base, NotYet, NotYetAt, TargetAccepted, TargetAt
<1> QED BY <1>1, <1>2, <1>3, <1>4, RequestKeepsBase

LEMMA EntersKeepsBase ==
  ASSUME Base, NEW r \in Requests, NEW kind \in Kinds, NEW asked \in Asked,
         Enters(r, kind, asked)
  PROVE  Base'
<1>1. /\ RequestTypes' /\ Alone(r) /\ request'[r].at = "viewing"
      /\ request'[r].target = request[r].target /\ request'[r].active = request[r].active
  BY EntersShape DEF Base, Types
<1>2. /\ lock' = r /\ lock = Free /\ request[r].at = "idle"
      /\ UNCHANGED <<files, conduit, identity, flock, helper, faults, strayed>>
  BY DEF Enters, At
<1>3. /\ lock' \in Requests \cup {Free} /\ \A q \in Requests \ {r} : lock' = q <=> lock = q
      /\ request'[r].at \in LockPlaces <=> lock' = r
  BY <1>1, <1>2, NamesAreApart DEF LockPlaces, Places
<1>4. NotYetAt(r)' /\ TargetAt(r)'
  BY <1>1, <1>2 DEF Base, NotYet, NotYetAt, TargetAccepted, TargetAt
<1>5. ServiceTypes' /\ IdentityTypes' /\ CountTypes'
  BY <1>2 DEF conduit, Base, Types, ServiceTypes, IdentityTypes, CountTypes
<1> QED BY <1>1, <1>2, <1>3, <1>4, <1>5, RequestKeepsBase

LEMMA TypesOfTheRest ==
  ASSUME Base
  PROVE  /\ UNCHANGED conduit => ServiceTypes'
         /\ Launch => ServiceTypes'
         /\ UNCHANGED identity => IdentityTypes'
         /\ UNCHANGED <<faults, strayed>> => CountTypes'
         /\ Fails /\ UNCHANGED strayed => CountTypes'
         /\ \A e \in Strays : Fails /\ strayed' = strayed \cup {e} => CountTypes'
<1>1. UNCHANGED conduit => ServiceTypes'
  BY DEF Base, Types, conduit, ServiceTypes
<1>2. Launch => ServiceTypes'
  BY LaunchTypes DEF Base, Types
<1>3. UNCHANGED identity => IdentityTypes'
  BY DEF Base, Types, IdentityTypes
<1>4. /\ UNCHANGED <<faults, strayed>> => CountTypes'
      /\ Fails /\ UNCHANGED strayed => CountTypes'
      /\ \A e \in Strays : Fails /\ strayed' = strayed \cup {e} => CountTypes'
  BY DEF Base, Types, CountTypes, Fails
<1> QED BY <1>1, <1>2, <1>3, <1>4

(* The requests that arrive *)
LEMMA ArrivesKeepsBase ==
  ASSUME Base, NEW r \in Requests, Arrives(r)
  PROVE  Base'
<1>1. CASE Refused(r)
  <2>1. Goes(r, "refused") /\ UNCHANGED <<files, lock, flock, helper>> /\ At(r, "idle")
    BY <1>1 DEF Refused
  <2>2. ServiceTypes' /\ IdentityTypes' /\ CountTypes'
    BY <1>1, TypesOfTheRest DEF Refused
  <2> QED BY <2>1, <2>2, GoesKeepsBase DEF At, LockPlaces, Places, Answered
<1>2. CASE ApplyArrives(r)
  <2>1. PICK limit \in 1 .. ApiMax, reduced \in Keep .. ApiMax :
          Enters(r, "config", Config(limit, reduced, Keep))
    BY <1>2 DEF ApplyArrives
  <2>2. Config(limit, reduced, Keep) \in Asked
    BY AskedType, ControlConstants DEF Keep
  <2> QED BY <2>1, <2>2, EntersKeepsBase DEF Kinds
<1>3. CASE PersonalArrives(r)
  <2>1. PICK n \in 0 .. MaxPersonal : Enters(r, "personal", Config(Keep, Keep, n))
    BY <1>3 DEF PersonalArrives
  <2>2. Config(Keep, Keep, n) \in Asked
    BY AskedType, ControlConstants DEF Keep
  <2> QED BY <2>1, <2>2, EntersKeepsBase DEF Kinds
<1>4. CASE CreateArrives(r)
  BY <1>4, EntersKeepsBase, IdleType DEF CreateArrives, Kinds
<1>5. CASE RegenerateArrives(r)
  BY <1>5, EntersKeepsBase, IdleType DEF RegenerateArrives, Kinds
<1>6. CASE RestoreArrives(r)
  BY <1>6, EntersKeepsBase, IdleType DEF RestoreArrives, Kinds
<1>7. CASE ActionArrives(r)
  <2>1. PICK verb \in Verbs :
          request' = [request EXCEPT ![r].kind = verb, ![r].at = "sending"]
    BY <1>7 DEF ActionArrives
  <2>2. /\ request[r].at = "idle"
        /\ UNCHANGED <<files, conduit, identity, lock, flock, helper, faults, strayed>>
    BY <1>7 DEF ActionArrives, At
  <2> DEFINE record == [request[r] EXCEPT !.kind = verb, !.at = "sending"]
  <2>3. request[r] \in RequestRecords /\ request \in [Requests -> RequestRecords]
    BY DEF Base, Types, RequestTypes
  <2>4. /\ record \in RequestRecords /\ record.at = "sending" /\ record.target = request[r].target
        /\ record.kind = verb
    BY <2>3 DEF RequestRecords, Places, Kinds
  <2>5. request' = [request EXCEPT ![r] = record]
    BY <2>1, <2>3
  <2> HIDE DEF record
  <2>6. /\ RequestTypes' /\ Alone(r) /\ request'[r].at = "sending"
        /\ request'[r].target = request[r].target /\ request'[r].kind \in Verbs
    BY <2>3, <2>4, <2>5 DEF RequestTypes, Alone
  <2>7. request'[r].at \in LockPlaces <=> lock' = r
    BY <2>2, <2>6 DEF Base, Holds, LockPlaces, Places
  <2>8. NotYetAt(r)' /\ TargetAt(r)'
    BY <2>2, <2>6 DEF Base, NotYet, NotYetAt, TargetAccepted, TargetAt
  <2>9. ServiceTypes' /\ IdentityTypes' /\ CountTypes' /\ lock' \in Requests \cup {Free}
    BY <2>2, TypesOfTheRest DEF Base, Types, LockTypes
  <2> QED BY <2>2, <2>6, <2>7, <2>8, <2>9, RequestKeepsBase
<1> QED BY <1>1, <1>2, <1>3, <1>4, <1>5, <1>6, <1>7 DEF Arrives

(* A request starts the helper with a target of its own. *)
LEMMA AppliesKeepsBase ==
  ASSUME Base, NEW r \in Requests, NEW configured \in Configs, At(r, "viewing"),
         Applies(r, configured),
         UNCHANGED <<files, conduit, identity, lock, flock>>, CountTypes'
  PROVE  Base'
<1> DEFINE target == Merged(request[r].asked, configured)
           record == [request[r] EXCEPT !.at = "applying", !.target = target]
<1>1. request[r] \in RequestRecords /\ request \in [Requests -> RequestRecords]
  BY DEF Base, Types, RequestTypes
<1>2. target \in Configs
  BY <1>1, MergedType DEF RequestRecords
<1>3. record \in RequestRecords /\ record.at = "applying" /\ record.target = target
  <2> HIDE DEF target
  <2> QED BY <1>1, <1>2 DEF RequestRecords, Places
<1>4. request' = [request EXCEPT ![r] = record]
  BY <1>1 DEF Applies
<1>5. Moves(<<r, "apply">>, Started(r, target)) /\ Started(r, target) \in {"waiting", "failed"}
  BY DEF Applies, Moves, Started
<1>6. Started(r, target) = "waiting" => target.reduced <= target.limit
  BY DEF Started, HelperAccepts
<1> HIDE DEF record, target
<1>7. RequestTypes' /\ Alone(r) /\ request'[r] = record
  BY <1>1, <1>3, <1>4 DEF RequestTypes, Alone
<1>8. <<r, "apply">> \in Requests \X Parts
  BY DEF Parts
<1>9. /\ HelperTypes' /\ helper'[<<r, "apply">>] \in {"waiting", "failed"}
      /\ helper'[<<r, "apply">>] = Started(r, target)
      /\ \A g \in (Requests \X Parts) \ {<<r, "apply">>} : helper'[g] = helper[g]
  BY <1>5, <1>8, HelperShape DEF HelperStates, Over, Base, Types
<1>10. Types'
  BY <1>7, <1>9, TypesOfTheRest DEF Base, Types, FileTypes, files, LockTypes
<1>11. Holds'
  BY <1>3, <1>7 DEF At, Base, Holds, Alone, LockPlaces, Places
<1>12. NotYet'
  <2>1. \A q \in Requests : helper'[<<q, "rollback">>] = helper[<<q, "rollback">>]
    BY <1>9 DEF Parts
  <2>2. \A q \in Requests \ {r} : helper'[<<q, "apply">>] = helper[<<q, "apply">>]
    BY <1>9 DEF Parts
  <2> QED BY <1>3, <1>7, <2>1, <2>2 DEF At, Base, NotYet, NotYetAt, Alone
<1>13. FlockHeld'
  BY <1>9 DEF Base, FlockHeld, Working
<1>14. RollbackMakesNoBackup'
  BY <1>9 DEF Base, RollbackMakesNoBackup, Parts
<1>15. TargetAccepted'
  <2>1. TargetAt(r)'
    BY <1>3, <1>6, <1>7, <1>9 DEF TargetAt, Over
  <2>2. \A q \in Requests \ {r} : helper'[<<q, "apply">>] = helper[<<q, "apply">>]
    BY <1>9 DEF Parts
  <2>3. \A q \in Requests \ {r} : TargetAt(q)'
    BY <1>7, <2>2 DEF TargetAt, Base, TargetAccepted, Alone
  <2> QED BY <2>1, <2>3 DEF TargetAccepted
<1> QED BY <1>10, <1>11, <1>12, <1>13, <1>14, <1>15 DEF Base

LEMMA ConfigKeepsBase ==
  ASSUME Base, NEW r \in Requests, ConfigStep(r)
  PROVE  Base'
<1> USE DEF At
<1>1. CASE Drifted(r)
  BY <1>1, TypesOfTheRest, AnswersKeepsBase DEF Drifted, Answered
<1>2. CASE NothingToDo(r)
  BY <1>2, TypesOfTheRest, AnswersKeepsBase DEF NothingToDo, Answered
<1>3. CASE StartsApply(r)
  <2>1. InForce(unit) \in Configs
    BY InForceType DEF Base, Types, FileTypes, Windowed
  <2> QED BY <1>3, <2>1, TypesOfTheRest, AppliesKeepsBase DEF StartsApply
<1>4. CASE StartsBlindly(r)
  <2>1. Config(1, 0, 0) \in Configs
    BY ConfigType, ControlConstants
  <2>2. UNCHANGED <<files, conduit, identity, lock, flock>> /\ CountTypes'
    BY <1>4, TypesOfTheRest DEF StartsBlindly, Strays
  <2> QED BY <1>4, <2>1, <2>2, AppliesKeepsBase DEF StartsBlindly
<1>5. CASE ApplyReturns(r)
  BY <1>5, TypesOfTheRest, GoesKeepsBase DEF ApplyReturns, LockPlaces, Places
<1>6. CASE ApplyGivenUp(r)
  <2>1. /\ UNCHANGED <<files, conduit, identity, lock, flock, helper>>
        /\ ServiceTypes' /\ IdentityTypes' /\ CountTypes'
    BY <1>6, TypesOfTheRest DEF ApplyGivenUp, Strays
  <2>2. \/ request[r].at = "applying" /\ Goes(r, "verifying")
        \/ request[r].at = "rolling back" /\ Goes(r, "checking")
    BY <1>6 DEF ApplyGivenUp
  <2> QED BY <2>1, <2>2, GoesKeepsBase DEF LockPlaces, Places
<1>7. CASE Verified(r)
  <2>1. /\ UNCHANGED <<files, flock, helper>> /\ request[r].at = "verifying"
        /\ ServiceTypes' /\ IdentityTypes' /\ CountTypes'
        /\ \/ Answers(r, "applied")
           \/ Goes(r, "confirming") /\ UNCHANGED lock
    BY <1>7, TypesOfTheRest DEF Verified
  <2>2. CASE Answers(r, "applied")
    BY <2>1, <2>2, AnswersKeepsBase DEF Answered
  <2>3. CASE Goes(r, "confirming") /\ UNCHANGED lock
    BY <2>1, <2>3, GoesKeepsBase DEF LockPlaces, Places
  <2> QED BY <2>1, <2>2, <2>3
<1>8. CASE Confirmed(r)
  BY <1>8, TypesOfTheRest, AnswersKeepsBase DEF Confirmed, Answered
<1>9. CASE StartsRollback(r)
  <2> DEFINE h == <<r, "rollback">>
  <2>1. /\ Goes(r, "rolling back") /\ Moves(h, "waiting")
        /\ request[r].at \in {"verifying", "confirming"}
        /\ UNCHANGED <<files, conduit, identity, lock, flock, faults, strayed>>
    BY <1>9 DEF StartsRollback
  <2>2. h \in Requests \X Parts
    BY DEF Parts
  <2>3. /\ HelperTypes' /\ helper'[h] = "waiting"
        /\ \A g \in (Requests \X Parts) \ {h} : helper'[g] = helper[g]
    <3> HIDE DEF h
    <3> QED BY <2>1, <2>2, HelperShape DEF HelperStates, Base, Types
  <2>4. RequestTypes' /\ GoesOn(r, "rolling back")
    BY <2>1, GoesShape DEF Base, Types, Places
  <2>5. \A q \in Requests : helper'[<<q, "apply">>] = helper[<<q, "apply">>]
    BY <2>3 DEF Parts
  <2>6. \A q \in Requests \ {r} : helper'[<<q, "rollback">>] = helper[<<q, "rollback">>]
    BY <2>3 DEF Parts
  <2>7. Types'
    BY <2>1, <2>3, <2>4, TypesOfTheRest DEF Base, Types, FileTypes, files, LockTypes
  <2>8. Holds'
    <3>1. request[r].at \in LockPlaces /\ request'[r].at \in LockPlaces
      BY <2>1, <2>4 DEF GoesOn, LockPlaces, Places
    <3>2. UNCHANGED lock /\ \A q \in Requests \ {r} : request'[q] = request[q]
      BY <2>1, <2>4 DEF GoesOn, Alone
    <3> QED BY <3>1, <3>2 DEF Base, Holds
  <2>9. NotYet'
    <3>1. NotYetAt(r)'
      BY <2>4 DEF NotYetAt, GoesOn
    <3>2. ASSUME NEW q \in Requests \ {r} PROVE NotYetAt(q)'
      BY <2>4, <2>5, <2>6, <3>2 DEF Base, NotYet, NotYetAt, GoesOn, Alone
    <3> QED BY <3>1, <3>2 DEF NotYet
  <2>10. FlockHeld'
    BY <2>1, <2>3 DEF Base, FlockHeld, Working
  <2>11. RollbackMakesNoBackup'
    BY <2>3, <2>6 DEF Base, RollbackMakesNoBackup
  <2>12. TargetAccepted'
    BY <2>4, <2>5 DEF Base, TargetAccepted, TargetAt, GoesOn, Alone
  <2> QED BY <2>7, <2>8, <2>9, <2>10, <2>11, <2>12 DEF Base
<1>10. CASE RollbackReturns(r)
  BY <1>10, TypesOfTheRest, GoesKeepsBase DEF RollbackReturns, LockPlaces, Places
<1>11. CASE Checked(r)
  BY <1>11, TypesOfTheRest, AnswersKeepsBase DEF Checked, Answered
<1> QED BY <1>1, <1>2, <1>3, <1>4, <1>5, <1>6, <1>7, <1>8, <1>9, <1>10, <1>11 DEF ConfigStep

(* An identity is made of those there are. *)
LEMMA IdentityMoves ==
  ASSUME IdentityTypes
  PROVE  /\ \A i \in Ids : Renewed(i) \in [now : Ids \cup {None}, bak : Ids \cup {None}]
         /\ [identity EXCEPT !.now = identity.bak] \in [now : Ids \cup {None}, bak : Ids \cup {None}]
         /\ [identity EXCEPT !.bak = Kept] \in [now : Ids \cup {None}, bak : Ids \cup {None}]
         /\ [identity EXCEPT !.now = identity.bak].now = identity.bak
         /\ [identity EXCEPT !.now = identity.bak].bak = identity.bak
         /\ [identity EXCEPT !.bak = Kept].now = identity.now
         /\ [identity EXCEPT !.bak = Kept].bak = Kept
         /\ \A i \in Ids : Renewed(i).now = i /\ Renewed(i).bak = Kept
BY DEF IdentityTypes, Renewed, Kept

LEMMA CompartmentKeepsBase ==
  ASSUME Base, NEW r \in Requests, CompartmentStep(r)
  PROVE  Base'
<1> USE DEF At
<1>1. CASE CreateViews(r)
  <2>1. /\ UNCHANGED <<files, flock, helper>> /\ request[r].at = "viewing"
        /\ ServiceTypes' /\ IdentityTypes' /\ CountTypes'
        /\ \/ Answers(r, "refused")
           \/ Goes(r, "creating") /\ UNCHANGED lock
    BY <1>1, TypesOfTheRest DEF CreateViews
  <2>2. CASE Answers(r, "refused")
    BY <2>1, <2>2, AnswersKeepsBase DEF Answered
  <2>3. CASE Goes(r, "creating") /\ UNCHANGED lock
    BY <2>1, <2>3, GoesKeepsBase DEF LockPlaces, Places
  <2> QED BY <2>1, <2>2, <2>3
<1>2. CASE CompartmentViews(r)
  <2>1. PICK active \in {Active, FALSE}, configured \in {InForce(unit), NoDropin} :
          /\ request' = [request EXCEPT ![r].active = active, ![r].target = configured,
                           ![r].at = IF request[r].kind = "restore" THEN "restoring" ELSE "creating"]
          /\ \/ UNCHANGED <<faults, strayed>>
             \/ Fails /\ strayed' = strayed \cup {"blind"}
    BY <1>2 DEF CompartmentViews
  <2>2. /\ request[r].at = "viewing"
        /\ UNCHANGED <<files, conduit, identity, lock, flock, helper>>
    BY <1>2 DEF CompartmentViews
  <2> DEFINE place == IF request[r].kind = "restore" THEN "restoring" ELSE "creating"
             record == [request[r] EXCEPT !.active = active, !.target = configured, !.at = place]
  <2>3. request[r] \in RequestRecords /\ request \in [Requests -> RequestRecords]
    BY DEF Base, Types, RequestTypes
  <2>4. active \in BOOLEAN /\ configured \in Configs
    <3>1. Active \in BOOLEAN
      BY DEF Active
    <3>2. InForce(unit) \in Configs /\ NoDropin \in Configs
      BY InForceType, ConfigType, ControlConstants
      DEF Base, Types, FileTypes, Windowed, NoDropin
    <3> QED BY <3>1, <3>2
  <2>5. /\ record \in RequestRecords /\ record.at = place
    BY <2>3, <2>4 DEF RequestRecords, Places
  <2>6. request' = [request EXCEPT ![r] = record]
    BY <2>1, <2>3
  <2>7. place \in {"restoring", "creating"}
    OBVIOUS
  <2> HIDE DEF record, place
  <2>8. RequestTypes' /\ Alone(r) /\ request'[r].at \in {"restoring", "creating"}
    BY <2>3, <2>5, <2>6, <2>7 DEF RequestTypes, Alone
  <2>9. request'[r].at \in LockPlaces <=> lock' = r
    BY <2>2, <2>8 DEF Base, Holds, LockPlaces, Places
  <2>10. helper[<<r, "apply">>] = "none" /\ helper[<<r, "rollback">>] = "none"
    BY <2>2 DEF Base, NotYet, NotYetAt
  <2>12. NotYetAt(r)' /\ TargetAt(r)'
    BY <2>2, <2>8, <2>10 DEF NotYetAt, TargetAt, Over
  <2>11. ServiceTypes' /\ IdentityTypes' /\ CountTypes' /\ lock' \in Requests \cup {Free}
    BY <2>1, <2>2, TypesOfTheRest DEF Base, Types, LockTypes, Strays
  <2> QED BY <2>2, <2>8, <2>9, <2>11, <2>12, RequestKeepsBase
<1>3. ASSUME NEW answer \in Answered, Changed(r, answer), UNCHANGED <<files, flock, helper>>,
             request[r].at \in {"creating", "restoring"},
             ServiceTypes', IdentityTypes', CountTypes'
      PROVE  Base'
  <2>1. CASE Answers(r, answer)
    BY <1>3, <2>1, AnswersKeepsBase
  <2>2. CASE Goes(r, "restarting") /\ UNCHANGED lock
    BY <1>3, <2>2, GoesKeepsBase DEF LockPlaces, Places
  <2> QED BY <1>3, <2>1, <2>2 DEF Changed
<1>4. CASE Creates(r)
  <2>1. IdentityTypes'
    BY <1>4, IdentityMoves DEF Creates, Base, Types, IdentityTypes
  <2> QED BY <1>3, <1>4, <2>1, TypesOfTheRest DEF Creates, Answered
<1>5. CASE CreateFails(r)
  <2>1. IdentityTypes' /\ (UNCHANGED strayed \/ strayed' = strayed \cup {"identity"}) /\ Fails
    BY <1>5, IdentityMoves DEF CreateFails, Base, Types, IdentityTypes
  <2>2. CountTypes'
    BY <2>1, TypesOfTheRest DEF Strays
  <2> QED BY <1>5, <2>1, <2>2, TypesOfTheRest, AnswersKeepsBase DEF CreateFails, Answered
<1>6. CASE Restores(r)
  <2>1. IdentityTypes'
    BY <1>6, IdentityMoves DEF Restores, Base, Types, IdentityTypes
  <2> QED BY <1>3, <1>6, <2>1, TypesOfTheRest DEF Restores, Answered
<1>7. CASE RestoreFails(r)
  BY <1>7, TypesOfTheRest, AnswersKeepsBase DEF RestoreFails, Answered
<1>8. CASE Restarts(r)
  BY <1>8, TypesOfTheRest, GoesKeepsBase DEF Restarts, LockPlaces, Places
<1>9. CASE RestartFails(r)
  <2>1. /\ UNCHANGED <<files, flock, helper>> /\ request[r].at = "restarting"
        /\ ServiceTypes' /\ IdentityTypes' /\ CountTypes'
        /\ \/ Answers(r, "failed")
           \/ Goes(r, "proving") /\ UNCHANGED lock
    BY <1>9, TypesOfTheRest DEF RestartFails, Strays
  <2>2. CASE Answers(r, "failed")
    BY <2>1, <2>2, AnswersKeepsBase DEF Answered
  <2>3. CASE Goes(r, "proving") /\ UNCHANGED lock
    BY <2>1, <2>3, GoesKeepsBase DEF LockPlaces, Places
  <2> QED BY <2>1, <2>2, <2>3
<1>10. CASE Proved(r)
  BY <1>10, TypesOfTheRest, AnswersKeepsBase DEF Proved, Answered
<1>11. CASE NotProved(r)
  <2>1. /\ UNCHANGED <<files, flock, helper>> /\ request[r].at = "proving"
        /\ ServiceTypes' /\ IdentityTypes' /\ CountTypes'
        /\ \/ Answers(r, "failed")
           \/ Goes(r, "reverting") /\ UNCHANGED lock
    BY <1>11, TypesOfTheRest DEF NotProved
  <2>2. CASE Answers(r, "failed")
    BY <2>1, <2>2, AnswersKeepsBase DEF Answered
  <2>3. CASE Goes(r, "reverting") /\ UNCHANGED lock
    BY <2>1, <2>3, GoesKeepsBase DEF LockPlaces, Places
  <2> QED BY <2>1, <2>2, <2>3
<1>12. CASE Reverts(r)
  <2>1. IdentityTypes' /\ CountTypes'
    BY <1>12, IdentityMoves, TypesOfTheRest DEF Reverts, Base, Types, IdentityTypes, Strays
  <2> QED BY <1>12, <2>1, TypesOfTheRest, GoesKeepsBase DEF Reverts, LockPlaces, Places
<1>13. CASE StartsOver(r)
  <2>1. ServiceTypes' /\ CountTypes'
    BY <1>13, TypesOfTheRest DEF StartsOver, Strays
  <2> QED BY <1>13, <2>1, TypesOfTheRest, GoesKeepsBase DEF StartsOver, LockPlaces, Places
<1> QED BY <1>1, <1>2, <1>4, <1>5, <1>6, <1>7, <1>8, <1>9, <1>10, <1>11, <1>12, <1>13
        DEF CompartmentStep

LEMMA ActionKeepsBase ==
  ASSUME Base, NEW r \in Requests, ActionStep(r)
  PROVE  Base'
<1> USE DEF At
<1>1. CASE Sends(r)
  <2>1. /\ Goes(r, "polling") /\ request[r].at = "sending"
        /\ UNCHANGED <<files, identity, lock, flock, helper, faults, strayed>>
    BY <1>1 DEF Sends
  <2>2. request[r].kind \in Verbs
    BY <2>1 DEF Base, NotYet, NotYetAt
  <2>3. \/ Launch \/ UNCHANGED conduit
        \/ service' \in {"stopped", "stopping"} /\ UNCHANGED loaded
    BY <1>1, <2>2 DEF Sends, Verbs
  <2>4. ServiceTypes'
    BY <2>3, TypesOfTheRest DEF Base, Types, ServiceTypes, Status
  <2> QED BY <2>1, <2>4, TypesOfTheRest, GoesKeepsBase DEF LockPlaces, Places
<1>2. CASE SendFails(r)
  BY <1>2, TypesOfTheRest, AnswersKeepsBase DEF SendFails, Answered
<1>3. CASE PollEnds(r)
  BY <1>3, TypesOfTheRest, AnswersKeepsBase DEF PollEnds, Answered
<1> QED BY <1>1, <1>2, <1>3 DEF ActionStep

-----------------------------------------------------------------------------
(* The helpers and the service *)

(* A helper that moves on keeps the locks and what was accepted.            *)
LEMMA HelperKeepsBase ==
  ASSUME Base, NEW h \in Requests \X Parts, NEW state \in HelperStates, Moves(h, state),
         UNCHANGED <<lock, request>>,
         FileTypes', ServiceTypes', IdentityTypes', CountTypes', flock' \subseteq Requests \X Parts,
         helper[h] # "none",
         helper[h] \in Over => state \in Over,
         state \in Working => flock' = {h},
         \A g \in (Requests \X Parts) \ {h} : flock = {g} => flock' = {g},
         h[2] = "rollback" => state # "backed up",
         \A g \in Requests \X Parts : g # h /\ helper[g] \in Working => flock' = {g}
  PROVE  Base'
<1>1. /\ HelperTypes' /\ helper'[h] = state
      /\ \A g \in (Requests \X Parts) \ {h} : helper'[g] = helper[g]
  BY HelperShape DEF Base, Types
<1>2. Types'
  BY <1>1 DEF Base, Types, LockTypes, RequestTypes
<1>3. Holds'
  BY DEF Base, Holds
<1>4. NotYet'
  <2> SUFFICES ASSUME NEW q \in Requests PROVE NotYetAt(q)'
    BY DEF NotYet
  <2>1. /\ <<q, "apply">> \in Requests \X Parts /\ <<q, "rollback">> \in Requests \X Parts
        /\ NotYetAt(q)
    BY DEF Parts, Base, NotYet
  <2>2. \A p \in Parts : helper[<<q, p>>] = "none" => helper'[<<q, p>>] = "none"
    BY <1>1
  <2> QED BY <2>1, <2>2 DEF NotYetAt, Parts
<1>5. FlockHeld'
  BY <1>1 DEF Base, FlockHeld
<1>6. RollbackMakesNoBackup'
  <2> SUFFICES ASSUME NEW q \in Requests PROVE helper'[<<q, "rollback">>] # "backed up"
    BY DEF RollbackMakesNoBackup
  <2>1. CASE <<q, "rollback">> = h
    BY <1>1, <2>1
  <2>2. CASE <<q, "rollback">> # h
    BY <1>1, <2>2 DEF Base, RollbackMakesNoBackup, Parts
  <2> QED BY <2>1, <2>2
<1>7. TargetAccepted'
  <2> SUFFICES ASSUME NEW q \in Requests, helper'[<<q, "apply">>] \notin Over
               PROVE  request[q].target.reduced <= request[q].target.limit
    BY DEF TargetAccepted, TargetAt
  <2>1. helper[<<q, "apply">>] \notin Over
    BY <1>1 DEF Parts
  <2> QED BY <2>1 DEF Base, TargetAccepted, TargetAt
<1> QED BY <1>2, <1>3, <1>4, <1>5, <1>6, <1>7 DEF Base

LEMMA HelpersKeepBase ==
  ASSUME Base, NEW h \in Requests \X Parts, HelperStep(h) \/ HelperFails(h)
  PROVE  Base'
<1> USE DEF Working, Over
<1>1. /\ flock \subseteq Requests \X Parts /\ FileTypes
      /\ \A g \in Requests \X Parts : helper[g] \in Working => flock = {g}
  BY DEF Base, Types, LockTypes, FlockHeld
<1>2. CASE HelperLocks(h)
  <2>1. ServiceTypes' /\ IdentityTypes' /\ CountTypes' /\ FileTypes'
    BY <1>1, <1>2, TypesOfTheRest DEF HelperLocks, files, FileTypes
  <2> QED BY <1>1, <1>2, <2>1, HelperKeepsBase DEF HelperLocks, HelperStates
<1>3. CASE HelperBacksUp(h)
  <2>1. ServiceTypes' /\ IdentityTypes' /\ CountTypes' /\ FileTypes'
    BY <1>1, <1>3, TypesOfTheRest DEF HelperBacksUp, FileTypes
  <2>2. /\ Moves(h, "backed up") /\ helper[h] = "locked" /\ h[2] = "apply"
        /\ UNCHANGED <<lock, flock, request>>
    BY <1>3 DEF HelperBacksUp
  <2>3. flock = {h} /\ "backed up" \in HelperStates /\ helper[h] # "none"
    BY <1>1, <2>2 DEF HelperStates
  <2>4. \A g \in Requests \X Parts : g # h /\ helper[g] \in Working => flock' = {g}
    BY <1>1, <2>2
  <2>5. flock' \subseteq Requests \X Parts /\ h[2] # "rollback"
    BY <1>1, <2>2
  <2> HIDE DEF Over, Working
  <2>6. helper[h] \notin Over
    BY <2>2 DEF Over
  <2> QED BY <2>1, <2>2, <2>3, <2>4, <2>5, <2>6, HelperKeepsBase
<1>4. CASE HelperWrites(h)
  <2>1. h[2] = "apply" /\ h = <<h[1], "apply">> /\ h[1] \in Requests
    <3>1. PICK q \in Requests, p \in Parts : h = <<q, p>>
      OBVIOUS
    <3>2. p # "rollback"
      BY <1>4, <3>1 DEF HelperWrites, Base, RollbackMakesNoBackup
    <3> QED BY <3>1, <3>2 DEF Parts
  <2>2. request[h[1]].target.reduced <= request[h[1]].target.limit
    BY <1>4, <2>1 DEF HelperWrites, Base, TargetAccepted, TargetAt
  <2>3. dropin' \in Windowed
    BY <1>4, <2>1, <2>2 DEF HelperWrites, Windowed, Base, Types, RequestTypes, RequestRecords
  <2>4. ServiceTypes' /\ IdentityTypes' /\ CountTypes' /\ FileTypes'
    BY <1>1, <1>4, <2>3, TypesOfTheRest DEF HelperWrites, FileTypes
  <2> QED BY <1>1, <1>4, <2>4, HelperKeepsBase DEF HelperWrites, HelperStates
<1>5. CASE HelperPutsBack(h)
  <2>1. ServiceTypes' /\ IdentityTypes' /\ CountTypes' /\ FileTypes'
    BY <1>1, <1>5, TypesOfTheRest DEF HelperPutsBack, FileTypes
  <2> QED BY <1>1, <1>5, <2>1, HelperKeepsBase DEF HelperPutsBack, HelperStates
<1>6. CASE HelperReloads(h)
  <2>1. ServiceTypes' /\ IdentityTypes' /\ CountTypes' /\ FileTypes'
    BY <1>1, <1>6, TypesOfTheRest DEF HelperReloads, FileTypes
  <2> QED BY <1>1, <1>6, <2>1, HelperKeepsBase DEF HelperReloads, HelperStates
<1>7. CASE HelperRestarts(h)
  <2>1. ServiceTypes' /\ IdentityTypes' /\ CountTypes' /\ FileTypes'
    BY <1>1, <1>7, TypesOfTheRest DEF HelperRestarts, FileTypes, files
  <2>2. flock = {h}
    BY <1>1, <1>7 DEF HelperRestarts
  <2> QED BY <1>1, <1>7, <2>1, <2>2, HelperKeepsBase DEF HelperRestarts, HelperStates
<1>8. CASE HelperFails(h)
  <2>1. ServiceTypes' /\ IdentityTypes' /\ FileTypes'
    BY <1>1, <1>8, TypesOfTheRest DEF HelperFails, FileTypes, files
  <2>2. CountTypes'
    BY <1>8, TypesOfTheRest DEF HelperFails, Strays
  <2>3. /\ Moves(h, "failed") /\ flock' = flock \ {h} /\ helper[h] \notin Over
        /\ UNCHANGED <<lock, request>>
    BY <1>8 DEF HelperFails
  <2>4. \A g \in (Requests \X Parts) \ {h} : flock = {g} => flock' = {g}
    BY <2>3
  <2> QED BY <1>1, <2>1, <2>2, <2>3, <2>4, HelperKeepsBase DEF HelperStates
<1> QED BY <1>2, <1>3, <1>4, <1>5, <1>6, <1>7, <1>8 DEF HelperStep

LEMMA ServiceKeepsBase ==
  ASSUME Base, ServiceSettles \/ ServiceRetries
  PROVE  Base'
<1>1. UNCHANGED <<files, identity, lock, flock, helper, request, strayed>>
  BY DEF ServiceSettles, ServiceRetries
<1>2. ServiceTypes' /\ CountTypes'
  BY TypesOfTheRest DEF ServiceSettles, ServiceRetries, Settles, Base, Types, ServiceTypes, Status,
     CountTypes, Fails
<1>3. Types'
  BY <1>1, <1>2 DEF Base, Types, files, FileTypes, IdentityTypes, LockTypes, HelperTypes, RequestTypes
<1> QED BY <1>1, <1>3
        DEF Base, Holds, NotYet, NotYetAt, FlockHeld, RollbackMakesNoBackup, TargetAccepted, TargetAt

LEMMA BaseInit == Init => Base
<1> SUFFICES ASSUME Init PROVE Base
  OBVIOUS
<1>1. /\ Shipped \in Configs /\ NoDropin \in Windowed /\ Config(1, 0, 1) \in Windowed
  BY ConfigType, ControlConstants DEF Shipped, NoDropin, Windowed
<1>2. FileTypes
  BY <1>1 DEF Init, FileTypes
<1>3. (CHOOSE i \in Ids : TRUE) \in Ids
  BY NamesAreApart
<1>4. IdentityTypes /\ identity.now \in Ids \cup {None}
  BY <1>3 DEF Init, IdentityTypes
<1>5. ServiceTypes
  BY <1>1, <1>4, InForceType DEF Init, ServiceTypes, Status, FileTypes, Windowed
<1>6. /\ LockTypes /\ HelperTypes /\ CountTypes
      /\ \A h \in Requests \X Parts : helper[h] = "none"
  BY DEF Init, LockTypes, HelperTypes, HelperStates, Over, CountTypes
<1>7. RequestTypes /\ \A r \in Requests : request[r].at = "idle" /\ request[r].active = FALSE
  <2>1. Idle.at = "idle" /\ Idle.active = FALSE
    BY DEF Idle
  <2>2. request = [r \in Requests |-> Idle]
    BY DEF Init
  <2> HIDE DEF Idle
  <2>3. RequestTypes
    BY <2>2, IdleType DEF RequestTypes
  <2>4. \A r \in Requests : request[r] = Idle
    BY <2>2
  <2> QED BY <2>1, <2>3, <2>4
<1>8. Holds
  BY <1>7, NamesAreApart DEF Init, Holds, LockPlaces
<1>9. Types
  BY <1>2, <1>4, <1>5, <1>6, <1>7 DEF Types
<1>10. \A r \in Requests : helper[<<r, "apply">>] = "none" /\ helper[<<r, "rollback">>] = "none"
  BY <1>6 DEF Parts
<1>11. NotYet
  BY <1>7, <1>10 DEF NotYet, NotYetAt
<1>12. FlockHeld /\ RollbackMakesNoBackup
  BY <1>6, <1>10 DEF FlockHeld, Working, RollbackMakesNoBackup
<1>13. TargetAccepted
  BY <1>10 DEF TargetAccepted, TargetAt, Over
<1> QED BY <1>8, <1>9, <1>11, <1>12, <1>13 DEF Base

LEMMA BaseStep == Base /\ [Next]_vars => Base'
<1> SUFFICES ASSUME Base, [Next]_vars PROVE Base'
  OBVIOUS
<1>1. CASE UNCHANGED vars
  <2>1. Types'
    BY <1>1 DEF vars, files, conduit, Base, Types, FileTypes, ServiceTypes, IdentityTypes, LockTypes,
       HelperTypes, RequestTypes, CountTypes
  <2> QED BY <1>1, <2>1
          DEF vars, Base, Holds, NotYet, NotYetAt, FlockHeld, RollbackMakesNoBackup, TargetAccepted,
              TargetAt
<1>2. ASSUME NEW r \in Requests, Arrives(r) \/ RequestStep(r) PROVE Base'
  BY <1>2, ArrivesKeepsBase, ConfigKeepsBase, CompartmentKeepsBase, ActionKeepsBase DEF RequestStep
<1>3. ASSUME NEW h \in Requests \X Parts, HelperStep(h) \/ HelperFails(h) PROVE Base'
  BY <1>3, HelpersKeepBase
<1> QED BY <1>1, <1>2, <1>3, ServiceKeepsBase DEF Next

LEMMA BaseAlways == Spec => []Base
BY BaseInit, BaseStep, PTL DEF Spec

(* Every variable keeps to its type for any number of requests, and the     *)
(* window of reduced limits that a drop-in sets never exceeds its limit     *)
(* (ccc-apply-conduit-config), although a helper checks its arguments long  *)
(* before it writes them.                                                   *)
THEOREM ConduitTypes == Spec => []ControlTypeOK
<1>1. Base => ControlTypeOK
  <2> SUFFICES ASSUME Base PROVE ControlTypeOK
    OBVIOUS
  <2>1. /\ \A c \in {dropin, bak, unit} : c \in Configs /\ c.reduced <= c.limit
        /\ loaded.config \in Configs
    BY DEF Base, Types, FileTypes, ServiceTypes, Windowed
  <2>2. \A r \in Requests :
          /\ request[r].at \in Places \cup Answered /\ request[r].kind \in Kinds
          /\ request[r].asked \in [Knobs -> Keep .. ApiMax + MaxPersonal]
          /\ request[r].target \in Configs
    BY DEF Base, Types, RequestTypes, RequestRecords, Asked
  <2>3. ServiceTypes /\ IdentityTypes /\ LockTypes /\ HelperTypes /\ CountTypes
    BY DEF Base, Types
  <2> HIDE DEF Base
  <2>4. {dropin, bak, unit, loaded.config} \subseteq Configs
    BY <2>1
  <2>5. /\ loaded \in [config : Configs, id : Ids \cup {None}]
        /\ service \in Status
        /\ identity \in [now : Ids \cup {None}, bak : Ids \cup {None}]
        /\ lock \in Requests \cup {Free} /\ flock \subseteq Requests \X Parts
        /\ faults \in Nat /\ strayed \subseteq Strays
    BY <2>3 DEF ServiceTypes, IdentityTypes, LockTypes, CountTypes
  <2>6. helper \in [Requests \X Parts -> Over \cup {"waiting", "locked", "backed up", "written",
                                                    "reloaded"}]
    BY <2>3 DEF HelperTypes, HelperStates
  <2> QED BY <2>1, <2>2, <2>4, <2>5, <2>6 DEF ControlTypeOK
<1> QED BY <1>1, BaseAlways, PTL

-----------------------------------------------------------------------------
(* What a request does to the rest: it starts helpers, launches or stops    *)
(* the service, and leaves the files and the other requests alone.          *)

Up == {"running", "starting"}

(* The service is launched, or only goes down or comes up. *)
ConduitMoves ==
  \/ UNCHANGED conduit \/ Launch
  \/ UNCHANGED loaded /\ (service' \in Up => service \in Up)

HelpersStart ==
  \A h \in Requests \X Parts :
    helper'[h] = helper[h] \/ (helper[h] = "none" /\ helper'[h] \in {"waiting", "failed"})

Does(r) ==
  /\ UNCHANGED <<files, flock>> /\ strayed \subseteq strayed'
  /\ ConduitMoves /\ HelpersStart /\ Alone(r)
  /\ request'[r].at = "applied" => Verified(r) \/ Confirmed(r)
  /\ request'[r].at = "rolled_back" => Checked(r)

(* A request that goes on or answers leaves the helpers alone. *)
LEMMA GoesDoes ==
  ASSUME Base, NEW r \in Requests, NEW place \in Places \cup Answered, Goes(r, place),
         place \notin {"applied", "rolled_back"},
         UNCHANGED <<files, flock, helper>>, strayed \subseteq strayed', ConduitMoves
  PROVE  Does(r)
<1>1. Alone(r) /\ request'[r].at = place
  BY GoesShape DEF Base, Types, GoesOn
<1>2. HelpersStart
  BY DEF HelpersStart
<1> QED BY <1>1, <1>2 DEF Does

LEMMA AnswersDoes ==
  ASSUME Base, NEW r \in Requests, NEW answer \in Answered, Answers(r, answer),
         answer = "applied" => Verified(r) \/ Confirmed(r),
         answer = "rolled_back" => Checked(r),
         UNCHANGED <<files, flock, helper>>, strayed \subseteq strayed', ConduitMoves
  PROVE  Does(r)
<1>1. Alone(r) /\ request'[r].at = answer
  BY AnswersShape DEF Base, Types, IsOver
<1>2. HelpersStart
  BY DEF HelpersStart
<1> QED BY <1>1, <1>2 DEF Does

LEMMA EntersDoes ==
  ASSUME Base, NEW r \in Requests, NEW kind \in Kinds, NEW asked \in Asked,
         Enters(r, kind, asked)
  PROVE  Does(r)
<1>1. Alone(r) /\ request'[r].at = "viewing"
  BY EntersShape DEF Base, Types
<1> QED BY <1>1 DEF Enters, Does, HelpersStart, ConduitMoves

LEMMA ArrivesDoes ==
  ASSUME Base, NEW r \in Requests, Arrives(r)
  PROVE  Does(r)
<1>1. CASE Refused(r)
  BY <1>1, GoesDoes DEF Refused, ConduitMoves, Answered
<1>2. CASE ApplyArrives(r)
  <2>1. PICK limit \in 1 .. ApiMax, reduced \in Keep .. ApiMax :
          Enters(r, "config", Config(limit, reduced, Keep))
    BY <1>2 DEF ApplyArrives
  <2>2. Config(limit, reduced, Keep) \in Asked
    BY AskedType, ControlConstants DEF Keep
  <2> QED BY <2>1, <2>2, EntersDoes DEF Kinds
<1>3. CASE PersonalArrives(r)
  <2>1. PICK n \in 0 .. MaxPersonal : Enters(r, "personal", Config(Keep, Keep, n))
    BY <1>3 DEF PersonalArrives
  <2>2. Config(Keep, Keep, n) \in Asked
    BY AskedType, ControlConstants DEF Keep
  <2> QED BY <2>1, <2>2, EntersDoes DEF Kinds
<1>4. CASE CreateArrives(r)
  BY <1>4, EntersDoes, IdleType DEF CreateArrives, Kinds
<1>5. CASE RegenerateArrives(r)
  BY <1>5, EntersDoes, IdleType DEF RegenerateArrives, Kinds
<1>6. CASE RestoreArrives(r)
  BY <1>6, EntersDoes, IdleType DEF RestoreArrives, Kinds
<1>7. CASE ActionArrives(r)
  <2>1. PICK verb \in Verbs :
          request' = [request EXCEPT ![r].kind = verb, ![r].at = "sending"]
    BY <1>7 DEF ActionArrives
  <2>2. request[r] \in RequestRecords /\ request \in [Requests -> RequestRecords]
    BY DEF Base, Types, RequestTypes
  <2>3. request'[r].at = "sending" /\ Alone(r)
    BY <2>1, <2>2 DEF Alone, RequestRecords
  <2> QED BY <1>7, <2>3 DEF ActionArrives, Does, HelpersStart, ConduitMoves
<1> QED BY <1>1, <1>2, <1>3, <1>4, <1>5, <1>6, <1>7 DEF Arrives

LEMMA AppliesDoes ==
  ASSUME Base, NEW r \in Requests, NEW configured \in Configs, At(r, "viewing"),
         Applies(r, configured),
         UNCHANGED <<files, conduit, flock>>, strayed \subseteq strayed'
  PROVE  Does(r)
<1> DEFINE target == Merged(request[r].asked, configured)
           h == <<r, "apply">>
<1>1. request[r] \in RequestRecords /\ request \in [Requests -> RequestRecords]
  BY DEF Base, Types, RequestTypes
<1>2. request'[r].at = "applying" /\ Alone(r)
  <2> HIDE DEF target
  <2>1. request' = [request EXCEPT ![r].at = "applying", ![r].target = target]
    BY DEF Applies, target
  <2> QED BY <1>1, <2>1 DEF Alone, RequestRecords
<1>3. Moves(h, Started(r, target)) /\ Started(r, target) \in {"waiting", "failed"}
  BY DEF Applies, Moves, Started
<1>4. h \in Requests \X Parts /\ helper[h] = "none"
  BY DEF Parts, At, Base, NotYet, NotYetAt
<1> HIDE DEF target, h
<1>5. /\ helper'[h] \in {"waiting", "failed"}
      /\ \A g \in (Requests \X Parts) \ {h} : helper'[g] = helper[g]
  BY <1>3, <1>4, HelperShape DEF HelperStates, Over, Base, Types
<1> QED BY <1>2, <1>4, <1>5 DEF Does, HelpersStart, ConduitMoves

LEMMA ConfigDoes ==
  ASSUME Base, NEW r \in Requests, ConfigStep(r)
  PROVE  Does(r)
<1>1. CASE Drifted(r)
  BY <1>1, AnswersDoes DEF Drifted, Answered, ConduitMoves
<1>2. CASE NothingToDo(r)
  BY <1>2, AnswersDoes DEF NothingToDo, Answered, ConduitMoves
<1>3. CASE StartsApply(r)
  <2>1. InForce(unit) \in Configs
    BY InForceType DEF Base, Types, FileTypes, Windowed
  <2> QED BY <1>3, <2>1, AppliesDoes DEF StartsApply
<1>4. CASE StartsBlindly(r)
  <2>1. Config(1, 0, 0) \in Configs
    BY ConfigType, ControlConstants
  <2> QED BY <1>4, <2>1, AppliesDoes DEF StartsBlindly
<1>5. CASE ApplyReturns(r)
  BY <1>5, GoesDoes DEF ApplyReturns, ConduitMoves, Places
<1>6. CASE ApplyGivenUp(r)
  <2>1. /\ UNCHANGED <<files, flock, helper>> /\ strayed \subseteq strayed' /\ ConduitMoves
        /\ Goes(r, "verifying") \/ Goes(r, "checking")
    BY <1>6 DEF ApplyGivenUp, ConduitMoves
  <2> QED BY <2>1, GoesDoes DEF Places
<1>7. CASE Verified(r)
  <2>1. /\ UNCHANGED <<files, flock, helper>> /\ strayed \subseteq strayed' /\ ConduitMoves
        /\ Goes(r, "confirming") \/ Answers(r, "applied")
    BY <1>7 DEF Verified, ConduitMoves
  <2> QED BY <1>7, <2>1, GoesDoes, AnswersDoes DEF Places, Answered
<1>8. CASE Confirmed(r)
  BY <1>8, AnswersDoes DEF Confirmed, Answered, ConduitMoves
<1>9. CASE StartsRollback(r)
  <2> DEFINE h == <<r, "rollback">>
  <2>1. /\ Goes(r, "rolling back") /\ Moves(h, "waiting")
        /\ UNCHANGED <<files, conduit, flock, strayed>>
    BY <1>9 DEF StartsRollback
  <2>2. h \in Requests \X Parts /\ helper[h] = "none"
    BY <1>9 DEF StartsRollback, Parts, At, Base, NotYet, NotYetAt
  <2> HIDE DEF h
  <2>3. /\ helper'[h] = "waiting"
        /\ \A g \in (Requests \X Parts) \ {h} : helper'[g] = helper[g]
    BY <2>1, <2>2, HelperShape DEF HelperStates, Base, Types
  <2>4. GoesOn(r, "rolling back")
    BY <2>1, GoesShape DEF Base, Types, Places
  <2> QED BY <2>1, <2>2, <2>3, <2>4 DEF Does, HelpersStart, ConduitMoves, GoesOn
<1>10. CASE RollbackReturns(r)
  BY <1>10, GoesDoes DEF RollbackReturns, ConduitMoves, Places
<1>11. CASE Checked(r)
  <2>1. /\ UNCHANGED <<files, flock, helper>> /\ strayed \subseteq strayed' /\ ConduitMoves
        /\ Answers(r, "rolled_back") \/ Answers(r, "rollback_failed")
    BY <1>11 DEF Checked, ConduitMoves
  <2> QED BY <1>11, <2>1, AnswersDoes DEF Answered
<1> QED BY <1>1, <1>2, <1>3, <1>4, <1>5, <1>6, <1>7, <1>8, <1>9, <1>10, <1>11 DEF ConfigStep

LEMMA CompartmentDoes ==
  ASSUME Base, NEW r \in Requests, CompartmentStep(r)
  PROVE  Does(r)
<1>1. ASSUME Goes(r, "creating") \/ Goes(r, "restarting") \/ Goes(r, "proving")
               \/ Goes(r, "reverting") \/ Goes(r, "starting over") \/ Goes(r, "checking")
               \/ Answers(r, "refused") \/ Answers(r, "created") \/ Answers(r, "failed"),
             UNCHANGED <<files, flock, helper>>, strayed \subseteq strayed', ConduitMoves
      PROVE  Does(r)
  BY <1>1, GoesDoes, AnswersDoes DEF Places, Answered
<1>2. CASE CreateViews(r)
  <2>1. Answers(r, "refused") \/ Goes(r, "creating")
    BY <1>2 DEF CreateViews
  <2> QED BY <1>1, <1>2, <2>1 DEF CreateViews, ConduitMoves
<1>3. CASE CompartmentViews(r)
  <2>1. PICK active \in {Active, FALSE}, configured \in {InForce(unit), NoDropin} :
          /\ request' = [request EXCEPT ![r].active = active, ![r].target = configured,
                           ![r].at = IF request[r].kind = "restore" THEN "restoring" ELSE "creating"]
          /\ \/ UNCHANGED <<faults, strayed>>
             \/ Fails /\ strayed' = strayed \cup {"blind"}
    BY <1>3 DEF CompartmentViews
  <2> DEFINE place == IF request[r].kind = "restore" THEN "restoring" ELSE "creating"
             record == [request[r] EXCEPT !.active = active, !.target = configured, !.at = place]
  <2>2. request[r] \in RequestRecords /\ request \in [Requests -> RequestRecords]
    BY DEF Base, Types, RequestTypes
  <2>3. record.at = place /\ place \in {"restoring", "creating"}
    BY <2>2 DEF RequestRecords
  <2>4. request' = [request EXCEPT ![r] = record]
    BY <2>1, <2>2
  <2> HIDE DEF record, place
  <2>5. Alone(r) /\ request'[r].at \in {"restoring", "creating"}
    BY <2>2, <2>3, <2>4 DEF Alone
  <2>6. /\ UNCHANGED <<files, flock, helper>> /\ ConduitMoves
        /\ strayed \subseteq strayed'
    BY <1>3, <2>1 DEF CompartmentViews, ConduitMoves
  <2>7. HelpersStart
    BY <2>6 DEF HelpersStart
  <2> QED BY <2>5, <2>6, <2>7 DEF Does
<1>4. ASSUME Changed(r, "created"), UNCHANGED <<files, conduit, flock, helper, strayed>>
      PROVE  Does(r)
  BY <1>1, <1>4 DEF Changed, ConduitMoves
<1>5. CASE Creates(r)
  BY <1>4, <1>5 DEF Creates
<1>6. CASE CreateFails(r)
  <2>1. strayed \subseteq strayed'
    BY <1>6 DEF CreateFails
  <2> QED BY <1>1, <1>6, <2>1 DEF CreateFails, ConduitMoves
<1>7. CASE Restores(r)
  BY <1>4, <1>7 DEF Restores
<1>8. CASE RestoreFails(r)
  BY <1>1, <1>8 DEF RestoreFails, ConduitMoves
<1>9. CASE Restarts(r)
  BY <1>1, <1>9 DEF Restarts, ConduitMoves
<1>10. CASE RestartFails(r)
  BY <1>1, <1>10 DEF RestartFails, ConduitMoves
<1>11. CASE Proved(r)
  BY <1>1, <1>11 DEF Proved, ConduitMoves
<1>12. CASE NotProved(r)
  <2>1. Answers(r, "failed") \/ Goes(r, "reverting")
    BY <1>12 DEF NotProved
  <2> QED BY <1>1, <1>12, <2>1 DEF NotProved, ConduitMoves
<1>13. CASE Reverts(r)
  <2>1. strayed \subseteq strayed'
    BY <1>13 DEF Reverts
  <2> QED BY <1>1, <1>13, <2>1 DEF Reverts, ConduitMoves
<1>14. CASE StartsOver(r)
  <2>1. strayed \subseteq strayed' /\ ConduitMoves
    BY <1>14 DEF StartsOver, ConduitMoves
  <2> QED BY <1>1, <1>14, <2>1 DEF StartsOver
<1> QED BY <1>2, <1>3, <1>5, <1>6, <1>7, <1>8, <1>9, <1>10, <1>11, <1>12, <1>13, <1>14
        DEF CompartmentStep

LEMMA ActionDoes ==
  ASSUME Base, NEW r \in Requests, ActionStep(r)
  PROVE  Does(r)
<1>1. CASE Sends(r)
  <2>1. request[r].kind \in Verbs
    BY <1>1 DEF Sends, At, Base, NotYet, NotYetAt
  <2>2. ConduitMoves
    BY <1>1, <2>1 DEF Sends, Verbs, ConduitMoves, Up
  <2> QED BY <1>1, <2>2, GoesDoes DEF Sends, Places
<1>2. CASE SendFails(r)
  BY <1>2, AnswersDoes DEF SendFails, Answered, ConduitMoves
<1>3. CASE PollEnds(r)
  BY <1>3, AnswersDoes DEF PollEnds, Answered, ConduitMoves
<1> QED BY <1>1, <1>2, <1>3 DEF ActionStep

LEMMA RequestDoes ==
  ASSUME Base, NEW r \in Requests, Arrives(r) \/ RequestStep(r)
  PROVE  Does(r)
BY ArrivesDoes, ConfigDoes, CompartmentDoes, ActionDoes DEF RequestStep

-----------------------------------------------------------------------------
(* What the service runs                                                    *)

(* Unless a helper stands between its write and the reload, systemd has     *)
(* what is on disk.                                                         *)
Reloaded ==
  "torn" \notin strayed /\ (\A h \in Requests \X Parts : helper[h] # "written") => unit = dropin

(* Unless a helper stands before its restart, the service was launched with *)
(* what systemd has.                                                        *)
Loads ==
  /\ "torn" \notin strayed /\ service \in Up
  /\ \A h \in Requests \X Parts : helper[h] \notin {"written", "reloaded"}
  => loaded.config = InForce(unit)

LEMMA DoesKeepsDisk ==
  ASSUME Reloaded, Loads, UNCHANGED files, strayed \subseteq strayed', ConduitMoves, HelpersStart
  PROVE  Reloaded' /\ Loads'
<1>1. "torn" \notin strayed' => "torn" \notin strayed
  OBVIOUS
<1>2. \A h \in Requests \X Parts :
        helper[h] \in {"written", "reloaded"} => helper'[h] = helper[h]
  BY DEF HelpersStart
<1>3. UNCHANGED <<dropin, bak, unit>>
  BY DEF files
<1>4. Reloaded'
  BY <1>1, <1>2, <1>3 DEF Reloaded
<1>5. Loads'
  BY <1>1, <1>2, <1>3 DEF Loads, ConduitMoves, Launch, conduit
<1> QED BY <1>4, <1>5

LEMMA HelpersKeepDisk ==
  ASSUME Base, Reloaded, Loads, NEW h \in Requests \X Parts, HelperStep(h) \/ HelperFails(h)
  PROVE  Reloaded' /\ Loads'
<1>1. \A state \in HelperStates :
        Moves(h, state) =>
          /\ helper'[h] = state
          /\ \A g \in (Requests \X Parts) \ {h} : helper'[g] = helper[g]
  BY HelperShape DEF Base, Types
<1>2. ASSUME NEW state \in HelperStates \ {"written", "reloaded"}, Moves(h, state),
             UNCHANGED <<dropin, unit, conduit>>, strayed \subseteq strayed',
             helper[h] \in {"written", "reloaded"} => "torn" \in strayed'
      PROVE  Reloaded' /\ Loads'
  <2>1. "torn" \notin strayed' =>
          /\ "torn" \notin strayed
          /\ \A g \in Requests \X Parts : helper[g] \in {"written", "reloaded"} => helper'[g] = helper[g]
    BY <1>1, <1>2
  <2>2. Reloaded'
    BY <1>2, <2>1 DEF Reloaded
  <2>3. Loads'
    BY <1>2, <2>1 DEF Loads, conduit
  <2> QED BY <2>2, <2>3
<1>3. CASE HelperLocks(h)
  BY <1>2, <1>3 DEF HelperLocks, files, HelperStates
<1>4. CASE HelperBacksUp(h)
  BY <1>2, <1>4 DEF HelperBacksUp, HelperStates
<1>5. ASSUME Moves(h, "written") PROVE Reloaded' /\ Loads'
  BY <1>1, <1>5 DEF HelperStates, Reloaded, Loads
<1>6. CASE HelperWrites(h)
  BY <1>5, <1>6 DEF HelperWrites
<1>7. CASE HelperPutsBack(h)
  BY <1>5, <1>7 DEF HelperPutsBack
<1>8. CASE HelperReloads(h)
  BY <1>1, <1>8 DEF HelperReloads, HelperStates, Reloaded, Loads
<1>9. CASE HelperRestarts(h)
  <2>1. \A g \in (Requests \X Parts) \ {h} : helper[g] # "written"
    BY <1>9 DEF HelperRestarts, Base, FlockHeld, Working
  <2>2. Reloaded'
    BY <1>9, <2>1 DEF HelperRestarts, Reloaded, files
  <2>3. Loads'
    BY <1>9 DEF HelperRestarts, Launch, Loads, files
  <2> QED BY <2>2, <2>3
<1>10. CASE HelperFails(h)
  <2>1. /\ Moves(h, "failed") /\ UNCHANGED <<dropin, unit, conduit>>
        /\ strayed \subseteq strayed'
        /\ helper[h] \in {"written", "reloaded"} => "torn" \in strayed'
    BY <1>10 DEF HelperFails, files
  <2>2. "failed" \in HelperStates \ {"written", "reloaded"}
    BY DEF HelperStates, Over
  <2> QED BY <1>2, <2>1, <2>2
<1> QED BY <1>3, <1>4, <1>6, <1>7, <1>8, <1>9, <1>10 DEF HelperStep

(* The service between the helpers. *)
Disk == Base /\ Reloaded /\ Loads

LEMMA DiskInit == Init => Disk
<1> SUFFICES ASSUME Init PROVE Reloaded /\ Loads
  BY BaseInit DEF Disk
<1> QED BY DEF Init, Reloaded, Loads

LEMMA DiskStep == Disk /\ [Next]_vars => Disk'
<1> SUFFICES ASSUME Disk, [Next]_vars PROVE Reloaded' /\ Loads'
  BY BaseStep DEF Disk
<1>1. CASE UNCHANGED vars
  BY <1>1 DEF vars, files, conduit, Disk, Reloaded, Loads
<1>2. ASSUME NEW r \in Requests, Arrives(r) \/ RequestStep(r) PROVE Reloaded' /\ Loads'
  BY <1>2, RequestDoes, DoesKeepsDisk DEF Disk, Does
<1>3. ASSUME NEW h \in Requests \X Parts, HelperStep(h) \/ HelperFails(h)
      PROVE  Reloaded' /\ Loads'
  BY <1>3, HelpersKeepDisk DEF Disk
<1>4. CASE ServiceSettles \/ ServiceRetries
  <2>1. UNCHANGED <<files, strayed>> /\ HelpersStart
    BY <1>4 DEF ServiceSettles, ServiceRetries, HelpersStart
  <2>2. ConduitMoves
    BY <1>4 DEF ServiceSettles, ServiceRetries, Settles, ConduitMoves, Up
  <2> QED BY <2>1, <2>2, DoesKeepsDisk DEF Disk
<1> QED BY <1>1, <1>2, <1>3, <1>4 DEF Next

LEMMA DiskAlways == Spec => []Disk
BY DiskInit, DiskStep, PTL DEF Spec

-----------------------------------------------------------------------------
(* What the holder of the lock has done to the drop-in                      *)

(* While no request has given up on a helper, one that runs is waited for.  *)
WaitedAt(r) ==
  /\ helper[<<r, "apply">>] \notin Over => request[r].at = "applying"
  /\ helper[<<r, "rollback">>] \notin Over => request[r].at = "rolling back"

(* As far as its helpers have come, the files are as the holder of the lock *)
(* found them, or as it wants them, or as it found them again.              *)
FilesAt(r) ==
  /\ helper[<<r, "apply">>] \in {"none", "waiting", "locked", "backed up"}
     /\ helper[<<r, "rollback">>] = "none"
     => dropin = request[r].before
  /\ helper[<<r, "apply">>] \in {"backed up", "written", "reloaded", "ok"}
     => bak = request[r].before
  /\ helper[<<r, "apply">>] \in {"written", "reloaded", "ok"}
     /\ helper[<<r, "rollback">>] \in {"none", "waiting", "locked"}
     => dropin = request[r].target
  /\ helper[<<r, "apply">>] = "ok"
     /\ helper[<<r, "rollback">>] \in {"written", "reloaded", "ok"}
     => dropin = request[r].before

(* What it is about to write differs from the drop-in only where asked to.  *)
RestAt(r) ==
  helper[<<r, "apply">>] \in {"waiting", "locked", "backed up"} =>
    \A k \in Knobs : request[r].asked[k] = Keep => request[r].target[k] = InForce(dropin)[k]

Waited == "outlived" \notin strayed => \A r \in Requests : WaitedAt(r)
FilesOfHolder == "outlived" \notin strayed => \A r \in Requests : lock = r => FilesAt(r)
KeepsTheRest == strayed = {} => \A r \in Requests : lock = r => RestAt(r)

Holder == Waited /\ FilesOfHolder /\ KeepsTheRest

(* A request that has not started a helper, or has seen its end, moves.     *)
LEMMA QuietKeepsHolder ==
  ASSUME Holder, NEW r \in Requests, Does(r), UNCHANGED helper,
         \A q \in Requests \ {r} : lock' = q => lock = q,
         request[r].at = "applying" => helper[<<r, "apply">>] \in Over,
         request[r].at = "rolling back" => helper[<<r, "rollback">>] \in Over,
         lock' = r =>
           /\ lock = r /\ request'[r].before = request[r].before
           /\ request'[r].asked = request[r].asked /\ request'[r].target = request[r].target
  PROVE  Holder'
<1>1. /\ UNCHANGED <<dropin, bak, unit>> /\ strayed \subseteq strayed'
      /\ \A q \in Requests \ {r} : request'[q] = request[q]
  BY DEF Does, files, Alone
<1>2. Waited'
  BY <1>1 DEF Holder, Waited, WaitedAt
<1>3. FilesOfHolder'
  <2> SUFFICES ASSUME "outlived" \notin strayed', NEW q \in Requests, lock' = q
               PROVE  FilesAt(q)'
    BY DEF FilesOfHolder
  <2>1. FilesAt(q) /\ request'[q].before = request[q].before /\ request'[q].target = request[q].target
    BY <1>1 DEF Holder, FilesOfHolder
  <2> QED BY <1>1, <2>1 DEF FilesAt
<1>4. KeepsTheRest'
  <2> SUFFICES ASSUME strayed' = {}, NEW q \in Requests, lock' = q
               PROVE  RestAt(q)'
    BY DEF KeepsTheRest
  <2>1. RestAt(q) /\ request'[q].asked = request[q].asked /\ request'[q].target = request[q].target
    BY <1>1 DEF Holder, KeepsTheRest
  <2> QED BY <1>1, <2>1 DEF RestAt
<1> QED BY <1>2, <1>3, <1>4 DEF Holder

LEMMA GoesKeepsHolder ==
  ASSUME Base, Holder, NEW r \in Requests, Does(r), NEW place \in Places \cup Answered,
         Goes(r, place), UNCHANGED <<lock, helper>>,
         request[r].at = "applying" => helper[<<r, "apply">>] \in Over,
         request[r].at = "rolling back" => helper[<<r, "rollback">>] \in Over
  PROVE  Holder'
<1>1. GoesOn(r, place)
  BY GoesShape DEF Base, Types
<1> QED BY <1>1, QuietKeepsHolder DEF GoesOn

LEMMA AnswersKeepsHolder ==
  ASSUME Base, Holder, NEW r \in Requests, Does(r), NEW answer \in Answered,
         Answers(r, answer), UNCHANGED helper,
         request[r].at \notin {"applying", "rolling back"}
  PROVE  Holder'
<1>1. lock' # r /\ \A q \in Requests \ {r} : lock' = q => lock = q
  BY NamesAreApart DEF Answers
<1> QED BY <1>1, QuietKeepsHolder

LEMMA EntersKeepsHolder ==
  ASSUME Base, Holder, NEW r \in Requests, Does(r), NEW kind \in Kinds, NEW asked \in Asked,
         Enters(r, kind, asked)
  PROVE  Holder'
<1>1. /\ request'[r].before = dropin /\ Alone(r) /\ request'[r].at = "viewing"
  BY EntersShape DEF Base, Types
<1>2. /\ lock' = r /\ UNCHANGED <<dropin, bak, helper, strayed>> /\ request[r].at = "idle"
  BY DEF Enters, At, files
<1>3. helper[<<r, "apply">>] = "none" /\ helper[<<r, "rollback">>] = "none"
  BY <1>2 DEF Base, NotYet, NotYetAt
<1>4. Waited'
  BY <1>1, <1>2, <1>3 DEF Holder, Waited, WaitedAt, Alone, Over
<1>5. FilesAt(r)' /\ RestAt(r)'
  BY <1>1, <1>2, <1>3 DEF FilesAt, RestAt
<1> QED BY <1>2, <1>4, <1>5 DEF Holder, FilesOfHolder, KeepsTheRest

LEMMA ArrivesKeepsHolder ==
  ASSUME Base, Holder, NEW r \in Requests, Does(r), Arrives(r)
  PROVE  Holder'
<1>1. CASE Refused(r)
  BY <1>1, GoesKeepsHolder DEF Refused, At, Answered
<1>2. CASE ApplyArrives(r)
  <2>1. PICK limit \in 1 .. ApiMax, reduced \in Keep .. ApiMax :
          Enters(r, "config", Config(limit, reduced, Keep))
    BY <1>2 DEF ApplyArrives
  <2>2. Config(limit, reduced, Keep) \in Asked
    BY AskedType, ControlConstants DEF Keep
  <2> QED BY <2>1, <2>2, EntersKeepsHolder DEF Kinds
<1>3. CASE PersonalArrives(r)
  <2>1. PICK n \in 0 .. MaxPersonal : Enters(r, "personal", Config(Keep, Keep, n))
    BY <1>3 DEF PersonalArrives
  <2>2. Config(Keep, Keep, n) \in Asked
    BY AskedType, ControlConstants DEF Keep
  <2> QED BY <2>1, <2>2, EntersKeepsHolder DEF Kinds
<1>4. CASE CreateArrives(r)
  BY <1>4, EntersKeepsHolder, IdleType DEF CreateArrives, Kinds
<1>5. CASE RegenerateArrives(r)
  BY <1>5, EntersKeepsHolder, IdleType DEF RegenerateArrives, Kinds
<1>6. CASE RestoreArrives(r)
  BY <1>6, EntersKeepsHolder, IdleType DEF RestoreArrives, Kinds
<1>7. CASE ActionArrives(r)
  <2>1. request[r].at = "idle" /\ UNCHANGED <<lock, helper>>
    BY <1>7 DEF ActionArrives, At
  <2>2. lock # r
    BY <2>1 DEF Base, Holds, LockPlaces
  <2> QED BY <2>1, <2>2, QuietKeepsHolder
<1> QED BY <1>1, <1>2, <1>3, <1>4, <1>5, <1>6, <1>7 DEF Arrives

(* The helper gets a target; seen under the lock the configuration that was *)
(* in force is that of the drop-in.                                         *)
LEMMA AppliesKeepsHolder ==
  ASSUME Disk, Holder, NEW r \in Requests, NEW configured \in Configs, At(r, "viewing"),
         Applies(r, configured),
         UNCHANGED <<files, lock>>, strayed \subseteq strayed',
         strayed' = {} => configured = InForce(unit)
  PROVE  Holder'
<1> DEFINE target == Merged(request[r].asked, configured)
           record == [request[r] EXCEPT !.at = "applying", !.target = target]
           h == <<r, "apply">>
<1>1. request[r] \in RequestRecords /\ request \in [Requests -> RequestRecords]
  BY DEF Disk, Base, Types, RequestTypes
<1>2. /\ record.at = "applying" /\ record.target = target
      /\ record.asked = request[r].asked /\ record.before = request[r].before
  <2> HIDE DEF target
  <2> QED BY <1>1 DEF RequestRecords
<1>3. request' = [request EXCEPT ![r] = record]
  BY <1>1 DEF Applies
<1>4. Moves(h, Started(r, target)) /\ Started(r, target) \in {"waiting", "failed"}
  BY DEF Applies, Moves, Started
<1>5. h \in Requests \X Parts
  BY DEF Parts
<1> HIDE DEF record, h
<1>6. /\ helper'[h] \in {"waiting", "failed"}
      /\ \A g \in (Requests \X Parts) \ {h} : helper'[g] = helper[g]
  <2> HIDE DEF target
  <2> QED BY <1>4, <1>5, HelperShape DEF HelperStates, Over, Disk, Base, Types
<1>7. /\ \A q \in Requests : helper'[<<q, "rollback">>] = helper[<<q, "rollback">>]
      /\ \A q \in Requests \ {r} : helper'[<<q, "apply">>] = helper[<<q, "apply">>]
  BY <1>6 DEF h, Parts
<1>8. /\ request'[r] = record /\ \A q \in Requests \ {r} : request'[q] = request[q]
      /\ UNCHANGED <<dropin, bak, unit, lock>>
  BY <1>1, <1>3 DEF files
<1>9. /\ lock = r /\ helper[h] = "none" /\ helper[<<r, "rollback">>] = "none"
  BY DEF h, At, Disk, Base, Holds, NotYet, NotYetAt, LockPlaces, Places
<1>10. Waited'
  <2> SUFFICES ASSUME "outlived" \notin strayed', NEW q \in Requests PROVE WaitedAt(q)'
    BY DEF Waited
  <2>1. WaitedAt(q)
    BY <1>9 DEF Holder, Waited
  <2>2. CASE q = r
    BY <1>2, <1>6, <1>7, <1>8, <1>9, <2>2 DEF WaitedAt, Over, h
  <2>3. CASE q # r
    BY <1>7, <1>8, <2>1, <2>3 DEF WaitedAt, h
  <2> QED BY <2>2, <2>3
<1>11. FilesOfHolder'
  <2> SUFFICES ASSUME "outlived" \notin strayed' PROVE FilesAt(r)'
    BY <1>8, <1>9 DEF FilesOfHolder
  <2>1. FilesAt(r)
    BY <1>9 DEF Holder, FilesOfHolder
  <2>2. dropin = request[r].before
    BY <1>9, <2>1 DEF FilesAt, h
  <2> QED BY <1>2, <1>6, <1>8, <2>2 DEF FilesAt, h
<1>12. KeepsTheRest'
  <2> SUFFICES ASSUME strayed' = {}, NEW k \in Knobs, request[r].asked[k] = Keep
               PROVE  target[k] = InForce(dropin)[k]
    <3>1. ASSUME RestAt(r)' PROVE strayed' = {} => \A q \in Requests : lock' = q => RestAt(q)'
      BY <1>8, <1>9, <3>1
    <3>2. dropin' = dropin /\ request'[r].asked = request[r].asked /\ request'[r].target = target
      BY <1>2, <1>8
    <3>3. (\A k \in Knobs : request[r].asked[k] = Keep => target[k] = InForce(dropin)[k]) => RestAt(r)'
      BY <3>2 DEF RestAt
    <3> QED BY <3>1, <3>3 DEF KeepsTheRest
  <2>1. strayed = {}
    OBVIOUS
  <2>2. ASSUME NEW g \in Requests \X Parts, helper[g] = "written" PROVE FALSE
    <3>1. PICK q \in Requests, part \in Parts : g = <<q, part>>
      OBVIOUS
    <3>2. request[q].at \in {"applying", "rolling back"}
      BY <2>1, <2>2, <3>1 DEF Holder, Waited, WaitedAt, Parts, Over
    <3>3. lock = q
      BY <3>2 DEF Disk, Base, Holds, LockPlaces, Places
    <3> QED BY <1>9, <3>2, <3>3 DEF At
  <2>3. unit = dropin
    BY <2>1, <2>2 DEF Disk, Reloaded
  <2>4. target[k] = configured[k]
    BY DEF Merged
  <2> QED BY <2>3, <2>4
<1> QED BY <1>10, <1>11, <1>12 DEF Holder

LEMMA ConfigKeepsHolder ==
  ASSUME Disk, Holder, NEW r \in Requests, Does(r), ConfigStep(r)
  PROVE  Holder'
<1> USE DEF At
<1>0. Base
  BY DEF Disk
<1>1. CASE Drifted(r)
  BY <1>0, <1>1, AnswersKeepsHolder DEF Drifted, Answered
<1>2. CASE NothingToDo(r)
  BY <1>0, <1>2, AnswersKeepsHolder DEF NothingToDo, Answered
<1>3. CASE StartsApply(r)
  <2>1. InForce(unit) \in Configs
    BY InForceType DEF Disk, Base, Types, FileTypes, Windowed
  <2> QED BY <1>3, <2>1, AppliesKeepsHolder DEF StartsApply
<1>4. CASE StartsBlindly(r)
  <2>1. Config(1, 0, 0) \in Configs
    BY ConfigType, ControlConstants
  <2>2. strayed \subseteq strayed' /\ strayed' # {}
    BY <1>4 DEF StartsBlindly
  <2> QED BY <1>4, <2>1, <2>2, AppliesKeepsHolder DEF StartsBlindly
<1>5. CASE ApplyReturns(r)
  BY <1>0, <1>5, GoesKeepsHolder DEF ApplyReturns, Places
<1>6. CASE ApplyGivenUp(r)
  BY <1>6 DEF ApplyGivenUp, Holder, Waited, FilesOfHolder, KeepsTheRest
<1>7. CASE Verified(r)
  <2>1. UNCHANGED helper /\ request[r].at = "verifying"
    BY <1>7 DEF Verified
  <2>2. Answers(r, "applied") \/ (Goes(r, "confirming") /\ UNCHANGED lock)
    BY <1>7 DEF Verified
  <2> QED BY <1>0, <2>1, <2>2, AnswersKeepsHolder, GoesKeepsHolder DEF Answered, Places
<1>8. CASE Confirmed(r)
  BY <1>0, <1>8, AnswersKeepsHolder DEF Confirmed, Answered
<1>9. CASE StartsRollback(r)
  <2> DEFINE h == <<r, "rollback">>
  <2>1. /\ Goes(r, "rolling back") /\ Moves(h, "waiting")
        /\ request[r].at \in {"verifying", "confirming"}
        /\ UNCHANGED <<dropin, bak, lock, strayed>>
    BY <1>9 DEF StartsRollback, files
  <2>2. h \in Requests \X Parts
    BY DEF Parts
  <2> HIDE DEF h
  <2>3. /\ helper'[h] = "waiting"
        /\ \A g \in (Requests \X Parts) \ {h} : helper'[g] = helper[g]
    BY <2>1, <2>2, HelperShape DEF HelperStates, Disk, Base, Types
  <2>4. GoesOn(r, "rolling back")
    BY <1>0, <2>1, GoesShape DEF Base, Types, Places
  <2>5. /\ \A q \in Requests : helper'[<<q, "apply">>] = helper[<<q, "apply">>]
        /\ \A q \in Requests \ {r} : helper'[<<q, "rollback">>] = helper[<<q, "rollback">>]
    BY <2>3 DEF h, Parts
  <2>6. helper[h] = "none" /\ lock = r
    BY <1>0, <2>1 DEF h, Base, NotYet, NotYetAt, Holds, LockPlaces, Places
  <2>7. Waited'
    <3> SUFFICES ASSUME "outlived" \notin strayed, NEW q \in Requests PROVE WaitedAt(q)'
      BY <2>1 DEF Waited
    <3>1. WaitedAt(q)
      BY DEF Holder, Waited
    <3>2. CASE q = r
      BY <2>1, <2>4, <2>5, <3>1, <3>2 DEF WaitedAt, GoesOn
    <3>3. CASE q # r
      BY <2>4, <2>5, <3>1, <3>3 DEF WaitedAt, GoesOn, Alone
    <3> QED BY <3>2, <3>3
  <2>8. "outlived" \notin strayed => FilesAt(r)'
    <3> SUFFICES ASSUME FilesAt(r) PROVE FilesAt(r)'
      BY <2>6 DEF Holder, FilesOfHolder
    <3> QED BY <2>1, <2>3, <2>4, <2>5, <2>6 DEF FilesAt, GoesOn, h
  <2>9. strayed = {} => RestAt(r)'
    <3> SUFFICES ASSUME RestAt(r) PROVE RestAt(r)'
      BY <2>6 DEF Holder, KeepsTheRest
    <3> QED BY <2>1, <2>4, <2>5 DEF RestAt, GoesOn
  <2> QED BY <2>1, <2>6, <2>7, <2>8, <2>9 DEF Holder, FilesOfHolder, KeepsTheRest
<1>10. CASE RollbackReturns(r)
  BY <1>0, <1>10, GoesKeepsHolder DEF RollbackReturns, Places
<1>11. CASE Checked(r)
  <2>1. /\ UNCHANGED helper /\ request[r].at = "checking"
        /\ Answers(r, "rolled_back") \/ Answers(r, "rollback_failed")
    BY <1>11 DEF Checked
  <2> QED BY <1>0, <2>1, AnswersKeepsHolder DEF Answered
<1> QED BY <1>1, <1>2, <1>3, <1>4, <1>5, <1>6, <1>7, <1>8, <1>9, <1>10, <1>11 DEF ConfigStep

LEMMA CompartmentKeepsHolder ==
  ASSUME Base, Holder, NEW r \in Requests, Does(r), CompartmentStep(r)
  PROVE  Holder'
<1> USE DEF At
<1>1. ASSUME Goes(r, "creating") \/ Goes(r, "restarting") \/ Goes(r, "proving")
               \/ Goes(r, "reverting") \/ Goes(r, "starting over") \/ Goes(r, "checking"),
             UNCHANGED <<lock, helper>>, request[r].at \notin {"applying", "rolling back"}
      PROVE  Holder'
  BY <1>1, GoesKeepsHolder DEF Places
<1>2. ASSUME Answers(r, "refused") \/ Answers(r, "created") \/ Answers(r, "failed"),
             UNCHANGED helper, request[r].at \notin {"applying", "rolling back"}
      PROVE  Holder'
  BY <1>2, AnswersKeepsHolder DEF Answered
<1>3. CASE CreateViews(r)
  BY <1>1, <1>2, <1>3 DEF CreateViews
<1>4. CASE CompartmentViews(r)
  <2>1. PICK active \in {Active, FALSE}, configured \in {InForce(unit), NoDropin} :
          request' = [request EXCEPT ![r].active = active, ![r].target = configured,
                        ![r].at = IF request[r].kind = "restore" THEN "restoring" ELSE "creating"]
    BY <1>4 DEF CompartmentViews
  <2> DEFINE place == IF request[r].kind = "restore" THEN "restoring" ELSE "creating"
             record == [request[r] EXCEPT !.active = active, !.target = configured, !.at = place]
  <2>2. request[r] \in RequestRecords /\ request \in [Requests -> RequestRecords]
    BY DEF Base, Types, RequestTypes
  <2>3. record.before = request[r].before
    BY <2>2 DEF RequestRecords
  <2>4. request' = [request EXCEPT ![r] = record]
    BY <2>1, <2>2
  <2> HIDE DEF record, place
  <2>5. /\ \A q \in Requests \ {r} : request'[q] = request[q]
        /\ request'[r].before = request[r].before
    BY <2>2, <2>3, <2>4
  <2>6. request[r].at = "viewing" /\ UNCHANGED <<dropin, bak, lock, helper>>
    BY <1>4 DEF CompartmentViews, files
  <2>7. /\ helper[<<r, "apply">>] = "none" /\ helper[<<r, "rollback">>] = "none"
        /\ strayed \subseteq strayed'
    BY <2>6 DEF Base, NotYet, NotYetAt, Does
  <2>8. Waited'
    <3> SUFFICES ASSUME "outlived" \notin strayed, NEW q \in Requests PROVE WaitedAt(q)'
      BY <2>7 DEF Waited
    <3>1. WaitedAt(q)
      BY DEF Holder, Waited
    <3> QED BY <2>5, <2>6, <2>7, <3>1 DEF WaitedAt, Over
  <2>9. FilesOfHolder'
    <3> SUFFICES ASSUME "outlived" \notin strayed, NEW q \in Requests, lock = q PROVE FilesAt(q)'
      BY <2>6, <2>7 DEF FilesOfHolder
    <3>1. FilesAt(q)
      BY DEF Holder, FilesOfHolder
    <3>2. CASE q = r
      BY <2>5, <2>6, <2>7, <3>1, <3>2 DEF FilesAt
    <3>3. CASE q # r
      BY <2>5, <2>6, <3>1, <3>3 DEF FilesAt
    <3> QED BY <3>2, <3>3
  <2>10. KeepsTheRest'
    <3> SUFFICES ASSUME strayed = {}, NEW q \in Requests, lock = q PROVE RestAt(q)'
      BY <2>6, <2>7 DEF KeepsTheRest
    <3>1. RestAt(q)
      BY DEF Holder, KeepsTheRest
    <3>2. CASE q = r
      BY <2>6, <2>7, <3>2 DEF RestAt
    <3>3. CASE q # r
      BY <2>5, <2>6, <3>1, <3>3 DEF RestAt
    <3> QED BY <3>2, <3>3
  <2> QED BY <2>8, <2>9, <2>10 DEF Holder
<1>5. CASE Creates(r)
  BY <1>1, <1>2, <1>5 DEF Creates, Changed
<1>6. CASE CreateFails(r)
  BY <1>2, <1>6 DEF CreateFails
<1>7. CASE Restores(r)
  BY <1>1, <1>2, <1>7 DEF Restores, Changed
<1>8. CASE RestoreFails(r)
  BY <1>2, <1>8 DEF RestoreFails
<1>9. CASE Restarts(r)
  BY <1>1, <1>9 DEF Restarts
<1>10. CASE RestartFails(r)
  BY <1>1, <1>2, <1>10 DEF RestartFails
<1>11. CASE Proved(r)
  BY <1>2, <1>11 DEF Proved
<1>12. CASE NotProved(r)
  BY <1>1, <1>2, <1>12 DEF NotProved
<1>13. CASE Reverts(r)
  BY <1>1, <1>13 DEF Reverts
<1>14. CASE StartsOver(r)
  BY <1>1, <1>14 DEF StartsOver
<1> QED BY <1>3, <1>4, <1>5, <1>6, <1>7, <1>8, <1>9, <1>10, <1>11, <1>12, <1>13, <1>14
        DEF CompartmentStep

LEMMA ActionKeepsHolder ==
  ASSUME Base, Holder, NEW r \in Requests, Does(r), ActionStep(r)
  PROVE  Holder'
<1>1. CASE Sends(r)
  BY <1>1, GoesKeepsHolder DEF Sends, At, Places
<1>2. CASE SendFails(r)
  BY <1>2, AnswersKeepsHolder DEF SendFails, At, Answered
<1>3. CASE PollEnds(r)
  <2>1. Answers(r, "succeeded") \/ Answers(r, "unsuccessful")
    BY <1>3 DEF PollEnds
  <2> QED BY <1>3, <2>1, AnswersKeepsHolder DEF PollEnds, At, Answered
<1> QED BY <1>1, <1>2, <1>3 DEF ActionStep

(* A helper that moves is that of the holder of the lock, unless one was    *)
(* given up; the other helper of the request is not at work.                *)
LEMMA HelperKeepsHolder ==
  ASSUME Base, Holder, NEW r \in Requests, NEW part \in Parts, NEW state \in HelperStates,
         Moves(<<r, part>>, state), helper[<<r, part>>] \notin Over,
         UNCHANGED <<lock, request>>, strayed \subseteq strayed',
         "outlived" \notin strayed' /\ FilesAt(r)
         /\ (part = "apply" => helper[<<r, "rollback">>] = "none")
         /\ (part = "rollback" => helper[<<r, "apply">>] \in Over)
         => FilesAt(r)',
         strayed' = {} /\ RestAt(r) /\ (part = "rollback" => helper[<<r, "apply">>] \in Over)
         => RestAt(r)'
  PROVE  Holder'
<1>1. /\ <<r, part>> \in Requests \X Parts /\ helper'[<<r, part>>] = state
      /\ \A g \in (Requests \X Parts) \ {<<r, part>>} : helper'[g] = helper[g]
  BY HelperShape DEF Base, Types
<1>2. \A q \in Requests : \A p \in Parts : helper'[<<q, p>>] \notin Over => helper[<<q, p>>] \notin Over
  BY <1>1
<1>3. Waited'
  <2> SUFFICES ASSUME "outlived" \notin strayed, NEW q \in Requests PROVE WaitedAt(q)'
    BY DEF Waited
  <2>1. WaitedAt(q)
    BY DEF Holder, Waited
  <2> QED BY <1>2, <2>1 DEF WaitedAt, Parts
<1>4. ASSUME "outlived" \notin strayed
      PROVE  /\ lock = r
             /\ part = "apply" => helper[<<r, "rollback">>] = "none"
             /\ part = "rollback" => helper[<<r, "apply">>] \in Over
  <2>1. WaitedAt(r)
    BY <1>4 DEF Holder, Waited
  <2>2. CASE part = "apply"
    <3>1. request[r].at = "applying"
      BY <2>1, <2>2 DEF WaitedAt
    <3> QED BY <2>2, <3>1 DEF Base, Holds, LockPlaces, Places, NotYet, NotYetAt
  <2>3. CASE part = "rollback"
    <3>1. request[r].at = "rolling back"
      BY <2>1, <2>3 DEF WaitedAt
    <3>2. helper[<<r, "apply">>] \in Over
      BY <2>1, <3>1 DEF WaitedAt
    <3> QED BY <2>3, <3>1, <3>2 DEF Base, Holds, LockPlaces, Places
  <2> QED BY <2>2, <2>3 DEF Parts
<1>5. FilesOfHolder'
  <2> SUFFICES ASSUME "outlived" \notin strayed' PROVE FilesAt(r)'
    BY <1>4 DEF FilesOfHolder
  <2> QED BY <1>4 DEF Holder, FilesOfHolder
<1>6. KeepsTheRest'
  <2> SUFFICES ASSUME strayed' = {} PROVE RestAt(r)'
    BY <1>4 DEF KeepsTheRest
  <2>1. strayed = {}
    OBVIOUS
  <2> QED BY <1>4, <2>1 DEF Holder, KeepsTheRest
<1> QED BY <1>3, <1>5, <1>6 DEF Holder

LEMMA HelpersKeepHolder ==
  ASSUME Base, Holder, NEW h \in Requests \X Parts, HelperStep(h) \/ HelperFails(h)
  PROVE  Holder'
<1>1. PICK r \in Requests, part \in Parts : h = <<r, part>>
  OBVIOUS
<1>2. part = "apply" \/ part = "rollback"
  BY DEF Parts
<1>3. \A state \in HelperStates :
        Moves(h, state) =>
          /\ helper'[h] = state
          /\ part = "apply" => helper'[<<r, "rollback">>] = helper[<<r, "rollback">>]
          /\ part = "rollback" => helper'[<<r, "apply">>] = helper[<<r, "apply">>]
  <2> SUFFICES ASSUME NEW state \in HelperStates, Moves(h, state)
               PROVE  /\ helper'[h] = state
                      /\ part = "apply" => helper'[<<r, "rollback">>] = helper[<<r, "rollback">>]
                      /\ part = "rollback" => helper'[<<r, "apply">>] = helper[<<r, "apply">>]
    OBVIOUS
  <2>1. helper'[h] = state /\ \A g \in (Requests \X Parts) \ {h} : helper'[g] = helper[g]
    BY HelperShape DEF Base, Types
  <2> QED BY <1>1, <2>1 DEF Parts
<1>4. CASE HelperLocks(h)
  <2>1. /\ Moves(h, "locked") /\ helper[h] = "waiting"
        /\ UNCHANGED <<dropin, bak, lock, request, strayed>>
    BY <1>4 DEF HelperLocks, files
  <2>2. "locked" \in HelperStates /\ "waiting" \notin Over
    BY DEF HelperStates, Over
  <2>3. FilesAt(r) => FilesAt(r)'
    BY <1>1, <1>2, <1>3, <2>1, <2>2 DEF FilesAt
  <2>4. RestAt(r) => RestAt(r)'
    BY <1>1, <1>2, <1>3, <2>1, <2>2 DEF RestAt
  <2> QED BY <1>1, <2>1, <2>2, <2>3, <2>4, HelperKeepsHolder
<1>5. CASE HelperBacksUp(h)
  <2>1. /\ Moves(h, "backed up") /\ helper[h] = "locked" /\ part = "apply"
        /\ UNCHANGED <<dropin, lock, request, strayed>> /\ bak' = dropin
    BY <1>1, <1>5 DEF HelperBacksUp
  <2>2. "backed up" \in HelperStates /\ "locked" \notin Over
    BY DEF HelperStates, Over
  <2>3. FilesAt(r) /\ helper[<<r, "rollback">>] = "none" => FilesAt(r)'
    BY <1>1, <1>3, <2>1, <2>2 DEF FilesAt
  <2>4. RestAt(r) => RestAt(r)'
    BY <1>1, <1>3, <2>1, <2>2 DEF RestAt
  <2> QED BY <1>1, <2>1, <2>2, <2>3, <2>4, HelperKeepsHolder
<1>6. CASE HelperWrites(h)
  <2>1. /\ Moves(h, "written") /\ helper[h] = "backed up" /\ dropin' = request[r].target
        /\ UNCHANGED <<bak, lock, request, strayed>>
    BY <1>1, <1>6 DEF HelperWrites
  <2>2. "written" \in HelperStates /\ "backed up" \notin Over
    BY DEF HelperStates, Over
  <2>3. part = "apply"
    BY <1>1, <1>2, <2>1 DEF Base, RollbackMakesNoBackup
  <2>4. FilesAt(r) /\ helper[<<r, "rollback">>] = "none" => FilesAt(r)'
    BY <1>1, <1>3, <2>1, <2>2, <2>3 DEF FilesAt
  <2>5. RestAt(r)'
    BY <1>1, <1>3, <2>1, <2>2, <2>3 DEF RestAt
  <2> QED BY <1>1, <2>1, <2>2, <2>3, <2>4, <2>5, HelperKeepsHolder
<1>7. CASE HelperPutsBack(h)
  <2>1. /\ Moves(h, "written") /\ helper[h] = "locked" /\ dropin' = bak /\ part = "rollback"
        /\ UNCHANGED <<bak, lock, request, strayed>>
    BY <1>1, <1>7 DEF HelperPutsBack
  <2>2. "written" \in HelperStates /\ "locked" \notin Over
    BY DEF HelperStates, Over
  <2>3. FilesAt(r) => FilesAt(r)'
    BY <1>1, <1>3, <2>1, <2>2 DEF FilesAt
  <2>4. helper[<<r, "apply">>] \in Over => RestAt(r)'
    BY <1>1, <1>3, <2>1, <2>2 DEF RestAt, Over
  <2> QED BY <1>1, <2>1, <2>2, <2>3, <2>4, HelperKeepsHolder
<1>8. CASE HelperReloads(h)
  <2>1. /\ Moves(h, "reloaded") /\ helper[h] = "written"
        /\ UNCHANGED <<dropin, bak, lock, request, strayed>>
    BY <1>8 DEF HelperReloads
  <2>2. "reloaded" \in HelperStates /\ "written" \notin Over
    BY DEF HelperStates, Over
  <2>3. FilesAt(r) => FilesAt(r)'
    BY <1>1, <1>2, <1>3, <2>1, <2>2 DEF FilesAt
  <2>4. RestAt(r) => RestAt(r)'
    BY <1>1, <1>2, <1>3, <2>1, <2>2 DEF RestAt
  <2> QED BY <1>1, <2>1, <2>2, <2>3, <2>4, HelperKeepsHolder
<1>9. CASE HelperRestarts(h)
  <2>1. /\ Moves(h, "ok") /\ helper[h] = "reloaded"
        /\ UNCHANGED <<dropin, bak, lock, request, strayed>>
    BY <1>9 DEF HelperRestarts, files
  <2>2. "ok" \in HelperStates /\ "reloaded" \notin Over
    BY DEF HelperStates, Over
  <2>3. FilesAt(r) /\ (part = "apply" => helper[<<r, "rollback">>] = "none") => FilesAt(r)'
    BY <1>1, <1>2, <1>3, <2>1, <2>2 DEF FilesAt
  <2>4. RestAt(r) => RestAt(r)'
    BY <1>1, <1>2, <1>3, <2>1, <2>2 DEF RestAt
  <2> QED BY <1>1, <2>1, <2>2, <2>3, <2>4, HelperKeepsHolder
<1>10. CASE HelperFails(h)
  <2>1. /\ Moves(h, "failed") /\ helper[h] \notin Over
        /\ UNCHANGED <<dropin, bak, lock, request>> /\ strayed \subseteq strayed'
    BY <1>10 DEF HelperFails, files
  <2>2. "failed" \in HelperStates
    BY DEF HelperStates, Over
  <2>3. FilesAt(r) /\ (part = "apply" => helper[<<r, "rollback">>] = "none") => FilesAt(r)'
    BY <1>1, <1>2, <1>3, <2>1, <2>2 DEF FilesAt, Over
  <2>4. RestAt(r) => RestAt(r)'
    BY <1>1, <1>2, <1>3, <2>1, <2>2 DEF RestAt
  <2> QED BY <1>1, <2>1, <2>2, <2>3, <2>4, HelperKeepsHolder
<1> QED BY <1>4, <1>5, <1>6, <1>7, <1>8, <1>9, <1>10 DEF HelperStep

LEMMA HolderInit == Init => Holder
<1> SUFFICES ASSUME Init PROVE Holder
  OBVIOUS
<1>1. \A r \in Requests : helper[<<r, "apply">>] = "none" /\ helper[<<r, "rollback">>] = "none"
  BY DEF Init, Parts
<1>2. \A r \in Requests : lock # r
  BY NamesAreApart DEF Init
<1> QED BY <1>1, <1>2 DEF Holder, Waited, WaitedAt, Over, FilesOfHolder, KeepsTheRest

LEMMA HolderStep == Disk /\ Holder /\ [Next]_vars => Holder'
<1> SUFFICES ASSUME Disk, Holder, [Next]_vars PROVE Holder'
  OBVIOUS
<1>1. ASSUME UNCHANGED <<files, lock, helper, request, strayed>> PROVE Holder'
  <2>1. UNCHANGED <<dropin, bak>>
    BY <1>1 DEF files
  <2>2. Waited' /\ KeepsTheRest'
    BY <1>1, <2>1 DEF Holder, Waited, WaitedAt, KeepsTheRest, RestAt
  <2>3. FilesOfHolder'
    BY <1>1, <2>1 DEF Holder, FilesOfHolder, FilesAt
  <2> QED BY <2>2, <2>3 DEF Holder
<1>2. ASSUME NEW r \in Requests, Arrives(r) \/ RequestStep(r) PROVE Holder'
  <2>1. Base /\ Does(r)
    BY <1>2, RequestDoes DEF Disk
  <2> QED BY <1>2, <2>1, ArrivesKeepsHolder, ConfigKeepsHolder, CompartmentKeepsHolder,
             ActionKeepsHolder DEF RequestStep
<1>3. ASSUME NEW h \in Requests \X Parts, HelperStep(h) \/ HelperFails(h) PROVE Holder'
  BY <1>3, HelpersKeepHolder DEF Disk
<1>4. CASE ServiceSettles \/ ServiceRetries
  BY <1>1, <1>4 DEF ServiceSettles, ServiceRetries
<1>5. CASE UNCHANGED vars
  BY <1>1, <1>5 DEF vars
<1> QED BY <1>2, <1>3, <1>4, <1>5 DEF Next

LEMMA HolderAlways == Spec => []Holder
BY HolderInit, HolderStep, DiskAlways, PTL DEF Spec

(* "applied" is said of what was asked, "rolled_back" of what there was:    *)
(* Verified, Confirmed and Checked (api/conduit.py) look at the service     *)
(* only, and what they say is true of the drop-in all the same, however the *)
(* steps of the request, of the other requests and of the helpers           *)
(* interleave.                                                              *)
THEOREM AnswersTrue == Spec => AnswersAreTrue
<1>1. ASSUME Disk, Holder, [Next]_vars
      PROVE  [\A r \in Requests : AppliedIsWritten(r) /\ RolledBackExactly(r)]_vars
  <2> SUFFICES ASSUME NEW r \in Requests PROVE AppliedIsWritten(r) /\ RolledBackExactly(r)
    OBVIOUS
  <2>1. ASSUME request'[r] # request[r] PROVE Does(r)
    <3>1. ASSUME NEW q \in Requests, Arrives(q) \/ RequestStep(q) PROVE Does(r)
      <4>1. Does(q)
        BY <1>1, <3>1, RequestDoes DEF Disk
      <4>2. q = r
        BY <2>1, <4>1 DEF Does, Alone
      <4> QED BY <4>1, <4>2
    <3>2. ASSUME NEW h \in Requests \X Parts, HelperStep(h) \/ HelperFails(h) PROVE UNCHANGED request
      BY <3>2 DEF HelperStep, HelperLocks, HelperBacksUp, HelperWrites, HelperPutsBack,
                  HelperReloads, HelperRestarts, HelperFails
    <3>3. CASE ServiceSettles \/ ServiceRetries
      BY <2>1, <3>3 DEF ServiceSettles, ServiceRetries
    <3>4. CASE UNCHANGED vars
      BY <2>1, <3>4 DEF vars
    <3> QED BY <1>1, <2>1, <3>1, <3>2, <3>3, <3>4 DEF Next
  <2>2. request[r].at \in {"verifying", "confirming", "checking"} /\ "outlived" \notin strayed
        => FilesAt(r)
    BY <1>1 DEF Disk, Base, Holds, LockPlaces, Places, Holder, FilesOfHolder
  <2>3. AppliedIsWritten(r)
    <3> SUFFICES ASSUME Answer(r, "applied"), helper[<<r, "apply">>] = "ok", "outlived" \notin strayed
                 PROVE  dropin = request[r].target
      BY DEF AppliedIsWritten
    <3>1. Verified(r) \/ Confirmed(r)
      BY <2>1 DEF Answer, At, Does
    <3>2. request[r].at \in {"verifying", "confirming"}
      BY <3>1 DEF Verified, Confirmed, At
    <3>3. helper[<<r, "rollback">>] = "none"
      BY <1>1, <3>2 DEF Disk, Base, NotYet, NotYetAt
    <3> QED BY <2>2, <3>2, <3>3 DEF FilesAt
  <2>4. RolledBackExactly(r)
    <3> SUFFICES ASSUME Answer(r, "rolled_back"), helper[<<r, "apply">>] = "ok",
                        helper[<<r, "rollback">>] = "ok", "outlived" \notin strayed
                 PROVE  dropin = request[r].before
      BY DEF RolledBackExactly
    <3>1. Checked(r)
      BY <2>1 DEF Answer, At, Does
    <3> QED BY <2>2, <3>1 DEF FilesAt, Checked, At
  <2> QED BY <2>3, <2>4
<1> QED BY <1>1, DiskAlways, HolderAlways, PTL DEF Spec, AnswersAreTrue

-----------------------------------------------------------------------------
(* The identity of the compartment and the token handed out for it          *)

RequestUnpaired(r) == request[r].asked.personal <= 0 /\ request[r].target.personal = 0

(* Nobody admits personal clients, or is about to, without a compartment.   *)
PersonalNeedsIdentity ==
  identity.now = None =>
    /\ dropin.personal = 0 /\ bak.personal = 0 /\ unit.personal = 0
    /\ loaded.config.personal = 0
    /\ \A r \in Requests : RequestUnpaired(r)

(* What a request has looked at is still so while it holds the lock.        *)
ViewsAt(r) ==
  /\ request[r].kind = "create" /\ request[r].at = "creating"
     => identity.now = None /\ request[r].active = FALSE
  /\ request[r].kind = "regenerate" /\ request[r].at \in {"viewing", "creating"}
     => identity.now # None
  /\ request[r].kind = "restore" /\ request[r].at = "viewing" => identity.bak # None
  /\ request[r].at \in {"restoring", "restarting", "proving", "reverting"} => identity.bak # None
  /\ request[r].at = "creating" => request[r].kind \in {"create", "regenerate"}
  /\ request[r].at = "restoring" => request[r].kind = "restore"

(* A request that has seen no personal clients admitted is right, and goes  *)
(* on being right: it may leave the service as it is.                       *)
RestsAt(r) ==
  /\ request[r].at \in {"creating", "restoring"} /\ request[r].kind # "create"
  /\ request[r].active = FALSE
  => unit.personal = 0

InactiveRests == strayed = {} => \A r \in Requests : RestsAt(r)

(* From here a request launches the service next. *)
Relaunching == {"restarting", "starting over"}

(* Unless a request is about to launch it anew, a service that admits       *)
(* personal clients has the identity on disk.                               *)
TokenLoaded ==
  /\ strayed = {} /\ service \in Up /\ loaded.config.personal > 0
  /\ \A r \in Requests : request[r].at \notin Relaunching
  => loaded.id = identity.now

Paired ==
  /\ PersonalNeedsIdentity
  /\ \A r \in Requests : ViewsAt(r)
  /\ InactiveRests
  /\ TokenLoaded

(* What the identity has, a step does not take away. *)
IdentityStays ==
  /\ identity.now # None => identity'.now # None
  /\ identity.bak # None => identity'.bak # None

LEMMA HelperOf ==
  ASSUME NEW h \in Requests \X Parts
  PROVE  \E q \in Requests : h = <<q, "apply">> \/ h = <<q, "rollback">>
<1>1. h = <<h[1], h[2]>> /\ h[1] \in Requests /\ h[2] \in Parts
  OBVIOUS
<1> QED BY <1>1 DEF Parts

(* The holder of the lock that waits for no helper finds all of them over.  *)
LEMMA HelpersOver ==
  ASSUME Disk, Holder, "outlived" \notin strayed, "torn" \notin strayed,
         NEW r \in Requests, lock = r, request[r].at \notin {"applying", "rolling back"}
  PROVE  /\ \A h \in Requests \X Parts : helper[h] \in Over
         /\ unit = dropin /\ (service \in Up => loaded.config = InForce(unit))
<1>1. ASSUME NEW h \in Requests \X Parts PROVE helper[h] \in Over
  <2>1. PICK q \in Requests : h = <<q, "apply">> \/ h = <<q, "rollback">>
    BY HelperOf
  <2>2. WaitedAt(q)
    BY DEF Holder, Waited
  <2>3. request[q].at \in {"applying", "rolling back"} => q = r
    BY DEF Disk, Base, Holds, LockPlaces, Places
  <2> QED BY <2>1, <2>2, <2>3 DEF WaitedAt
<1>2. \A h \in Requests \X Parts : helper[h] \notin {"written", "reloaded"}
  BY <1>1 DEF Over
<1> QED BY <1>1, <1>2 DEF Disk, Reloaded, Loads

LEMMA RequestKeepsPaired ==
  ASSUME Disk, Paired, NEW r \in Requests, Does(r), IdentityStays,
         identity' = identity \/ lock = r,
         ViewsAt(r)', strayed' = {} => RestsAt(r)',
         identity'.now = None => RequestUnpaired(r)',
         strayed' = {} =>
           \/ Launch /\ UNCHANGED identity
           \/ identity'.now = identity.now /\ request[r].at \notin Relaunching
           \/ request'[r].at \in Relaunching
           \/ UNCHANGED conduit /\ (service \in Up => loaded.config.personal = 0)
  PROVE  Paired'
<1>1. /\ UNCHANGED <<dropin, bak, unit>> /\ (strayed' = {} => strayed = {})
      /\ \A q \in Requests \ {r} : request'[q] = request[q]
  BY DEF Does, files, Alone
<1>2. identity'.now = None => identity.now = None
  BY DEF IdentityStays
<1>3. loaded'.config.personal \in {loaded.config.personal, unit.personal}
  <2>1. InForce(unit).personal = unit.personal
    BY InForceType DEF Disk, Base, Types, FileTypes, Windowed
  <2> QED BY <2>1 DEF Does, ConduitMoves, Launch, conduit
<1>4. PersonalNeedsIdentity'
  <2> SUFFICES ASSUME identity'.now = None
               PROVE  /\ dropin'.personal = 0 /\ bak'.personal = 0 /\ unit'.personal = 0
                      /\ loaded'.config.personal = 0
                      /\ \A q \in Requests : RequestUnpaired(q)'
    BY DEF PersonalNeedsIdentity
  <2>1. /\ dropin.personal = 0 /\ bak.personal = 0 /\ unit.personal = 0
        /\ loaded.config.personal = 0
        /\ \A q \in Requests : RequestUnpaired(q)
    BY <1>2 DEF Paired, PersonalNeedsIdentity
  <2> QED BY <1>1, <1>3, <2>1 DEF RequestUnpaired
<1>5. ASSUME NEW q \in Requests PROVE ViewsAt(q)'
  <2> SUFFICES ASSUME q # r PROVE ViewsAt(q)'
    OBVIOUS
  <2>1. request'[q] = request[q] /\ ViewsAt(q)
    BY <1>1 DEF Paired
  <2>2. request[q].at = "creating" => identity' = identity
    BY DEF Disk, Base, Holds, LockPlaces, Places
  <2> QED BY <2>1, <2>2 DEF ViewsAt, IdentityStays
<1>6. InactiveRests'
  <2> SUFFICES ASSUME strayed' = {}, NEW q \in Requests, q # r PROVE RestsAt(q)'
    BY DEF InactiveRests
  <2>1. RestsAt(q)
    BY <1>1 DEF Paired, InactiveRests
  <2> QED BY <1>1, <2>1 DEF RestsAt
<1>7. TokenLoaded'
  <2> SUFFICES ASSUME strayed' = {}, service' \in Up, loaded'.config.personal > 0,
                      \A q \in Requests : request'[q].at \notin Relaunching
               PROVE  loaded'.id = identity'.now
    BY DEF TokenLoaded
  <2>1. CASE Launch
    <3>1. loaded'.id = identity.now
      BY <2>1 DEF Launch
    <3>2. \/ identity'.now = identity.now
          \/ UNCHANGED conduit /\ (service \in Up => loaded.config.personal = 0)
      OBVIOUS
    <3> QED BY <3>1, <3>2 DEF conduit
  <2>2. CASE ~Launch
    <3>1. UNCHANGED loaded /\ service \in Up
      BY <2>2 DEF Does, ConduitMoves, conduit
    <3>2. identity'.now = identity.now /\ request[r].at \notin Relaunching
      BY <2>2, <3>1
    <3>3. \A q \in Requests : request[q].at \notin Relaunching
      BY <1>1, <3>2
    <3> QED BY <1>1, <3>1, <3>2, <3>3 DEF Paired, TokenLoaded
  <2> QED BY <2>1, <2>2
<1> QED BY <1>4, <1>5, <1>6, <1>7 DEF Paired

LEMMA GoesKeepsPaired ==
  ASSUME Disk, Paired, NEW r \in Requests, Does(r), NEW place \in Places \cup Answered,
         Goes(r, place), UNCHANGED identity,
         place \notin {"viewing", "creating", "restoring"},
         place \in {"restarting", "proving", "reverting"} => identity.bak # None,
         strayed' = {} => Launch \/ request[r].at \notin Relaunching
  PROVE  Paired'
<1>1. GoesOn(r, place)
  BY GoesShape DEF Disk, Base, Types
<1>2. ViewsAt(r)'
  BY <1>1 DEF GoesOn, ViewsAt
<1>3. RestsAt(r)'
  BY <1>1 DEF GoesOn, RestsAt
<1>4. identity'.now = None => RequestUnpaired(r)'
  BY <1>1 DEF Paired, PersonalNeedsIdentity, GoesOn, RequestUnpaired
<1>5. IdentityStays
  BY DEF IdentityStays
<1> QED BY <1>2, <1>3, <1>4, <1>5, RequestKeepsPaired

LEMMA AnswersKeepsPaired ==
  ASSUME Disk, Paired, NEW r \in Requests, Does(r), NEW answer \in Answered,
         Answers(r, answer), IdentityStays, identity' = identity \/ lock = r,
         strayed' = {} =>
           \/ identity'.now = identity.now /\ request[r].at \notin Relaunching
           \/ UNCHANGED conduit /\ (service \in Up => loaded.config.personal = 0)
  PROVE  Paired'
<1>1. IsOver(r, answer)
  BY AnswersShape DEF Disk, Base, Types
<1>2. ViewsAt(r)' /\ RestsAt(r)'
  <2>1. request'[r].at \notin {"viewing", "creating", "restoring", "restarting", "proving", "reverting"}
    BY <1>1 DEF IsOver, Answered
  <2> QED BY <2>1 DEF ViewsAt, RestsAt
<1>3. identity'.now = None => RequestUnpaired(r)'
  <2>1. Shipped.personal = 0 /\ Nothing.personal <= 0
    <3>1. Shipped.personal = 0
      BY ShippedType
    <3>2. Nothing.personal = Keep
      BY IdleType
    <3> QED BY <3>1, <3>2 DEF Keep
  <2>2. identity'.now = None => request[r].target.personal = 0
    BY DEF IdentityStays, Paired, PersonalNeedsIdentity, RequestUnpaired
  <2> QED BY <1>1, <2>1, <2>2 DEF IsOver, RequestUnpaired
<1> QED BY <1>2, <1>3, RequestKeepsPaired

LEMMA EntersKeepsPaired ==
  ASSUME Disk, Paired, NEW r \in Requests, Does(r), NEW kind \in Kinds, NEW asked \in Asked,
         Enters(r, kind, asked),
         kind = "regenerate" => identity.now # None,
         kind = "restore" => identity.bak # None,
         identity.now = None => asked.personal <= 0
  PROVE  Paired'
<1>1. /\ request'[r].at = "viewing" /\ request'[r].kind = kind /\ request'[r].asked = asked
      /\ request'[r].target = request[r].target
  BY EntersShape DEF Disk, Base, Types
<1>2. UNCHANGED <<identity, conduit>> /\ request[r].at = "idle"
  BY DEF Enters, At
<1>3. ViewsAt(r)' /\ RestsAt(r)' /\ IdentityStays
  BY <1>1, <1>2 DEF ViewsAt, RestsAt, IdentityStays
<1>4. identity'.now = None => RequestUnpaired(r)'
  BY <1>1, <1>2 DEF Paired, PersonalNeedsIdentity, RequestUnpaired
<1>5. identity'.now = identity.now /\ request[r].at \notin Relaunching
  BY <1>2 DEF Relaunching
<1> QED BY <1>2, <1>3, <1>4, <1>5, RequestKeepsPaired

LEMMA ArrivesKeepsPaired ==
  ASSUME Disk, Paired, NEW r \in Requests, Does(r), Arrives(r)
  PROVE  Paired'
<1>1. CASE Refused(r)
  BY <1>1, GoesKeepsPaired DEF Refused, At, Answered, Relaunching
<1>2. CASE ApplyArrives(r)
  <2>1. PICK limit \in 1 .. ApiMax, reduced \in Keep .. ApiMax :
          Enters(r, "config", Config(limit, reduced, Keep))
    BY <1>2 DEF ApplyArrives
  <2>2. Config(limit, reduced, Keep) \in Asked /\ Config(limit, reduced, Keep).personal <= 0
    BY AskedType, ControlConstants DEF Keep
  <2> QED BY <2>1, <2>2, EntersKeepsPaired DEF Kinds
<1>3. CASE PersonalArrives(r)
  <2>1. PICK n \in 0 .. MaxPersonal :
          (n > 0 => identity.now # None) /\ Enters(r, "personal", Config(Keep, Keep, n))
    BY <1>3 DEF PersonalArrives
  <2>2. Config(Keep, Keep, n) \in Asked /\ Config(Keep, Keep, n).personal = n
    BY AskedType, ControlConstants DEF Keep
  <2> QED BY <2>1, <2>2, EntersKeepsPaired DEF Kinds
<1>4. Nothing \in Asked /\ Nothing.personal <= 0
  BY IdleType DEF Keep
<1>5. CASE CreateArrives(r)
  BY <1>4, <1>5, EntersKeepsPaired DEF CreateArrives, Kinds
<1>6. CASE RegenerateArrives(r)
  BY <1>4, <1>6, EntersKeepsPaired DEF RegenerateArrives, Kinds
<1>7. CASE RestoreArrives(r)
  BY <1>4, <1>7, EntersKeepsPaired DEF RestoreArrives, Kinds
<1>8. CASE ActionArrives(r)
  <2>1. PICK verb \in Verbs :
          request' = [request EXCEPT ![r].kind = verb, ![r].at = "sending"]
    BY <1>8 DEF ActionArrives
  <2>2. UNCHANGED <<conduit, identity>> /\ request[r].at = "idle"
    BY <1>8 DEF ActionArrives, At
  <2>3. request[r] \in RequestRecords /\ request \in [Requests -> RequestRecords]
    BY DEF Disk, Base, Types, RequestTypes
  <2>4. /\ request'[r].at = "sending" /\ request'[r].asked = request[r].asked
        /\ request'[r].target = request[r].target
    BY <2>1, <2>3 DEF RequestRecords
  <2>5. ViewsAt(r)' /\ RestsAt(r)' /\ IdentityStays
    BY <2>2, <2>4 DEF ViewsAt, RestsAt, IdentityStays
  <2>6. identity'.now = None => RequestUnpaired(r)'
    BY <2>2, <2>4 DEF Paired, PersonalNeedsIdentity, RequestUnpaired
  <2>7. identity'.now = identity.now /\ request[r].at \notin Relaunching
    BY <2>2 DEF Relaunching
  <2> QED BY <2>2, <2>5, <2>6, <2>7, RequestKeepsPaired
<1> QED BY <1>1, <1>2, <1>3, <1>5, <1>6, <1>7, <1>8 DEF Arrives

LEMMA AppliesKeepsPaired ==
  ASSUME Disk, Paired, NEW r \in Requests, Does(r), NEW configured \in Configs,
         At(r, "viewing"), Applies(r, configured), UNCHANGED identity,
         identity.now = None => configured.personal = 0
  PROVE  Paired'
<1> DEFINE target == Merged(request[r].asked, configured)
           record == [request[r] EXCEPT !.at = "applying", !.target = target]
<1>1. /\ request[r] \in RequestRecords /\ request \in [Requests -> RequestRecords]
      /\ request[r].at = "viewing"
  BY DEF Disk, Base, Types, RequestTypes, At
<1>2. /\ target.personal = IF request[r].asked.personal = Keep THEN configured.personal
                           ELSE request[r].asked.personal
      /\ request[r].asked.personal \in Keep .. ApiMax + MaxPersonal
  BY <1>1, MergedType DEF RequestRecords, Asked, Knobs
<1>3. record.at = "applying" /\ record.asked = request[r].asked /\ record.target = target
  <2> HIDE DEF target
  <2> QED BY <1>1 DEF RequestRecords
<1>4. request' = [request EXCEPT ![r] = record]
  BY <1>1 DEF Applies
<1> HIDE DEF record, target
<1>5. request'[r].at = "applying" /\ request'[r].asked = request[r].asked /\ request'[r].target = target
  BY <1>1, <1>3, <1>4
<1>6. ViewsAt(r)' /\ RestsAt(r)' /\ IdentityStays
  BY <1>5 DEF ViewsAt, RestsAt, IdentityStays
<1>7. identity'.now = None => RequestUnpaired(r)'
  <2> SUFFICES ASSUME identity.now = None PROVE RequestUnpaired(r)'
    OBVIOUS
  <2>1. request[r].asked.personal <= 0
    BY DEF Paired, PersonalNeedsIdentity, RequestUnpaired
  <2> QED BY <1>2, <1>5, <2>1 DEF RequestUnpaired, Keep
<1>8. identity'.now = identity.now /\ request[r].at \notin Relaunching
  BY <1>1 DEF Relaunching
<1> QED BY <1>6, <1>7, <1>8, RequestKeepsPaired

LEMMA ConfigKeepsPaired ==
  ASSUME Disk, Paired, NEW r \in Requests, Does(r), ConfigStep(r)
  PROVE  Paired'
<1> USE DEF At, Relaunching
<1>1. ASSUME NEW answer \in Answered, Answers(r, answer), UNCHANGED identity,
             request[r].at \notin Relaunching
      PROVE  Paired'
  BY <1>1, AnswersKeepsPaired DEF IdentityStays
<1>2. CASE Drifted(r)
  BY <1>1, <1>2 DEF Drifted, Answered
<1>3. CASE NothingToDo(r)
  BY <1>1, <1>3 DEF NothingToDo, Answered
<1>4. CASE StartsApply(r)
  <2>1. InForce(unit) \in Configs /\ InForce(unit).personal = unit.personal
    BY InForceType DEF Disk, Base, Types, FileTypes, Windowed
  <2> QED BY <1>4, <2>1, AppliesKeepsPaired DEF StartsApply, Paired, PersonalNeedsIdentity
<1>5. CASE StartsBlindly(r)
  <2>1. Config(1, 0, 0) \in Configs /\ Config(1, 0, 0).personal = 0
    BY ConfigType, ControlConstants
  <2> QED BY <1>5, <2>1, AppliesKeepsPaired DEF StartsBlindly
<1>6. CASE ApplyReturns(r)
  BY <1>6, GoesKeepsPaired DEF ApplyReturns, Places
<1>7. CASE ApplyGivenUp(r)
  <2>1. /\ UNCHANGED identity /\ request[r].at \notin Relaunching
        /\ Goes(r, "verifying") \/ Goes(r, "checking")
    BY <1>7 DEF ApplyGivenUp
  <2> QED BY <2>1, GoesKeepsPaired DEF Places
<1>8. CASE Verified(r)
  <2>1. /\ UNCHANGED identity /\ request[r].at \notin Relaunching
        /\ Answers(r, "applied") \/ Goes(r, "confirming")
    BY <1>8 DEF Verified
  <2>2. CASE Answers(r, "applied")
    BY <1>1, <2>1, <2>2 DEF Answered
  <2>3. CASE Goes(r, "confirming")
    BY <2>1, <2>3, GoesKeepsPaired DEF Places
  <2> QED BY <2>1, <2>2, <2>3
<1>9. CASE Confirmed(r)
  BY <1>1, <1>9 DEF Confirmed, Answered
<1>10. CASE StartsRollback(r)
  <2>1. UNCHANGED identity /\ request[r].at \notin Relaunching /\ Goes(r, "rolling back")
    BY <1>10 DEF StartsRollback
  <2> QED BY <2>1, GoesKeepsPaired DEF Places
<1>11. CASE RollbackReturns(r)
  BY <1>11, GoesKeepsPaired DEF RollbackReturns, Places
<1>12. CASE Checked(r)
  <2>1. /\ UNCHANGED identity /\ request[r].at \notin Relaunching
        /\ Answers(r, "rolled_back") \/ Answers(r, "rollback_failed")
    BY <1>12 DEF Checked
  <2> QED BY <1>1, <2>1 DEF Answered
<1> QED BY <1>2, <1>3, <1>4, <1>5, <1>6, <1>7, <1>8, <1>9, <1>10, <1>11, <1>12 DEF ConfigStep

(* A change of the compartment is followed by a launch, unless the service  *)
(* admits no personal clients.                                              *)
LEMMA ChangedKeepsPaired ==
  ASSUME Disk, Holder, Paired, NEW r \in Requests, Does(r), NEW answer \in Answered,
         request[r].at \in {"creating", "restoring"}, Changed(r, answer),
         IdentityStays, request[r].active => identity'.bak # None,
         UNCHANGED <<conduit, strayed>>
  PROVE  Paired'
<1>1. lock = r /\ request[r] \in RequestRecords
  BY DEF Disk, Base, Holds, LockPlaces, Places, Types, RequestTypes
<1>2. CASE request[r].active
  <2>1. Goes(r, "restarting")
    BY <1>2 DEF Changed
  <2>2. GoesOn(r, "restarting")
    BY <2>1, GoesShape DEF Disk, Base, Types, Places
  <2>3. ViewsAt(r)' /\ RestsAt(r)' /\ request'[r].at \in Relaunching
    BY <1>2, <2>2 DEF GoesOn, ViewsAt, RestsAt, Relaunching
  <2>4. identity'.now = None => RequestUnpaired(r)'
    BY <2>2 DEF GoesOn, IdentityStays, Paired, PersonalNeedsIdentity, RequestUnpaired
  <2> QED BY <1>1, <2>3, <2>4, RequestKeepsPaired
<1>3. CASE request[r].active = FALSE
  <2>1. Answers(r, answer)
    BY <1>3 DEF Changed
  <2>2. ASSUME strayed' = {}, service \in Up PROVE loaded.config.personal = 0
    <3>1. CASE request[r].kind = "create"
      <4>1. request[r].at = "creating"
        BY <3>1 DEF Paired, ViewsAt
      <4> QED BY <3>1, <4>1 DEF Paired, ViewsAt, PersonalNeedsIdentity
    <3>2. CASE request[r].kind # "create"
      <4>1. unit.personal = 0
        BY <1>3, <2>2, <3>2 DEF Paired, InactiveRests, RestsAt
      <4>2. loaded.config = InForce(unit)
        BY <1>1, <2>2, HelpersOver
      <4>3. InForce(unit).personal = unit.personal
        BY InForceType DEF Disk, Base, Types, FileTypes, Windowed
      <4> QED BY <4>1, <4>2, <4>3
    <3> QED BY <3>1, <3>2
  <2> QED BY <1>1, <2>1, <2>2, AnswersKeepsPaired
<1> QED BY <1>1, <1>2, <1>3 DEF RequestRecords

(* The compartment is looked at: what is not blind is right.                *)
LEMMA ViewsKeepsPaired ==
  ASSUME Disk, Holder, Paired, NEW r \in Requests, Does(r), CompartmentViews(r)
  PROVE  Paired'
<1> DEFINE place == IF request[r].kind = "restore" THEN "restoring" ELSE "creating"
<1>1. /\ request[r].at = "viewing" /\ request[r].kind \in {"regenerate", "restore"}
      /\ UNCHANGED <<files, conduit, identity, lock, flock, helper>>
  BY DEF CompartmentViews, At
<1>2. PICK active \in {Active, FALSE}, configured \in {InForce(unit), NoDropin} :
        /\ request' = [request EXCEPT ![r].active = active, ![r].target = configured,
                         ![r].at = IF request[r].kind = "restore" THEN "restoring" ELSE "creating"]
        /\ IF active = Active /\ configured = InForce(unit)
           THEN UNCHANGED <<faults, strayed>>
           ELSE Fails /\ strayed' = strayed \cup {"blind"}
  BY DEF CompartmentViews
<1> DEFINE record == [request[r] EXCEPT !.active = active, !.target = configured, !.at = place]
<1>3. request[r] \in RequestRecords /\ request \in [Requests -> RequestRecords]
  BY DEF Disk, Base, Types, RequestTypes
<1>4. /\ record.at = place /\ record.active = active /\ record.target = configured
      /\ record.kind = request[r].kind /\ record.asked = request[r].asked
  BY <1>3 DEF RequestRecords
<1>5. request' = [request EXCEPT ![r] = record]
  BY <1>2, <1>3
<1>6. /\ request[r].kind = "restore" => place = "restoring"
      /\ request[r].kind = "regenerate" => place = "creating"
  OBVIOUS
<1> HIDE DEF record, place
<1>7. /\ request'[r].at = place /\ request'[r].active = active /\ request'[r].target = configured
      /\ request'[r].kind = request[r].kind /\ request'[r].asked = request[r].asked
  BY <1>3, <1>4, <1>5
<1>8. lock = r
  BY <1>1 DEF Disk, Base, Holds, LockPlaces, Places
<1>9. ViewsAt(r)' /\ IdentityStays
  <2>1. /\ request[r].kind = "regenerate" => identity.now # None
        /\ request[r].kind = "restore" => identity.bak # None
    BY <1>1 DEF Paired, ViewsAt
  <2> QED BY <1>1, <1>6, <1>7, <2>1 DEF ViewsAt, IdentityStays
<1>10. InForce(unit).personal = unit.personal /\ unit.personal \in Nat
  BY InForceType, ConfigFields, ControlConstants DEF Disk, Base, Types, FileTypes, Windowed
<1>11. ASSUME strayed' = {} PROVE RestsAt(r)'
  <2> SUFFICES ASSUME active = FALSE PROVE unit.personal = 0
    BY <1>1, <1>7 DEF RestsAt, files
  <2>1. active = Active /\ strayed = {}
    BY <1>2, <1>11
  <2>2. service = "running" => loaded.config = InForce(unit)
    BY <1>1, <1>8, <2>1, HelpersOver DEF Up
  <2>3. ~(unit.personal > 0)
    BY <1>10, <2>1, <2>2 DEF Active
  <2> QED BY <1>10, <2>3
<1>12. identity'.now = None => RequestUnpaired(r)'
  BY <1>1, <1>7, <1>10, ShippedType DEF Paired, PersonalNeedsIdentity, RequestUnpaired
<1>13. identity'.now = identity.now /\ request[r].at \notin Relaunching
  BY <1>1 DEF Relaunching
<1> QED BY <1>8, <1>9, <1>11, <1>12, <1>13, RequestKeepsPaired

LEMMA CompartmentKeepsPaired ==
  ASSUME Disk, Holder, Paired, NEW r \in Requests, Does(r), CompartmentStep(r)
  PROVE  Paired'
<1> USE DEF At
<1>1. /\ IdentityTypes
      /\ request[r].at \in {"creating", "restoring", "reverting"} => lock = r
  BY DEF Disk, Base, Types, Holds, LockPlaces, Places
<1>2. ASSUME NEW answer \in Answered, Answers(r, answer), UNCHANGED identity,
             request[r].at \notin Relaunching
      PROVE  Paired'
  BY <1>2, AnswersKeepsPaired DEF IdentityStays
<1>3. CASE CreateViews(r)
  <2>1. /\ request[r].at = "viewing" /\ request[r].kind = "create" /\ UNCHANGED identity
        /\ \/ identity.now = None /\ Goes(r, "creating")
           \/ Answers(r, "refused")
    BY <1>3 DEF CreateViews
  <2>2. CASE Answers(r, "refused")
    BY <1>2, <2>1, <2>2 DEF Answered, Relaunching
  <2>3. CASE identity.now = None /\ Goes(r, "creating")
    <3>1. GoesOn(r, "creating")
      BY <2>3, GoesShape DEF Disk, Base, Types, Places
    <3>2. request[r].active = FALSE
      <4>1. ~request[r].active /\ request[r].active \in BOOLEAN
        BY <2>1 DEF Disk, Base, NotYet, NotYetAt, Types, RequestTypes, RequestRecords
      <4> QED BY <4>1
    <3>3. ViewsAt(r)' /\ RestsAt(r)' /\ IdentityStays
      BY <2>1, <2>3, <3>1, <3>2 DEF GoesOn, ViewsAt, RestsAt, IdentityStays
    <3>4. identity'.now = None => RequestUnpaired(r)'
      BY <2>1, <3>1 DEF GoesOn, Paired, PersonalNeedsIdentity, RequestUnpaired
    <3>5. identity'.now = identity.now /\ request[r].at \notin Relaunching
      BY <2>1 DEF Relaunching
    <3> QED BY <2>1, <3>3, <3>4, <3>5, RequestKeepsPaired
  <2> QED BY <2>1, <2>2, <2>3
<1>4. CASE CompartmentViews(r)
  BY <1>4, ViewsKeepsPaired
<1>5. CASE Creates(r)
  <2>1. PICK i \in Ids \ {identity.now, identity.bak} : identity' = Renewed(i)
    BY <1>5 DEF Creates
  <2>2. identity'.now = i /\ identity'.bak = Kept
    BY <1>1, <2>1, IdentityMoves
  <2>3. IdentityStays
    BY <2>2, NamesAreApart DEF IdentityStays, Kept
  <2>4. request[r].active => identity'.bak # None
    <3>1. request[r].at = "creating"
      BY <1>5 DEF Creates
    <3>2. request[r].active => identity.now # None
      BY <3>1 DEF Paired, ViewsAt
    <3> QED BY <2>2, <3>2 DEF Kept
  <2> QED BY <1>5, <2>3, <2>4, ChangedKeepsPaired DEF Creates, Answered
<1>6. CASE CreateFails(r)
  <2>1. request[r].at = "creating" /\ Answers(r, "failed")
    BY <1>6 DEF CreateFails
  <2>2. /\ IdentityStays
        /\ strayed' = {} => identity'.now = identity.now
    <3>1. CASE identity' \in {identity, [identity EXCEPT !.bak = Kept]}
      BY <1>1, <3>1, IdentityMoves DEF IdentityStays, Kept
    <3>2. CASE \E i \in Ids : identity' = Renewed(i) /\ strayed' = strayed \cup {"identity"}
      BY <1>1, <3>2, IdentityMoves, NamesAreApart DEF IdentityStays, Kept
    <3> QED BY <1>6, <3>1, <3>2 DEF CreateFails
  <2>3. request[r].at \notin Relaunching
    BY <2>1 DEF Relaunching
  <2> QED BY <1>1, <2>1, <2>2, <2>3, AnswersKeepsPaired DEF Answered
<1>7. CASE Restores(r)
  <2>1. /\ request[r].at = "restoring" /\ identity' = [identity EXCEPT !.now = identity.bak]
    BY <1>7 DEF Restores
  <2>2. identity'.now = identity.bak /\ identity'.bak = identity.bak /\ identity.bak # None
    BY <1>1, <2>1, IdentityMoves DEF Paired, ViewsAt
  <2>3. IdentityStays
    BY <2>2 DEF IdentityStays
  <2> QED BY <1>7, <2>2, <2>3, ChangedKeepsPaired DEF Restores, Answered
<1>8. CASE RestoreFails(r)
  BY <1>2, <1>8 DEF RestoreFails, Answered, Relaunching
<1>9. ASSUME request[r].at \in {"restarting", "proving", "reverting"} PROVE identity.bak # None
  BY <1>9 DEF Paired, ViewsAt
<1>10. CASE Restarts(r)
  BY <1>9, <1>10, GoesKeepsPaired DEF Restarts, Places
<1>11. CASE RestartFails(r)
  <2>1. /\ UNCHANGED identity /\ request[r].at = "restarting" /\ strayed' # {}
        /\ Goes(r, "proving") \/ Answers(r, "failed")
    BY <1>11 DEF RestartFails
  <2>2. CASE Goes(r, "proving")
    BY <1>9, <2>1, <2>2, GoesKeepsPaired DEF Places
  <2>3. CASE Answers(r, "failed")
    BY <2>1, <2>3, AnswersKeepsPaired DEF IdentityStays, Answered
  <2> QED BY <2>1, <2>2, <2>3
<1>12. CASE Proved(r)
  BY <1>2, <1>12 DEF Proved, Answered, Relaunching
<1>13. CASE NotProved(r)
  <2>1. /\ UNCHANGED identity /\ request[r].at = "proving" /\ request[r].at \notin Relaunching
        /\ Goes(r, "reverting") \/ Answers(r, "failed")
    BY <1>13 DEF NotProved, Relaunching
  <2>2. CASE Goes(r, "reverting")
    BY <1>9, <2>1, <2>2, GoesKeepsPaired DEF Places
  <2>3. CASE Answers(r, "failed")
    BY <1>2, <2>1, <2>3 DEF Answered
  <2> QED BY <2>1, <2>2, <2>3
<1>14. CASE Reverts(r)
  <2>1. /\ request[r].at = "reverting" /\ Goes(r, "starting over")
        /\ identity' \in {identity, [identity EXCEPT !.now = identity.bak]}
    BY <1>14 DEF Reverts
  <2>2. IdentityStays
    BY <1>1, <1>9, <2>1, IdentityMoves DEF IdentityStays
  <2>3. GoesOn(r, "starting over")
    BY <2>1, GoesShape DEF Disk, Base, Types, Places
  <2>4. ViewsAt(r)' /\ RestsAt(r)' /\ request'[r].at \in Relaunching
    BY <2>3 DEF GoesOn, ViewsAt, RestsAt, Relaunching
  <2>5. identity'.now = None => RequestUnpaired(r)'
    BY <2>2, <2>3 DEF GoesOn, IdentityStays, Paired, PersonalNeedsIdentity, RequestUnpaired
  <2> QED BY <1>1, <2>1, <2>2, <2>4, <2>5, RequestKeepsPaired
<1>15. CASE StartsOver(r)
  <2>1. /\ Goes(r, "checking") /\ UNCHANGED identity /\ request[r].at = "starting over"
        /\ strayed' = {} => Launch
    BY <1>15 DEF StartsOver
  <2> QED BY <2>1, GoesKeepsPaired DEF Places
<1> QED BY <1>3, <1>4, <1>5, <1>6, <1>7, <1>8, <1>10, <1>11, <1>12, <1>13, <1>14, <1>15
        DEF CompartmentStep

LEMMA ActionKeepsPaired ==
  ASSUME Disk, Paired, NEW r \in Requests, Does(r), ActionStep(r)
  PROVE  Paired'
<1> USE DEF At, Relaunching
<1>1. ASSUME NEW answer \in Answered, Answers(r, answer), UNCHANGED identity,
             request[r].at \notin Relaunching
      PROVE  Paired'
  BY <1>1, AnswersKeepsPaired DEF IdentityStays
<1>2. CASE Sends(r)
  BY <1>2, GoesKeepsPaired DEF Sends, Places
<1>3. CASE SendFails(r)
  BY <1>1, <1>3 DEF SendFails, Answered
<1>4. CASE PollEnds(r)
  <2>1. /\ UNCHANGED identity /\ request[r].at \notin Relaunching
        /\ Answers(r, "succeeded") \/ Answers(r, "unsuccessful")
    BY <1>4 DEF PollEnds
  <2> QED BY <1>1, <2>1 DEF Answered
<1> QED BY <1>2, <1>3, <1>4 DEF ActionStep

(* The service and the helpers change neither requests nor the identity.    *)
LEMMA ServiceKeepsPaired ==
  ASSUME Paired, UNCHANGED <<identity, request>>, strayed \subseteq strayed', ConduitMoves,
         Disk, strayed' = {} => UNCHANGED unit \/ \A r \in Requests : request[r].at \notin {"creating", "restoring"},
         identity.now = None => dropin'.personal = 0 /\ bak'.personal = 0 /\ unit'.personal = 0
  PROVE  Paired'
<1>1. strayed' = {} => strayed = {}
  OBVIOUS
<1>2. PersonalNeedsIdentity'
  <2>1. InForce(unit).personal = unit.personal
    BY InForceType DEF Disk, Base, Types, FileTypes, Windowed
  <2>2. identity.now = None => loaded'.config.personal = 0
    BY <2>1 DEF ConduitMoves, Launch, conduit, Paired, PersonalNeedsIdentity
  <2> QED BY <2>2 DEF Paired, PersonalNeedsIdentity, RequestUnpaired
<1>3. \A r \in Requests : ViewsAt(r)'
  BY DEF Paired, ViewsAt
<1>4. InactiveRests'
  BY <1>1 DEF Paired, InactiveRests, RestsAt
<1>5. TokenLoaded'
  BY <1>1 DEF ConduitMoves, Launch, conduit, Paired, TokenLoaded
<1> QED BY <1>2, <1>3, <1>4, <1>5 DEF Paired

LEMMA HelpersKeepPaired ==
  ASSUME Disk, Holder, Paired, NEW h \in Requests \X Parts, HelperStep(h) \/ HelperFails(h)
  PROVE  Paired'
<1>1. PICK r \in Requests : h = <<r, "apply">> \/ h = <<r, "rollback">>
  BY HelperOf
<1>2. h[1] = r
  BY <1>1
<1>3. identity.now = None =>
        dropin.personal = 0 /\ bak.personal = 0 /\ unit.personal = 0 /\ request[r].target.personal = 0
  BY DEF Paired, PersonalNeedsIdentity, RequestUnpaired
<1>4. ASSUME UNCHANGED <<dropin, bak, unit, identity, request>>, strayed \subseteq strayed', ConduitMoves
      PROVE  Paired'
  BY <1>3, <1>4, ServiceKeepsPaired
<1>5. CASE HelperLocks(h)
  BY <1>4, <1>5 DEF HelperLocks, ConduitMoves, files
<1>6. CASE HelperBacksUp(h)
  BY <1>3, <1>6, ServiceKeepsPaired DEF HelperBacksUp, ConduitMoves
<1>7. CASE HelperWrites(h)
  BY <1>2, <1>3, <1>7, ServiceKeepsPaired DEF HelperWrites, ConduitMoves
<1>8. CASE HelperPutsBack(h)
  BY <1>3, <1>8, ServiceKeepsPaired DEF HelperPutsBack, ConduitMoves
<1>9. CASE HelperReloads(h)
  <2>1. /\ helper[h] = "written" /\ unit' = dropin
        /\ UNCHANGED <<dropin, bak, conduit, identity, request, strayed>>
    BY <1>9 DEF HelperReloads
  <2>2. ASSUME strayed = {}, NEW q \in Requests, request[q].at \in {"creating", "restoring"}
        PROVE  FALSE
    <3>1. lock = q
      BY <2>2 DEF Disk, Base, Holds, LockPlaces, Places
    <3>2. helper[h] \in Over
      BY <2>2, <3>1, HelpersOver
    <3> QED BY <2>1, <3>2 DEF Over
  <2> QED BY <1>3, <2>1, <2>2, ServiceKeepsPaired DEF ConduitMoves
<1>10. CASE HelperRestarts(h)
  BY <1>4, <1>10 DEF HelperRestarts, ConduitMoves, files
<1>11. CASE HelperFails(h)
  <2>1. UNCHANGED <<dropin, bak, unit, identity, request, conduit>> /\ strayed \subseteq strayed'
    BY <1>11 DEF HelperFails, files
  <2> QED BY <1>4, <2>1 DEF ConduitMoves
<1> QED BY <1>5, <1>6, <1>7, <1>8, <1>9, <1>10, <1>11 DEF HelperStep

LEMMA PairedInit == Init => Paired
<1> SUFFICES ASSUME Init PROVE Paired
  OBVIOUS
<1>1. \A r \in Requests :
        /\ request[r].at = "idle" /\ request[r].kind = None /\ request[r].active = FALSE
        /\ request[r].asked = Nothing /\ request[r].target = Shipped
  BY DEF Init, Idle
<1>2. NoDropin.personal = 0 /\ Shipped.personal = 0 /\ Nothing.personal <= 0
  BY ShippedType, IdleType DEF Keep
<1>3. identity.now = None => dropin = NoDropin
  <2> SUFFICES ASSUME dropin # NoDropin PROVE identity.now # None
    OBVIOUS
  <2>1. identity.now = CHOOSE i \in Ids : TRUE
    BY DEF Init
  <2>2. (CHOOSE i \in Ids : TRUE) \in Ids
    BY NamesAreApart
  <2> QED BY <2>1, <2>2, NamesAreApart
<1>4. PersonalNeedsIdentity
  <2> SUFFICES ASSUME identity.now = None
               PROVE  /\ dropin.personal = 0 /\ bak.personal = 0 /\ unit.personal = 0
                      /\ loaded.config.personal = 0
                      /\ \A r \in Requests : RequestUnpaired(r)
    BY DEF PersonalNeedsIdentity
  <2>1. dropin = NoDropin /\ bak = NoDropin /\ unit = NoDropin /\ loaded.config = InForce(NoDropin)
    BY <1>3 DEF Init
  <2>2. InForce(NoDropin) = Shipped
    BY DEF InForce
  <2> QED BY <1>1, <1>2, <2>1, <2>2 DEF RequestUnpaired
<1>5. \A r \in Requests : ViewsAt(r) /\ RestsAt(r)
  BY <1>1 DEF ViewsAt, RestsAt
<1>6. TokenLoaded
  BY DEF Init, TokenLoaded
<1> QED BY <1>4, <1>5, <1>6 DEF Paired, InactiveRests

LEMMA PairedStep == Disk /\ Holder /\ Paired /\ [Next]_vars => Paired'
<1> SUFFICES ASSUME Disk, Holder, Paired, [Next]_vars PROVE Paired'
  OBVIOUS
<1>1. ASSUME NEW r \in Requests, Arrives(r) \/ RequestStep(r) PROVE Paired'
  <2>1. Does(r)
    BY <1>1, RequestDoes DEF Disk
  <2> QED BY <1>1, <2>1, ArrivesKeepsPaired, ConfigKeepsPaired, CompartmentKeepsPaired,
             ActionKeepsPaired DEF RequestStep
<1>2. ASSUME NEW h \in Requests \X Parts, HelperStep(h) \/ HelperFails(h) PROVE Paired'
  BY <1>2, HelpersKeepPaired
<1>3. ASSUME UNCHANGED <<files, identity, request, strayed>>, ConduitMoves PROVE Paired'
  <2>1. identity.now = None => dropin.personal = 0 /\ bak.personal = 0 /\ unit.personal = 0
    BY DEF Paired, PersonalNeedsIdentity
  <2> QED BY <1>3, <2>1, ServiceKeepsPaired DEF files
<1>4. CASE ServiceSettles
  BY <1>3, <1>4 DEF ServiceSettles, Settles, ConduitMoves, Up
<1>5. CASE ServiceRetries
  BY <1>3, <1>5 DEF ServiceRetries, ConduitMoves
<1>6. CASE UNCHANGED vars
  BY <1>3, <1>6 DEF vars, ConduitMoves
<1> QED BY <1>1, <1>2, <1>4, <1>5, <1>6 DEF Next

LEMMA PairedAlways == Spec => []Paired
BY PairedInit, PairedStep, DiskAlways, HolderAlways, PTL DEF Spec

-----------------------------------------------------------------------------
(* Between requests, the service does what is on disk: the configuration    *)
(* unless a helper ended between its write and the restart, the identity if *)
(* nothing strayed (ccc-apply-conduit-config, conduit/personal.py; start,   *)
(* stop and restart of api/conduit.py take no lock).                        *)
THEOREM ServiceFollows == Spec => []ServiceFollowsDisk
<1>1. Disk => RunsWhatIsWritten
  <2> SUFFICES ASSUME Disk, AtRest, "torn" \notin strayed, service = "running"
               PROVE  unit = dropin /\ loaded.config = InForce(dropin)
    BY DEF RunsWhatIsWritten
  <2>1. \A h \in Requests \X Parts : helper[h] \notin {"written", "reloaded"}
    BY DEF AtRest, Over
  <2> QED BY <2>1 DEF Disk, Reloaded, Loads, Up
<1>2. Disk /\ Paired => TokenIsInForce
  <2> SUFFICES ASSUME Disk, Paired, AtRest, strayed = {}, service = "running",
                      loaded.config.personal > 0
               PROVE  loaded.id = identity.now
    BY DEF TokenIsInForce
  <2>1. \A r \in Requests : request[r].at \notin Relaunching
    BY NamesAreApart DEF Disk, Base, Holds, LockPlaces, Places, AtRest, Relaunching
  <2> QED BY <2>1 DEF Paired, TokenLoaded, Up
<1>3. Disk /\ Paired => ServiceFollowsDisk
  BY <1>1, <1>2 DEF ServiceFollowsDisk
<1> QED BY <1>3, DiskAlways, PairedAlways, PTL

(* No request takes away what another one made: a write of the drop-in      *)
(* changes what was asked and nothing else, and no compartment is created   *)
(* over another (api/conduit.py, api/personal.py), although the helper      *)
(* writes long after the request looked.                                    *)
THEOREM NothingLost == Spec => NothingIsLost
<1>1. ASSUME Disk, Holder, Paired, [Next]_vars
      PROVE  [\A r \in Requests : NoLostUpdate(r) /\ CreateReplacesNothing(r)]_vars
  <2> SUFFICES ASSUME NEW r \in Requests PROVE NoLostUpdate(r) /\ CreateReplacesNothing(r)
    OBVIOUS
  <2>1. CreateReplacesNothing(r)
    BY <1>1 DEF CreateReplacesNothing, At, Paired, ViewsAt
  <2>2. NoLostUpdate(r)
    <3> DEFINE mine == <<r, "apply">>
    <3> SUFFICES ASSUME helper[mine] = "backed up", helper'[mine] = "written", strayed = {},
                        NEW k \in Knobs, request[r].asked[k] = Keep
                 PROVE  dropin'[k] = InForce(dropin)[k]
      BY DEF NoLostUpdate
    <3>1. mine \in Requests \X Parts
      BY DEF Parts
    <3>2. dropin' = request[r].target
      <4>1. ASSUME NEW q \in Requests, Arrives(q) \/ RequestStep(q) PROVE FALSE
        BY <1>1, <3>1, <4>1, RequestDoes DEF Disk, Does, HelpersStart
      <4>2. ASSUME NEW h \in Requests \X Parts, HelperStep(h) \/ HelperFails(h)
            PROVE  dropin' = request[r].target
        <5>1. ASSUME NEW state \in HelperStates, Moves(h, state) PROVE h = mine /\ state = "written"
          <6>1. helper'[h] = state /\ \A g \in (Requests \X Parts) \ {h} : helper'[g] = helper[g]
            BY <1>1, <5>1, HelperShape DEF Disk, Base, Types
          <6> QED BY <3>1, <6>1
        <5>2. HelperWrites(h) \/ HelperPutsBack(h)
          <6>1. ~HelperLocks(h) /\ ~HelperBacksUp(h)
            BY <5>1 DEF HelperLocks, HelperBacksUp, HelperStates
          <6>2. ~HelperReloads(h) /\ ~HelperRestarts(h)
            BY <5>1 DEF HelperReloads, HelperRestarts, HelperStates, Over
          <6>3. ~HelperFails(h)
            BY <5>1 DEF HelperFails, HelperStates, Over
          <6> QED BY <4>2, <6>1, <6>2, <6>3 DEF HelperStep
        <5>3. Moves(h, "written") /\ "written" \in HelperStates
          BY <5>2 DEF HelperWrites, HelperPutsBack, HelperStates
        <5>4. h = mine /\ h[1] = r
          <6>1. h = mine
            BY <5>1, <5>3
          <6>2. mine[1] = r
            OBVIOUS
          <6> QED BY <6>1, <6>2
        <5> QED BY <5>2, <5>4 DEF HelperWrites, HelperPutsBack
      <4>3. UNCHANGED helper => FALSE
        OBVIOUS
      <4> QED BY <1>1, <4>1, <4>2, <4>3 DEF Next, ServiceSettles, ServiceRetries, vars
    <3>3. request[r].at = "applying"
      BY <1>1 DEF Holder, Waited, WaitedAt, Over
    <3>4. RestAt(r)
      BY <1>1, <3>3 DEF Disk, Base, Holds, LockPlaces, Places, Holder, KeepsTheRest
    <3> QED BY <3>2, <3>4 DEF RestAt
  <2> QED BY <2>1, <2>2
<1> QED BY <1>1, DiskAlways, HolderAlways, PairedAlways, PTL DEF Spec, NothingIsLost
=============================================================================
