--------------------------- MODULE SessionsProofs ---------------------------
(***************************************************************************)
(* Theorems about Sessions: types, ended sessions, the exact lockout and   *)
(* the sessions a change of the password leaves.                           *)
(***************************************************************************)
EXTENDS Sessions, TLAPS

USE SessionConstants

(* A row stays what it was: the parts of the type a request cannot touch.  *)
LEMMA KeepType ==
  ASSUME SessionsTypeOK, NEW T
  PROVE  DOMAIN Keep(T) \subseteq DOMAIN rows /\ Keep(T) \in [DOMAIN Keep(T) -> Nat]
BY DEF SessionsTypeOK, Keep

LEMMA ExtendedType ==
  ASSUME SessionsTypeOK, NEW t
  PROVE  DOMAIN Extended(t) = DOMAIN rows /\ Extended(t) \in [DOMAIN rows -> Nat]
BY DEF SessionsTypeOK, Extended

LEMMA FailedType ==
  ASSUME SessionsTypeOK, NEW seen \in AttemptRows
  PROVE  Failed(seen) \in AttemptRows
BY DEF SessionsTypeOK, Failed, AttemptRows

(* The type invariant in two parts: the requests, and everything else.      *)
Held == [at : Places, token : Tokens, hash : Passwords, seen : AttemptRows]

RequestTypes == request \in [Requests -> Held]

TableTypes ==
  /\ now \in Nat /\ restarts \in Nat /\ guesses \in Nat
  /\ issued \subseteq Tokens /\ late \subseteq issued
  /\ DOMAIN rows \subseteq issued /\ rows \in [DOMAIN rows -> Nat]
  /\ attempts \in AttemptRows
  /\ env \in Passwords /\ cached \in Passwords
  /\ purger \in {"alive", "dead"}
  /\ origin \in [issued -> Passwords]
  /\ stale \in BOOLEAN /\ torn \in BOOLEAN

LEMMA TwoParts == SessionsTypeOK <=> RequestTypes /\ TableTypes
BY DEF SessionsTypeOK, RequestTypes, TableTypes, Held

LEMMA TwoPartsNext == SessionsTypeOK' <=> RequestTypes' /\ TableTypes'
BY DEF SessionsTypeOK, RequestTypes, TableTypes, Held

LEMMA GoesType ==
  ASSUME SessionsTypeOK, NEW r \in Requests, NEW place \in Places, Goes(r, place)
  PROVE  RequestTypes'
<1>1. request \in [Requests -> Held]
  BY TwoParts DEF RequestTypes
<1>2. [request[r] EXCEPT !.at = place] \in Held
  BY <1>1 DEF Held
<1> QED
  BY <1>1, <1>2 DEF Goes, RequestTypes

(* One token at least exists, so that a request has one in its slot.        *)
LEMMA InitType == Init => SessionsTypeOK
<1> SUFFICES ASSUME Init PROVE SessionsTypeOK
  OBVIOUS
<1>1. (CHOOSE t \in Tokens : TRUE) \in Tokens
  OBVIOUS
<1>2. NoRow \in AttemptRows
  BY DEF NoRow, AttemptRows
<1>3. Idle \in [at : Places, token : Tokens, hash : Passwords, seen : AttemptRows]
  BY <1>1, <1>2 DEF Idle, Places
<1> QED
  BY <1>2, <1>3 DEF Init, SessionsTypeOK

-----------------------------------------------------------------------------
(* Types *)

LEMMA LoginTypes ==
  ASSUME SessionsTypeOK, NEW r \in Requests, LoginArrives(r) \/ LoginStep(r)
  PROVE  SessionsTypeOK'
<1> USE TwoParts, TwoPartsNext
<1>0. "login" \in Places /\ "counting" \in Places /\ "refused" \in Places
      /\ "matched" \in Places /\ "differed" \in Places /\ "creating" \in Places
      /\ "done" \in Places
  BY DEF Places
<1>1. CASE LoginArrives(r)
  <2>1. RequestTypes'
    BY <1>0, <1>1 DEF LoginArrives, RequestTypes, TableTypes, Held
  <2> QED
    BY <1>1, <2>1 DEF LoginArrives, TableTypes, stored, observed
<1>2. CASE LockoutRefuses(r) \/ PasswordMatches(r) \/ PasswordDiffers(r)
  <2>1. RequestTypes'
    BY <1>0, <1>2, GoesType DEF LockoutRefuses, PasswordMatches, PasswordDiffers
  <2> QED
    BY <1>2, <2>1 DEF LockoutRefuses, PasswordMatches, PasswordDiffers, TableTypes,
                      stored, observed
<1>3. CASE ReadsAttempts(r)
  <2>1. RequestTypes'
    BY <1>0, <1>3 DEF ReadsAttempts, RequestTypes, TableTypes, Held
  <2> QED
    BY <1>3, <2>1 DEF ReadsAttempts, TableTypes, stored, observed
<1>4. CASE RecordsFailure(r)
  <2>1. attempts' \in AttemptRows
    BY <1>4, FailedType DEF RecordsFailure, RequestTypes, Held
  <2>2. RequestTypes'
    BY <1>0, <1>4, GoesType DEF RecordsFailure
  <2> QED
    BY <1>4, <2>1, <2>2 DEF RecordsFailure, TableTypes
<1>5. CASE ClearsAttempts(r)
  <2>1. RequestTypes'
    BY <1>0, <1>5, GoesType DEF ClearsAttempts
  <2> QED
    BY <1>5, <2>1 DEF ClearsAttempts, TableTypes, NoRow, AttemptRows
<1>6. CASE CreatesSession(r)
  <2>1. PICK t \in Tokens \ issued :
          /\ rows' = [u \in DOMAIN rows \cup {t} |-> IF u = t THEN now + Timeout ELSE rows[u]]
          /\ issued' = issued \cup {t}
          /\ origin' = [u \in DOMAIN origin \cup {t} |->
                          IF u = t THEN request[r].hash ELSE origin[u]]
          /\ late' = IF BeingChanged \/ request[r].hash # cached THEN late \cup {t} ELSE late
    BY <1>6 DEF CreatesSession
  <2>2. DOMAIN rows' \subseteq issued' /\ rows' \in [DOMAIN rows' -> Nat]
    BY <2>1 DEF TableTypes
  <2>3. issued' \subseteq Tokens /\ late' \subseteq issued'
    BY <2>1, Zenon DEF TableTypes
  <2>4. origin' \in [issued' -> Passwords]
    BY <2>1 DEF TableTypes, RequestTypes, Held
  <2>5. RequestTypes'
    BY <1>0, <1>6, GoesType DEF CreatesSession
  <2> QED
    BY <1>6, <2>2, <2>3, <2>4, <2>5 DEF CreatesSession, TableTypes
<1> QED
  BY <1>1, <1>2, <1>3, <1>4, <1>5, <1>6 DEF LoginStep

LEMMA SessionTypes ==
  ASSUME SessionsTypeOK, NEW r \in Requests,
         CallArrives(r) \/ LogoutArrives(r) \/ SessionStep(r)
  PROVE  SessionsTypeOK'
<1> USE TwoParts, TwoPartsNext
<1>0. {"call", "change", "leaving", "refused", "failed", "done", "touching",
       "touching to change", "verifying", "writing"} \subseteq Places
  BY DEF Places
<1>1. CASE CallArrives(r) \/ LogoutArrives(r)
  <2>1. PICK t \in Tokens, place \in {"call", "change", "leaving"} : Carries(r, t, place)
    BY <1>1 DEF CallArrives, LogoutArrives
  <2>2. RequestTypes'
    BY <1>0, <2>1 DEF Carries, RequestTypes, Held
  <2> QED
    BY <2>1, <2>2 DEF Carries, TableTypes, stored, observed
<1>2. CASE NotAuthenticated(r) \/ Authenticated(r) \/ ChangeRefused(r) \/ WriteFails(r)
  <2>1. RequestTypes'
    BY <1>0, <1>2, GoesType DEF NotAuthenticated, Authenticated, ChangeRefused, WriteFails
  <2> QED
    BY <1>2, <2>1 DEF NotAuthenticated, Authenticated, ChangeRefused, WriteFails,
                      TableTypes, stored, observed
<1>3. CASE Touches(r)
  <2>1. DOMAIN rows' = DOMAIN rows /\ rows' \in [DOMAIN rows -> Nat]
    BY <1>3, ExtendedType DEF Touches
  <2>2. RequestTypes'
    BY <1>0, <1>3, GoesType DEF Touches
  <2> QED
    BY <1>3, <2>1, <2>2 DEF Touches, TableTypes, observed
<1>4. CASE LogsOut(r) \/ DeletesSessions(r)
  <2>1. DOMAIN rows' \subseteq DOMAIN rows /\ rows' \in [DOMAIN rows' -> Nat]
    BY <1>4, KeepType DEF LogsOut, DeletesSessions
  <2>2. RequestTypes'
    BY <1>0, <1>4, GoesType DEF LogsOut, DeletesSessions
  <2> QED
    BY <1>4, <2>1, <2>2 DEF LogsOut, DeletesSessions, TableTypes, observed
<1>5. CASE WritesPassword(r) \/ SyncFails(r)
  <2>1. RequestTypes'
    BY <1>0, <1>5, GoesType DEF WritesPassword, SyncFails
  <2> QED
    BY <1>5, <2>1 DEF WritesPassword, SyncFails, TableTypes, observed
<1> QED
  BY <1>1, <1>2, <1>3, <1>4, <1>5 DEF SessionStep

LEMMA OtherTypes ==
  ASSUME SessionsTypeOK, Unlock \/ Tick \/ Purge \/ PurgeFails \/ Restart
  PROVE  SessionsTypeOK'
<1> USE TwoParts, TwoPartsNext
<1>1. CASE Unlock
  BY <1>1 DEF Unlock, RequestTypes, TableTypes, NoRow, AttemptRows
<1>2. CASE Tick
  BY <1>2 DEF Tick, RequestTypes, TableTypes, stored, observed
<1>3. CASE PurgeFails
  BY <1>3 DEF PurgeFails, RequestTypes, TableTypes, stored, observed
<1>4. CASE Purge \/ Restart
  <2>1. DOMAIN rows' \subseteq DOMAIN rows /\ rows' \in [DOMAIN rows' -> Nat]
    BY <1>4, KeepType DEF Purge, Restart
  <2>2. RequestTypes'
    <3>1. "done" \in Places
      BY DEF Places
    <3> QED
      BY <1>4, <3>1 DEF Purge, Restart, RequestTypes, Held
  <2> QED
    BY <1>4, <2>1, <2>2 DEF Purge, Restart, TableTypes, observed
<1> QED
  BY <1>1, <1>2, <1>3, <1>4

LEMMA StepType == SessionsTypeOK /\ [Next]_vars => SessionsTypeOK'
<1> SUFFICES ASSUME SessionsTypeOK, [Next]_vars PROVE SessionsTypeOK'
  OBVIOUS
<1>1. CASE Next
  BY <1>1, LoginTypes, SessionTypes, OtherTypes DEF Next, Arrives
<1>2. CASE UNCHANGED vars
  BY <1>2 DEF vars, stored, observed, SessionsTypeOK
<1> QED
  BY <1>1, <1>2

(* Every reachable state is well typed, whatever the requests and tokens.   *)
THEOREM SessionTypeCorrect == Spec => []SessionsTypeOK
BY InitType, StepType, PTL DEF Spec

-----------------------------------------------------------------------------
(* Ended sessions *)

LEMMA StepEnds ==
  ASSUME SessionsTypeOK, Next
  PROVE  issued \cap DOMAIN rows' \subseteq DOMAIN rows
<1>1. ASSUME NEW r \in Requests, CreatesSession(r)
      PROVE  issued \cap DOMAIN rows' \subseteq DOMAIN rows
  BY <1>1 DEF CreatesSession
<1>2. ASSUME NEW r \in Requests, Touches(r)
      PROVE  DOMAIN rows' = DOMAIN rows
  BY <1>2, ExtendedType DEF Touches
<1>3. ASSUME NEW r \in Requests, LogsOut(r) \/ DeletesSessions(r)
      PROVE  DOMAIN rows' \subseteq DOMAIN rows
  BY <1>3, KeepType DEF LogsOut, DeletesSessions
<1>4. Purge \/ Restart => DOMAIN rows' \subseteq DOMAIN rows
  BY KeepType DEF Purge, Restart
<1>5. ASSUME NEW r \in Requests,
             Arrives(r) \/ LoginStep(r) \/ SessionStep(r),
             ~CreatesSession(r), ~Touches(r), ~LogsOut(r), ~DeletesSessions(r)
      PROVE  rows' = rows
  BY <1>5 DEF Arrives, LoginArrives, CallArrives, LogoutArrives, Carries, LoginStep,
     LockoutRefuses, PasswordMatches, PasswordDiffers, ReadsAttempts, RecordsFailure,
     ClearsAttempts, SessionStep, NotAuthenticated, Authenticated, ChangeRefused,
     WritesPassword, WriteFails, SyncFails, stored
<1>6. Unlock \/ Tick \/ PurgeFails => rows' = rows
  BY DEF Unlock, Tick, PurgeFails, stored
<1> QED
  BY <1>1, <1>2, <1>3, <1>4, <1>5, <1>6 DEF Next

(* No request comes to be about to extend t by this step.                   *)
NoneToTouch(t) ==
  \A q \in Requests :
    request'[q].at \in {"touching", "touching to change"} /\ request'[q].token = t =>
      request[q].at \in {"touching", "touching to change"} /\ request[q].token = t

(* What a step may do without bringing back a session that is over.         *)
LEMMA OverKept ==
  ASSUME SessionsTypeOK, SessionsTypeOK', NEW t \in Tokens, Over(t), issued \subseteq issued',
         now' >= now,
         t \in DOMAIN rows' => t \in DOMAIN rows /\ rows'[t] = rows[t],
         NoneToTouch(t)
  PROVE  Over(t)'
<1>1. ~(UnderWay(t)')
  BY DEF Over, UnderWay, NoneToTouch
<1>2. ~(Live(t)')
  <2> SUFFICES ASSUME t \in DOMAIN rows', rows'[t] > now'
               PROVE  FALSE
    BY DEF Live
  <2>1. t \in DOMAIN rows /\ rows[t] \in Nat /\ now \in Nat /\ now' \in Nat
    BY DEF SessionsTypeOK
  <2>2. ~(rows[t] > now)
    BY <2>1 DEF Over, Live
  <2>3. rows[t] > now'
    OBVIOUS
  <2> HIDE DEF NoneToTouch
  <2> QED
    BY <2>1, <2>2, <2>3
<1>3. t \in issued'
  BY DEF Over
<1> QED
  BY <1>1, <1>2, <1>3 DEF Over

(* The same for a step that leaves the table, its tokens and the clock.     *)
LEMMA OverLeft ==
  ASSUME SessionsTypeOK, SessionsTypeOK', NEW t \in Tokens, Over(t),
         UNCHANGED <<rows, issued, now>>, NoneToTouch(t)
  PROVE  Over(t)'
<1>1. issued \subseteq issued' /\ now' >= now
  BY DEF SessionsTypeOK
<1>2. t \in DOMAIN rows' => t \in DOMAIN rows /\ rows'[t] = rows[t]
  OBVIOUS
<1> QED
  BY <1>1, <1>2, OverKept

(* A request that goes on to a place without an extension ahead of it.      *)
LEMMA NotTouching ==
  ASSUME SessionsTypeOK, NEW r \in Requests, NEW t \in Tokens,
         NEW place \in Places \ {"touching", "touching to change"}, Goes(r, place)
  PROVE  NoneToTouch(t)
BY TwoParts DEF RequestTypes, Held, NoneToTouch, Goes

LEMMA LoginKeepsOver ==
  ASSUME SessionsTypeOK, SessionsTypeOK', NEW r \in Requests, NEW t \in Tokens, Over(t),
         LoginArrives(r) \/ LoginStep(r)
  PROVE  Over(t)'
<1>1. CASE LoginArrives(r) \/ ReadsAttempts(r)
  <2>1. NoneToTouch(t)
    BY <1>1, TwoParts DEF LoginArrives, ReadsAttempts, RequestTypes, Held, NoneToTouch
  <2>2. UNCHANGED <<rows, issued, now>>
    BY <1>1 DEF LoginArrives, ReadsAttempts, stored, SessionsTypeOK
  <2> QED
    BY <2>1, <2>2, OverLeft
<1>2. CASE \/ LockoutRefuses(r) \/ PasswordMatches(r) \/ PasswordDiffers(r)
           \/ RecordsFailure(r) \/ ClearsAttempts(r)
  <2>1. PICK place \in {"refused", "matched", "differed", "creating"} : Goes(r, place)
    BY <1>2 DEF LockoutRefuses, PasswordMatches, PasswordDiffers, RecordsFailure, ClearsAttempts
  <2>2. place \in Places \ {"touching", "touching to change"}
    BY DEF Places
  <2>3. UNCHANGED <<rows, issued, now>>
    BY <1>2 DEF LockoutRefuses, PasswordMatches, PasswordDiffers, RecordsFailure, ClearsAttempts,
       stored, SessionsTypeOK
  <2>4. NoneToTouch(t)
    BY <2>1, <2>2, NotTouching
  <2> QED
    BY <2>3, <2>4, OverLeft
<1>3. CASE CreatesSession(r)
  <2>1. PICK u \in Tokens \ issued :
          /\ rows' = [v \in DOMAIN rows \cup {u} |-> IF v = u THEN now + Timeout ELSE rows[v]]
          /\ issued' = issued \cup {u}
    BY <1>3 DEF CreatesSession
  <2>2. u # t
    BY DEF Over
  <2>3. "done" \in Places \ {"touching", "touching to change"}
    BY DEF Places
  <2>4. now' >= now /\ Goes(r, "done")
    BY <1>3 DEF CreatesSession, SessionsTypeOK
  <2>5. NoneToTouch(t)
    BY <2>3, <2>4, NotTouching
  <2>6. t \in DOMAIN rows' => t \in DOMAIN rows /\ rows'[t] = rows[t]
    BY <2>1, <2>2
  <2>7. issued \subseteq issued'
    BY <2>1
  <2> QED
    BY <2>4, <2>5, <2>6, <2>7, OverKept
<1> QED
  BY <1>1, <1>2, <1>3 DEF LoginStep

LEMMA SessionKeepsOver ==
  ASSUME SessionsTypeOK, SessionsTypeOK', NEW r \in Requests, NEW t \in Tokens, Over(t),
         CallArrives(r) \/ LogoutArrives(r) \/ SessionStep(r)
  PROVE  Over(t)'
<1>1. CASE CallArrives(r) \/ LogoutArrives(r)
  <2>1. PICK u \in Tokens, place \in {"call", "change", "leaving"} : Carries(r, u, place)
    BY <1>1 DEF CallArrives, LogoutArrives
  <2>2. NoneToTouch(t)
    BY <2>1, TwoParts DEF Carries, RequestTypes, Held, NoneToTouch
  <2>3. UNCHANGED <<rows, issued, now>>
    BY <2>1 DEF Carries, stored, SessionsTypeOK
  <2> QED
    BY <2>2, <2>3, OverLeft
<1>2. CASE Authenticated(r)
  <2>1. request[r].token # t
    BY <1>2 DEF Authenticated, Over
  <2>2. NoneToTouch(t)
    BY <1>2, <2>1, TwoParts DEF Authenticated, Goes, RequestTypes, Held, NoneToTouch
  <2>3. UNCHANGED <<rows, issued, now>>
    BY <1>2 DEF Authenticated, stored, SessionsTypeOK
  <2> QED
    BY <2>2, <2>3, OverLeft
<1>3. CASE Touches(r)
  <2>1. request[r].token # t
    BY <1>3 DEF Touches, Over, UnderWay
  <2>2. t \in DOMAIN rows' => t \in DOMAIN rows /\ rows'[t] = rows[t]
    BY <1>3, <2>1 DEF Touches, Extended
  <2>3. PICK place \in {"done", "verifying"} : Goes(r, place)
    BY <1>3 DEF Touches
  <2>4. place \in Places \ {"touching", "touching to change"}
    BY DEF Places
  <2>5. issued \subseteq issued' /\ now' >= now
    <3>1. issued' = issued /\ now' = now /\ now \in Nat
      BY <1>3 DEF Touches, stored, SessionsTypeOK
    <3> QED
      BY <3>1
  <2>6. NoneToTouch(t)
    BY <2>3, <2>4, NotTouching
  <2> QED
    BY <2>2, <2>5, <2>6, OverKept
<1>4. CASE LogsOut(r) \/ DeletesSessions(r)
  <2>1. t \in DOMAIN rows' => t \in DOMAIN rows /\ rows'[t] = rows[t]
    BY <1>4 DEF LogsOut, DeletesSessions, Keep
  <2>2. PICK place \in {"done", "writing"} : Goes(r, place)
    BY <1>4 DEF LogsOut, DeletesSessions
  <2>3. place \in Places \ {"touching", "touching to change"}
    BY DEF Places
  <2>4. issued \subseteq issued' /\ now' >= now
    BY <1>4 DEF LogsOut, DeletesSessions, SessionsTypeOK
  <2>5. NoneToTouch(t)
    BY <2>2, <2>3, NotTouching
  <2> QED
    BY <2>1, <2>4, <2>5, OverKept
<1>5. CASE NotAuthenticated(r) \/ ChangeRefused(r) \/ WritesPassword(r) \/ WriteFails(r)
           \/ SyncFails(r)
  <2>1. PICK place \in {"refused", "failed", "done"} : Goes(r, place)
    BY <1>5 DEF NotAuthenticated, ChangeRefused, WritesPassword, WriteFails, SyncFails
  <2>2. place \in Places \ {"touching", "touching to change"}
    BY DEF Places
  <2>3. UNCHANGED <<rows, issued, now>>
    BY <1>5 DEF NotAuthenticated, ChangeRefused, WritesPassword, WriteFails, SyncFails, stored,
       SessionsTypeOK
  <2>4. NoneToTouch(t)
    BY <2>1, <2>2, NotTouching
  <2> QED
    BY <2>3, <2>4, OverLeft
<1> QED
  BY <1>1, <1>2, <1>3, <1>4, <1>5 DEF SessionStep

LEMMA OthersKeepOver ==
  ASSUME SessionsTypeOK, SessionsTypeOK', NEW t \in Tokens, Over(t),
         Unlock \/ Tick \/ Purge \/ PurgeFails \/ Restart
  PROVE  Over(t)'
<1>1. issued \subseteq issued' /\ now' >= now
  BY DEF Unlock, Tick, Purge, PurgeFails, Restart, stored, SessionsTypeOK
<1>2. t \in DOMAIN rows' => t \in DOMAIN rows /\ rows'[t] = rows[t]
  BY DEF Unlock, Tick, Purge, PurgeFails, Restart, stored, Keep
<1>3. NoneToTouch(t)
  BY TwoParts DEF Unlock, Tick, Purge, PurgeFails, Restart, RequestTypes, Held, NoneToTouch
<1> QED
  BY <1>1, <1>2, <1>3, OverKept

(* A deleted session stays deleted, and one that expired is over for good   *)
(* unless a call let in before extends it, in any interleaving of requests. *)
THEOREM EndedSessionsStayEnded == Spec => EndedStaysEnded
<1> DEFINE Ends == /\ issued \cap DOMAIN rows' \subseteq DOMAIN rows
                   /\ \A t \in Tokens : Over(t) => Over(t)'
<1>1. SessionsTypeOK /\ [Next]_vars => [Ends]_vars
  <2> SUFFICES ASSUME SessionsTypeOK, Next PROVE Ends
    OBVIOUS
  <2>1. SessionsTypeOK'
    BY StepType
  <2>2. issued \cap DOMAIN rows' \subseteq DOMAIN rows
    BY StepEnds
  <2>3. ASSUME NEW t \in Tokens, Over(t) PROVE Over(t)'
    BY <2>1, <2>3, LoginKeepsOver, SessionKeepsOver, OthersKeepOver DEF Next, Arrives
  <2> QED
    BY <2>2, <2>3
<1> QED
  BY <1>1, SessionTypeCorrect, PTL DEF Spec, EndedStaysEnded

-----------------------------------------------------------------------------
(* The lockout *)

LEMMA StepExact == SessionsTypeOK /\ LockoutIsExact /\ [Next]_vars => LockoutIsExact'
<1> SUFFICES ASSUME SessionsTypeOK, LockoutIsExact, [Next]_vars PROVE LockoutIsExact'
  OBVIOUS
<1>1. ASSUME NEW r \in Requests, RecordsFailure(r) PROVE LockoutIsExact'
  <2>1. CASE stale'
    BY <2>1 DEF LockoutIsExact
  <2>2. CASE ~stale'
    <3>1. ~stale /\ attempts = request[r].seen
      BY <1>1, <2>2 DEF RecordsFailure, SessionsTypeOK
    <3>2. /\ attempts' = Failed(attempts) /\ guesses' = guesses + 1
          /\ attempts.count = guesses /\ guesses \in Nat /\ now \in Nat
      BY <1>1, <3>1 DEF RecordsFailure, LockoutIsExact, SessionsTypeOK
    <3> QED
      BY <3>2 DEF LockoutIsExact, Failed
  <2> QED
    BY <2>1, <2>2
<1>2. ASSUME attempts' = NoRow, guesses' = 0 PROVE LockoutIsExact'
  BY <1>2 DEF LockoutIsExact, NoRow
<1>3. ASSUME UNCHANGED <<attempts, guesses, stale>> PROVE LockoutIsExact'
  BY <1>3 DEF LockoutIsExact
<1>4. ASSUME NEW r \in Requests,
             Arrives(r) \/ LoginStep(r) \/ SessionStep(r),
             ~RecordsFailure(r), ~ClearsAttempts(r)
      PROVE  UNCHANGED <<attempts, guesses, stale>>
  BY <1>4 DEF Arrives, LoginArrives, CallArrives, LogoutArrives, Carries, LoginStep,
     LockoutRefuses, PasswordMatches, PasswordDiffers, ReadsAttempts, CreatesSession,
     SessionStep, NotAuthenticated, Authenticated, Touches, LogsOut, ChangeRefused,
     DeletesSessions, WritesPassword, WriteFails, SyncFails, stored, observed
<1>5. \A r \in Requests : ClearsAttempts(r) => attempts' = NoRow /\ guesses' = 0
  BY DEF ClearsAttempts
<1>6. Unlock => attempts' = NoRow /\ guesses' = 0
  BY DEF Unlock
<1>7. Tick \/ Purge \/ PurgeFails \/ Restart => UNCHANGED <<attempts, guesses, stale>>
  BY DEF Tick, Purge, PurgeFails, Restart, stored, observed
<1>8. UNCHANGED vars => UNCHANGED <<attempts, guesses, stale>>
  BY DEF vars, stored, observed
<1> QED
  BY <1>1, <1>2, <1>3, <1>4, <1>5, <1>6, <1>7, <1>8 DEF Next

(* The counter and the lock are exact as long as no failure was recorded    *)
(* over a row that had changed since it was read.                           *)
THEOREM LockoutExact == Spec => []LockoutIsExact
<1>1. Init => LockoutIsExact
  BY DEF Init, LockoutIsExact, NoRow
<1> QED
  BY <1>1, StepExact, SessionTypeCorrect, PTL DEF Spec
-----------------------------------------------------------------------------
(* Sessions and the password *)

(* Why it holds: while a change stands between its two steps, every session *)
(* there is was created since the deletion.                                 *)
OnlyLateOnes == BeingChanged => DOMAIN rows \subseteq late

PasswordInv == PasswordOutlivesRestart /\ SessionsOfThisPassword /\ OnlyLateOnes

(* Steps that change neither the rows nor a password, and after which no    *)
(* more changes are under way.                                              *)
LEMMA QuietStep ==
  ASSUME PasswordInv, SessionsTypeOK,
         DOMAIN rows' \subseteq DOMAIN rows, BeingChanged' => BeingChanged,
         UNCHANGED <<env, cached, origin, late, torn>>
  PROVE  PasswordInv'
BY DEF PasswordInv, PasswordOutlivesRestart, SessionsOfThisPassword, OnlyLateOnes

LEMMA NotWriting ==
  ASSUME SessionsTypeOK, NEW r \in Requests, NEW place \in Places \ {"writing"},
         request' = [request EXCEPT ![r].at = place]
  PROVE  BeingChanged' => BeingChanged
BY TwoParts DEF BeingChanged, Stands, RequestTypes, Held

LEMMA StepPassword == SessionsTypeOK /\ PasswordInv /\ [Next]_vars => PasswordInv'
<1> SUFFICES ASSUME SessionsTypeOK, PasswordInv, [Next]_vars PROVE PasswordInv'
  OBVIOUS
<1> DEFINE Quiet == UNCHANGED <<env, cached, origin, late, torn>>
<1>1. ASSUME NEW r \in Requests, LoginArrives(r) PROVE PasswordInv'
  <2>1. BeingChanged' => BeingChanged
    BY <1>1, TwoParts DEF LoginArrives, BeingChanged, Stands, RequestTypes, Held
  <2> QED
    BY <1>1, <2>1, QuietStep DEF LoginArrives, stored, observed
<1>2. ASSUME NEW r \in Requests, CallArrives(r) \/ LogoutArrives(r) PROVE PasswordInv'
  <2>1. PICK t \in Tokens, place \in {"call", "change", "leaving"} : Carries(r, t, place)
    BY <1>2 DEF CallArrives, LogoutArrives
  <2>2. BeingChanged' => BeingChanged
    BY <2>1, TwoParts DEF Carries, BeingChanged, Stands, RequestTypes, Held
  <2> QED
    BY <2>1, <2>2, QuietStep DEF Carries, stored, observed
<1>3. ASSUME NEW r \in Requests, ReadsAttempts(r) PROVE PasswordInv'
  <2>1. BeingChanged' => BeingChanged
    BY <1>3, TwoParts DEF ReadsAttempts, BeingChanged, Stands, RequestTypes, Held
  <2> QED
    BY <1>3, <2>1, QuietStep DEF ReadsAttempts, stored, observed
<1>4. ASSUME NEW r \in Requests,
             LockoutRefuses(r) \/ PasswordMatches(r) \/ PasswordDiffers(r)
             \/ RecordsFailure(r) \/ ClearsAttempts(r) \/ NotAuthenticated(r)
             \/ Authenticated(r) \/ ChangeRefused(r) \/ WriteFails(r)
      PROVE  PasswordInv'
  <2>1. PICK place \in {"refused", "matched", "differed", "creating", "touching",
                        "touching to change", "failed"} : Goes(r, place)
    BY <1>4 DEF LockoutRefuses, PasswordMatches, PasswordDiffers, RecordsFailure,
       ClearsAttempts, NotAuthenticated, Authenticated, ChangeRefused, WriteFails
  <2>2. place \in Places \ {"writing"}
    BY DEF Places
  <2>3. BeingChanged' => BeingChanged
    BY <2>1, <2>2, NotWriting DEF Goes
  <2>4. rows' = rows /\ Quiet
    BY <1>4 DEF LockoutRefuses, PasswordMatches, PasswordDiffers, RecordsFailure,
       ClearsAttempts, NotAuthenticated, Authenticated, ChangeRefused, WriteFails,
       stored, observed
  <2> QED
    BY <2>3, <2>4, QuietStep
<1>5. ASSUME NEW r \in Requests, CreatesSession(r) PROVE PasswordInv'
  <2>1. PICK t \in Tokens \ issued :
          /\ rows' = [u \in DOMAIN rows \cup {t} |-> IF u = t THEN now + Timeout ELSE rows[u]]
          /\ origin' = [u \in DOMAIN origin \cup {t} |->
                          IF u = t THEN request[r].hash ELSE origin[u]]
          /\ late' = IF BeingChanged \/ request[r].hash # cached THEN late \cup {t} ELSE late
    BY <1>5 DEF CreatesSession
  <2>2. UNCHANGED <<env, cached, torn>>
    BY <1>5 DEF CreatesSession
  <2>3. BeingChanged' => BeingChanged
    <3>1. "done" \in Places \ {"writing"}
      BY DEF Places
    <3> QED
      BY <1>5, <3>1, NotWriting DEF CreatesSession, Goes
  <2>4. DOMAIN rows' = DOMAIN rows \cup {t} /\ DOMAIN rows \subseteq DOMAIN origin
    BY <2>1, TwoParts DEF TableTypes
  <2>5. ASSUME NEW u \in DOMAIN rows' PROVE torn' \/ u \in late' \/ origin'[u] = cached'
    BY <2>1, <2>2, <2>4, <2>5 DEF PasswordInv, SessionsOfThisPassword
  <2>6. OnlyLateOnes'
    BY <2>1, <2>3, <2>4 DEF PasswordInv, OnlyLateOnes
  <2> QED
    BY <2>2, <2>5, <2>6 DEF PasswordInv, PasswordOutlivesRestart, SessionsOfThisPassword
<1>6. ASSUME NEW r \in Requests, Touches(r) \/ LogsOut(r) PROVE PasswordInv'
  <2>1. DOMAIN rows' \subseteq DOMAIN rows
    BY <1>6, KeepType, ExtendedType DEF Touches, LogsOut
  <2>2. PICK place \in {"done", "verifying"} : Goes(r, place)
    BY <1>6 DEF Touches, LogsOut
  <2>3. place \in Places \ {"writing"}
    BY DEF Places
  <2>4. BeingChanged' => BeingChanged
    BY <2>2, <2>3, NotWriting DEF Goes
  <2> QED
    BY <1>6, <2>1, <2>4, QuietStep DEF Touches, LogsOut, observed
<1>7. ASSUME NEW r \in Requests, DeletesSessions(r) PROVE PasswordInv'
  BY <1>7 DEF DeletesSessions, Keep, observed, PasswordInv, PasswordOutlivesRestart,
              SessionsOfThisPassword, OnlyLateOnes
<1>8. ASSUME NEW r \in Requests, WritesPassword(r) PROVE PasswordInv'
  <2>1. DOMAIN rows \subseteq late /\ env' = cached' /\ UNCHANGED <<rows, late>>
    BY <1>8 DEF WritesPassword, BeingChanged, PasswordInv, OnlyLateOnes, observed
  <2> QED
    BY <2>1 DEF PasswordInv, PasswordOutlivesRestart, SessionsOfThisPassword, OnlyLateOnes
<1>9. ASSUME NEW r \in Requests, SyncFails(r) PROVE PasswordInv'
  <2>1. BeingChanged /\ torn' /\ UNCHANGED <<rows, late>>
    BY <1>9 DEF SyncFails, BeingChanged
  <2> QED
    BY <2>1 DEF PasswordInv, PasswordOutlivesRestart, SessionsOfThisPassword, OnlyLateOnes
<1>10. CASE Unlock \/ Tick \/ PurgeFails \/ UNCHANGED vars
  <2>1. rows' = rows /\ request' = request /\ Quiet
    BY <1>10 DEF Unlock, Tick, PurgeFails, vars, stored, observed
  <2> QED
    BY <2>1, QuietStep DEF BeingChanged, Stands
<1>11. CASE Purge
  <2>1. DOMAIN rows' \subseteq DOMAIN rows
    BY <1>11, KeepType DEF Purge
  <2> QED
    BY <1>11, <2>1, QuietStep DEF Purge, BeingChanged, Stands, observed
<1>12. CASE Restart
  <2>1. DOMAIN rows' \subseteq DOMAIN rows /\ cached' = env /\ env' = env
        /\ UNCHANGED <<origin, late, torn>>
    BY <1>12, KeepType DEF Restart, observed
  <2>2. ~BeingChanged'
    BY <1>12, TwoParts DEF Restart, BeingChanged, Stands, RequestTypes, Held
  <2> QED
    BY <2>1, <2>2 DEF PasswordInv, PasswordOutlivesRestart, SessionsOfThisPassword,
                      OnlyLateOnes
<1> QED
  BY <1>1, <1>2, <1>3, <1>4, <1>5, <1>6, <1>7, <1>8, <1>9, <1>10, <1>11, <1>12
     DEF Next, Arrives, LoginStep, SessionStep

(* Every session is of the password in force or of an overtaken login, and  *)
(* the password in memory is the one on disk, unless a write was torn.      *)
THEOREM SessionsMatchPassword ==
  Spec => [](SessionsOfThisPassword /\ PasswordOutlivesRestart)
<1>1. Init => PasswordInv
  BY DEF Init, PasswordInv, PasswordOutlivesRestart, SessionsOfThisPassword, OnlyLateOnes
<1>2. PasswordInv => SessionsOfThisPassword /\ PasswordOutlivesRestart
  BY DEF PasswordInv
<1> QED
  BY <1>1, <1>2, StepPassword, SessionTypeCorrect, PTL DEF Spec
=============================================================================
