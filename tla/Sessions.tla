------------------------------ MODULE Sessions ------------------------------
(***************************************************************************)
(* Who is logged in: the session rows, the lockout row and the password of *)
(* the one account, with the requests of the backend that read and write   *)
(* them between awaits. Sources: auth/sessions.py, auth/lockout.py,        *)
(* auth/login.py, api/auth.py, api/settings.py, dependencies.py, pages.py, *)
(* env_file.py. One action is what runs between two awaits; a statement    *)
(* and its commit are one step, because each request has its own           *)
(* connection and SQLite serializes writers. Audit rows are written and    *)
(* never read, a wrong user name ends a login without touching anything,   *)
(* and cookies stay with the client: none of them is modelled.             *)
(***************************************************************************)
EXTENDS Naturals, FiniteSets

CONSTANTS
  Requests,     \* requests; each is made at most once
  Tokens,       \* values token_hex can return, no two alike
  Passwords,
  Initial,      \* the password of the installation
  MaxAttempts,  \* max_failed_login_attempts
  LockFor,      \* lockout_duration_minutes
  Timeout,      \* session_timeout_minutes
  MaxTime,      \* bound on the clock
  MaxRestarts   \* bound on restarts of the backend

ASSUME SessionConstants ==
  /\ Tokens # {} /\ Initial \in Passwords
  /\ MaxAttempts \in Nat \ {0} /\ LockFor \in Nat \ {0} /\ Timeout \in Nat \ {0}
  /\ MaxTime \in Nat \ {0} /\ MaxRestarts \in Nat

VARIABLES
  now,       \* the wall clock
  rows,      \* sessions: token -> expires_at, for the tokens that have a row
  issued,    \* tokens handed out so far
  attempts,  \* failed_attempts of the account
  env,       \* the password whose hash is in .env
  cached,    \* the one get_settings() returns
  request,   \* where each request stands and what it holds
  purger,    \* the task of _purge_loop
  restarts,
  (* what happened, read by no action *)
  origin,    \* token -> password its login had verified
  late,      \* tokens of logins a change of the password overtook
  guesses,   \* failures recorded since the row was last removed
  stale,     \* a failure was recorded over a row that had changed since read
  torn       \* a change of the password was made and reported as failed

stored == <<rows, issued, attempts, env>>
observed == <<origin, late, guesses, stale, torn>>
vars == <<now, stored, cached, request, purger, restarts, observed>>

-----------------------------------------------------------------------------
(* Rows *)

NoRow == [row |-> FALSE, count |-> 0, until |-> 0]

Idle == [at |-> "idle", token |-> CHOOSE t \in Tokens : TRUE, hash |-> Initial,
         seen |-> NoRow]

Live(t) == t \in DOMAIN rows /\ rows[t] > now

Locked == attempts.row /\ now < attempts.until

(* Rows of the tokens in T only. *)
Keep(T) == [t \in DOMAIN rows \cap T |-> rows[t]]

Stands(r, place) == request[r].at = place

Goes(r, place) == request' = [request EXCEPT ![r].at = place]

Init ==
  /\ now = 1 /\ issued = {} /\ rows = [t \in {} |-> 0] /\ attempts = NoRow
  /\ env = Initial /\ cached = Initial
  /\ request = [r \in Requests |-> Idle]
  /\ purger = "alive" /\ restarts = 0
  /\ origin = [t \in {} |-> Initial] /\ late = {} /\ guesses = 0
  /\ stale = FALSE /\ torn = FALSE

-----------------------------------------------------------------------------
(* Login *)

(* The hash is taken from the settings before the first await.             *)
LoginArrives(r) ==
  /\ Stands(r, "idle")
  /\ request' = [request EXCEPT ![r].at = "login", ![r].hash = cached]
  /\ UNCHANGED <<now, stored, cached, purger, restarts, observed>>

LockoutRefuses(r) ==
  /\ Stands(r, "login") /\ Locked
  /\ Goes(r, "refused")
  /\ UNCHANGED <<now, stored, cached, purger, restarts, observed>>

(* The password given is compared with the hash the request holds.         *)
PasswordMatches(r) ==
  /\ Stands(r, "login") /\ ~Locked
  /\ Goes(r, "matched")
  /\ UNCHANGED <<now, stored, cached, purger, restarts, observed>>

PasswordDiffers(r) ==
  /\ Stands(r, "login") /\ ~Locked
  /\ Goes(r, "differed")
  /\ UNCHANGED <<now, stored, cached, purger, restarts, observed>>

ReadsAttempts(r) ==
  /\ Stands(r, "differed")
  /\ request' = [request EXCEPT ![r].at = "counting", ![r].seen = attempts]
  /\ UNCHANGED <<now, stored, cached, purger, restarts, observed>>

(* The row a failure leaves, given the row it read. *)
Failed(seen) ==
  [row |-> TRUE, count |-> seen.count + 1,
   until |-> IF seen.count + 1 >= MaxAttempts THEN now + LockFor ELSE 0]

(* Mutant: the attempt after the last one allowed locks.                   *)
RecordsFailureLate(r) ==
  /\ Stands(r, "counting")
  /\ attempts' = [Failed(request[r].seen) EXCEPT
                    !.until = IF request[r].seen.count >= MaxAttempts THEN now + LockFor ELSE 0]
  /\ guesses' = guesses + 1
  /\ stale' = (stale \/ attempts # request[r].seen)
  /\ Goes(r, "refused")
  /\ UNCHANGED <<now, rows, issued, env, cached, purger, restarts, origin, late, torn>>

RecordsFailure(r) ==
  /\ Stands(r, "counting")
  /\ attempts' = Failed(request[r].seen)
  /\ guesses' = guesses + 1
  /\ stale' = (stale \/ attempts # request[r].seen)
  /\ Goes(r, "refused")
  /\ UNCHANGED <<now, rows, issued, env, cached, purger, restarts, origin, late, torn>>

ClearsAttempts(r) ==
  /\ Stands(r, "matched")
  /\ attempts' = NoRow
  /\ guesses' = 0
  /\ Goes(r, "creating")
  /\ UNCHANGED <<now, rows, issued, env, cached, purger, restarts, origin, late, stale, torn>>

(* A change of the password stands between its two steps.                  *)
BeingChanged == \E q \in Requests : Stands(q, "writing")

CreatesSession(r) ==
  /\ Stands(r, "creating")
  /\ \E t \in Tokens \ issued :
       /\ rows' = [u \in DOMAIN rows \cup {t} |-> IF u = t THEN now + Timeout ELSE rows[u]]
       /\ issued' = issued \cup {t}
       /\ origin' = [u \in DOMAIN origin \cup {t} |->
                       IF u = t THEN request[r].hash ELSE origin[u]]
       /\ late' = IF BeingChanged \/ request[r].hash # cached THEN late \cup {t} ELSE late
  /\ Goes(r, "done")
  /\ UNCHANGED <<now, attempts, env, cached, purger, restarts, guesses, stale, torn>>

(* ccc-unlock, a process of its own. *)
Unlock ==
  /\ attempts.row
  /\ attempts' = NoRow
  /\ guesses' = 0
  /\ UNCHANGED <<now, rows, issued, env, cached, request, purger, restarts,
                 origin, late, stale, torn>>

-----------------------------------------------------------------------------
(* Requests that carry a token: a page, a call of the API, a change of the  *)
(* password, a logout.                                                      *)

Carries(r, t, place) ==
  /\ Stands(r, "idle") /\ t \in issued
  /\ request' = [request EXCEPT ![r].at = place, ![r].token = t]
  /\ UNCHANGED <<now, stored, cached, purger, restarts, observed>>

CallArrives(r) == \E t \in Tokens, goal \in {"call", "change"} : Carries(r, t, goal)

LogoutArrives(r) == \E t \in Tokens : Carries(r, t, "leaving")

(* get_session: 401, or for a page the way to the login form. *)
NotAuthenticated(r) ==
  /\ request[r].at \in {"call", "change"} /\ ~Live(request[r].token)
  /\ Goes(r, "refused")
  /\ UNCHANGED <<now, stored, cached, purger, restarts, observed>>

Authenticated(r) ==
  /\ request[r].at \in {"call", "change"} /\ Live(request[r].token)
  /\ Goes(r, IF Stands(r, "call") THEN "touching" ELSE "touching to change")
  /\ UNCHANGED <<now, stored, cached, purger, restarts, observed>>

(* Mutant: INSERT OR REPLACE.                                              *)
ExtendedAnyway(t) ==
  [u \in DOMAIN rows \cup {t} |-> IF u = t THEN now + Timeout ELSE rows[u]]

(* UPDATE ... WHERE id = ?: a row that is gone stays gone, one that expired *)
(* since it was looked up is extended all the same.                         *)
Extended(t) == [u \in DOMAIN rows |-> IF u = t THEN now + Timeout ELSE rows[u]]

(* Afterwards the call does its work, or its CSRF header is found wanting: *)
(* either way these tables are left alone.                                 *)
Touches(r) ==
  /\ request[r].at \in {"touching", "touching to change"}
  /\ rows' = Extended(request[r].token)
  /\ Goes(r, IF Stands(r, "touching") THEN "done" ELSE "verifying")
  /\ UNCHANGED <<now, issued, attempts, env, cached, purger, restarts, observed>>

LogsOut(r) ==
  /\ Stands(r, "leaving")
  /\ rows' = Keep(Tokens \ {request[r].token})
  /\ Goes(r, "done")
  /\ UNCHANGED <<now, issued, attempts, env, cached, purger, restarts, observed>>

-----------------------------------------------------------------------------
(* Change of the password *)

(* No CSRF header, or not the current password. *)
ChangeRefused(r) ==
  /\ Stands(r, "verifying")
  /\ Goes(r, "refused")
  /\ UNCHANGED <<now, stored, cached, purger, restarts, observed>>

(* Mutant: only the session of the request itself is deleted.              *)
DeletesOwnSession(r) ==
  /\ Stands(r, "verifying")
  /\ rows' = Keep(Tokens \ {request[r].token})
  /\ Goes(r, "writing")
  /\ UNCHANGED <<now, issued, attempts, env, cached, purger, restarts, observed>>

DeletesSessions(r) ==
  /\ Stands(r, "verifying")
  /\ rows' = Keep({})
  /\ Goes(r, "writing")
  /\ UNCHANGED <<now, issued, attempts, env, cached, purger, restarts, observed>>

(* Mutant: the old line is taken out of .env and no new one put in.        *)
WritesNoPassword(r) ==
  /\ Stands(r, "writing")
  /\ env' = {} /\ cached' = {}
  /\ Goes(r, "done")
  /\ UNCHANGED <<now, rows, issued, attempts, purger, restarts, observed>>

(* Hashing, the write of .env and the reset of the cache run without await. *)
WritesPassword(r) ==
  /\ Stands(r, "writing")
  /\ \E p \in Passwords : env' = p /\ cached' = p
  /\ Goes(r, "done")
  /\ UNCHANGED <<now, rows, issued, attempts, purger, restarts, observed>>

(* The file is refused or cannot be replaced. *)
WriteFails(r) ==
  /\ Stands(r, "writing")
  /\ Goes(r, "failed")
  /\ UNCHANGED <<now, stored, cached, purger, restarts, observed>>

(* The file is replaced and then the directory cannot be synced: the caller *)
(* hears of a failure, and the settings in memory stay as they were.        *)
SyncFails(r) ==
  /\ Stands(r, "writing")
  /\ \E p \in Passwords \ {env} : env' = p
  /\ torn' = TRUE
  /\ Goes(r, "failed")
  /\ UNCHANGED <<now, rows, issued, attempts, cached, purger, restarts,
                 origin, late, guesses, stale>>

-----------------------------------------------------------------------------
(* Time, the purge and restarts *)

Tick ==
  /\ now < MaxTime
  /\ now' = now + 1
  /\ UNCHANGED <<stored, cached, request, purger, restarts, observed>>

Unexpired == {t \in DOMAIN rows : rows[t] > now}

Purge ==
  /\ purger = "alive" /\ DOMAIN rows # Unexpired
  /\ rows' = Keep(Unexpired)
  /\ UNCHANGED <<now, issued, attempts, env, cached, request, purger, restarts, observed>>

(* Mutant: the error ends the task.                                        *)
PurgeFailsForGood ==
  /\ purger = "alive" /\ DOMAIN rows # Unexpired
  /\ purger' = "dead"
  /\ UNCHANGED <<now, stored, cached, request, restarts, observed>>

(* An error of the database: the loop logs it and goes on. *)
PurgeFails ==
  /\ purger = "alive" /\ DOMAIN rows # Unexpired
  /\ purger' = "alive"
  /\ UNCHANGED <<now, stored, cached, request, restarts, observed>>

(* The requests under way are lost; start-up reads .env and purges.        *)
Restart ==
  /\ restarts < MaxRestarts
  /\ restarts' = restarts + 1
  /\ request' = [r \in Requests |-> IF Stands(r, "idle") THEN request[r]
                                    ELSE [request[r] EXCEPT !.at = "done"]]
  /\ cached' = env
  /\ rows' = Keep(Unexpired)
  /\ purger' = "alive"
  /\ UNCHANGED <<now, issued, attempts, env, observed>>

-----------------------------------------------------------------------------
LoginStep(r) ==
  \/ LockoutRefuses(r) \/ PasswordMatches(r) \/ PasswordDiffers(r) \/ ReadsAttempts(r)
  \/ RecordsFailure(r) \/ ClearsAttempts(r) \/ CreatesSession(r)

SessionStep(r) ==
  \/ NotAuthenticated(r) \/ Authenticated(r) \/ Touches(r) \/ LogsOut(r)
  \/ ChangeRefused(r) \/ DeletesSessions(r) \/ WritesPassword(r)
  \/ WriteFails(r) \/ SyncFails(r)

Arrives(r) == LoginArrives(r) \/ CallArrives(r) \/ LogoutArrives(r)

Next ==
  \/ \E r \in Requests : Arrives(r) \/ LoginStep(r) \/ SessionStep(r)
  \/ Unlock \/ Tick \/ Purge \/ PurgeFails \/ Restart

Spec == Init /\ [][Next]_vars

(* The loop wakes up every hour, and not every purge fails.                *)
LiveSpec == Spec /\ WF_vars(Purge)

-----------------------------------------------------------------------------
(* Properties *)

Places ==
  {"idle", "login", "matched", "differed", "counting", "creating", "call", "change",
   "touching", "touching to change", "leaving", "verifying", "writing",
   "done", "refused", "failed"}

AttemptRows == [row : BOOLEAN, count : Nat, until : Nat]

(* Type invariant. Rows exist only for tokens that were issued, and every   *)
(* issued token has an origin.                                              *)
SessionsTypeOK ==
  /\ now \in Nat /\ restarts \in Nat /\ guesses \in Nat
  /\ issued \in SUBSET Tokens /\ late \in SUBSET issued
  /\ DOMAIN rows \in SUBSET issued /\ rows \in [DOMAIN rows -> Nat]
  /\ attempts \in AttemptRows
  /\ env \in Passwords /\ cached \in Passwords
  /\ request \in [Requests -> [at : Places, token : Tokens, hash : Passwords,
                               seen : AttemptRows]]
  /\ purger \in {"alive", "dead"}
  /\ origin \in [issued -> Passwords]
  /\ stale \in BOOLEAN /\ torn \in BOOLEAN

(* A call that found the session of t live has yet to extend it.            *)
UnderWay(t) ==
  \E r \in Requests :
    request[r].token = t /\ request[r].at \in {"touching", "touching to change"}

Over(t) == t \in issued /\ ~Live(t) /\ ~UnderWay(t)

(* A session that was deleted, by a logout, a change of the password or the *)
(* purge, is never back, even if a call that had looked it up extends it    *)
(* afterwards.  One that expired is over for good as well, from when no     *)
(* call that had found it live is still to extend it: until then            *)
(* touch_session brings it back, though another request may have been       *)
(* refused in between.                                                      *)
EndedStaysEnded ==
  [][/\ issued \cap DOMAIN rows' \subseteq DOMAIN rows
     /\ \A t \in Tokens : Over(t) => Over(t)']_vars

(* Every session in the table belongs to a login with the password in       *)
(* force. Two exceptions, both of a login that a change overtakes: one that *)
(* verified the hash before it was replaced, one that created its session   *)
(* after the deletion and before the write. After a change that was made    *)
(* and reported as failed nothing is promised.                              *)
SessionsOfThisPassword ==
  torn \/ \A t \in DOMAIN rows : t \in late \/ origin[t] = cached

(* As long as no failure was recorded over a row that had changed in the    *)
(* meantime, the counter is the number of failures since it was last        *)
(* cleared, and there is a lock exactly from the limit on.                  *)
LockoutIsExact ==
  ~stale => /\ attempts.count = guesses
            /\ (attempts.until > 0) = (guesses >= MaxAttempts)

(* A password that was reported as changed, or as not changed, is the one   *)
(* in force after a restart as well, unless a write was torn.               *)
PasswordOutlivesRestart == torn \/ cached = env

(* Rows that expired and are not extended disappear, whatever goes wrong in *)
(* a single purge.                                                          *)
ExpiredRowsArePurged ==
  \A t \in Tokens :
    (t \in DOMAIN rows /\ rows[t] <= now) ~> (t \notin DOMAIN rows \/ rows[t] > now)
=============================================================================
