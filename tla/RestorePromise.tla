--------------------------- MODULE RestorePromise ---------------------------
(***************************************************************************)
(* What a restore promises, with no files, checkpoints or restarts: it     *)
(* leaves the host with all of the archive or as it found it and says      *)
(* which, or says that it could do neither, or does not say a word because *)
(* it was killed. Its own secret and, unless all of the archive is in      *)
(* force, the configuration of conduit are never touched.                  *)
(***************************************************************************)
CONSTANTS
  Own,      \* what the users of this host may write
  Absent

VARIABLES
  content,  \* what the dashboard would find: db, env, secret, config, dropin
  phase,    \* idle, asked, working, committed, reverted, broken
  wanted,   \* what the archive holds: db, env, config, settings
  status    \* what the status page says

Restored ==
  [content EXCEPT !.db = wanted.db, !.env = wanted.env,
                  !.config = IF wanted.config = Absent THEN @ ELSE wanted.config]

(* A configuration file the host did not have may be left behind. *)
AsFound ==
  {content} \cup
  IF content.config = Absent THEN {[content EXCEPT !.config = wanted.config]} ELSE {}

Untouched(c) == c.secret = content.secret /\ c.dropin = content.dropin

Moves(from, to) == phase \in from /\ phase' = to /\ UNCHANGED wanted

(* While a restore works nobody else writes: the service is down.          *)
Changes ==
  /\ phase # "working"
  /\ \E v \in Own : content' \in {[content EXCEPT !.db = v], [content EXCEPT !.env = v]}
  /\ UNCHANGED <<phase, wanted, status>>

Asks == phase = "idle" /\ phase' = "asked" /\ UNCHANGED <<content, status>>

Announces ==
  /\ Moves({"asked"}, "asked")
  /\ status' = "in_progress"
  /\ UNCHANGED content

Begins == Moves({"asked"}, "working") /\ UNCHANGED <<content, status>>

Commits == Moves({"working"}, "committed") /\ content' = Restored /\ UNCHANGED status

Reapplies ==
  /\ phase = "committed"
  /\ content' = [content EXCEPT !.dropin = wanted.settings]
  /\ UNCHANGED <<phase, wanted, status>>

Reverts ==
  /\ Moves({"asked", "working"}, "reverted")
  /\ content' \in AsFound
  /\ UNCHANGED status

(* The restore can no longer say what is in force. *)
Breaks ==
  /\ Moves({"asked", "working", "committed", "reverted"}, "broken")
  /\ phase # "working" => UNCHANGED content
  /\ Untouched(content')
  /\ UNCHANGED status

Reports ==
  /\ phase \in {"committed", "reverted", "broken"}
  /\ phase' = "idle"
  /\ status' = [committed |-> "restored", reverted |-> "rolled_back",
                broken |-> "rollback_failed"][phase]
  /\ UNCHANGED content

Dies ==
  /\ phase # "idle"
  /\ phase' = "idle"
  /\ status' \in {status, "unknown"}
  /\ phase # "working" => UNCHANGED content
  /\ phase = "working" => status' = "unknown"
  /\ Untouched(content')

PromiseNext ==
  \/ Changes \/ Asks \/ Announces \/ Begins \/ Commits \/ Reapplies
  \/ Reverts \/ Breaks \/ Reports \/ Dies

PromiseSpec ==
  /\ phase = "idle" /\ status = "idle"
  /\ [][PromiseNext]_<<content, phase, wanted, status>>
=============================================================================
