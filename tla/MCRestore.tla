----------------------------- MODULE MCRestore -----------------------------
(***************************************************************************)
(* Archives for TLC: one with everything, one the dashboard does not come  *)
(* up with, one with an unreadable database, one that lacks its settings;  *)
(* and three that do not open. The optional items may lack in a backup     *)
(* made here.                                                              *)
(***************************************************************************)
EXTENDS Restore

Full == [n \in Required \cup Optional |-> "theirs"]
Strange == [Full EXCEPT !["env.subset"] = "strange"]
Rotten == [Full EXCEPT !["ccc.db"] = Torn]
Partial == [n \in {"ccc.db", "config.json"} |-> "theirs"]

Tampered == [Packed(Full) EXCEPT !.items["ccc.db"] = "tampered"]
Newer == [Packed([n \in Required |-> "newer"]) EXCEPT !.version = Version + 1]
Keyed == Packed([Full EXCEPT !["env.subset"] = Key])

MCUploads == {Packed(i) : i \in {Full, Strange, Rotten, Partial}} \cup {Tampered, Newer, Keyed}
=============================================================================
