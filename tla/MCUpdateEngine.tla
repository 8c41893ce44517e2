--------------------------- MODULE MCUpdateEngine ---------------------------
(* Instances of UpdateEngine for TLC.                                       *)
EXTENDS UpdateClaims, TLC

(* The values facts take in the engine.                                     *)
MCFactValues == EngineFacts

(* Attempts are interchangeable: nothing orders or names them. *)
Interchangeable == Permutations(Attempts)

(* A host on which no engine can be started is at a stop; every other       *)
(* deadlock is an error.                                                    *)
Stranded == HostStranded /\ UNCHANGED vars

MCSpec == Init /\ [][Next \/ Stranded]_vars

MCLiveSpec == MCSpec /\ Fairness
=============================================================================
