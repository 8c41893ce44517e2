------------------------- MODULE MCTrafficCollector -------------------------
(* Instances of TrafficCollector for TLC.                                    *)
EXTENDS TrafficCollector

(* Four days without a fault, for checkpoints and pruning. *)
Long == [day |-> 4, uptime |-> 3, relayed |-> 3, ticks |-> 4,
         restarts |-> 0, losses |-> 0, steps |-> FALSE]

(* Two days with a restart of Conduit and a power loss, or with a restart   *)
(* and a clock that is stepped.                                             *)
Rough == [day |-> 2, uptime |-> 2, relayed |-> 1, ticks |-> 3,
          restarts |-> 1, losses |-> 1, steps |-> FALSE]

Stepped == [Rough EXCEPT !.losses = 0, !.steps = TRUE, !.ticks = 4]

Three == {Long, Rough, Stepped}
=============================================================================
