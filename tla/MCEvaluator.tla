------------------------------ MODULE MCEvaluator ------------------------------
(***************************************************************************)
(* Small batches on a 2 by 3 grid under two wind directions a quarter turn *)
(* apart and three speeds.  Layouts with two turbines of one row of cells  *)
(* have ties along the wind; the rejected ones repeat a cell, leave the    *)
(* grid, or do not fill the batch.                                         *)
(***************************************************************************)
EXTENDS Evaluator

MCTheta == <<<<1, 0>>, <<0, 1>>>>
MCVelocity == <<9, 14, 6>>
MCProbability == <<1, 2, 1, 3, 1, 2>>

\* A wake that widens and weakens with the distance along the wind.
MCWakeShare(dx, dy) == IF dx > dy THEN 0 ELSE 60 \div dy

Call(turbines, batch, indices, schedule, detail) ==
  [turbines |-> turbines, batch |-> batch, indices |-> indices,
   schedule |-> schedule, detail |-> detail]

Schedules == {"FullStageParallel", "GranularityAware"}

MCJobs ==
  {Call(3, 1, i, s, "TotalAndPerTurbine") :
     i \in {<<1, 3, 5>>, <<1, 2, 6>>, <<2, 4, 5>>}, s \in Schedules}
  \cup {Call(2, 2, <<1, 5, 3, 6>>, s, d) :
     s \in Schedules, d \in {"TotalOnly", "TotalAndPerTurbine"}}
  \cup {Call(3, 2, <<1, 2, 5, 3, 4, 6>>, s, "TotalAndPerTurbine") : s \in Schedules}
  \cup {Call(1, 3, <<4, 4, 2>>, s, "TotalAndPerTurbine") : s \in Schedules}
  \cup {Call(2, b, i, s, "TotalOnly") :
     b \in {0, 2}, i \in {<<>>, <<1, 2, 3>>, <<1, 2, 5, 5>>, <<0, 2, 3, 4>>, <<1, 2, 3, 7>>},
     s \in Schedules}
================================================================================
