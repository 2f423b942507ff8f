------------------------- MODULE MCDSparkSchedule ---------------------------
(* Instances of DSparkSchedule for TLC.                                    *)
EXTENDS DSparkSchedule, TLC

\* No table at all, a step time of one plus a half per token, a capacity
\* cliff, and a curve that drops and recovers.
CurvesExplored ==
  {<<>>,
   2 :> 630 @@ 3 :> 504 @@ 4 :> 420 @@ 5 :> 360 @@ 6 :> 315 @@ 7 :> 280 @@ 8 :> 252,
   1 :> 6 @@ 5 :> 3,
   3 :> 4 @@ 4 :> 2 @@ 6 :> 5}

ThresholdsExplored == {1, 9, 18}
=============================================================================
