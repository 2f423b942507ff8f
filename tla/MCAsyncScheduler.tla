------------------------- MODULE MCAsyncScheduler ---------------------------
(* Instances of AsyncScheduler for TLC.                                    *)
EXTENDS AsyncScheduler, TLC

CONSTANTS r1, r2

Two == {r1, r2}
Ranks == r1 :> 1 @@ r2 :> 2
Prompts == r1 :> 1 @@ r2 :> 2
Limits == r1 :> 4 @@ r2 :> 3
=============================================================================
