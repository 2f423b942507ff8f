---------------------------- MODULE MCModelRunner -----------------------------
(* Instances of ModelRunner for TLC.                                       *)
EXTENDS ModelRunner, TLC

CONSTANTS r1, r2

Two == {r1, r2}
Prompts == r1 :> 2 @@ r2 :> 2
Limits == r1 :> 3 @@ r2 :> 2
===============================================================================
