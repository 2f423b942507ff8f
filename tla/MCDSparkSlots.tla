--------------------------- MODULE MCDSparkSlots ----------------------------
(* Instances of DSparkSlots for TLC.                                       *)
EXTENDS DSparkSlots, TLC

CONSTANTS r1, r2, r3

Three == {r1, r2, r3}
PromptsOfThree == r1 :> 3 @@ r2 :> 1 @@ r3 :> 1
LimitsOfThree == r1 :> 4 @@ r2 :> 3 @@ r3 :> 3

\* r2 and r3 have equal prompts, and no property tells them apart.
Symmetry == Permutations({r2, r3})
=============================================================================
