----------------------------- MODULE MCRemoteKV -----------------------------
(* Instances of RemoteKV for TLC: two requests with the same prompt.       *)
EXTENDS RemoteKV, TLC

CONSTANTS r1, r2, p

Two == {r1, r2}
SamePrompt == r1 :> p @@ r2 :> p
Lengths == r1 :> 5 @@ r2 :> 3
Three == 1 .. 3
=============================================================================
