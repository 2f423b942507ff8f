-------------------------- MODULE MCInputSessions --------------------------
(* Instances of InputSessions for TLC: a session that sends the same input    *)
(* again, and plain requests that compete with it for the encoder cache.      *)
EXTENDS InputSessions

CONSTANTS session, plain1, plain2, h1, h2, h3

Chunk(len, offset, hash) == [len |-> len, offset |-> offset, hash |-> hash]

Three ==
  session :> << Chunk(2, 0, h1), Chunk(3, 1, h1), Chunk(2, 1, h2) >> @@
  plain1 :> << Chunk(3, 1, h2) >> @@
  plain2 :> << Chunk(2, 0, h3) >>
Embeddings == h1 :> 2 @@ h2 :> 1 @@ h3 :> 1
MaxOutputs == session :> 2 @@ plain1 :> 3 @@ plain2 :> 1

OneSession == session :> << Chunk(2, 0, h1), Chunk(3, 1, h2) >>
=============================================================================
