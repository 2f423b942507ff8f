--------------------------- MODULE OutputStreams ----------------------------
(***************************************************************************)
(* What the engine promises a client, whatever it preempts, rejects or     *)
(* discards inside: from the moment a request is accepted until it ends,   *)
(* the client receives the generated tokens one after the other, none      *)
(* twice, none skipped, at most max_tokens of them, and none after the     *)
(* end. A token is its position in the generated text, from 1 on.          *)
(***************************************************************************)
EXTENDS Naturals, Sequences

CONSTANTS Req, MaxTokens

VARIABLES phase, stream

vars == <<phase, stream>>

Init ==
  /\ phase = [r \in Req |-> "absent"]
  /\ stream = [r \in Req |-> <<>>]

Open(r) ==
  /\ phase[r] = "absent"
  /\ phase' = [phase EXCEPT ![r] = "open"]
  /\ UNCHANGED stream

NextTokens(r, n) == [i \in 1 .. n |-> Len(stream[r]) + i]

\* The client gets at least one more token, perhaps its last.
Emit(r) ==
  /\ phase[r] = "open"
  /\ \E n \in 1 .. MaxTokens[r] - Len(stream[r]) :
       /\ stream' = [stream EXCEPT ![r] = @ \o NextTokens(r, n)]
       /\ \/ phase' = [phase EXCEPT ![r] = "closed"]
          \/ Len(stream[r]) + n < MaxTokens[r] /\ UNCHANGED phase

Close(r) ==
  /\ phase[r] = "open"
  /\ phase' = [phase EXCEPT ![r] = "closed"]
  /\ UNCHANGED stream

Next == \E r \in Req : Open(r) \/ Emit(r) \/ Close(r)

Spec == Init /\ [][Next]_vars
=============================================================================
