----------------------------- MODULE KernelWarmup ---------------------------
(***************************************************************************)
(* kernel_warmup (model_executor/warmup/kernel_warmup.py): the kernels are *)
(* compiled and tuned before the graphs are captured. All ranks run it at  *)
(* once. The sparse-MLA decode kernel is tuned on the leader alone: its    *)
(* cache file is broadcast, the first rank of every other host writes it   *)
(* to that host's file, and after a barrier every rank loads its host's    *)
(* file. The other FlashInfer kernels are tuned by every rank for itself.  *)
(*                                                                         *)
(* The warm-up runs leave traces in the runner: this module adds them to   *)
(* the state of GraphCapture.                                              *)
(***************************************************************************)
EXTENDS GraphCapture

CONSTANTS
  Ranks, Leader,
  Host,          \* the host of each rank, which keeps the cache file
  FirstOnHost,   \* the ranks with local_rank = 0
  WarmupTokens,  \* the token counts the warm-up runs ask for
  Tactics, NoTactics

ASSUME WarmupAssumption ==
  /\ Leader \in FirstOnHost /\ FirstOnHost \subseteq Ranks
  /\ \A r \in Ranks : \E f \in FirstOnHost : Host[f] = Host[r]
  /\ WarmupTokens \subseteq Nat
  /\ NoTactics \notin Tactics

VARIABLES
  at,       \* where each rank is in its warm-up
  file,     \* the autotune cache file of each host
  sent,     \* what broadcast_object delivers, once the leader is there
  tactics,  \* the sparse-MLA tactics each rank's AutoTuner has loaded
  warmed    \* this worker has run the shapes of its own warm-up

warmupVars == <<at, file, sent, tactics, warmed>>

Hosts == {Host[r] : r \in Ranks}

NotSent == <<>>

WarmupInit ==
  /\ at = [r \in Ranks |-> "tune"]
  /\ file = [h \in Hosts |-> NoTactics]
  /\ sent = NotSent
  /\ tactics = [r \in Ranks |-> NoTactics]
  /\ warmed = FALSE

-----------------------------------------------------------------------------
\* Mutant: the requested count is used as it is.
UnclampedTokens(n) == n

\* _clamp_warmup_tokens.
ClampWarmupTokens(n) == Min({n, MaxNumTokens})

\* The dummy runs of _deepseek_v4_sparse_mla_attention_warmup: mixed and
\* single-prefill batches, and uniform decodes of one request
\* (_dspark_uniform_decode_autotune_kwargs).
WarmupShapes ==
  {<<ClampWarmupTokens(n), FALSE>> : n \in WarmupTokens}
  \cup (IF QueryLen > 1 THEN {<<QueryLen, TRUE>>} ELSE {})

\* This worker's own warm-up. _deepseek_v4_slot_mapping_warmup puts the
\* positions and query starts back, but not the slots it computed. The cache
\* files may be there from an earlier start.
WarmUp ==
  /\ stage = "warmup" /\ ~failed /\ ~warmed
  /\ warmed' = TRUE
  /\ IF config.autotune THEN file' \in [Hosts -> Tactics \cup {NoTactics}] ELSE UNCHANGED file
  /\ staleSlots' = staleSlots \cup 1 .. Max({s[1] : s \in WarmupShapes})
  /\ staleRows' = staleRows \cup {1}
  /\ failed' = (\E s \in WarmupShapes : s[1] # 0 /\ ~DummyFits(s[1], s[2], s[1]))
  /\ UNCHANGED <<config, mode, sizes, keys, keysReady, draftKeys, graphs, capturing, toCapture,
                 stage, kvScales, ran, layoutVars, at, sent, tactics>>

-----------------------------------------------------------------------------
Warming == stage = "warmup" /\ warmed /\ ~failed

Goto(r, label) == at' = [at EXCEPT ![r] = label]

\* The leader tunes with its cache file, which the tuner writes if it found
\* any tactic; the others run the same shapes, for the collectives in them.
Tune(r) ==
  /\ Warming /\ at[r] = "tune"
  /\ IF config.autotune THEN Goto(r, "broadcast") ELSE Goto(r, "flashinfer")
  /\ IF config.autotune /\ r = Leader
     THEN \E t \in Tactics \cup {file[Host[r]]} : file' = [file EXCEPT ![Host[r]] = t]
     ELSE UNCHANGED file
  /\ UNCHANGED <<graphVars, layoutVars, sent, tactics, warmed>>

\* world.broadcast_object from the leader, which need not wait for the rest.
Broadcast(r) ==
  /\ Warming /\ at[r] = "broadcast"
  /\ IF r = Leader
     THEN sent' = <<file[Host[Leader]]>>
     ELSE sent # NotSent /\ UNCHANGED sent
  /\ IF sent' = <<NoTactics>> THEN Goto(r, "barrier") ELSE Goto(r, "write")
  /\ UNCHANGED <<graphVars, layoutVars, file, tactics, warmed>>

\* Mutant: every rank goes on to load without waiting for the writers.
AfterWriteUnsynchronized == "load"

\* world.barrier() comes before the load.
AfterWrite == "barrier"

Write(r) ==
  /\ Warming /\ at[r] = "write"
  /\ IF r # Leader /\ r \in FirstOnHost
     THEN file' = [file EXCEPT ![Host[r]] = sent[1]]
     ELSE UNCHANGED file
  /\ Goto(r, AfterWrite)
  /\ UNCHANGED <<graphVars, layoutVars, sent, tactics, warmed>>

\* world.barrier: all ranks leave it together; with nothing to load the
\* sparse-MLA tuning is over.
Barrier ==
  /\ Warming
  /\ \A r \in Ranks : at[r] = "barrier"
  /\ at' = [r \in Ranks |-> IF sent = <<NoTactics>> THEN "flashinfer" ELSE "load"]
  /\ UNCHANGED <<graphVars, layoutVars, file, sent, tactics, warmed>>

\* AutoTuner.load_configs from the file of the host.
Load(r) ==
  /\ Warming /\ at[r] = "load"
  /\ tactics' = [tactics EXCEPT ![r] = file[Host[r]]]
  /\ Goto(r, "flashinfer")
  /\ UNCHANGED <<graphVars, layoutVars, file, sent, warmed>>

\* flashinfer_autotune without the persistent cache: a rank tunes for itself
\* and waits in a barrier, after which it is ready to capture.
FlashinferAutotune(r) ==
  /\ Warming /\ at[r] = "flashinfer"
  /\ Goto(r, "tuned")
  /\ UNCHANGED <<graphVars, layoutVars, file, sent, tactics, warmed>>

WarmupDone ==
  /\ Warming
  /\ \A r \in Ranks : at[r] = "tuned"
  /\ stage' = "capture"
  /\ UNCHANGED <<config, mode, sizes, keys, keysReady, draftKeys, graphs, capturing, toCapture,
                 staleSlots, staleRows, kvScales, ran, failed, layoutVars, warmupVars>>

WarmupNext ==
  \/ WarmUp \/ Barrier \/ WarmupDone
  \/ \E r \in Ranks : Tune(r) \/ Broadcast(r) \/ Write(r) \/ Load(r) \/ FlashinferAutotune(r)

-----------------------------------------------------------------------------
\* When the graphs are captured every rank dispatches the sparse-MLA tactics
\* the leader tuned, though each loads a file of its own host
\* (flashinfer_autotune's docstring: "broadcast to every rank so all ranks
\* dispatch the same kernel tactic").
TacticsAgree ==
  \A r \in Ranks : at[r] = "tuned" =>
    tactics[r] = IF sent = NotSent THEN NoTactics ELSE sent[1]
=============================================================================
