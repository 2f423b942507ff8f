------------------------- MODULE WorkerStartupProofs ------------------------
(***************************************************************************)
(* Theorems of the start-up of a worker, for any ranks, hosts, shapes,     *)
(* checkpoints and configurations.                                         *)
(*                                                                         *)
(* The sparse-MLA tactics of the ranks agree, whatever the cache files     *)
(* held before and whatever the leader's tuner finds. The invariant        *)
(* follows the leader's choice on its way: it is in the file of the        *)
(* leader's host once it is sent, in the file of another host once the     *)
(* first rank there has written it, and in every file once a rank is past  *)
(* the barrier.                                                            *)
(*                                                                         *)
(* The weights of both models are in place once they are loaded. The       *)
(* invariant says of each rank that it has what it read, and nothing else. *)
(*                                                                         *)
(* What serves was captured before, on the cache that serves. The          *)
(* invariant says which keys the dispatchers have in every stage, and      *)
(* which of their graphs are there; the rest is arithmetic: a captured     *)
(* size is dispatched to itself, and the drafter's graph of any batch is   *)
(* captured with the target's of the same size.                            *)
(***************************************************************************)
EXTENDS WorkerStartup, TLAPS, FiniteSetTheorems

Labels == {"tune", "broadcast", "write", "barrier", "load", "flashinfer", "tuned"}

Tunable == Tactics \cup {NoTactics}

WarmupTypes ==
  /\ at \in [Ranks -> Labels]
  /\ file \in [Hosts -> Tunable]
  /\ sent \in {<<t>> : t \in Tunable} \cup {NotSent}
  /\ tactics \in [Ranks -> Tunable]
  /\ warmed \in BOOLEAN

\* The worker's own warm-up comes before all of this, and reading the
\* configuration before that.
BeforeTuning ==
  /\ stage = "load" => ~warmed
  /\ ~warmed => sent = NotSent /\ \A r \in Ranks : at[r] = "tune"

BeforeSending == {"tune", "broadcast"}
PastBarrier == {"load", "flashinfer", "tuned"}

\* How the ranks wait for the leader and for each other. A worker that does not
\* tune skips it all.
RanksInStep ==
  warmed =>
    IF config.autotune
    THEN /\ at[Leader] \in BeforeSending => sent = NotSent
         /\ \A r \in Ranks : sent = NotSent => at[r] \in BeforeSending
         /\ \A r \in Ranks : sent = <<NoTactics>> => at[r] \notin {"write", "load"}
         /\ \A r, q \in Ranks : at[r] \in PastBarrier => at[q] \in PastBarrier
    ELSE /\ sent = NotSent
         /\ \A r \in Ranks : at[r] \in {"tune", "flashinfer", "tuned"}

\* Where the choice has arrived.
FilesFollow ==
  sent # NotSent =>
    /\ file[Host[Leader]] = sent[1]
    /\ \A f \in FirstOnHost :
         sent # <<NoTactics>> /\ f # Leader /\ at[f] \notin BeforeSending \cup {"write"} =>
           file[Host[f]] = sent[1]

TacticsFollow ==
  \A r \in Ranks :
    tactics[r] = IF at[r] \in {"flashinfer", "tuned"} /\ sent # NotSent THEN sent[1]
                 ELSE NoTactics

WarmupInv == WarmupTypes /\ BeforeTuning /\ RanksInStep /\ FilesFollow /\ TacticsFollow

-----------------------------------------------------------------------------
\* Everything but the warm-up leaves its variables alone, and once weights and
\* configuration are read the configuration stays.
LEMMA OthersLeaveTuning ==
  ASSUME [Next]_vars, ~Warmup
  PROVE  /\ UNCHANGED warmupVars
         /\ stage' = "load" => stage = "load"
         /\ config' = config \/ stage = "load"
<1>1. CASE ConfigureEngine \/ StartWorkers \/ LoadWeights
  BY <1>1 DEF ConfigureEngine, StartWorkers, LoadWeights, workerVars, graphVars, warmupVars
<1>2. CASE ModelLoaded
  BY <1>2 DEF ModelLoaded, ReadConfig, warmupVars
<1>3. CASE Graphs
  BY <1>3 DEF Graphs, ProfileGraphMemory, ProfileCapture, EndProfile, InitializeCache,
              CaptureModel, CaptureGraph, EndCapture, Execute, warmupVars
<1>4. CASE UNCHANGED vars
  BY <1>4 DEF vars, graphVars
<1> QED
  BY <1>1, <1>2, <1>3, <1>4 DEF Next

\* A warm-up step changes the configuration of the worker never, and the stage
\* only when it is over.
LEMMA WarmupLeavesConfig ==
  ASSUME WarmupNext
  PROVE  config' = config /\ stage' \in {stage, "capture"} /\ stage = "warmup"
  BY DEF WarmupNext, WarmUp, Barrier, WarmupDone, Tune, Broadcast, Write, Load,
         FlashinferAutotune, Warming, graphVars

\* The invariant holds when the worker starts.
LEMMA WarmupInvInit == Init => WarmupInv
<1> SUFFICES ASSUME Init PROVE WarmupInv
  OBVIOUS
<1> USE DEF Init, WarmupInit, GraphInit, NotSent
<1>1. WarmupTypes
  BY DEF WarmupTypes, Labels, Tunable
<1> QED
  BY <1>1 DEF WarmupInv, BeforeTuning, RanksInStep, FilesFollow, TacticsFollow

\* Steps of the other parts, and stuttering.
LEMMA OthersKeepWarmupInv ==
  ASSUME WarmupInv, [Next]_vars, ~Warmup
  PROVE  WarmupInv'
<1>1. /\ at' = at /\ file' = file /\ sent' = sent /\ tactics' = tactics /\ warmed' = warmed
      /\ stage' = "load" => stage = "load"
      /\ config' = config \/ stage = "load"
  BY OthersLeaveTuning DEF warmupVars
<1>2. WarmupTypes' /\ BeforeTuning' /\ FilesFollow' /\ TacticsFollow'
  BY <1>1 DEF WarmupInv, WarmupTypes, BeforeTuning, FilesFollow, TacticsFollow
<1>3. RanksInStep'
  BY <1>1 DEF WarmupInv, BeforeTuning, RanksInStep
<1> QED
  BY <1>2, <1>3 DEF WarmupInv

\* This worker's own warm-up, which may find cache files of an earlier start.
LEMMA WarmUpKeepsWarmupInv ==
  ASSUME WarmupInv, WarmUp
  PROVE  WarmupInv'
<1>1. /\ ~warmed /\ at' = at /\ sent' = sent /\ tactics' = tactics /\ warmed'
      /\ sent = NotSent /\ \A r \in Ranks : at[r] = "tune"
  BY DEF WarmUp, WarmupInv, BeforeTuning
<1>2. WarmupTypes'
  BY <1>1 DEF WarmUp, WarmupInv, WarmupTypes, Tunable
<1>3. RanksInStep'
  BY <1>1, WarmupAssumption DEF WarmUp, RanksInStep, BeforeSending, PastBarrier, NotSent
<1>4. BeforeTuning'
  BY <1>1 DEF WarmUp, BeforeTuning
<1>5. FilesFollow' /\ TacticsFollow'
  BY <1>1 DEF WarmupInv, FilesFollow, TacticsFollow
<1> QED
  BY <1>2, <1>3, <1>4, <1>5 DEF WarmupInv

\* The leader is a rank, and so is the first of every host.
LEMMA LeaderIsRank == Leader \in Ranks /\ FirstOnHost \subseteq Ranks /\ Leader \in FirstOnHost
  BY WarmupAssumption

\* Tuning: the leader's file may change, before anything is sent.
LEMMA TuneKeepsWarmupInv ==
  ASSUME WarmupInv, NEW r \in Ranks, Tune(r)
  PROVE  WarmupInv'
<1> USE DEF WarmupInv, Tune, Warming, Goto
<1>1. /\ warmed /\ warmed' = warmed /\ config' = config /\ stage' = stage
      /\ sent' = sent /\ tactics' = tactics
      /\ at[r] = "tune" /\ at' = [at EXCEPT ![r] = IF config.autotune THEN "broadcast" ELSE "flashinfer"]
  BY DEF graphVars
<1>2. /\ file' \in [Hosts -> Tunable]
      /\ sent # NotSent => file' = file
  <2>1. CASE config.autotune /\ r = Leader
    <3>1. at[Leader] \in BeforeSending => sent = NotSent
      BY <1>1, <2>1 DEF RanksInStep
    <3>2. sent = NotSent
      BY <1>1, <2>1, <3>1 DEF BeforeSending
    <3>3. Host[Leader] \in Hosts
      BY LeaderIsRank DEF Hosts
    <3> QED
      BY <2>1, <3>2, <3>3 DEF WarmupTypes, Tunable
  <2>2. CASE ~(config.autotune /\ r = Leader)
    BY <2>2 DEF WarmupTypes
  <2> QED
    BY <2>1, <2>2
<1>3. WarmupTypes'
  BY <1>1, <1>2 DEF WarmupTypes, Labels
<1>4. BeforeTuning'
  BY <1>1 DEF BeforeTuning
<1>5. RanksInStep'
  <2>1. CASE config.autotune
    <3>1. \A q \in Ranks : at'[q] = IF q = r THEN "broadcast" ELSE at[q]
      BY <1>1, <2>1 DEF WarmupTypes
    <3>2. at[r] \notin PastBarrier
      BY <1>1 DEF PastBarrier
    <3> QED
      BY <1>1, <2>1, <3>1, <3>2, LeaderIsRank DEF RanksInStep, BeforeSending, PastBarrier
  <2>2. CASE ~config.autotune
    <3>1. \A q \in Ranks : at'[q] = IF q = r THEN "flashinfer" ELSE at[q]
      BY <1>1, <2>2 DEF WarmupTypes
    <3> QED
      BY <1>1, <2>2, <3>1 DEF RanksInStep
  <2> QED
    BY <2>1, <2>2
<1>6. FilesFollow'
  BY <1>1, <1>2, LeaderIsRank DEF FilesFollow, WarmupTypes, RanksInStep, BeforeSending, NotSent
<1>7. TacticsFollow'
  <2>1. ~config.autotune => sent = NotSent
    BY <1>1 DEF RanksInStep
  <2>2. \A q \in Ranks : at'[q] = IF q = r THEN IF config.autotune THEN "broadcast" ELSE "flashinfer" ELSE at[q]
    BY <1>1 DEF WarmupTypes
  <2> QED
    BY <1>1, <2>1, <2>2 DEF TacticsFollow
<1> QED
  BY <1>3, <1>4, <1>5, <1>6, <1>7

\* What is sent is a choice, in brackets.
LEMMA SentIsTuple ==
  ASSUME WarmupTypes, sent # NotSent
  PROVE  sent[1] \in Tunable /\ sent = <<sent[1]>>
  BY DEF WarmupTypes, NotSent

\* The broadcast: the leader's file is what all the others get.
LEMMA BroadcastKeepsWarmupInv ==
  ASSUME WarmupInv, NEW r \in Ranks, Broadcast(r)
  PROVE  WarmupInv'
<1> USE DEF WarmupInv, Broadcast, Warming, Goto
<1>1. /\ warmed /\ warmed' = warmed /\ config' = config /\ stage' = stage
      /\ file' = file /\ tactics' = tactics /\ at[r] = "broadcast"
      /\ at' = [at EXCEPT ![r] = IF sent' = <<NoTactics>> THEN "barrier" ELSE "write"]
  BY DEF graphVars
<1>2. config.autotune
  BY <1>1 DEF RanksInStep
<1>3. file[Host[Leader]] \in Tunable
  BY LeaderIsRank DEF WarmupTypes, Hosts
<1>4. /\ sent' # NotSent /\ sent' \in {<<t>> : t \in Tunable}
      /\ sent'[1] = file[Host[Leader]]
      /\ sent # NotSent => sent' = sent
  <2>1. CASE r = Leader
    <3>1. sent = NotSent
      BY <1>1, <1>2, <2>1 DEF RanksInStep, BeforeSending
    <3> QED
      BY <2>1, <1>3, <3>1 DEF NotSent
  <2>2. CASE r # Leader
    BY <2>2 DEF FilesFollow, WarmupTypes
  <2> QED
    BY <2>1, <2>2
<1>5. \A q \in Ranks : at'[q] = IF q = r THEN IF sent' = <<NoTactics>> THEN "barrier" ELSE "write" ELSE at[q]
  BY <1>1 DEF WarmupTypes
<1>6. WarmupTypes'
  BY <1>1, <1>4 DEF WarmupTypes, Labels
<1>7. BeforeTuning'
  BY <1>1 DEF BeforeTuning
<1>8. at'[Leader] \notin BeforeSending
  <2>1. CASE r = Leader
    BY <2>1, <1>5, LeaderIsRank DEF BeforeSending
  <2>2. CASE r # Leader
    BY <2>2, <1>1, <1>2, <1>5, LeaderIsRank DEF RanksInStep
  <2> QED
    BY <2>1, <2>2
<1>9. sent = NotSent => \A q \in Ranks : at[q] \in BeforeSending
  BY <1>1, <1>2 DEF RanksInStep
<1>10. \A q \in Ranks : at[q] \notin PastBarrier
  BY <1>1, <1>2 DEF RanksInStep, PastBarrier
<1>11. RanksInStep'
  <2>1. \A q \in Ranks : sent' = <<NoTactics>> => at'[q] \notin {"write", "load"}
    BY <1>1, <1>2, <1>4, <1>5, <1>9 DEF RanksInStep, BeforeSending
  <2>2. \A q \in Ranks : at'[q] \notin PastBarrier
    BY <1>5, <1>10 DEF PastBarrier
  <2> QED
    BY <1>1, <1>2, <1>4, <1>8, <2>1, <2>2 DEF RanksInStep
<1>12. FilesFollow'
  BY <1>1, <1>4, <1>5, <1>9, LeaderIsRank DEF FilesFollow, BeforeSending
<1>13. TacticsFollow'
  BY <1>1, <1>5, <1>10 DEF TacticsFollow, PastBarrier
<1> QED
  BY <1>6, <1>7, <1>11, <1>12, <1>13

\* A first rank writes what was sent.
LEMMA WriteKeepsWarmupInv ==
  ASSUME WarmupInv, NEW r \in Ranks, Write(r)
  PROVE  WarmupInv'
<1> USE DEF WarmupInv, Write, Warming, Goto, AfterWrite
<1>1. /\ warmed /\ warmed' = warmed /\ config' = config /\ stage' = stage
      /\ sent' = sent /\ tactics' = tactics /\ at[r] = "write"
      /\ at' = [at EXCEPT ![r] = "barrier"]
  BY DEF graphVars
<1>2. config.autotune /\ sent # NotSent /\ sent # <<NoTactics>>
  BY <1>1 DEF RanksInStep, BeforeSending
<1>3. sent[1] \in Tunable
  BY <1>2, SentIsTuple
<1>4. /\ file' \in [Hosts -> Tunable]
      /\ \A h \in Hosts : file'[h] \in {file[h], sent[1]}
      /\ r # Leader /\ r \in FirstOnHost => file'[Host[r]] = sent[1]
  <2>1. Host[r] \in Hosts
    BY DEF Hosts
  <2> QED
    BY <1>3, <2>1 DEF WarmupTypes
<1>5. \A q \in Ranks : at'[q] = IF q = r THEN "barrier" ELSE at[q]
  BY <1>1 DEF WarmupTypes
<1>6. WarmupTypes'
  BY <1>1, <1>4 DEF WarmupTypes, Labels
<1>7. BeforeTuning'
  BY <1>1 DEF BeforeTuning
<1>8. RanksInStep'
  BY <1>1, <1>2, <1>5, LeaderIsRank DEF RanksInStep, BeforeSending, PastBarrier
<1>9. FilesFollow'
  <2>1. \A f \in FirstOnHost : Host[f] \in Hosts
    BY LeaderIsRank DEF Hosts
  <2> QED
    BY <1>1, <1>2, <1>4, <1>5, <2>1, LeaderIsRank DEF FilesFollow, BeforeSending
<1>10. TacticsFollow'
  BY <1>1, <1>5 DEF TacticsFollow
<1> QED
  BY <1>6, <1>7, <1>8, <1>9, <1>10

\* All ranks leave the barrier together, when every first rank has written.
LEMMA BarrierKeepsWarmupInv ==
  ASSUME WarmupInv, Barrier
  PROVE  WarmupInv'
<1> USE DEF WarmupInv, Barrier, Warming
<1>1. /\ warmed /\ warmed' = warmed /\ config' = config /\ stage' = stage
      /\ sent' = sent /\ tactics' = tactics /\ file' = file
      /\ \A r \in Ranks : at[r] = "barrier"
  BY DEF graphVars
<1>2. config.autotune /\ sent # NotSent
  BY <1>1, LeaderIsRank DEF RanksInStep, BeforeSending
<1>3. \A r \in Ranks : at'[r] = IF sent = <<NoTactics>> THEN "flashinfer" ELSE "load"
  OBVIOUS
<1>4. WarmupTypes'
  BY <1>1 DEF WarmupTypes, Labels
<1>5. BeforeTuning'
  BY <1>1 DEF BeforeTuning
<1>6. RanksInStep'
  BY <1>1, <1>2, <1>3, LeaderIsRank DEF RanksInStep, BeforeSending, PastBarrier
<1>7. FilesFollow'
  BY <1>1, <1>3, LeaderIsRank DEF FilesFollow, BeforeSending
<1>8. TacticsFollow'
  BY <1>1, <1>2, <1>3 DEF TacticsFollow
<1> QED
  BY <1>4, <1>5, <1>6, <1>7, <1>8

\* A rank loads the file of its host, which by now holds the leader's choice.
LEMMA LoadKeepsWarmupInv ==
  ASSUME WarmupInv, NEW r \in Ranks, Load(r)
  PROVE  WarmupInv'
<1> USE DEF WarmupInv, Load, Warming, Goto
<1>1. /\ warmed /\ warmed' = warmed /\ config' = config /\ stage' = stage
      /\ sent' = sent /\ file' = file /\ at[r] = "load"
      /\ at' = [at EXCEPT ![r] = "flashinfer"]
      /\ tactics' = [tactics EXCEPT ![r] = file[Host[r]]]
  BY DEF graphVars
<1>2. config.autotune /\ sent # NotSent /\ sent # <<NoTactics>>
  BY <1>1 DEF RanksInStep, BeforeSending
<1>3. \A q \in Ranks : at[q] \in PastBarrier
  BY <1>1, <1>2 DEF RanksInStep, PastBarrier
<1>4. file[Host[r]] = sent[1]
  <2>1. PICK f \in FirstOnHost : Host[f] = Host[r]
    BY WarmupAssumption
  <2>2. at[f] \notin BeforeSending \cup {"write"}
    BY <1>3, LeaderIsRank DEF PastBarrier, BeforeSending
  <2> QED
    BY <1>2, <2>1, <2>2 DEF FilesFollow
<1>5. sent[1] \in Tunable
  BY <1>2, SentIsTuple
<1>6. \A q \in Ranks : /\ at'[q] = IF q = r THEN "flashinfer" ELSE at[q]
                       /\ tactics'[q] = IF q = r THEN sent[1] ELSE tactics[q]
  BY <1>1, <1>4 DEF WarmupTypes
<1>7. WarmupTypes'
  BY <1>1, <1>4, <1>5 DEF WarmupTypes, Labels
<1>8. BeforeTuning'
  BY <1>1 DEF BeforeTuning
<1>9. RanksInStep'
  BY <1>1, <1>2, <1>3, <1>6, LeaderIsRank DEF RanksInStep, BeforeSending, PastBarrier
<1>10. FilesFollow'
  BY <1>1, <1>6, LeaderIsRank DEF FilesFollow, BeforeSending
<1>11. TacticsFollow'
  BY <1>1, <1>2, <1>6 DEF TacticsFollow
<1> QED
  BY <1>7, <1>8, <1>9, <1>10, <1>11

\* The other kernels, and the end of the warm-up.
LEMMA RestKeepsWarmupInv ==
  ASSUME WarmupInv, WarmupDone \/ \E r \in Ranks : FlashinferAutotune(r)
  PROVE  WarmupInv'
<1> USE DEF WarmupInv, Warming
<1>1. CASE WarmupDone
  <2>1. /\ config' = config /\ stage' = "capture"
        /\ at' = at /\ file' = file /\ sent' = sent /\ tactics' = tactics /\ warmed' = warmed
    BY <1>1 DEF WarmupDone, warmupVars
  <2> QED
    BY <2>1 DEF WarmupTypes, BeforeTuning, RanksInStep, FilesFollow, TacticsFollow
<1>2. ASSUME NEW r \in Ranks, FlashinferAutotune(r)
      PROVE  WarmupInv'
  <2>1. /\ warmed /\ warmed' = warmed /\ config' = config /\ stage' = stage
        /\ sent' = sent /\ tactics' = tactics /\ file' = file /\ at[r] = "flashinfer"
        /\ at' = [at EXCEPT ![r] = "tuned"]
    BY <1>2 DEF FlashinferAutotune, Goto, graphVars
  <2>2. \A q \in Ranks : at'[q] = IF q = r THEN "tuned" ELSE at[q]
    BY <2>1 DEF WarmupTypes
  <2>3. WarmupTypes'
    BY <2>1 DEF WarmupTypes, Labels
  <2>4. BeforeTuning'
    BY <2>1 DEF BeforeTuning
  <2>5. RanksInStep'
    BY <2>1, <2>2, LeaderIsRank DEF RanksInStep, BeforeSending, PastBarrier
  <2>6. FilesFollow'
    BY <2>1, <2>2, LeaderIsRank DEF FilesFollow, BeforeSending
  <2>7. TacticsFollow'
    BY <2>1, <2>2 DEF TacticsFollow
  <2> QED
    BY <2>3, <2>4, <2>5, <2>6, <2>7
<1> QED
  BY <1>1, <1>2

\* From the start of the worker on, in every configuration, the ranks that are
\* done tuning dispatch the tactics the leader sent them, or none if nothing was
\* tuned (_flashinfer_autotune_sparse_mla in kernel_warmup.py).
THEOREM RanksAgree == Spec => []TacticsAgree
<1>1. Init => WarmupInv
  BY WarmupInvInit
<1>2. WarmupInv /\ [Next]_vars => WarmupInv'
  <2> SUFFICES ASSUME WarmupInv, [Next]_vars
               PROVE  WarmupInv'
    OBVIOUS
  <2>1. CASE Warmup
    <3>1. WarmupNext
      BY <2>1 DEF Warmup
    <3> QED
      BY <3>1, WarmUpKeepsWarmupInv, TuneKeepsWarmupInv, BroadcastKeepsWarmupInv,
         WriteKeepsWarmupInv, BarrierKeepsWarmupInv, LoadKeepsWarmupInv, RestKeepsWarmupInv
         DEF WarmupNext
  <2>2. CASE ~Warmup
    BY <2>2, OthersKeepWarmupInv
  <2> QED
    BY <2>1, <2>2
<1>3. WarmupInv => TacticsAgree
  BY DEF WarmupInv, TacticsFollow, TacticsAgree
<1> QED
  BY <1>1, <1>2, <1>3, PTL DEF Spec

-----------------------------------------------------------------------------
(* The weights of a worker.                                                *)

Passes == {"target", "mtp"}

\* The layers a rank reads tensors for, by pass.
Mine(pass, r) ==
  IF pass = "target" THEN StageLayers[r.pp]
  ELSE IF r.pp = LastStage THEN FirstDraftLayer .. FirstDraftLayer + NumDraftLayers - 1 ELSE {}

\* The layers of whose parameters it tells: of experts those of the other stages too.
Told(pass, r, kind) ==
  Mine(pass, r) \cup (IF pass = "target" /\ kind \in OfExperts THEN TargetLayers ELSE {})

Skipped(pass, kind) == pass = "mtp" /\ kind \in {"shared.w1", "shared.w3"}

\* The tensors of a kind and a layer that are a rank's, and where they belong.
Tensors(r, layer, kind) ==
  CASE kind \in Stacked ->
         {[layer |-> layer, param |-> <<StackedParam(kind)[1], "weight">>,
           place |-> <<0, StackedParam(kind)[2]>>, holds |-> <<kind, 0, "value">>]}
    [] kind = "attn_sink" -> SinkWrites(r, layer)
    [] kind \in Plain ->
         {[layer |-> layer, param |-> <<PlainParam(kind), "weight">>, place |-> <<0, 0>>,
           holds |-> <<kind, 0, "value">>]}
    [] OTHER -> ExpertWrites(r, layer, kind)

\* The parameters they are part of.
ParamsOf(kind) ==
  CASE kind \in Stacked -> {<<StackedParam(kind)[1], "weight">>}
    [] kind = "attn_sink" -> {<<"attn_sink", "weight">>}
    [] kind \in Plain -> {<<PlainParam(kind), "weight">>}
    [] OTHER -> {<<ExpertParam(kind), s>> : s \in {"weight", ScaleSuffix}}

\* Whether the tensors of a kind have been read in a pass.
Read(pass, kind) ==
  /\ kind \in Kinds /\ ~Skipped(pass, kind)
  /\ IF reading = pass THEN kind \notin unread ELSE pass = "target"

\* A rank has what it read, where it belongs, and nothing else.
Loaded(r) ==
  /\ \A w \in weights[r] : \E pass \in Passes, kind \in Kinds :
       \E l \in Mine(pass, r) : Read(pass, kind) /\ w \in Tensors(r, l, kind)
  /\ \A pass \in Passes, kind \in Kinds : \A l \in Mine(pass, r) :
       Read(pass, kind) => Tensors(r, l, kind) \subseteq weights[r]

Reported(r) ==
  /\ \A n \in reported[r] : \E pass \in Passes, kind \in Kinds :
       \E l \in Told(pass, r, kind) : Read(pass, kind) /\ \E p \in ParamsOf(kind) : n = <<l, p>>
  /\ \A pass \in Passes, kind \in Kinds : \A l \in Told(pass, r, kind) :
       Read(pass, kind) => \A p \in ParamsOf(kind) : <<l, p>> \in reported[r]

LoadInv ==
  /\ reading \in Passes /\ unread \subseteq Kinds /\ ~raised
  /\ DOMAIN weights = LoadRanks /\ DOMAIN reported = LoadRanks
  /\ \A r \in LoadRanks : Loaded(r) /\ Reported(r)

\* What the ranks share of experts and heads.
LEMMA Shares ==
  /\ LocalExperts \in Nat \ {0} /\ LocalHeads \in Nat \ {0}
  /\ \A r \in LoadRanks : r.tp \in Nat
BY LoadAssumption DEF LocalExperts, LocalHeads

\* The two passes are over different layers.
LEMMA LayersApart ==
  ASSUME NEW r \in LoadRanks
  PROVE  /\ \A l \in Mine("target", r) : l \in Nat /\ l < FirstDraftLayer
         /\ \A l \in Mine("mtp", r) : l \in Nat /\ l >= FirstDraftLayer
         /\ LayersOf(r) = Mine("target", r) \cup Mine("mtp", r)
<1>1. Mine("target", r) = StageLayers[r.pp] /\ Mine("target", r) \subseteq 0 .. FirstDraftLayer - 1
  BY LoadAssumption DEF Mine
<1>2. \A l \in Mine("mtp", r) : l \in FirstDraftLayer .. FirstDraftLayer + NumDraftLayers - 1
  BY DEF Mine
<1>3. LayersOf(r) = Mine("target", r) \cup Mine("mtp", r)
  BY DEF LayersOf, Mine
<1> QED BY <1>1, <1>2, <1>3, LoadAssumption

\* What every tensor of a kind has in common: its layer, the name of its parameter, its
\* shard or half.
Shard(kind) == CASE kind \in Stacked -> StackedParam(kind)[2]
                 [] kind \in OfExperts -> Half(kind)
                 [] OTHER -> 0
NameOf(kind) == CASE kind \in Stacked -> StackedParam(kind)[1]
                  [] kind = "attn_sink" -> "attn_sink"
                  [] kind \in Plain -> PlainParam(kind)
                  [] OTHER -> ExpertParam(kind)

LEMMA TensorIs ==
  ASSUME NEW r, NEW l, NEW kind \in Kinds, NEW w \in Tensors(r, l, kind)
  PROVE  /\ w.layer = l /\ w.holds[1] = kind
         /\ w.param[1] = NameOf(kind) /\ w.param \in ParamsOf(kind)
         /\ kind # "attn_sink" => w.place[2] = Shard(kind)
<1>1. CASE kind \in Stacked
  <2>1. w = [layer |-> l, param |-> <<StackedParam(kind)[1], "weight">>,
             place |-> <<0, StackedParam(kind)[2]>>, holds |-> <<kind, 0, "value">>]
    BY <1>1 DEF Tensors, Stacked, Plain
  <2>2. NameOf(kind) = StackedParam(kind)[1] /\ Shard(kind) = StackedParam(kind)[2]
        /\ ParamsOf(kind) = {<<StackedParam(kind)[1], "weight">>}
    BY <1>1 DEF NameOf, Shard, ParamsOf, Stacked, Plain, OfExperts
  <2> QED BY <2>1, <2>2
<1>2. CASE kind = "attn_sink"
  <2>1. w \in SinkWrites(r, l)
    BY <1>2 DEF Tensors, Stacked, Plain
  <2>2. PICK h : w = [layer |-> l, param |-> <<"attn_sink", "weight">>,
                      place |-> <<0, h - LocalHeads * r.tp>>, holds |-> <<"attn_sink", h, "value">>]
    BY <2>1 DEF SinkWrites
  <2> QED BY <1>2, <2>2 DEF NameOf, ParamsOf, Stacked, Plain
<1>3. CASE kind \in Plain
  <2>1. w = [layer |-> l, param |-> <<PlainParam(kind), "weight">>, place |-> <<0, 0>>,
             holds |-> <<kind, 0, "value">>]
    BY <1>3 DEF Tensors, Stacked, Plain
  <2>2. NameOf(kind) = PlainParam(kind) /\ Shard(kind) = 0
        /\ ParamsOf(kind) = {<<PlainParam(kind), "weight">>}
    BY <1>3 DEF NameOf, Shard, ParamsOf, Stacked, Plain, OfExperts
  <2> QED BY <2>1, <2>2
<1>4. CASE kind \in OfExperts
  <2>1. w \in ExpertWrites(r, l, kind)
    BY <1>4 DEF Tensors, Stacked, Plain, OfExperts
  <2>2. PICK x \in Experts, s \in {"weight", ScaleSuffix} :
          w = [layer |-> l, param |-> <<ExpertParam(kind), s>>,
               place |-> <<LocalExpertId(r, x), Half(kind)>>, holds |-> <<kind, x, Bits(s)>>]
    BY <2>1 DEF ExpertWrites
  <2>3. /\ NameOf(kind) = ExpertParam(kind) /\ Shard(kind) = Half(kind)
        /\ ParamsOf(kind) = {<<ExpertParam(kind), t>> : t \in {"weight", ScaleSuffix}}
    BY <1>4 DEF NameOf, Shard, ParamsOf, Stacked, Plain, OfExperts
  <2> QED BY <2>2, <2>3
<1> QED BY <1>1, <1>2, <1>3, <1>4 DEF Kinds

\* No two kinds share a place of a parameter.
LEMMA KindsApart ==
  ASSUME NEW k \in Kinds, NEW m \in Kinds, k # m, NameOf(k) = NameOf(m)
  PROVE  k # "attn_sink" /\ m # "attn_sink" /\ Shard(k) # Shard(m)
BY DEF Kinds, NameOf, Shard, Stacked, Plain, OfExperts, StackedParam, PlainParam, ExpertParam, Half

\* Every rank has an expert: the first of its part.
LEMMA OwnExpert ==
  ASSUME NEW r \in LoadRanks
  PROVE  \E x \in Experts : LocalExpertId(r, x) # -1
<1>1. /\ r.tp \in Nat /\ r.tp + 1 <= TpSize /\ TpSize \in Nat \ {0} /\ NumExperts \in Nat
      /\ LocalExperts \in Nat \ {0}
  BY Shares, LoadAssumption
<1>2. NumExperts = TpSize * LocalExperts
  <2>1. NumExperts = TpSize * (NumExperts \div TpSize) + (NumExperts % TpSize)
    BY <1>1
  <2> QED BY <1>1, <2>1, LoadAssumption DEF LocalExperts
<1>3. PICK f : f = r.tp * LocalExperts
  OBVIOUS
<1>4. f \in Nat /\ f + LocalExperts <= NumExperts
  <2>1. (r.tp + 1) * LocalExperts <= TpSize * LocalExperts
    BY <1>1
  <2>2. (r.tp + 1) * LocalExperts = f + LocalExperts
    BY <1>1, <1>3
  <2> QED BY <1>1, <1>2, <1>3, <2>1, <2>2
<1>5. f \in Experts
  BY <1>1, <1>4 DEF Experts
<1>6. LocalExpertId(r, f) = IF f < f \/ f >= f + LocalExperts THEN -1 ELSE f - f
  BY <1>3 DEF LocalExpertId
<1> QED BY <1>1, <1>4, <1>5, <1>6

\* Every rank has some tensor for each parameter of a kind.
LEMMA KindIsThere ==
  ASSUME NEW r \in LoadRanks, NEW l, NEW kind \in Kinds, NEW p \in ParamsOf(kind)
  PROVE  \E w \in Tensors(r, l, kind) : w.layer = l /\ w.param = p
<1>1. CASE kind \in Stacked
  BY <1>1 DEF Tensors, ParamsOf, Stacked, Plain
<1>2. CASE kind = "attn_sink"
  <2>1. LocalHeads * r.tp \in LocalHeads * r.tp .. LocalHeads * (r.tp + 1) - 1
    BY Shares
  <2>2. Tensors(r, l, kind) = SinkWrites(r, l) /\ p = <<"attn_sink", "weight">>
    BY <1>2 DEF Tensors, ParamsOf, Stacked, Plain
  <2>3. PICK h \in LocalHeads * r.tp .. LocalHeads * (r.tp + 1) - 1 : TRUE
    BY <2>1
  <2>4. [layer |-> l, param |-> <<"attn_sink", "weight">>, place |-> <<0, h - LocalHeads * r.tp>>,
         holds |-> <<"attn_sink", h, "value">>] \in SinkWrites(r, l)
    BY DEF SinkWrites
  <2> QED BY <2>2, <2>4
<1>3. CASE kind \in Plain
  BY <1>3 DEF Tensors, ParamsOf, Stacked, Plain
<1>4. CASE kind \in OfExperts
  <2>1. PICK x \in Experts : LocalExpertId(r, x) # -1
    BY OwnExpert
  <2>2. Tensors(r, l, kind) = ExpertWrites(r, l, kind)
    BY <1>4 DEF Tensors, Stacked, Plain, OfExperts
  <2>3. PICK s \in {"weight", ScaleSuffix} : p = <<ExpertParam(kind), s>>
    BY <1>4 DEF ParamsOf, Stacked, Plain, OfExperts
  <2>4. [layer |-> l, param |-> <<ExpertParam(kind), s>>,
         place |-> <<LocalExpertId(r, x), Half(kind)>>, holds |-> <<kind, x, Bits(s)>>]
          \in ExpertWrites(r, l, kind)
    BY <2>1 DEF ExpertWrites
  <2> QED BY <2>2, <2>3, <2>4
<1> QED BY <1>1, <1>2, <1>3, <1>4 DEF Kinds

\* What load_weights writes and reports of one kind, on a rank.
NewOf(r, kind) == UNION {WritesOf(r, l, kind) : l \in {m \in LayersRead : Present(r, m)}}
NamesOf(r, kind) ==
  {<<w.layer, w.param>> : w \in NewOf(r, kind)} \cup ReportedUnseen(kind)

\* These are the rank's tensors of the layers of this pass, and the parameters it tells of.
LEMMA NewIs ==
  ASSUME reading \in Passes, NEW r \in LoadRanks, NEW kind \in Kinds
  PROVE  /\ \A w : w \in NewOf(r, kind) <=>
              \E l \in Mine(reading, r) : ~Skipped(reading, kind) /\ w \in Tensors(r, l, kind)
         /\ \A n : n \in NamesOf(r, kind) <=>
              \E l \in Told(reading, r, kind) :
                ~Skipped(reading, kind) /\ \E p \in ParamsOf(kind) : n = <<l, p>>
<1>1. {m \in LayersRead : Present(r, m)} = Mine(reading, r)
  <2>1. CASE reading = "target"
    <3>1. r.pp \in DOMAIN StageLayers
      BY LoadAssumption
    <3> QED BY <2>1, <3>1 DEF LayersRead, TargetLayers, Present, Mine
  <2>2. CASE reading = "mtp"
    <3>1. \A m : m \in {FirstDraftLayer + s : s \in MtpStages} /\ m - FirstDraftLayer \in 0 .. NumDraftLayers - 1
                  <=> m \in FirstDraftLayer .. FirstDraftLayer + NumDraftLayers - 1
      <4>1. ASSUME NEW m \in FirstDraftLayer .. FirstDraftLayer + NumDraftLayers - 1
            PROVE  m \in {FirstDraftLayer + s : s \in MtpStages}
        <5>1. m - FirstDraftLayer \in MtpStages /\ m = FirstDraftLayer + (m - FirstDraftLayer)
          BY LoadAssumption
        <5> QED BY <5>1
      <4>2. \A s \in MtpStages : FirstDraftLayer + s \in Nat
        BY LoadAssumption
      <4> QED BY <4>1, <4>2, LoadAssumption
    <3> QED BY <2>2, <3>1 DEF LayersRead, Present, Mine
  <2> QED BY <2>1, <2>2 DEF Passes
<1>2. ASSUME NEW l
      PROVE  WritesOf(r, l, kind) = IF Skipped(reading, kind) THEN {} ELSE Tensors(r, l, kind)
  <2>1. Unknown(kind) <=> Skipped(reading, kind)
    BY DEF Unknown, Skipped
  <2>2. CASE Unknown(kind)
    <3>1. kind \in Stacked /\ kind \notin Plain /\ kind # "attn_sink"
      BY <2>2 DEF Unknown, Stacked, Plain
    <3> QED BY <2>1, <2>2, <3>1 DEF WritesOf
  <2>3. CASE ~Unknown(kind)
    <3>1. CASE kind \in Stacked
      BY <2>1, <2>3, <3>1 DEF WritesOf, Tensors, Stacked, Plain
    <3>2. CASE kind = "attn_sink"
      BY <2>1, <2>3, <3>2 DEF WritesOf, Tensors, Stacked, Plain
    <3>3. CASE kind \in Plain
      BY <2>1, <2>3, <3>3 DEF WritesOf, Tensors, Stacked, Plain
    <3>4. CASE kind \notin Stacked \cup Plain \cup {"attn_sink"}
      BY <2>1, <2>3, <3>4 DEF WritesOf, Tensors
    <3> QED BY <3>1, <3>2, <3>3, <3>4
  <2> QED BY <2>2, <2>3
<1>3. \A w : w \in NewOf(r, kind) <=>
         \E l \in Mine(reading, r) : ~Skipped(reading, kind) /\ w \in Tensors(r, l, kind)
  BY <1>1, <1>2 DEF NewOf
<1>4. \A n : n \in {<<w.layer, w.param>> : w \in NewOf(r, kind)} <=>
              \E l \in Mine(reading, r) :
                ~Skipped(reading, kind) /\ \E p \in ParamsOf(kind) : n = <<l, p>>
  <2>1. \A w, l : w \in Tensors(r, l, kind) => w.layer = l /\ w.param \in ParamsOf(kind)
    BY TensorIs
  <2>2. \A l, p : p \in ParamsOf(kind) => \E w \in Tensors(r, l, kind) : w.layer = l /\ w.param = p
    BY KindIsThere
  <2> QED BY <1>3, <2>1, <2>2
<1>5. \A n : n \in ReportedUnseen(kind) <=>
         \E l \in IF reading = "target" /\ kind \in OfExperts THEN TargetLayers ELSE {} :
           ~Skipped(reading, kind) /\ \E p \in ParamsOf(kind) : n = <<l, p>>
  <2>1. CASE reading = "target" /\ kind \in OfExperts
    <3>1. /\ ParamsOf(kind) = {<<ExpertParam(kind), s>> : s \in {"weight", ScaleSuffix}}
          /\ ~Skipped(reading, kind)
      BY <2>1 DEF ParamsOf, Skipped, OfExperts, Stacked, Plain
    <3>2. ReportedUnseen(kind) = {<<l, <<ExpertParam(kind), s>>>> :
                                    l \in TargetLayers, s \in {"weight", ScaleSuffix}}
      BY <2>1 DEF ReportedUnseen, LayersRead
    <3> QED BY <2>1, <3>1, <3>2
  <2>2. CASE ~(reading = "target" /\ kind \in OfExperts)
    <3>1. ReportedUnseen(kind) = {}
      BY <2>2 DEF ReportedUnseen
    <3> QED BY <2>2, <3>1
  <2> QED BY <2>1, <2>2
<1>6. Told(reading, r, kind) = Mine(reading, r) \cup
        (IF reading = "target" /\ kind \in OfExperts THEN TargetLayers ELSE {})
  BY DEF Told
<1>7. \A n : n \in NamesOf(r, kind) <=>
              \E l \in Told(reading, r, kind) :
                ~Skipped(reading, kind) /\ \E p \in ParamsOf(kind) : n = <<l, p>>
  BY <1>4, <1>5, <1>6 DEF NamesOf
<1> QED BY <1>3, <1>7

\* The parameters named are parameters of the layer: the scales have the name the
\* quantization method gave them.
LEMMA ParamsThere ==
  ASSUME NEW kind \in Kinds
  PROVE  ParamsOf(kind) \subseteq LayerParams
<1>1. ScaleSuffix = ScaleName
  BY DEF ScaleSuffix, ScaleName
<1>2. CASE kind \in Stacked
  BY <1>2 DEF ParamsOf, LayerParams, Stacked, Plain, StackedParam
<1>3. CASE kind = "attn_sink"
  BY <1>3 DEF ParamsOf, LayerParams, Stacked, Plain
<1>4. CASE kind \in Plain
  BY <1>4 DEF ParamsOf, LayerParams, Stacked, Plain, PlainParam
<1>5. CASE kind \in OfExperts
  BY <1>1, <1>5 DEF ParamsOf, LayerParams, ExpertParams, Stacked, Plain, OfExperts, ExpertParam
<1> QED BY <1>2, <1>3, <1>4, <1>5 DEF Kinds

\* Tensors of one more kind are added to those a rank has, and overwrite none.
LEMMA TensorsKeep ==
  ASSUME LoadInv, NEW kind \in Kinds, LoadTensors(kind)
  PROVE  LoadInv'
<1>1. /\ kind \in unread /\ ~raised /\ reading \in Passes /\ unread \subseteq Kinds
      /\ unread' = unread \ {kind} /\ reading' = reading
  BY DEF LoadTensors, LoadInv
<1>2. /\ weights' = [r \in LoadRanks |->
            {w \in weights[r] : \A n \in NewOf(r, kind) :
               ~(w.layer = n.layer /\ w.param = n.param /\ w.place = n.place)} \cup NewOf(r, kind)]
      /\ reported' = [r \in LoadRanks |-> reported[r] \cup NamesOf(r, kind)]
      /\ raised' = \E r \in LoadRanks : \E w \in NewOf(r, kind) : w.param \notin LayerParams
  BY DEF LoadTensors, NewOf, NamesOf
<1>3. \A pass, k : Read(pass, k)' <=>
         Read(pass, k) \/ (pass = reading /\ k = kind /\ ~Skipped(pass, kind))
  BY <1>1 DEF Read
<1>4. ~Read(reading, kind)
  BY <1>1 DEF Read
<1>5. ~raised'
  <2> SUFFICES ASSUME NEW r \in LoadRanks, NEW w \in NewOf(r, kind) PROVE w.param \in LayerParams
    BY <1>2
  <2>1. PICK l : w \in Tensors(r, l, kind)
    BY <1>1, NewIs
  <2>2. w.param \in ParamsOf(kind)
    BY <2>1, TensorIs
  <2> QED BY <2>2, ParamsThere
<1>6. ASSUME NEW r \in LoadRanks PROVE Loaded(r)' /\ Reported(r)'
  <2>1. Loaded(r) /\ Reported(r)
    BY DEF LoadInv
  <2>2. /\ \A w : w \in NewOf(r, kind) <=>
              \E l \in Mine(reading, r) : ~Skipped(reading, kind) /\ w \in Tensors(r, l, kind)
        /\ \A n : n \in NamesOf(r, kind) <=>
              \E l \in Told(reading, r, kind) :
                ~Skipped(reading, kind) /\ \E p \in ParamsOf(kind) : n = <<l, p>>
    BY <1>1, NewIs
  <2>3. ASSUME NEW w \in weights[r], NEW n \in NewOf(r, kind), w.layer = n.layer,
               w.param = n.param, w.place = n.place
        PROVE  FALSE
    <3>0. PICK pass \in Passes, k \in Kinds :
            \E l \in Mine(pass, r) : Read(pass, k) /\ w \in Tensors(r, l, k)
      BY <2>1 DEF Loaded
    <3>1. PICK l \in Mine(pass, r) : Read(pass, k) /\ w \in Tensors(r, l, k)
      BY <3>0
    <3>2. PICK m \in Mine(reading, r) : n \in Tensors(r, m, kind)
      BY <2>2
    <3>3. /\ w.layer = l /\ w.param[1] = NameOf(k)
          /\ k # "attn_sink" => w.place[2] = Shard(k)
      BY <3>1, TensorIs
    <3>4. /\ n.layer = m /\ n.param[1] = NameOf(kind)
          /\ kind # "attn_sink" => n.place[2] = Shard(kind)
      BY <3>2, TensorIs
    <3>5. pass = reading
      <4>1. l = m
        BY <2>3, <3>3, <3>4
      <4>2. /\ \A x \in Mine("target", r) : x \in Nat /\ x < FirstDraftLayer
            /\ \A x \in Mine("mtp", r) : x \in Nat /\ x >= FirstDraftLayer
        BY LayersApart
      <4>3. \A x : ~(x \in Mine("target", r) /\ x \in Mine("mtp", r))
        BY <4>2, LoadAssumption
      <4> QED BY <1>1, <4>1, <4>3 DEF Passes
    <3>6. k # kind
      BY <1>4, <3>1, <3>5
    <3> QED BY <2>3, <3>3, <3>4, <3>6, KindsApart
  <2>4. weights'[r] = weights[r] \cup NewOf(r, kind)
    BY <1>2, <2>3
  <2>5. reported'[r] = reported[r] \cup NamesOf(r, kind)
    BY <1>2
  <2>6. Loaded(r)'
    <3>1. ASSUME NEW w \in weights'[r]
          PROVE  \E pass \in Passes, k \in Kinds :
                   \E l \in Mine(pass, r) : Read(pass, k)' /\ w \in Tensors(r, l, k)
      <4>1. CASE w \in weights[r]
        BY <1>3, <2>1, <4>1 DEF Loaded
      <4>2. CASE w \in NewOf(r, kind)
        BY <1>1, <1>3, <2>2, <4>2
      <4> QED BY <2>4, <4>1, <4>2
    <3>2. ASSUME NEW pass \in Passes, NEW k \in Kinds, NEW l \in Mine(pass, r), Read(pass, k)'
          PROVE  Tensors(r, l, k) \subseteq weights'[r]
      <4>1. CASE Read(pass, k)
        BY <2>1, <2>4, <4>1 DEF Loaded
      <4>2. CASE pass = reading /\ k = kind /\ ~Skipped(pass, kind)
        BY <2>2, <2>4, <4>2
      <4> QED BY <1>3, <3>2, <4>1, <4>2
    <3> QED BY <3>1, <3>2 DEF Loaded
  <2>7. Reported(r)'
    <3>1. ASSUME NEW n \in reported'[r]
          PROVE  \E pass \in Passes, k \in Kinds : \E l \in Told(pass, r, k) :
                   Read(pass, k)' /\ \E p \in ParamsOf(k) : n = <<l, p>>
      <4>1. CASE n \in reported[r]
        BY <1>3, <2>1, <4>1 DEF Reported
      <4>2. CASE n \in NamesOf(r, kind)
        BY <1>1, <1>3, <2>2, <4>2
      <4> QED BY <2>5, <4>1, <4>2
    <3>2. ASSUME NEW pass \in Passes, NEW k \in Kinds, NEW l \in Told(pass, r, k), Read(pass, k)',
                 NEW p \in ParamsOf(k)
          PROVE  <<l, p>> \in reported'[r]
      <4>1. CASE Read(pass, k)
        BY <2>1, <2>5, <4>1 DEF Reported
      <4>2. CASE pass = reading /\ k = kind /\ ~Skipped(pass, kind)
        BY <2>2, <2>5, <4>2
      <4> QED BY <1>3, <3>2, <4>1, <4>2
    <3> QED BY <3>1, <3>2 DEF Reported
  <2> QED BY <2>6, <2>7
<1>7. DOMAIN weights' = LoadRanks /\ DOMAIN reported' = LoadRanks
  BY <1>2
<1> QED BY <1>1, <1>5, <1>6, <1>7 DEF LoadInv

\* A pass begins when the one before it is over; nothing is read twice.
LEMMA NextModelKeeps ==
  ASSUME LoadInv, NextModel
  PROVE  LoadInv'
<1>1. /\ reading = "target" /\ unread = {} /\ reading' = "mtp" /\ unread' = Kinds /\ ~raised'
      /\ UNCHANGED <<weights, reported>>
  BY DEF NextModel
<1>2. \A pass \in Passes, k \in Kinds : Read(pass, k)' <=> Read(pass, k)
  BY <1>1 DEF Read, Passes, Skipped
<1>3. ASSUME NEW r \in LoadRanks PROVE Loaded(r)' /\ Reported(r)'
  <2>1. Loaded(r) /\ Reported(r)
    BY DEF LoadInv
  <2>2. Loaded(r)'
    BY <1>1, <1>2, <2>1 DEF Loaded
  <2>3. Reported(r)'
    BY <1>1, <1>2, <2>1 DEF Reported
  <2> QED BY <2>2, <2>3
<1> QED BY <1>1, <1>3 DEF LoadInv, Passes

\* What a rank has of a layer in the end: the tensors of each kind, if the pass over it
\* loads the kind, and only those.
LEMMA LayerHas ==
  ASSUME LoadInv, reading = "mtp", unread = {}, NEW r \in LoadRanks, NEW l \in LayersOf(r),
         NEW kind \in Kinds
  PROVE  {w \in weights[r] : w.layer = l /\ w.holds[1] = kind} =
           IF l >= FirstDraftLayer /\ kind \in {"shared.w1", "shared.w3"} THEN {}
           ELSE Tensors(r, l, kind)
<1>1. Loaded(r)
  BY DEF LoadInv
<1>2. PICK pass \in Passes :
        /\ l \in Mine(pass, r) /\ pass = (IF l >= FirstDraftLayer THEN "mtp" ELSE "target")
        /\ \A p \in Passes : l \in Mine(p, r) => p = pass
  <2>1. /\ \A x \in Mine("target", r) : x \in Nat /\ x < FirstDraftLayer
        /\ \A x \in Mine("mtp", r) : x \in Nat /\ x >= FirstDraftLayer
        /\ LayersOf(r) = Mine("target", r) \cup Mine("mtp", r)
    BY LayersApart
  <2>2. CASE l \in Mine("target", r)
    <3>1. l < FirstDraftLayer /\ l \in Nat /\ ~(l >= FirstDraftLayer)
      BY <2>1, <2>2, LoadAssumption
    <3>2. l \notin Mine("mtp", r)
      BY <2>1, <3>1
    <3> QED BY <2>2, <3>1, <3>2 DEF Passes
  <2>3. CASE l \in Mine("mtp", r)
    <3>1. l >= FirstDraftLayer
      BY <2>1, <2>3
    <3>2. l \notin Mine("target", r)
      BY <2>1, <3>1, LoadAssumption
    <3> QED BY <2>3, <3>1, <3>2 DEF Passes
  <2> QED BY <2>1, <2>2, <2>3
<1>3. \A p \in Passes, k \in Kinds : Read(p, k) <=> ~Skipped(p, k)
  BY DEF Read, Passes
<1>4. ASSUME NEW w \in weights[r], w.layer = l, w.holds[1] = kind
      PROVE  ~Skipped(pass, kind) /\ w \in Tensors(r, l, kind)
  <2>1. PICK p \in Passes, k \in Kinds : \E m \in Mine(p, r) : Read(p, k) /\ w \in Tensors(r, m, k)
    BY <1>1 DEF Loaded
  <2>2. PICK m \in Mine(p, r) : Read(p, k) /\ w \in Tensors(r, m, k)
    BY <2>1
  <2>3. m = l /\ k = kind
    BY <1>4, <2>2, TensorIs
  <2> QED BY <1>2, <1>3, <2>2, <2>3
<1>5. ASSUME ~Skipped(pass, kind), NEW w \in Tensors(r, l, kind)
      PROVE  w \in weights[r] /\ w.layer = l /\ w.holds[1] = kind
  BY <1>1, <1>2, <1>3, <1>5, TensorIs DEF Loaded
<1>6. Skipped(pass, kind) <=> l >= FirstDraftLayer /\ kind \in {"shared.w1", "shared.w3"}
  BY <1>2 DEF Skipped
<1> QED BY <1>4, <1>5, <1>6

\* An expert is one of a rank's if its number is in the rank's part, and each of its
\* tensors comes with a scale.
LEMMA ExpertsHeld ==
  ASSUME NEW r \in LoadRanks, NEW l, NEW kind \in OfExperts, NEW x \in Experts
  PROVE  Cardinality({w \in Tensors(r, l, kind) : w.holds[2] = x}) =
           IF x \in LocalPart(r, LocalExperts) THEN 2 ELSE 0
<1>1. Tensors(r, l, kind) = ExpertWrites(r, l, kind)
  BY DEF Tensors, OfExperts, Stacked, Plain
<1>2. r.tp \in Nat /\ LocalExperts \in Nat \ {0} /\ x \in Nat
  BY Shares DEF Experts
<1>3. LocalExpertId(r, x) # -1 <=> x \in LocalPart(r, LocalExperts)
  <2>1. PICK f : f = r.tp * LocalExperts
    OBVIOUS
  <2>2. f \in Nat /\ (r.tp + 1) * LocalExperts = f + LocalExperts
    BY <1>2, <2>1
  <2>3. x \in LocalPart(r, LocalExperts) <=> f <= x /\ x < f + LocalExperts
    BY <1>2, <2>1, <2>2 DEF LocalPart
  <2>4. LocalExpertId(r, x) = IF x < f \/ x >= f + LocalExperts THEN -1 ELSE x - f
    BY <2>1 DEF LocalExpertId
  <2> QED BY <1>2, <2>2, <2>3, <2>4
<1> DEFINE record(s) ==
      [layer |-> l, param |-> <<ExpertParam(kind), s>>, place |-> <<LocalExpertId(r, x), Half(kind)>>,
       holds |-> <<kind, x, Bits(s)>>]
<1>4. {w \in Tensors(r, l, kind) : w.holds[2] = x} =
        IF LocalExpertId(r, x) # -1 THEN {record("weight"), record(ScaleSuffix)} ELSE {}
  <2>1. ASSUME NEW w \in Tensors(r, l, kind), w.holds[2] = x
        PROVE  LocalExpertId(r, x) # -1 /\ w \in {record("weight"), record(ScaleSuffix)}
    <3>1. PICK y \in Experts, s \in {"weight", ScaleSuffix} :
            /\ LocalExpertId(r, y) # -1
            /\ w = [layer |-> l, param |-> <<ExpertParam(kind), s>>,
                    place |-> <<LocalExpertId(r, y), Half(kind)>>, holds |-> <<kind, y, Bits(s)>>]
      BY <1>1 DEF ExpertWrites
    <3>2. y = x
      BY <2>1, <3>1
    <3> QED BY <3>1, <3>2
  <2>2. ASSUME LocalExpertId(r, x) # -1, NEW s \in {"weight", ScaleSuffix}
        PROVE  record(s) \in Tensors(r, l, kind) /\ record(s).holds[2] = x
    <3>1. record(s) \in ExpertWrites(r, l, kind)
      BY <2>2 DEF ExpertWrites
    <3>2. record(s).holds[2] = x
      OBVIOUS
    <3> QED BY <1>1, <3>1, <3>2
  <2> QED BY <2>1, <2>2
<1>5. record("weight") # record(ScaleSuffix)
  <2>1. record("weight").param # record(ScaleSuffix).param
    BY DEF ScaleSuffix
  <2> QED BY <2>1
<1> HIDE DEF record
<1>6. Cardinality({}) = 0 /\ Cardinality({record("weight"), record(ScaleSuffix)}) = 2
  <2>1. IsFiniteSet({record(ScaleSuffix)}) /\ Cardinality({record(ScaleSuffix)}) = 1
    BY FS_Singleton
  <2>2. {record("weight"), record(ScaleSuffix)} = {record(ScaleSuffix)} \cup {record("weight")}
    OBVIOUS
  <2>3. Cardinality({record(ScaleSuffix)} \cup {record("weight")}) = 2
    BY <1>5, <2>1, FS_AddElement
  <2> QED BY <2>2, <2>3, FS_EmptySet
<1> QED BY <1>3, <1>4, <1>6

\* A head's sink is one of a rank's if the head is in the rank's part.
LEMMA SinksHeld ==
  ASSUME NEW r \in LoadRanks, NEW l, NEW h \in Heads
  PROVE  Cardinality({w \in Tensors(r, l, "attn_sink") : w.holds[2] = h}) =
           IF h \in LocalPart(r, LocalHeads) THEN 1 ELSE 0
<1>1. Tensors(r, l, "attn_sink") = SinkWrites(r, l)
  BY DEF Tensors, Stacked, Plain
<1>2. LocalPart(r, LocalHeads) = LocalHeads * r.tp .. LocalHeads * (r.tp + 1) - 1
  <2>1. LocalHeads * r.tp = r.tp * LocalHeads /\ LocalHeads * (r.tp + 1) = (r.tp + 1) * LocalHeads
    BY Shares
  <2> QED BY <2>1 DEF LocalPart
<1> DEFINE record ==
      [layer |-> l, param |-> <<"attn_sink", "weight">>, place |-> <<0, h - LocalHeads * r.tp>>,
       holds |-> <<"attn_sink", h, "value">>]
<1>3. {w \in Tensors(r, l, "attn_sink") : w.holds[2] = h} =
        IF h \in LocalPart(r, LocalHeads) THEN {record} ELSE {}
  BY <1>1, <1>2 DEF SinkWrites
<1> HIDE DEF record
<1> QED BY <1>3, FS_EmptySet, FS_Singleton

\* Each tensor is in a place its parameter has.
LEMMA PlacesThere ==
  ASSUME NEW r \in LoadRanks, NEW l, NEW kind \in Kinds, NEW w \in Tensors(r, l, kind)
  PROVE  w.place[1] \in 0 .. LocalExperts - 1
<1>1. 0 \in 0 .. LocalExperts - 1
  BY Shares
<1>2. CASE kind \notin OfExperts
  <2>1. w.place[1] = 0
    BY <1>2 DEF Tensors, SinkWrites, Kinds, OfExperts, Stacked, Plain
  <2> QED BY <1>1, <2>1
<1>3. CASE kind \in OfExperts
  <2>1. PICK x \in Experts : LocalExpertId(r, x) # -1 /\ w.place[1] = LocalExpertId(r, x)
    <3>1. w \in ExpertWrites(r, l, kind)
      BY <1>3 DEF Tensors, OfExperts, Stacked, Plain
    <3> QED BY <3>1 DEF ExpertWrites
  <2>2. PICK f : f = r.tp * LocalExperts
    OBVIOUS
  <2>3. f \in Nat /\ x \in Nat /\ LocalExperts \in Nat
    BY <2>2, Shares DEF Experts
  <2>4. LocalExpertId(r, x) = IF x < f \/ x >= f + LocalExperts THEN -1 ELSE x - f
    BY <2>2 DEF LocalExpertId
  <2> QED BY <2>1, <2>3, <2>4
<1> QED BY <1>2, <1>3

\* Tensors that are alone in their place are there once.
LEMMA PlainHeld ==
  ASSUME NEW r \in LoadRanks, NEW l, NEW kind \in Plain \cup Stacked
  PROVE  Cardinality({w \in Tensors(r, l, kind) : w.holds[2] = 0}) = 1
<1>1. PICK w : Tensors(r, l, kind) = {w} /\ w.holds[2] = 0
  <2>1. CASE kind \in Stacked
    <3>1. PICK w : w = [layer |-> l, param |-> <<StackedParam(kind)[1], "weight">>,
                        place |-> <<0, StackedParam(kind)[2]>>, holds |-> <<kind, 0, "value">>]
      OBVIOUS
    <3>2. Tensors(r, l, kind) = {w}
      BY <2>1, <3>1 DEF Tensors, Stacked, Plain
    <3> QED BY <3>1, <3>2
  <2>2. CASE kind \in Plain
    <3>1. PICK w : w = [layer |-> l, param |-> <<PlainParam(kind), "weight">>, place |-> <<0, 0>>,
                        holds |-> <<kind, 0, "value">>]
      OBVIOUS
    <3>2. Tensors(r, l, kind) = {w}
      BY <2>2, <3>1 DEF Tensors, Stacked, Plain
    <3> QED BY <3>1, <3>2
  <2> QED BY <2>1, <2>2
<1>2. {v \in Tensors(r, l, kind) : v.holds[2] = 0} = {w}
  BY <1>1
<1> QED BY <1>2, FS_Singleton

\* Between them the kinds are part of every parameter of a layer.
LEMMA ParamsOfKinds ==
  /\ LayerParams = UNION {ParamsOf(kind) : kind \in Kinds}
  /\ ExpertParams = UNION {ParamsOf(kind) : kind \in OfExperts}
  /\ \A l : Loadable(l) = UNION {ParamsOf(kind) : kind \in
              {k \in Kinds : ~(l >= FirstDraftLayer /\ k \in {"shared.w1", "shared.w3"})}}
<1>1. /\ ParamsOf("shared.w1") = {<<"gate_up_proj", "weight">>}
      /\ ParamsOf("shared.w3") = {<<"gate_up_proj", "weight">>}
      /\ ParamsOf("wq_a") = {<<"fused_wqa_wkv", "weight">>}
      /\ ParamsOf("wkv") = {<<"fused_wqa_wkv", "weight">>}
  BY DEF ParamsOf, StackedParam, Stacked, Plain
<1>2. /\ ParamsOf("shared.w2") = {<<"down_proj", "weight">>}
      /\ ParamsOf("gate.bias") = {<<"e_score_correction_bias", "weight">>}
      /\ ParamsOf("attn_sink") = {<<"attn_sink", "weight">>}
  BY DEF ParamsOf, PlainParam, Stacked, Plain
<1>3. /\ ParamsOf("w1") = {<<"w13", s>> : s \in {"weight", ScaleName}}
      /\ ParamsOf("w2") = {<<"w2", s>> : s \in {"weight", ScaleName}}
      /\ ParamsOf("w3") = {<<"w13", s>> : s \in {"weight", ScaleName}}
  BY DEF ParamsOf, ExpertParam, Stacked, Plain, ScaleSuffix, ScaleName
<1>4. Kinds = {"shared.w1", "shared.w3", "wq_a", "wkv", "shared.w2", "gate.bias", "w1", "w2", "w3",
               "attn_sink"}
  BY DEF Kinds, Stacked, Plain, OfExperts
<1>5. \A p : p \in LayerParams <=>
         \/ p \in {<<q, "weight">> :
              q \in {"gate_up_proj", "down_proj", "fused_wqa_wkv", "attn_sink",
                     "e_score_correction_bias"}}
         \/ \E s \in {"weight", ScaleName} : p = <<"w13", s>> \/ p = <<"w2", s>>
  BY DEF LayerParams, ExpertParams
<1>6. \A p : p \in LayerParams <=> \E kind \in Kinds : p \in ParamsOf(kind)
  BY <1>1, <1>2, <1>3, <1>4, <1>5
<1>7. \A p, kind : kind \in Kinds /\ p \in ParamsOf(kind) =>
         (p = <<"gate_up_proj", "weight">> <=> kind \in {"shared.w1", "shared.w3"})
  BY <1>1, <1>2, <1>3, <1>4
<1>8. \A l, p : p \in Loadable(l) <=>
         p \in LayerParams /\ ~(l >= FirstDraftLayer /\ p = <<"gate_up_proj", "weight">>)
  BY DEF Loadable
<1>9. \A p : p \in ExpertParams <=> \E kind \in OfExperts : p \in ParamsOf(kind)
  BY <1>3 DEF ExpertParams, OfExperts
<1> QED BY <1>6, <1>7, <1>8, <1>9

\* Once both passes are over, everything is where the model looks for it.
LEMMA LoadedInPlace == LoadInv => WeightsInPlace
<1> SUFFICES ASSUME LoadInv PROVE WeightsInPlace
  OBVIOUS
<1>1. ~raised
  BY DEF LoadInv
<1>2. ASSUME reading = "mtp", unread = {}, NEW r \in LoadRanks, NEW l \in LayersOf(r)
      PROVE  /\ \A t \in Plain \cup {"wq_a", "wkv"} :
                  Cardinality({w \in {v \in weights[r] : v.layer = l} :
                                 w.holds[1] = t /\ w.holds[2] = 0}) = 1
             /\ <<"gate_up_proj", "weight">> \in Loadable(l) =>
                  \A t \in {"shared.w1", "shared.w3"} :
                    Cardinality({w \in {v \in weights[r] : v.layer = l} :
                                   w.holds[1] = t /\ w.holds[2] = 0}) = 1
             /\ \A h \in Heads :
                  Cardinality({w \in {v \in weights[r] : v.layer = l} :
                                 w.holds[1] = "attn_sink" /\ w.holds[2] = h}) =
                    IF h \in LocalPart(r, LocalHeads) THEN 1 ELSE 0
             /\ \A x \in Experts, t \in OfExperts :
                  Cardinality({w \in {v \in weights[r] : v.layer = l} :
                                 w.holds[1] = t /\ w.holds[2] = x}) =
                    IF x \in LocalPart(r, LocalExperts) THEN 2 ELSE 0
             /\ \A w \in {v \in weights[r] : v.layer = l} : w.place[1] \in 0 .. LocalExperts - 1
             /\ \E w \in weights[r] : w.layer = l
  <2>1. ASSUME NEW t \in Kinds, ~(l >= FirstDraftLayer /\ t \in {"shared.w1", "shared.w3"}), NEW n
        PROVE  {w \in {v \in weights[r] : v.layer = l} : w.holds[1] = t /\ w.holds[2] = n} =
                 {w \in Tensors(r, l, t) : w.holds[2] = n}
    <3>1. {w \in weights[r] : w.layer = l /\ w.holds[1] = t} = Tensors(r, l, t)
      BY <1>2, <2>1, LayerHas
    <3> QED BY <3>1
  <2>2. /\ Plain \cup {"wq_a", "wkv"} \subseteq Kinds \cap (Plain \cup Stacked)
        /\ \A t \in Plain \cup {"wq_a", "wkv"} \cup OfExperts \cup {"attn_sink"} :
             t \notin {"shared.w1", "shared.w3"}
        /\ {"shared.w1", "shared.w3"} \subseteq Kinds \cap Stacked
        /\ OfExperts \cup {"attn_sink"} \subseteq Kinds
    BY DEF Kinds, Plain, Stacked, OfExperts
  <2>3. ASSUME NEW t \in Plain \cup {"wq_a", "wkv"}
        PROVE  Cardinality({w \in {v \in weights[r] : v.layer = l} :
                              w.holds[1] = t /\ w.holds[2] = 0}) = 1
    <3>1. t \in Kinds /\ t \in Plain \cup Stacked /\ t \notin {"shared.w1", "shared.w3"}
      BY <2>2
    <3> QED BY <2>1, <3>1, PlainHeld
  <2>4. ASSUME <<"gate_up_proj", "weight">> \in Loadable(l), NEW t \in {"shared.w1", "shared.w3"}
        PROVE  Cardinality({w \in {v \in weights[r] : v.layer = l} :
                              w.holds[1] = t /\ w.holds[2] = 0}) = 1
    <3>1. ~(l >= FirstDraftLayer)
      BY <2>4 DEF Loadable
    <3> QED BY <2>1, <2>2, <3>1, PlainHeld
  <2>5. ASSUME NEW h \in Heads
        PROVE  Cardinality({w \in {v \in weights[r] : v.layer = l} :
                              w.holds[1] = "attn_sink" /\ w.holds[2] = h}) =
                 IF h \in LocalPart(r, LocalHeads) THEN 1 ELSE 0
    BY <2>1, <2>2, SinksHeld
  <2>6. ASSUME NEW x \in Experts, NEW t \in OfExperts
        PROVE  Cardinality({w \in {v \in weights[r] : v.layer = l} :
                              w.holds[1] = t /\ w.holds[2] = x}) =
                 IF x \in LocalPart(r, LocalExperts) THEN 2 ELSE 0
    BY <2>1, <2>2, ExpertsHeld
  <2>7. ASSUME NEW w \in weights[r], w.layer = l
        PROVE  w.place[1] \in 0 .. LocalExperts - 1
    <3>1. PICK pass \in Passes, k \in Kinds : \E m \in Mine(pass, r) : w \in Tensors(r, m, k)
      BY DEF LoadInv, Loaded
    <3> QED BY <3>1, PlacesThere
  <2>8. \E w \in weights[r] : w.layer = l
    <3>1. {w \in weights[r] : w.layer = l /\ w.holds[1] = "wkv"} = Tensors(r, l, "wkv")
      BY <1>2, <2>2, LayerHas
    <3>2. \E w : w \in Tensors(r, l, "wkv")
      BY DEF Tensors, Stacked, Plain
    <3> QED BY <3>1, <3>2
  <2> QED BY <2>3, <2>4, <2>5, <2>6, <2>7, <2>8
<1>3. ASSUME reading = "mtp", unread = {}, NEW r \in LoadRanks
      PROVE  /\ {w.layer : w \in weights[r]} = LayersOf(r)
             /\ reported[r] = ToReport(r)
  <2>1. Loaded(r) /\ Reported(r)
    BY DEF LoadInv
  <2>2. /\ \A x \in Mine("target", r) : x \in Nat /\ x < FirstDraftLayer
        /\ \A x \in Mine("mtp", r) : x \in Nat /\ x >= FirstDraftLayer
        /\ LayersOf(r) = Mine("target", r) \cup Mine("mtp", r)
    BY LayersApart
  <2>3. \A p \in Passes, k \in Kinds : Read(p, k) <=> ~Skipped(p, k)
    BY <1>3 DEF Read, Passes
  <2>4. \A w \in weights[r] : w.layer \in LayersOf(r)
    <3> SUFFICES ASSUME NEW w \in weights[r] PROVE w.layer \in LayersOf(r)
      OBVIOUS
    <3>1. PICK pass \in Passes, k \in Kinds : \E m \in Mine(pass, r) : w \in Tensors(r, m, k)
      BY <2>1 DEF Loaded
    <3>2. PICK m \in Mine(pass, r) : w \in Tensors(r, m, k)
      BY <3>1
    <3>3. w.layer = m
      BY <3>2, TensorIs
    <3> QED BY <2>2, <3>3 DEF Passes
  <2>5. {w.layer : w \in weights[r]} = LayersOf(r)
    <3>1. \A l \in LayersOf(r) : \E w \in weights[r] : w.layer = l
      BY <1>2, <1>3
    <3> QED BY <2>4, <3>1
  <2>6. ASSUME NEW l, NEW p
        PROVE  (\E pass \in Passes, k \in Kinds :
                  l \in Mine(pass, r) /\ ~Skipped(pass, k) /\ p \in ParamsOf(k))
               <=> l \in LayersOf(r) /\ p \in Loadable(l)
    <3>1. p \in Loadable(l) <=> \E k \in Kinds :
             ~(l >= FirstDraftLayer /\ k \in {"shared.w1", "shared.w3"}) /\ p \in ParamsOf(k)
      BY ParamsOfKinds
    <3>2. ASSUME l \in Mine("target", r)
          PROVE  l \notin Mine("mtp", r) /\ ~(l >= FirstDraftLayer)
      BY <2>2, <3>2, LoadAssumption
    <3>3. ASSUME l \in Mine("mtp", r)
          PROVE  l \notin Mine("target", r) /\ l >= FirstDraftLayer
      BY <2>2, <3>3, LoadAssumption
    <3>4. \A k : /\ ~Skipped("target", k)
                 /\ Skipped("mtp", k) <=> k \in {"shared.w1", "shared.w3"}
      BY DEF Skipped
    <3> QED BY <2>2, <3>1, <3>2, <3>3, <3>4 DEF Passes
  <2>7. ASSUME NEW l, NEW p
        PROVE  (\E pass \in Passes, k \in Kinds :
                  l \in Told(pass, r, k) /\ ~Skipped(pass, k) /\ p \in ParamsOf(k))
               <=> \/ l \in LayersOf(r) /\ p \in Loadable(l)
                   \/ l \in TargetLayers /\ p \in ExpertParams
    <3>1. \A pass, k : l \in Told(pass, r, k) <=>
             l \in Mine(pass, r) \/ (pass = "target" /\ k \in OfExperts /\ l \in TargetLayers)
      BY DEF Told
    <3>2. p \in ExpertParams <=> \E k \in OfExperts : p \in ParamsOf(k)
      BY ParamsOfKinds
    <3>3. \A k \in OfExperts : k \in Kinds /\ ~Skipped("target", k)
      BY DEF Kinds, Skipped
    <3> QED BY <2>6, <3>1, <3>2, <3>3 DEF Passes
  <2>8. \A n : n \in reported[r] <=>
          \E l, p : /\ n = <<l, p>>
                    /\ \/ l \in LayersOf(r) /\ p \in Loadable(l)
                       \/ l \in TargetLayers /\ p \in ExpertParams
    <3>1. ASSUME NEW n \in reported[r]
          PROVE  \E l, p : /\ n = <<l, p>>
                           /\ \/ l \in LayersOf(r) /\ p \in Loadable(l)
                              \/ l \in TargetLayers /\ p \in ExpertParams
      <4>1. PICK pass \in Passes, k \in Kinds : \E l \in Told(pass, r, k) :
              Read(pass, k) /\ \E p \in ParamsOf(k) : n = <<l, p>>
        BY <2>1 DEF Reported
      <4>2. PICK l \in Told(pass, r, k) : Read(pass, k) /\ \E p \in ParamsOf(k) : n = <<l, p>>
        BY <4>1
      <4>3. PICK p \in ParamsOf(k) : n = <<l, p>>
        BY <4>2
      <4>4. ~Skipped(pass, k)
        BY <2>3, <4>2
      <4> QED BY <2>7, <4>3, <4>4
    <3>2. ASSUME NEW l, NEW p, \/ l \in LayersOf(r) /\ p \in Loadable(l)
                               \/ l \in TargetLayers /\ p \in ExpertParams
          PROVE  <<l, p>> \in reported[r]
      <4>1. PICK pass \in Passes, k \in Kinds :
              l \in Told(pass, r, k) /\ ~Skipped(pass, k) /\ p \in ParamsOf(k)
        BY <2>7, <3>2
      <4> QED BY <2>1, <2>3, <4>1 DEF Reported
    <3> QED BY <3>1, <3>2
  <2>9. reported[r] = ToReport(r)
    BY <2>8 DEF ToReport
  <2> QED BY <2>5, <2>9
<1>4. ASSUME reading = "mtp", unread = {}, NEW r \in LoadRanks, NEW l \in LayersOf(r),
             <<"gate_up_proj", "weight">> \in Loadable(l)
      PROVE  /\ Cardinality({w \in {v \in weights[r] : v.layer = l} :
                               w.holds[1] = "shared.w1" /\ w.holds[2] = 0}) = 1
             /\ Cardinality({w \in {v \in weights[r] : v.layer = l} :
                               w.holds[1] = "shared.w3" /\ w.holds[2] = 0}) = 1
  BY <1>2, <1>4
<1> QED
  <2> SUFFICES ASSUME reading = "mtp", unread = {}, NEW r \in LoadRanks
               PROVE  LET inLayer(l) == {w \in weights[r] : w.layer = l}
                          has(l, tensor, n, size) ==
                            Cardinality({w \in inLayer(l) : w.holds[1] = tensor /\ w.holds[2] = n}) = size
                      IN
                      \A l \in LayersOf(r) :
                        /\ \A t \in Plain \cup {"wq_a", "wkv"} : has(l, t, 0, 1)
                        /\ <<"gate_up_proj", "weight">> \in Loadable(l) =>
                             has(l, "shared.w1", 0, 1) /\ has(l, "shared.w3", 0, 1)
                        /\ \A h \in Heads :
                             has(l, "attn_sink", h, IF h \in LocalPart(r, LocalHeads) THEN 1 ELSE 0)
                        /\ \A x \in Experts, t \in OfExperts :
                             has(l, t, x, IF x \in LocalPart(r, LocalExperts) THEN 2 ELSE 0)
                        /\ \A w \in inLayer(l) : w.place[1] \in 0 .. LocalExperts - 1
    BY <1>1, <1>3 DEF WeightsInPlace
  <2> QED BY <1>2, <1>4

\* Whatever the order of the tensors, the ranks and their parts, and whatever else the
\* start-up does: nothing a rank reads is overwritten by what it reads later, and once the
\* drafter is loaded too, every tensor of a layer is in its place on the ranks that have
\* the layer, and nowhere else. Reported is what is there and, besides, only the experts
\* of target layers that are missing on the stage (load_weights of target and drafter).
THEOREM WeightsArrive == Spec => []WeightsInPlace
<1>1. Init => LoadInv
  <2> SUFFICES ASSUME Init PROVE LoadInv
    OBVIOUS
  <2>1. /\ reading = "target" /\ unread = Kinds /\ ~raised
        /\ weights = [r \in LoadRanks |-> {}] /\ reported = [r \in LoadRanks |-> {}]
    BY DEF Init, LoadInit
  <2>2. \A pass \in Passes, k \in Kinds : ~Read(pass, k)
    BY <2>1 DEF Read, Passes
  <2>3. ASSUME NEW r \in LoadRanks PROVE Loaded(r) /\ Reported(r)
    <3>1. weights[r] = {} /\ reported[r] = {}
      BY <2>1
    <3> QED BY <2>2, <3>1 DEF Loaded, Reported
  <2> QED BY <2>1, <2>3 DEF LoadInv, Passes
<1>2. LoadInv /\ [Next]_vars => LoadInv'
  <2> SUFFICES ASSUME LoadInv, [Next]_vars PROVE LoadInv'
    OBVIOUS
  <2>1. CASE LoadWeights
    BY <2>1, TensorsKeep, NextModelKeeps DEF LoadWeights, LoadNext
  <2>2. CASE ~LoadWeights
    <3>1. UNCHANGED <<reading, unread, weights, reported, raised>>
      BY <2>2 DEF Next, ConfigureEngine, StartWorkers, ModelLoaded, Graphs, Warmup, workerVars,
                  loadVars, vars
    <3> QED BY <3>1 DEF LoadInv, Loaded, Reported, Read
  <2> QED BY <2>1, <2>2
<1> QED BY <1>1, <1>2, LoadedInPlace, PTL DEF Spec

-----------------------------------------------------------------------------
(* The graphs.                                                             *)

\* adjust_cudagraph_sizes_for_spec_decode raises when no size is left.
SizesRemain == AlignedSizes("PIECEWISE", CaptureSizes) # {}

ConfiguredModes == {"NONE", "PIECEWISE", "FULL", "FULL_DECODE_ONLY", "FULL_AND_PIECEWISE"}

\* What a mode may be once it is resolved: no backend takes part in a FULL graph of any batch.
ResolvedModes == ConfiguredModes \ {"FULL"}

EarlyStages == {"load", "profile", "allocate"}
LateStages == {"profiling", "warmup", "capture", "capturing", "serve"}

\* Before the first cache is laid out, and between a profiling pass and the real cache,
\* which finds the mode, the sizes and the drafter's keys of the first.
Unresolved == sizes = CaptureSizes /\ keys = NoKeys /\ draftKeys = {}
TornDown ==
  /\ mode \in ResolvedModes /\ sizes = AlignedSizes(mode, CaptureSizes)
  /\ keys = NoKeys /\ draftKeys \subseteq DraftKeysOf(mode, sizes)

KeysSettled ==
  /\ mode \in ResolvedModes /\ sizes = AlignedSizes(mode, CaptureSizes)
  /\ keysReady /\ keys = KeysOf(mode, sizes) /\ draftKeys = DraftKeysOf(mode, sizes)

\* The names an earlier pass left are those the next one learns.
NamesLearned == sharedKv \subseteq Sharing /\ runnerOnly \subseteq EncoderOnly \cup Sharing

\* The graphs that the capture of a descriptor leaves behind it.
GraphsFor(p) ==
  {<<"target", p[1], p[2]>>}
  \cup (IF p[1] = "PIECEWISE" /\ ~config.eager
        THEN DraftGraph(Min({p[2].tokens, MaxNumSeqs})) ELSE {})

Captured(pairs) == \A p \in pairs : GraphsFor(p) \subseteq {g.key : g \in graphs}

Serving(gs) == \A g \in gs : g.pool = "global" /\ g.cache = "final"

GraphInv ==
  /\ stage \in EarlyStages \cup LateStages /\ mode \in ConfiguredModes
  /\ IF stage = "load" THEN Unresolved /\ sharedKv = {} /\ runnerOnly = {}
     ELSE config \in Configs /\ NamesLearned
  /\ (failed => RestrideRaises) /\ (stage \in EarlyStages => ~failed)
  /\ stage \in EarlyStages => graphs = {} /\ attnGroups = {} /\ (Unresolved \/ TornDown)
  /\ stage \in LateStages => KeysSettled
  /\ stage = "profiling" =>
       capturing /\ toCapture \subseteq ProfileDescs(keys) /\ (ProfileDescs(keys) = {} => graphs = {})
  /\ stage \in {"warmup", "capture"} => graphs = {}
  /\ stage \in {"capturing", "serve"} => Serving(graphs)
  /\ stage = "capturing" =>
       capturing /\ toCapture \subseteq Descs(keys) /\ Captured(Descs(keys) \ toCapture)
  /\ stage = "serve" => Captured(Descs(keys)) /\ (mode # "NONE" => ~capturing)
  /\ ran.fits /\ Serving(ran.graphs)

-----------------------------------------------------------------------------
(* Numbers and shapes.                                                     *)

\* A set of natural numbers has a least one.
LEMMA LeastNumber ==
  ASSUME NEW T \in SUBSET Nat, T # {}
  PROVE  \E n \in T : \A m \in T : n <= m
<1>1. PICK k \in T : TRUE
  OBVIOUS
<1> DEFINE D == 0 .. k
           U == {0 .. n : n \in {m \in T : m <= k}}
<1>2. IsFiniteSet(D)
  BY <1>1, FS_Interval
<1>3. IsWellFoundedOn(StrictSubsetOrdering(D), SUBSET D)
  BY <1>2, FS_StrictSubsetOrderingWellFounded, FS_FiniteSubsetsOfFinite
<1>4. U \subseteq SUBSET D /\ U # {}
  BY <1>1
<1>5. PICK s \in U : \A t \in U : ~ (<<t, s>> \in StrictSubsetOrdering(D))
  <2> HIDE DEF U
  <2> QED BY <1>3, <1>4, WFMin
<1>6. PICK n \in T : n <= k /\ s = 0 .. n
  BY <1>5
<1>7. ASSUME NEW m \in T PROVE n <= m
  <2> SUFFICES ASSUME m < n PROVE FALSE
    BY <1>6, <1>7
  <2>1. 0 .. m \in U
    BY <1>6
  <2>2. 0 .. m \subseteq 0 .. n /\ n \in 0 .. n /\ n \notin 0 .. m
    OBVIOUS
  <2>3. <<0 .. m, 0 .. n>> \in (SUBSET D) \X (SUBSET D)
    BY <1>4, <1>6, <2>1
  <2>4. <<0 .. m, s>> \in StrictSubsetOrdering(D)
    BY <1>6, <2>2, <2>3 DEF StrictSubsetOrdering
  <2> QED BY <1>5, <2>1, <2>4
<1> QED BY <1>7

\* The least and the greatest member, as the operators choose them.
LEMMA MinIs ==
  ASSUME NEW T \in SUBSET Nat, T # {}
  PROVE  Min(T) \in T /\ \A n \in T : Min(T) <= n
BY LeastNumber DEF Min

\* A bounded set has a greatest one.
LEMMA GreatestNumber ==
  ASSUME NEW T \in SUBSET Nat, T # {}, NEW b \in Nat, \A n \in T : n <= b
  PROVE  \E n \in T : \A m \in T : m <= n
<1> DEFINE U == {b - n : n \in T}
<1>1. U \in SUBSET Nat /\ U # {}
  <2>1. \A n \in T : b - n \in Nat
    OBVIOUS
  <2> QED BY <2>1
<1>2. PICK u \in U : \A v \in U : u <= v
  <2> HIDE DEF U
  <2> QED BY <1>1, LeastNumber
<1>3. PICK n \in T : u = b - n
  BY <1>2
<1>4. ASSUME NEW m \in T PROVE m <= n
  <2>1. b - n <= b - m
    BY <1>2, <1>3
  <2> QED BY <2>1
<1> QED BY <1>4

\* The greatest member of a bounded set is what Max chooses.
LEMMA MaxIs ==
  ASSUME NEW T \in SUBSET Nat, T # {}, NEW b \in Nat, \A n \in T : n <= b
  PROVE  Max(T) \in T /\ \A n \in T : n <= Max(T)
<1>1. \E n \in T : \A m \in T : n >= m
  BY GreatestNumber
<1> QED BY <1>1 DEF Max

\* The lesser of two numbers.
LEMMA LesserOf ==
  ASSUME NEW a \in Nat, NEW b \in Nat
  PROVE  Min({a, b}) \in Nat /\ Min({a, b}) = IF a <= b THEN a ELSE b
BY MinIs, {a, b} \in SUBSET Nat

\* Quotient and remainder are unique.
LEMMA QuotientAndRest ==
  ASSUME NEW d \in Nat \ {0}, NEW q \in Nat, NEW r \in 0 .. d - 1
  PROVE  (d * q + r) \div d = q /\ (d * q + r) % d = r
<1> DEFINE a == d * q + r
           p == a \div d
           s == a % d
<1>1. a \in Nat
  OBVIOUS
<1>2. p \in Int /\ s \in 0 .. d - 1 /\ a = d * p + s
  <2> HIDE DEF a
  <2> QED BY <1>1
<1> HIDE DEF p, s
<1>3. d * p + s = d * q + r
  BY <1>2
<1>4. p = q
  <2>1. CASE p < q
    <3>1. d * (p + 1) <= d * q
      BY <1>2, <2>1
    <3>2. d * (p + 1) = d * p + d
      BY <1>2
    <3> QED BY <1>2, <1>3, <3>1, <3>2
  <2>2. CASE q < p
    <3>1. d * (q + 1) <= d * p
      BY <1>2, <2>2
    <3>2. d * (q + 1) = d * q + d
      OBVIOUS
    <3> QED BY <1>2, <1>3, <3>1, <3>2
  <2> QED BY <1>2, <2>1, <2>2
<1>5. s = r
  BY <1>2, <1>3, <1>4
<1> QED BY <1>4, <1>5 DEF p, s

\* The least number of whole decodes that hold some tokens.
LEMMA Decodes ==
  ASSUME NEW j \in Nat
  PROVE  /\ (QueryLen * j) \div QueryLen = j /\ (QueryLen * j) % QueryLen = 0
         /\ (QueryLen * j + QueryLen - 1) \div QueryLen = j
<1>1. QueryLen \in Nat \ {0} /\ 0 \in 0 .. QueryLen - 1 /\ QueryLen - 1 \in 0 .. QueryLen - 1
  BY GraphAssumption
<1>2. QueryLen * j + 0 = QueryLen * j
  BY <1>1
<1>3. QueryLen * j + (QueryLen - 1) = QueryLen * j + QueryLen - 1
  BY <1>1
<1> QED BY <1>1, <1>2, <1>3, QuotientAndRest

\* What the quotient says of the dividend.
LEMMA QuotientIs ==
  ASSUME NEW n \in Nat, NEW d \in Nat \ {0}
  PROVE  n \div d \in Nat /\ d * (n \div d) <= n /\ n < d * (n \div d) + d
<1> DEFINE q == n \div d
<1>1. q \in Int /\ d * q <= n /\ n < d * q + d
  <2>1. n = d * (n \div d) + (n % d) /\ n % d \in 0 .. d - 1 /\ n \div d \in Int
    OBVIOUS
  <2> HIDE DEF q
  <2>2. n = d * q + (n % d) /\ q \in Int
    BY <2>1 DEF q
  <2> QED BY <2>1, <2>2
<1> HIDE DEF q
<1>2. q >= 0
  <2> SUFFICES ASSUME q + 1 <= 0 PROVE FALSE
    BY <1>1
  <2>1. d * (q + 1) <= 0
    BY <1>1
  <2>2. d * (q + 1) = d * q + d
    BY <1>1
  <2> QED BY <1>1, <2>1, <2>2
<1> QED BY <1>1, <1>2 DEF q

\* Multiples are in the order of their factors.
LEMMA TimesOrder ==
  ASSUME NEW d \in Nat \ {0}, NEW a \in Nat, NEW b \in Nat
  PROVE  d * a <= d * b <=> a <= b
<1>1. ASSUME a <= b PROVE d * a <= d * b
  BY <1>1
<1>2. ASSUME b < a PROVE ~(d * a <= d * b)
  <2>1. d * (b + 1) <= d * a
    BY <1>2
  <2>2. d * (b + 1) = d * b + d
    OBVIOUS
  <2> QED BY <2>1, <2>2
<1> QED BY <1>1, <1>2

\* Every size holds a whole number of decodes.
Whole(s) == \A n \in s : \E j \in Nat : n = QueryLen * j

\* The bounds of GraphAssumption, without the configurations.
LEMMA Bounds ==
  /\ CaptureSizes # {} /\ \A n \in CaptureSizes : n \in Nat \ {0} /\ n <= MaxNumTokens
  /\ MaxNumSeqs \in Nat \ {0} /\ MaxNumTokens \in Nat /\ MaxNumSeqs <= MaxNumTokens
  /\ QueryLen \in Nat \ {0} /\ QueryLen <= MaxNumTokens
BY GraphAssumption

\* The sizes that an adjustment leaves: they are within the buffers and hold whole
\* decodes, and a second adjustment leaves them as they are.
LEMMA SizesFit ==
  ASSUME SizesRemain, NEW m \in ConfiguredModes, NEW s, s = AlignedSizes(m, CaptureSizes)
  PROVE  /\ s \in SUBSET (1 .. MaxNumTokens) /\ s # {}
         /\ m # "NONE" => Whole(s)
         /\ AlignedSizes(m, s) = s
<1> USE Bounds
<1>1. CASE m = "NONE"
  <2>1. s = CaptureSizes /\ AlignedSizes(m, s) = s
    BY <1>1 DEF AlignedSizes
  <2> QED BY <1>1, <2>1
<1>2. CASE m # "NONE" /\ QueryLen = 1
  <2>1. s = CaptureSizes /\ AlignedSizes(m, s) = s
    BY <1>2 DEF AlignedSizes
  <2>2. s \in SUBSET (1 .. MaxNumTokens) /\ s # {}
    BY <2>1
  <2>3. \A n \in s : n \in Nat /\ n = QueryLen * n
    BY <1>2, <2>1
  <2>4. Whole(s)
    BY <2>3 DEF Whole
  <2> QED BY <1>2, <2>1, <2>2, <2>4
<1>3. CASE m # "NONE" /\ QueryLen # 1
  <2> DEFINE up(k) == QueryLen * ((k + QueryLen - 1) \div QueryLen)
  <2>1. /\ s = {n \in {up(k) : k \in CaptureSizes} : n <= Max(CaptureSizes)}
        /\ s = AlignedSizes("PIECEWISE", CaptureSizes)
        /\ AlignedSizes(m, s) = {n \in {up(k) : k \in s} : n <= Max(s)}
    BY <1>3 DEF AlignedSizes
  <2>2. s # {}
    BY <2>1 DEF SizesRemain
  <2>3. Max(CaptureSizes) \in CaptureSizes
    <3>1. CaptureSizes \in SUBSET Nat /\ CaptureSizes # {} /\ MaxNumTokens \in Nat
          /\ \A n \in CaptureSizes : n <= MaxNumTokens
      OBVIOUS
    <3> HIDE Bounds
    <3> QED BY <3>1, MaxIs
  <2>4. \A k \in CaptureSizes :
          /\ (k + QueryLen - 1) \div QueryLen \in Nat
          /\ k < QueryLen * ((k + QueryLen - 1) \div QueryLen) + 1
    <3> SUFFICES ASSUME NEW k \in CaptureSizes
                 PROVE  /\ (k + QueryLen - 1) \div QueryLen \in Nat
                        /\ k < QueryLen * ((k + QueryLen - 1) \div QueryLen) + 1
      OBVIOUS
    <3>1. k + QueryLen - 1 \in Nat /\ QueryLen \in Nat \ {0} /\ k \in Nat
      OBVIOUS
    <3>2. PICK q \in Nat : q = (k + QueryLen - 1) \div QueryLen
                           /\ k + QueryLen - 1 < QueryLen * q + QueryLen
      BY <3>1, QuotientIs
    <3> QED BY <3>1, <3>2
  <2>5. ASSUME NEW n \in s PROVE n \in 1 .. MaxNumTokens /\ \E j \in Nat : n = QueryLen * j
    <3>1. PICK k \in CaptureSizes : n = up(k) /\ n <= Max(CaptureSizes)
      BY <2>1
    <3>2. PICK q \in Nat : q = (k + QueryLen - 1) \div QueryLen /\ k < QueryLen * q + 1
      BY <2>4
    <3>3. n = QueryLen * q
      BY <3>1, <3>2
    <3>4. n \in Nat /\ k \in Nat \ {0} /\ k <= n
      <4>1. QueryLen \in Nat /\ k \in Nat \ {0}
        OBVIOUS
      <4>2. QueryLen * q \in Nat
        BY <4>1
      <4> HIDE Bounds DEF up
      <4> QED BY <3>2, <3>3, <4>1, <4>2
    <3>5. Max(CaptureSizes) \in Nat /\ Max(CaptureSizes) <= MaxNumTokens /\ MaxNumTokens \in Nat
      BY <2>3
    <3>6. n \in 1 .. MaxNumTokens
      <4> HIDE Bounds DEF up
      <4> QED BY <3>1, <3>4, <3>5
    <3> QED BY <3>3, <3>6
  <2>6. \A n \in s : up(n) = n
    <3> SUFFICES ASSUME NEW n \in s PROVE up(n) = n
      OBVIOUS
    <3>1. PICK j \in Nat : n = QueryLen * j
      BY <2>5
    <3> QED BY <3>1, Decodes
  <2>7. \A n \in s : n <= Max(s)
    <3>1. s \in SUBSET Nat /\ \A n \in s : n <= MaxNumTokens
      BY <2>5
    <3> QED BY <2>2, <3>1, MaxIs
  <2>8. AlignedSizes(m, s) = s
    <3> HIDE DEF up
    <3> QED BY <2>1, <2>6, <2>7
  <2> QED BY <2>2, <2>5, <2>8 DEF Whole
<1> QED BY <1>1, <1>2, <1>3

\* A mode is resolved to one the backends support; the sizes do not depend on which of
\* those that capture anything.
LEMMA ResolvedIs ==
  ASSUME NEW m \in ConfiguredModes, NEW support \in 0 .. 2
  PROVE  /\ Resolved(m, support) \in ResolvedModes
         /\ Resolved(m, support) = "NONE" <=> m = "NONE"
         /\ MixedMode(m) # "NONE" => MixedMode(Resolved(m, support)) # "NONE"
         /\ \A s : AlignedSizes(Resolved(m, support), s) = AlignedSizes(m, s)
<1>1. /\ Resolved(m, support) \in ResolvedModes
      /\ Resolved(m, support) = "NONE" <=> m = "NONE"
      /\ MixedMode(m) # "NONE" => MixedMode(Resolved(m, support)) # "NONE"
  BY DEF Resolved, ConfiguredModes, ResolvedModes, HasFull, MixedMode, AlwaysSupported,
         UniformBatch, NeverSupported
<1> QED BY <1>1 DEF AlignedSizes

\* The shapes the dispatchers know.
LEMMA Shapes ==
  ASSUME NEW n
  PROVE  /\ Relaxed(MixedDesc(n)).tokens = n /\ Relaxed(MixedDesc(n)).uniform = FALSE
         /\ MixedDesc(n).tokens = n /\ MixedDesc(n).uniform = FALSE
         /\ UniformDesc(n).tokens = n /\ UniformDesc(n).uniform = TRUE
         /\ UniformDesc(n).reqs = Min({n \div QueryLen, MaxNumSeqs})
         /\ Relaxed(UniformDesc(n)).tokens = n
<1>1. Relaxed(MixedDesc(n)).tokens = n /\ Relaxed(MixedDesc(n)).uniform = FALSE
  BY DEF Relaxed, MixedDesc
<1>2. MixedDesc(n).tokens = n /\ MixedDesc(n).uniform = FALSE
  BY DEF MixedDesc
<1>3. /\ UniformDesc(n).tokens = n /\ UniformDesc(n).uniform = TRUE
      /\ UniformDesc(n).reqs = Min({n \div QueryLen, MaxNumSeqs})
  BY DEF UniformDesc
<1>4. Relaxed(UniformDesc(n)).tokens = n
  BY DEF Relaxed, UniformDesc
<1> QED BY <1>1, <1>2, <1>3, <1>4

\* The sizes of batches of whole decodes of at most as many requests as there may be.
DecodeSizes == {n \in sizes : QueryLen <= n /\ n <= QueryLen * MaxNumSeqs}

\* The keys of both modes, and the descriptors to capture.
LEMMA KeysAre ==
  ASSUME KeysSettled
  PROVE  /\ keys.FULL = IF SeparateRoutine(mode) THEN {UniformDesc(n) : n \in DecodeSizes} ELSE {}
         /\ keys.PIECEWISE = IF MixedMode(mode) = "PIECEWISE"
                             THEN {Relaxed(MixedDesc(n)) : n \in sizes} ELSE {}
         /\ MixedMode(mode) \in {"NONE", "PIECEWISE"}
         /\ Descs(keys) = {<<"FULL", d>> : d \in keys.FULL}
                          \cup {<<"PIECEWISE", d>> : d \in keys.PIECEWISE}
<1>1. MixedMode(mode) \in {"NONE", "PIECEWISE"}
  BY DEF KeysSettled, ResolvedModes, ConfiguredModes, MixedMode
<1>2. /\ keys.FULL = IF SeparateRoutine(mode) THEN {UniformDesc(n) : n \in DecodeSizes} ELSE {}
      /\ keys.PIECEWISE = IF MixedMode(mode) = "PIECEWISE"
                          THEN {Relaxed(MixedDesc(n)) : n \in sizes} ELSE {}
  <2>1. keys = KeysOf(mode, sizes)
    BY DEF KeysSettled
  <2> QED BY <1>1, <2>1 DEF KeysOf, DecodeSizes
<1>3. Descs(keys) = {<<"FULL", d>> : d \in keys.FULL} \cup {<<"PIECEWISE", d>> : d \in keys.PIECEWISE}
  BY DEF Descs, GraphModes
<1> QED BY <1>1, <1>2, <1>3

\* The sizes of a resolved mode, with their greatest.
LEMMA SettledSizes ==
  ASSUME SizesRemain, KeysSettled
  PROVE  /\ sizes \in SUBSET (1 .. MaxNumTokens) /\ sizes # {} /\ mode \in ResolvedModes
         /\ mode # "NONE" => Whole(sizes)
         /\ Max(sizes) \in sizes /\ \A n \in sizes : n <= Max(sizes)
<1>1. /\ sizes \in SUBSET (1 .. MaxNumTokens) /\ sizes # {} /\ mode \in ResolvedModes
      /\ mode # "NONE" => Whole(sizes)
  BY SizesFit DEF KeysSettled, ResolvedModes
<1>2. sizes \in SUBSET Nat /\ MaxNumTokens \in Nat /\ \A n \in sizes : n <= MaxNumTokens
  BY <1>1, Bounds
<1> QED BY <1>1, <1>2, MaxIs

\* The size a batch is padded to.
PaddedTo(n) == Min({s \in sizes : s >= n})

\* A batch that is not too large fits the size it is padded to, the least that does.
LEMMA PaddedFits ==
  ASSUME SizesRemain, KeysSettled, NEW n \in Nat, ~(n > Max(sizes))
  PROVE  /\ PaddedTo(n) \in sizes /\ n <= PaddedTo(n) /\ PaddedTo(n) \in Nat
         /\ \A s \in sizes : n <= s => PaddedTo(n) <= s
<1> DEFINE T == {s \in sizes : s >= n}
<1>1. T \in SUBSET Nat /\ T # {}
  <2>1. Max(sizes) \in sizes /\ sizes \subseteq Nat
    BY SettledSizes, Bounds
  <2>2. PICK x \in sizes : x = Max(sizes)
    BY <2>1
  <2>3. x \in T
    BY <2>1, <2>2
  <2> QED BY <2>1, <2>3
<1>2. Min(T) \in T /\ \A s \in T : Min(T) <= s
  <2> HIDE DEF T
  <2> QED BY <1>1, MinIs
<1> QED BY <1>1, <1>2 DEF PaddedTo

\* The shape of the batch padded to it.
Shape(n, uniform) ==
  IF uniform /\ SeparateRoutine(mode) THEN UniformDesc(PaddedTo(n)) ELSE MixedDesc(PaddedTo(n))

\* What the dispatcher answers, once it has a mode and the batch is small enough.
LEMMA DispatchedTo ==
  ASSUME NEW n, NEW uniform \in BOOLEAN, NEW allowed, keysReady, mode # "NONE",
         ~(n > Max(sizes)), allowed # {}
  PROVE  LET d == Dispatched(n, uniform, allowed) IN
         /\ \/ d.mode = "FULL" /\ "FULL" \in allowed /\ Shape(n, uniform) \in keys.FULL
               /\ d.desc = Shape(n, uniform)
            \/ d.mode = "PIECEWISE" /\ Relaxed(Shape(n, uniform)) \in keys.PIECEWISE
               /\ d.desc = Relaxed(Shape(n, uniform))
               /\ ~("FULL" \in allowed /\ Shape(n, uniform) \in keys.FULL)
            \/ d.mode = "NONE" /\ d.desc = Relaxed(MixedDesc(n))
               /\ ~("FULL" \in allowed /\ Shape(n, uniform) \in keys.FULL)
               /\ Relaxed(Shape(n, uniform)) \notin keys.PIECEWISE
         /\ (uniform /\ SeparateRoutine(mode) => PaddedTo(n) % QueryLen = 0) => d.ok
<1> DEFINE full == "FULL" \in allowed /\ Shape(n, uniform) \in keys.FULL
           piece == Relaxed(Shape(n, uniform)) \in keys.PIECEWISE
           found == IF full THEN "FULL" ELSE IF piece THEN "PIECEWISE" ELSE "NONE"
           whole == uniform /\ SeparateRoutine(mode) => PaddedTo(n) % QueryLen = 0
<1>1. Dispatched(n, uniform, allowed) =
        [mode |-> found,
         desc |-> CASE found = "FULL" -> Shape(n, uniform)
                    [] found = "PIECEWISE" -> Relaxed(Shape(n, uniform))
                    [] OTHER -> Relaxed(MixedDesc(n)),
         ok |-> whole]
  BY DEF Dispatched, Shape, PaddedTo
<1>2. found = IF full THEN "FULL" ELSE IF piece THEN "PIECEWISE" ELSE "NONE"
  OBVIOUS
<1> HIDE DEF found, whole
<1>3. /\ Dispatched(n, uniform, allowed).mode = found
      /\ Dispatched(n, uniform, allowed).desc =
           CASE found = "FULL" -> Shape(n, uniform)
             [] found = "PIECEWISE" -> Relaxed(Shape(n, uniform))
             [] OTHER -> Relaxed(MixedDesc(n))
  BY <1>1
<1>4. Dispatched(n, uniform, allowed).ok = whole
  BY <1>1
<1>5. whole => Dispatched(n, uniform, allowed).ok
  BY <1>4
<1>6. CASE found = "FULL"
  BY <1>2, <1>3, <1>5, <1>6 DEF whole
<1>7. CASE found = "PIECEWISE"
  BY <1>2, <1>3, <1>5, <1>7 DEF whole
<1>8. CASE found = "NONE"
  BY <1>2, <1>3, <1>5, <1>8 DEF whole
<1> QED BY <1>2, <1>6, <1>7, <1>8

\* Without keys or a mode, or beyond the largest size, a batch runs eagerly as it is.
LEMMA NotDispatched ==
  ASSUME NEW n, NEW uniform, NEW allowed,
         ~keysReady \/ mode = "NONE" \/ n > Max(sizes) \/ allowed = {}
  PROVE  LET d == Dispatched(n, uniform, allowed) IN
         d.mode = "NONE" /\ d.desc = Relaxed(MixedDesc(n)) /\ d.ok
BY DEF Dispatched

\* A size is padded to itself.
LEMMA OwnSize ==
  ASSUME SizesRemain, KeysSettled, NEW n \in sizes
  PROVE  n \in Nat /\ n <= MaxNumTokens /\ ~(n > Max(sizes)) /\ PaddedTo(n) = n
<1>1. n \in Nat /\ n <= MaxNumTokens
  BY SettledSizes, Bounds
<1>2. ~(n > Max(sizes))
  <2>1. PICK x \in sizes : x = Max(sizes) /\ n <= x
    BY SettledSizes
  <2>2. x \in Nat
    BY SettledSizes
  <2> QED BY <1>1, <2>1, <2>2
<1>3. n <= PaddedTo(n) /\ PaddedTo(n) <= n /\ PaddedTo(n) \in Nat
  BY <1>1, <1>2, PaddedFits
<1> QED BY <1>1, <1>2, <1>3

\* A mixed batch has no FULL graph.
LEMMA MixedIsNotFull ==
  ASSUME KeysSettled, NEW n
  PROVE  MixedDesc(n) \notin keys.FULL
<1> SUFFICES ASSUME MixedDesc(n) \in keys.FULL PROVE FALSE
  OBVIOUS
<1>1. PICK x : MixedDesc(n) = UniformDesc(x)
  <2>1. keys.FULL \subseteq {UniformDesc(x) : x \in DecodeSizes}
    BY KeysAre
  <2> QED BY <2>1
<1>2. UniformDesc(x).uniform = TRUE /\ MixedDesc(n).uniform = FALSE
  BY Shapes
<1> QED BY <1>1, <1>2

\* The run that captures a graph is dispatched to it, and passes the asserts.
LEMMA CapturesItself ==
  ASSUME SizesRemain, KeysSettled, NEW p \in Descs(keys)
  PROVE  LET d == Dispatched(p[2].tokens, p[2].uniform, GraphModes) IN
         d.mode = p[1] /\ d.desc = p[2] /\ d.ok
         /\ DummyFits(p[2].tokens, p[2].uniform, p[2].tokens)
<1>1. CASE p[1] = "FULL"
  <2>1. PICK n \in DecodeSizes : p = <<"FULL", UniformDesc(n)>> /\ SeparateRoutine(mode)
    BY <1>1, KeysAre
  <2>2. n \in sizes /\ QueryLen <= n /\ n <= QueryLen * MaxNumSeqs
    BY DEF DecodeSizes
  <2>3. p[1] = "FULL" /\ p[2] = UniformDesc(n) /\ p[2].tokens = n /\ p[2].uniform = TRUE
    BY <2>1, Shapes
  <2>4. /\ mode # "NONE" /\ keysReady /\ GraphModes # {} /\ "FULL" \in GraphModes
        /\ Shape(n, TRUE) = UniformDesc(n)
    BY <2>1, <2>2, OwnSize DEF SeparateRoutine, KeysSettled, GraphModes, Shape
  <2>5. UniformDesc(n) \in keys.FULL
    BY <2>1, KeysAre
  <2>6. PICK j \in Nat : n = QueryLen * j
    BY <2>2, <2>4, SettledSizes DEF Whole
  <2>7. n % QueryLen = 0 /\ (n + QueryLen - 1) \div QueryLen = j /\ j <= MaxNumSeqs
    BY <2>2, <2>6, Decodes, TimesOrder, Bounds
  <2>8. PaddedTo(n) % QueryLen = 0
    BY <2>2, <2>7, OwnSize
  <2>9. LET d == Dispatched(n, TRUE, GraphModes) IN d.mode = "FULL" /\ d.desc = UniformDesc(n) /\ d.ok
    BY <2>2, <2>4, <2>5, <2>8, OwnSize, DispatchedTo
  <2>10. DummyFits(n, TRUE, n)
    BY <2>2, <2>7, OwnSize DEF DummyFits
  <2> QED BY <2>3, <2>9, <2>10
<1>2. CASE p[1] = "PIECEWISE"
  <2>1. PICK n \in sizes : p = <<"PIECEWISE", Relaxed(MixedDesc(n))>> /\ MixedMode(mode) = "PIECEWISE"
    BY <1>2, KeysAre
  <2>2. p[1] = "PIECEWISE" /\ p[2] = Relaxed(MixedDesc(n)) /\ p[2].tokens = n /\ p[2].uniform = FALSE
    BY <2>1, Shapes
  <2>3. /\ mode # "NONE" /\ keysReady /\ GraphModes # {} /\ Shape(n, FALSE) = MixedDesc(n)
    BY <2>1, OwnSize DEF MixedMode, KeysSettled, GraphModes, Shape
  <2>4. Relaxed(MixedDesc(n)) \in keys.PIECEWISE
    BY <2>1, KeysAre
  <2>5. MixedDesc(n) \notin keys.FULL
    BY MixedIsNotFull
  <2>6. LET d == Dispatched(n, FALSE, GraphModes) IN
        d.mode = "PIECEWISE" /\ d.desc = Relaxed(MixedDesc(n)) /\ d.ok
    BY <2>3, <2>4, <2>5, OwnSize, DispatchedTo
  <2>7. DummyFits(n, FALSE, n)
    BY OwnSize DEF DummyFits
  <2> QED BY <2>2, <2>6, <2>7
<1>3. p[1] \in {"FULL", "PIECEWISE"}
  BY KeysAre
<1> QED BY <1>1, <1>2, <1>3

\* A batch is padded to a graph that is to be captured and has room for it, or runs eagerly.
LEMMA BatchFits ==
  ASSUME SizesRemain, KeysSettled, NEW n \in 1 .. MaxNumSeqs, NEW tokens \in Nat,
         tokens <= MaxNumTokens, NEW uniform \in BOOLEAN, uniform => tokens = QueryLen * n,
         NEW allowed
  PROVE  LET d == Dispatched(tokens, uniform, allowed) IN
         /\ d.ok /\ d.desc.tokens \in Nat /\ d.desc.tokens <= MaxNumTokens
         /\ d.mode # "NONE" =>
              /\ <<d.mode, d.desc>> \in Descs(keys)
              /\ d.desc.tokens >= tokens
              /\ d.mode = "FULL" => d.desc.reqs >= n
<1> DEFINE d == Dispatched(tokens, uniform, allowed)
           s == PaddedTo(tokens)
<1>1. CASE ~keysReady \/ mode = "NONE" \/ tokens > Max(sizes) \/ allowed = {}
  <2>1. d.mode = "NONE" /\ d.desc = Relaxed(MixedDesc(tokens)) /\ d.ok
    BY <1>1, NotDispatched
  <2>2. Relaxed(MixedDesc(tokens)).tokens = tokens
    BY Shapes
  <2> HIDE DEF d
  <2>3. d.desc.tokens = tokens
    BY <2>1, <2>2
  <2> QED BY <2>1, <2>3 DEF d
<1>2. CASE keysReady /\ mode # "NONE" /\ ~(tokens > Max(sizes)) /\ allowed # {}
  <2>1. s \in sizes /\ tokens <= s /\ s \in Nat /\ s <= MaxNumTokens
    BY <1>2, PaddedFits, OwnSize
  <2>2. PICK j \in Nat : s = QueryLen * j
    BY <1>2, <2>1, SettledSizes DEF Whole
  <2>3. s % QueryLen = 0 /\ s \div QueryLen = j
    BY <2>2, Decodes
  <2>4. /\ \/ d.mode = "FULL" /\ Shape(tokens, uniform) \in keys.FULL /\ d.desc = Shape(tokens, uniform)
           \/ d.mode = "PIECEWISE" /\ Relaxed(Shape(tokens, uniform)) \in keys.PIECEWISE
              /\ d.desc = Relaxed(Shape(tokens, uniform))
           \/ d.mode = "NONE" /\ d.desc = Relaxed(MixedDesc(tokens))
        /\ d.ok
    BY <1>2, <2>3, DispatchedTo
  <2> HIDE DEF d
  <2>5. Shape(tokens, uniform).tokens = s /\ Relaxed(Shape(tokens, uniform)).tokens = s
    BY Shapes DEF Shape
  <2>6. CASE d.mode = "FULL" /\ Shape(tokens, uniform) \in keys.FULL /\ d.desc = Shape(tokens, uniform)
    <3>1. uniform /\ Shape(tokens, uniform) = UniformDesc(s)
      BY <2>6, MixedIsNotFull DEF Shape
    <3>2. n <= j
      BY <2>1, <2>2, <3>1, TimesOrder, Bounds
    <3>3. UniformDesc(s).reqs = Min({j, MaxNumSeqs}) /\ Min({j, MaxNumSeqs}) >= n
      <4>1. MaxNumSeqs \in Nat /\ n \in Nat /\ n <= MaxNumSeqs
        BY Bounds
      <4>2. Min({j, MaxNumSeqs}) = IF j <= MaxNumSeqs THEN j ELSE MaxNumSeqs
        BY <4>1, LesserOf
      <4>3. Min({j, MaxNumSeqs}) >= n
        BY <3>2, <4>1, <4>2
      <4>4. UniformDesc(s).reqs = Min({s \div QueryLen, MaxNumSeqs})
        BY Shapes
      <4> QED BY <2>3, <4>3, <4>4
    <3>4. <<d.mode, d.desc>> \in Descs(keys)
      BY <2>6, KeysAre
    <3> QED BY <2>1, <2>4, <2>5, <2>6, <3>1, <3>3, <3>4 DEF d
  <2>7. CASE d.mode = "PIECEWISE" /\ Relaxed(Shape(tokens, uniform)) \in keys.PIECEWISE
             /\ d.desc = Relaxed(Shape(tokens, uniform))
    <3>1. <<d.mode, d.desc>> \in Descs(keys)
      BY <2>7, KeysAre
    <3> QED BY <2>1, <2>4, <2>5, <2>7, <3>1 DEF d
  <2>8. CASE d.mode = "NONE" /\ d.desc = Relaxed(MixedDesc(tokens))
    <3>1. d.desc.tokens = tokens
      <4>1. Relaxed(MixedDesc(tokens)).tokens = tokens
        BY Shapes
      <4> QED BY <2>8, <4>1
    <3> QED BY <2>4, <2>8, <3>1 DEF d
  <2> QED BY <2>4, <2>6, <2>7, <2>8
<1> QED BY <1>1, <1>2

\* The graph of a batch the drafter runs is captured with the target's of the same size.
LEMMA DraftFits ==
  ASSUME SizesRemain, KeysSettled, NEW n \in 1 .. MaxNumSeqs, NEW key \in DraftGraph(n)
  PROVE  /\ key[1] = "drafter" /\ key[3].tokens >= n
         /\ \E p \in Descs(keys) : key \in GraphsFor(p)
<1>1. draftKeys # {} /\ ~(n > Max(draftKeys))
  BY DEF DraftGraph
<1>2. draftKeys = sizes /\ ~config.eager /\ MixedMode(mode) = "PIECEWISE"
  BY <1>1, KeysAre DEF KeysSettled, DraftKeysOf
<1>3. n \in Nat /\ MaxNumSeqs \in Nat /\ n <= MaxNumSeqs
  BY Bounds
<1> DEFINE s == PaddedTo(n)
           b == Min({s, MaxNumSeqs})
           p == <<"PIECEWISE", Relaxed(MixedDesc(s))>>
<1>4. /\ s \in sizes /\ n <= s /\ s \in Nat
      /\ \A t \in sizes : n <= t => s <= t
  BY <1>1, <1>2, <1>3, PaddedFits
<1>5. key = <<"drafter", "PIECEWISE", Relaxed(MixedDesc(s))>>
  BY <1>1, <1>2 DEF DraftGraph, PaddedTo
<1>6. b \in Nat /\ n <= b /\ b <= s
  <2> HIDE DEF s
  <2> QED BY <1>3, <1>4, LesserOf
<1>7. ~(b > Max(sizes))
  <2>1. s \in Nat /\ ~(s > Max(sizes))
    BY <1>4, OwnSize
  <2>2. PICK x \in sizes : x = Max(sizes)
    BY SettledSizes
  <2>3. x \in Nat
    BY SettledSizes
  <2> HIDE DEF s, b
  <2> QED BY <1>6, <2>1, <2>2, <2>3
<1>8. PaddedTo(b) = s
  <2>1. /\ PaddedTo(b) \in sizes /\ b <= PaddedTo(b) /\ PaddedTo(b) \in Nat
        /\ \A t \in sizes : b <= t => PaddedTo(b) <= t
    <3> HIDE DEF b
    <3> QED BY <1>6, <1>7, PaddedFits
  <2>2. PaddedTo(b) <= s
    BY <1>4, <1>6, <2>1
  <2>3. n <= PaddedTo(b)
    <3> HIDE DEF s, b
    <3> QED BY <1>3, <1>6, <2>1
  <2>4. s <= PaddedTo(b)
    BY <1>4, <2>1, <2>3
  <2> HIDE DEF s, b
  <2> QED BY <1>4, <2>1, <2>2, <2>4
<1>9. DraftGraph(b) = {<<"drafter", "PIECEWISE", Relaxed(MixedDesc(s))>>}
  <2> HIDE DEF b
  <2> QED BY <1>1, <1>2, <1>7, <1>8 DEF DraftGraph, PaddedTo
<1>10. p \in Descs(keys)
  BY <1>2, <1>4, KeysAre
<1>11. Relaxed(MixedDesc(s)).tokens = s
  BY Shapes
<1>12. key \in GraphsFor(p)
  <2>1. p[1] = "PIECEWISE" /\ p[2].tokens = s
    BY <1>11
  <2> HIDE DEF p
  <2> QED BY <1>2, <1>5, <1>9, <2>1 DEF GraphsFor
<1>13. key[1] = "drafter" /\ key[3].tokens = s
  BY <1>5, <1>11
<1> QED BY <1>3, <1>4, <1>10, <1>12, <1>13

-----------------------------------------------------------------------------
(* The two allocations.                                                    *)

\* What is assumed of the layers of every configuration, of the one that was read.
LEMMA LayersAre ==
  ASSUME config \in Configs
  PROVE  /\ LayerNames # {}
         /\ \A i \in DOMAIN AttnLayers :
              /\ AttnLayers[i].group # "encoder"
              /\ AttnLayers[i].target # NoLayer =>
                   /\ AttnLayers[i].target \in LayerNames
                   /\ Layer(AttnLayers[i].target).target = NoLayer
BY LayersAssumption DEF LayerNames, Layer, AttnLayers

\* The layer of a name.
LEMMA LayerIs ==
  ASSUME NEW l \in LayerNames
  PROVE  \E i \in DOMAIN AttnLayers : Layer(l) = AttnLayers[i] /\ AttnLayers[i].name = l
<1>1. \E x \in {AttnLayers[i] : i \in DOMAIN AttnLayers} : x.name = l
  BY DEF LayerNames, NamesIn
<1>2. Layer(l) \in {AttnLayers[i] : i \in DOMAIN AttnLayers} /\ Layer(l).name = l
  BY <1>1 DEF Layer, LayerIn
<1> QED BY <1>2

\* The planned groups and the encoder's hold every layer that is not shared.
LEMMA GroupsCover ==
  ASSUME config \in Configs, NEW gs, gs = WithEncoderGroup(PlannedGroups)
  PROVE  /\ \A g \in DOMAIN gs : gs[g] \subseteq WithSpec \cup EncoderOnly
         /\ \A l \in WithSpec \cup EncoderOnly : \E g \in DOMAIN gs : l \in gs[g]
<1> DEFINE ps == PlannedGroups
<1>1. /\ DOMAIN ps = {Layer(l).group : l \in WithSpec}
      /\ \A g \in DOMAIN ps : ps[g] = {l \in WithSpec : Layer(l).group = g}
  BY DEF PlannedGroups
<1>2. \A l \in WithSpec : Layer(l).group \in DOMAIN ps /\ l \in ps[Layer(l).group]
  BY <1>1
<1>3. "encoder" \notin DOMAIN ps
  <2> SUFFICES ASSUME NEW l \in WithSpec PROVE Layer(l).group # "encoder"
    BY <1>1
  <2>1. PICK i \in DOMAIN AttnLayers : Layer(l) = AttnLayers[i]
    BY LayerIs DEF WithSpec
  <2> QED BY <2>1, LayersAre
<1> HIDE DEF ps
<1>4. CASE EncoderOnly = {}
  <2>1. gs = ps
    BY <1>4 DEF WithEncoderGroup, ps
  <2> QED BY <1>1, <1>2, <1>4, <2>1
<1>5. CASE EncoderOnly # {}
  <2>1. gs = [g \in DOMAIN ps \cup {"encoder"} |-> IF g = "encoder" THEN EncoderOnly ELSE ps[g]]
    BY <1>5 DEF WithEncoderGroup, ps
  <2>2. DOMAIN gs = DOMAIN ps \cup {"encoder"} /\ gs["encoder"] = EncoderOnly
    BY <2>1
  <2>3. \A g \in DOMAIN ps : gs[g] = ps[g]
    BY <1>3, <2>1
  <2> QED BY <1>1, <1>2, <2>2, <2>3
<1> QED BY <1>4, <1>5

\* A sharing layer joins a group and needs no memory; some group has a layer.
LEMMA SharersJoin ==
  ASSUME config \in Configs, NEW es, NEW gs, gs = WithSharing(es), sharedKv' = Sharing,
         es = WithEncoderGroup(PlannedGroups)
  PROVE  /\ (UNION {gs[g] : g \in DOMAIN gs}) \ (EncoderOnly \cup Sharing) = WithSpec
         /\ \E g \in DOMAIN gs : \E l \in LayerNames : l \in gs[g]
<1>1. /\ DOMAIN gs = DOMAIN es
      /\ \A g \in DOMAIN es : gs[g] = es[g] \cup {l \in Sharing : Layer(l).target \in es[g]}
  BY DEF WithSharing
<1>2. /\ \A g \in DOMAIN es : es[g] \subseteq WithSpec \cup EncoderOnly
      /\ \A l \in WithSpec \cup EncoderOnly : \E g \in DOMAIN es : l \in es[g]
  BY GroupsCover
<1>3. WithSpec \cap (EncoderOnly \cup Sharing) = {}
  BY DEF WithSpec
<1>4. (UNION {gs[g] : g \in DOMAIN gs}) \ (EncoderOnly \cup Sharing) = WithSpec
  <2>1. ASSUME NEW l \in WithSpec PROVE \E g \in DOMAIN gs : l \in gs[g]
    BY <1>1, <1>2
  <2>2. ASSUME NEW g \in DOMAIN gs, NEW l \in gs[g], l \notin EncoderOnly \cup Sharing
        PROVE  l \in WithSpec
    BY <1>1, <1>2, <2>2
  <2> QED BY <1>3, <2>1, <2>2
<1>5. \E l \in LayerNames : l \in WithSpec \cup EncoderOnly
  <2>1. PICK l \in LayerNames : TRUE
    BY LayersAre
  <2>2. CASE l \notin Sharing
    BY <2>2 DEF WithSpec
  <2>3. CASE l \in Sharing
    <3>1. Layer(l).target # NoLayer
      BY <2>3 DEF Sharing
    <3>2. PICK i \in DOMAIN AttnLayers : Layer(l) = AttnLayers[i]
      BY LayerIs
    <3>3. Layer(l).target \in LayerNames /\ Layer(Layer(l).target).target = NoLayer
      BY <3>1, <3>2, LayersAre
    <3>4. Layer(l).target \notin Sharing
      BY <3>3 DEF Sharing
    <3> QED BY <3>3, <3>4 DEF WithSpec
  <2> QED BY <2>2, <2>3
<1> QED BY <1>1, <1>2, <1>4, <1>5

\* Some backend decides the mode, and none supports graphs of any batch.
LEMMA LeastSupport ==
  ASSUME config \in Configs, NEW gs, \E g \in DOMAIN gs : \E l \in LayerNames : l \in gs[g]
  PROVE  Min({config.support[a.key.backend[1]] : a \in AttnGroupsOf(gs)}) \in 0 .. 2
<1> DEFINE T == {config.support[a.key.backend[1]] : a \in AttnGroupsOf(gs)}
           ks == {GroupKey(l, g) : l \in LayerNames, g \in DOMAIN gs}
           members(k) == {l \in gs[k.gid] : GroupKey(l, k.gid) = k}
<1>1. AttnGroupsOf(gs) = {[key |-> k, layers |-> members(k)] : k \in {x \in ks : members(x) # {}}}
  BY DEF AttnGroupsOf
<1>2. \A l \in LayerNames, g \in DOMAIN gs :
        GroupKey(l, g).gid = g /\ GroupKey(l, g).backend[1] = Layer(l).backend
  BY DEF GroupKey, BackendOf
<1>3. \A l \in LayerNames : config.support[Layer(l).backend] \in 0 .. 2
  BY GraphAssumption DEF NeverSupported, UniformBatch, LayerNames, Layer, AttnLayers
<1>4. \A a \in AttnGroupsOf(gs) : config.support[a.key.backend[1]] \in 0 .. 2
  <2> SUFFICES ASSUME NEW a \in AttnGroupsOf(gs) PROVE config.support[a.key.backend[1]] \in 0 .. 2
    OBVIOUS
  <2>1. PICK l \in LayerNames, g \in DOMAIN gs : a.key = GroupKey(l, g)
    BY <1>1
  <2>2. a.key.backend[1] = Layer(l).backend
    BY <1>2, <2>1
  <2> QED BY <1>3, <2>2
<1>5. AttnGroupsOf(gs) # {}
  <2>1. PICK g \in DOMAIN gs, l \in LayerNames : l \in gs[g]
    OBVIOUS
  <2>2. GroupKey(l, g) \in ks /\ GroupKey(l, g).gid = g
    BY <1>2
  <2>3. l \in members(GroupKey(l, g))
    BY <2>1, <2>2
  <2> HIDE DEF ks, members
  <2> QED BY <1>1, <2>2, <2>3
<1>6. T \in SUBSET Nat /\ T # {} /\ T \subseteq 0 .. 2
  BY <1>4, <1>5
<1>7. Min(T) \in T
  <2> HIDE DEF T
  <2> QED BY <1>6, MinIs
<1> QED BY <1>6, <1>7

\* With the configuration the layers stay what they are.
LEMMA LayersStay ==
  ASSUME config' = config
  PROVE  /\ Sharing' = Sharing /\ EncoderOnly' = EncoderOnly
         /\ RestrideRaises' = RestrideRaises
         /\ UNCHANGED <<sharedKv, runnerOnly>> => (NamesLearned => NamesLearned')
<1>1. LayerNames' = LayerNames
  BY DEF LayerNames, AttnLayers, NamesIn
<1>2. \A l : Layer(l)' = Layer(l)
  BY DEF Layer, AttnLayers, LayerIn
<1>3. Sharing' = Sharing /\ EncoderOnly' = EncoderOnly
  BY <1>1, <1>2 DEF Sharing, EncoderOnly
<1>4. RestrideRaises' = RestrideRaises
  BY <1>1, <1>2, <1>3 DEF RestrideRaises, Restrided, WithSpec
<1> QED BY <1>3, <1>4 DEF NamesLearned

\* Whatever is there before it, an allocation leaves the dispatchers as the mode asks.
LEMMA AllocateSettles ==
  ASSUME SizesRemain, GraphInv, stage \in {"profile", "allocate"}, NEW kind, Allocate(kind),
         config' = config
  PROVE  KeysSettled' /\ NamesLearned' /\ graphs' = {} /\ (failed' => RestrideRaises')
<1> DEFINE es == WithEncoderGroup(PlannedGroups)
           gs == WithSharing(es)
           support == Min({config.support[a.key.backend[1]] : a \in AttnGroupsOf(gs)})
           m == Resolved(mode, support)
<1>1. /\ config \in Configs /\ mode \in ConfiguredModes /\ ~failed /\ NamesLearned
      /\ graphs = {} /\ attnGroups = {} /\ (Unresolved \/ TornDown)
  BY DEF GraphInv, EarlyStages
<1>2. sharedKv' = Sharing /\ runnerOnly' = EncoderOnly \cup Sharing
  BY <1>1 DEF Allocate, InitializeKvCache, NamesLearned
<1>3. /\ (UNION {gs[g] : g \in DOMAIN gs}) \ (EncoderOnly \cup Sharing) = WithSpec
      /\ \E g \in DOMAIN gs : \E l \in LayerNames : l \in gs[g]
  <2>1. es = WithEncoderGroup(PlannedGroups) /\ gs = WithSharing(es)
    OBVIOUS
  <2> HIDE DEF es, gs
  <2> QED BY <1>1, <1>2, <2>1, SharersJoin
<1>4. failed' => RestrideRaises'
  <2>1. LayoutAsserts(gs)
    <3> HIDE DEF gs
    <3> QED BY <1>1, <1>2, <1>3 DEF LayoutAsserts
  <2>2. RestrideRaises' = RestrideRaises
    BY LayersStay
  <2> QED BY <1>1, <2>1, <2>2 DEF Allocate
<1>5. support \in 0 .. 2
  <2> HIDE DEF gs
  <2> QED BY <1>1, <1>3, LeastSupport
<1>6. InitializeDispatchers(gs)
  BY DEF Allocate
<1>7. /\ mode' = m /\ sizes' = AlignedSizes(m, sizes) /\ keysReady'
      /\ keys' = [k \in GraphModes |-> keys[k] \cup KeysOf(m, sizes')[k]]
      /\ draftKeys' = draftKeys \cup DraftKeysOf(m, sizes')
      /\ graphs' \subseteq graphs
  <2> HIDE DEF gs
  <2> QED BY <1>6 DEF InitializeDispatchers
<1> HIDE DEF gs, support
<1>8. /\ m \in ResolvedModes /\ (m = "NONE" <=> mode = "NONE")
      /\ MixedMode(mode) # "NONE" => MixedMode(m) # "NONE"
      /\ \A s : AlignedSizes(m, s) = AlignedSizes(mode, s)
  BY <1>1, <1>5, ResolvedIs
<1> HIDE DEF m
<1>9. sizes' = AlignedSizes(m, CaptureSizes)
  <2>1. CASE Unresolved
    BY <1>7, <2>1 DEF Unresolved
  <2>2. CASE TornDown
    <3>1. sizes = AlignedSizes(mode, CaptureSizes)
      BY <2>2 DEF TornDown
    <3>2. AlignedSizes(mode, sizes) = sizes
      BY <1>1, <3>1, SizesFit
    <3> QED BY <1>7, <1>8, <3>1, <3>2
  <2> QED BY <1>1, <2>1, <2>2
<1>10. keys' = KeysOf(m, sizes')
  <2>1. keys = NoKeys
    BY <1>1 DEF Unresolved, TornDown
  <2>2. keys' = [k \in GraphModes |-> KeysOf(m, sizes')[k]]
    BY <1>7, <2>1 DEF NoKeys
  <2> QED BY <2>2 DEF KeysOf, GraphModes
<1>11. draftKeys' = DraftKeysOf(m, sizes')
  <2>1. CASE Unresolved
    BY <1>7, <2>1 DEF Unresolved
  <2>2. CASE TornDown
    <3>1. sizes' = sizes
      BY <1>1, <1>7, <1>8, <2>2, SizesFit DEF TornDown
    <3>2. DraftKeysOf(mode, sizes) \subseteq DraftKeysOf(m, sizes)
      BY <1>8 DEF DraftKeysOf
    <3> QED BY <1>7, <2>2, <3>1, <3>2 DEF TornDown
  <2> QED BY <1>1, <2>1, <2>2
<1>12. KeysSettled'
  <2>1. DraftKeysOf(m, sizes') = DraftKeysOf(mode, sizes)'
    BY <1>7 DEF DraftKeysOf
  <2> QED BY <1>7, <1>8, <1>9, <1>10, <1>11, <2>1 DEF KeysSettled
<1>13. NamesLearned'
  <2>1. Sharing' = Sharing /\ EncoderOnly' = EncoderOnly
    BY LayersStay
  <2> QED BY <1>2, <2>1 DEF NamesLearned
<1> QED BY <1>1, <1>4, <1>7, <1>12, <1>13

-----------------------------------------------------------------------------
(* One action after the other.                                             *)

\* A descriptor has a size the dispatcher knows.
LEMMA DescIs ==
  ASSUME KeysSettled, NEW p \in Descs(keys)
  PROVE  p[1] \in GraphModes /\ p[2].tokens \in sizes
<1>1. CASE p[1] = "FULL"
  <2>1. PICK n \in DecodeSizes : p = <<"FULL", UniformDesc(n)>>
    BY <1>1, KeysAre
  <2>2. p[2] = UniformDesc(n) /\ UniformDesc(n).tokens = n /\ n \in sizes
    BY <2>1, Shapes DEF DecodeSizes
  <2> QED BY <1>1, <2>2 DEF GraphModes
<1>2. CASE p[1] = "PIECEWISE"
  <2>1. PICK n \in sizes : p = <<"PIECEWISE", Relaxed(MixedDesc(n))>>
    BY <1>2, KeysAre
  <2>2. p[2] = Relaxed(MixedDesc(n)) /\ Relaxed(MixedDesc(n)).tokens = n
    BY <2>1, Shapes
  <2> QED BY <1>2, <2>2 DEF GraphModes
<1> QED BY <1>1, <1>2, KeysAre

\* With any graph to capture, some graph is captured for the estimate.
LEMMA NothingToProfile ==
  ASSUME SizesRemain, KeysSettled, ProfileDescs(keys) = {}
  PROVE  keys = NoKeys
<1>1. Descs(keys) = {}
  <2> SUFFICES ASSUME NEW p \in Descs(keys) PROVE FALSE
    OBVIOUS
  <2> DEFINE all == {q \in Descs(keys) : q[1] = p[1]}
             T == {q[2].tokens : q \in all}
  <2>1. p[1] \in GraphModes /\ p \in all
    BY DescIs
  <2>2. T \in SUBSET Nat /\ T # {} /\ \A n \in T : n <= MaxNumTokens
    <3>1. \A q \in all : q[2].tokens \in sizes
      BY DescIs
    <3>2. \A n \in sizes : n \in Nat /\ n <= MaxNumTokens
      BY OwnSize
    <3> HIDE DEF all
    <3> QED BY <2>1, <3>1, <3>2
  <2>3. PICK n \in T : \A m \in T : m <= n
    <3> HIDE DEF T
    <3> QED BY <2>2, GreatestNumber, Bounds
  <2>4. PICK q \in all : q[2].tokens = n
    OBVIOUS
  <2>5. q \in LargestOf(p[1], all)
    BY <2>3, <2>4 DEF LargestOf
  <2>6. q \in ProfileDescs(keys)
    <3>1. LargestOf(p[1], all) \cup LargestOf(p[1], all \ LargestOf(p[1], all)) \subseteq ProfileDescs(keys)
      BY <2>1 DEF ProfileDescs
    <3> QED BY <2>5, <3>1
  <2> QED BY <2>6
<1>2. keys.FULL = {} /\ keys.PIECEWISE = {}
  <2>1. \A x \in keys.FULL : <<"FULL", x>> \in Descs(keys)
    BY KeysAre
  <2>2. \A x \in keys.PIECEWISE : <<"PIECEWISE", x>> \in Descs(keys)
    BY KeysAre
  <2> QED BY <1>1, <2>1, <2>2
<1>3. keys = KeysOf(mode, sizes)
  BY DEF KeysSettled
<1> QED BY <1>2, <1>3 DEF KeysOf, NoKeys, GraphModes

\* The estimate captures graphs that are captured for serving too.
LEMMA ProfileSome == ProfileDescs(keys) \subseteq Descs(keys)
BY DEF ProfileDescs, LargestOf

\* A capture adds the graphs of one descriptor.
LEMMA CaptureOneKeeps ==
  ASSUME SizesRemain, KeysSettled, toCapture \subseteq Descs(keys), capturing, ~failed,
         NEW pool, NEW kind, CaptureOne(pool, kind)
  PROVE  /\ ~failed' /\ graphs \subseteq graphs'
         /\ \A g \in graphs' \ graphs : g.pool = pool /\ g.cache = kind
         /\ \E p \in toCapture :
              toCapture' = toCapture \ {p} /\ GraphsFor(p) \subseteq {g.key : g \in graphs'}
<1>1. PICK p \in toCapture :
        LET d == Dispatched(p[2].tokens, DummyUniform(p[2].tokens, p[2].uniform), GraphModes)
            new == Missing(DummyGraphs(p[2].tokens, d, TRUE))
        IN /\ graphs' = graphs \cup {[key |-> k, pool |-> pool, cache |-> kind] : k \in new}
           /\ toCapture' = toCapture \ {p}
           /\ failed' = (failed \/ ~DummyFits(p[2].tokens, p[2].uniform, d.desc.tokens)
                                \/ ~d.ok \/ d.mode # p[1] \/ (new # {} /\ ~capturing))
  BY DEF CaptureOne, LargestOf
<1> DEFINE d == Dispatched(p[2].tokens, p[2].uniform, GraphModes)
           new == Missing(DummyGraphs(p[2].tokens, d, TRUE))
<1>2. /\ graphs' = graphs \cup {[key |-> k, pool |-> pool, cache |-> kind] : k \in new}
      /\ toCapture' = toCapture \ {p}
      /\ failed' = (failed \/ ~DummyFits(p[2].tokens, p[2].uniform, d.desc.tokens)
                           \/ ~d.ok \/ d.mode # p[1] \/ (new # {} /\ ~capturing))
  BY <1>1 DEF DummyUniform
<1>3. /\ d.mode = p[1] /\ d.desc = p[2] /\ d.ok
      /\ DummyFits(p[2].tokens, p[2].uniform, p[2].tokens)
  BY CapturesItself
<1> HIDE DEF d
<1>4. ~failed'
  BY <1>2, <1>3
<1>5. p[1] \in GraphModes /\ p[1] # "NONE"
  BY DescIs DEF GraphModes
<1>6. DummyGraphs(p[2].tokens, d, TRUE) = GraphsFor(p)
  BY <1>3, <1>5 DEF DummyGraphs, GraphsFor, TargetGraph, DraftsWithGraph
<1>7. GraphsFor(p) \subseteq {g.key : g \in graphs'}
  <2>1. ASSUME NEW k \in GraphsFor(p) PROVE \E g \in graphs' : g.key = k
    <3>1. CASE k \in new
      <4>1. [key |-> k, pool |-> pool, cache |-> kind] \in graphs'
        <5> HIDE DEF new
        <5> QED BY <1>2, <3>1
      <4>2. [key |-> k, pool |-> pool, cache |-> kind].key = k
        OBVIOUS
      <4> QED BY <4>1, <4>2
    <3>2. CASE k \notin new
      BY <1>2, <1>6, <2>1, <3>2 DEF Missing
    <3> QED BY <3>1, <3>2
  <2> QED BY <2>1
<1>8. /\ graphs \subseteq graphs'
      /\ \A g \in graphs' \ graphs : g.pool = pool /\ g.cache = kind
  <2> HIDE DEF new
  <2> QED BY <1>2
<1> QED BY <1>2, <1>4, <1>7, <1>8

\* A batch of the serving worker finds its graphs.
LEMMA ReplayFits ==
  ASSUME SizesRemain, KeysSettled, Captured(Descs(keys)), Serving(graphs),
         NEW n \in 1 .. MaxNumSeqs, NEW tokens \in n .. MaxNumTokens, NEW longest,
         NEW cascade \in BOOLEAN, NEW drafts \in BOOLEAN,
         ExecuteModel(n, tokens, longest, cascade, drafts)
  PROVE  ~failed' /\ ran'.fits /\ Serving(ran'.graphs)
<1> DEFINE uniform == IsUniformDecode(longest, tokens, n)
           allowed == IF cascade THEN {"PIECEWISE"} ELSE GraphModes
           d == Dispatched(tokens, uniform, allowed)
           wanted == (IF kvScales THEN {} ELSE TargetGraph(d))
                     \cup (IF drafts THEN DraftGraph(n) ELSE {})
           replayed == {g \in graphs : g.key \in wanted}
<1>1. /\ ran' = [graphs |-> replayed, fits |-> \A g \in replayed : Holds(g.key, tokens, n),
                 foreign |-> ForeignRows(tokens, n, d)]
      /\ failed' = (~d.ok \/ d.desc.tokens > MaxNumTokens \/ (Missing(wanted) # {} /\ ~capturing))
  BY DEF ExecuteModel
<1>2. n \in Nat /\ tokens \in Nat /\ tokens <= MaxNumTokens
  BY Bounds
<1>3. uniform \in BOOLEAN /\ (uniform => tokens = QueryLen * n)
  BY DEF IsUniformDecode
<1>4. /\ d.ok /\ d.desc.tokens \in Nat /\ d.desc.tokens <= MaxNumTokens
      /\ d.mode # "NONE" =>
           /\ <<d.mode, d.desc>> \in Descs(keys)
           /\ d.desc.tokens >= tokens
           /\ d.mode = "FULL" => d.desc.reqs >= n
  <2> HIDE DEF uniform, allowed
  <2> QED BY <1>2, <1>3, BatchFits
<1> HIDE DEF d
<1>5. ASSUME NEW k \in wanted
      PROVE  Holds(k, tokens, n) /\ \E p \in Descs(keys) : k \in GraphsFor(p)
  <2>1. CASE k \in TargetGraph(d)
    <3>1. d.mode # "NONE" /\ k = <<"target", d.mode, d.desc>>
      BY <2>1 DEF TargetGraph
    <3>2. Holds(k, tokens, n)
      BY <1>4, <3>1 DEF Holds
    <3>3. k \in GraphsFor(<<d.mode, d.desc>>)
      BY <3>1 DEF GraphsFor
    <3> QED BY <1>4, <3>1, <3>2, <3>3
  <2>2. CASE k \in DraftGraph(n)
    BY <2>2, DraftFits DEF Holds
  <2> QED BY <1>5, <2>1, <2>2
<1> HIDE DEF wanted
<1>6. Missing(wanted) = {}
  BY <1>5 DEF Captured, Missing
<1>7. ~failed'
  <2>1. ~(d.desc.tokens > MaxNumTokens)
    <3>1. PICK x \in Nat : x = d.desc.tokens /\ x <= MaxNumTokens
      BY <1>4
    <3>2. MaxNumTokens \in Nat
      BY Bounds
    <3> QED BY <3>1, <3>2
  <2> QED BY <1>1, <1>4, <1>6, <2>1
<1>8. \A g \in replayed : Holds(g.key, tokens, n)
  BY <1>5
<1>9. Serving(replayed)
  BY DEF Serving
<1> HIDE DEF replayed
<1>10. ran'.graphs = replayed /\ (ran'.fits <=> \A g \in replayed : Holds(g.key, tokens, n))
  BY <1>1
<1> QED BY <1>7, <1>8, <1>9, <1>10

\* What a step leaves alone stays as it is.
LEMMA StaysSettled ==
  ASSUME UNCHANGED <<config, mode, sizes, keys, keysReady, draftKeys>>
  PROVE  /\ KeysSettled => KeysSettled'
         /\ Unresolved => Unresolved'
         /\ TornDown => TornDown'
         /\ Descs(keys)' = Descs(keys) /\ ProfileDescs(keys)' = ProfileDescs(keys)
         /\ \A p : GraphsFor(p)' = GraphsFor(p)
<1>1. KeysSettled => KeysSettled'
  BY DEF KeysSettled, DraftKeysOf
<1>2. TornDown => TornDown'
  BY DEF TornDown, DraftKeysOf
<1>3. Descs(keys)' = Descs(keys) /\ ProfileDescs(keys)' = ProfileDescs(keys)
  BY DEF Descs, ProfileDescs
<1>4. \A p : GraphsFor(p)' = GraphsFor(p)
  BY DEF GraphsFor, DraftGraph
<1> QED BY <1>1, <1>2, <1>3, <1>4 DEF Unresolved

\* The other parts of the start-up, and stuttering.
LEMMA OthersKeepGraphInv ==
  ASSUME GraphInv, UNCHANGED <<graphVars, layoutVars>>
  PROVE  GraphInv'
<1> USE DEF graphVars, layoutVars
<1>1. /\ KeysSettled => KeysSettled'
      /\ Unresolved => Unresolved'
      /\ TornDown => TornDown'
      /\ Descs(keys)' = Descs(keys) /\ ProfileDescs(keys)' = ProfileDescs(keys)
      /\ \A p : GraphsFor(p)' = GraphsFor(p)
  BY StaysSettled
<1>2. \A ps : Captured(ps) => Captured(ps)'
  BY <1>1 DEF Captured
<1>3. Captured(Descs(keys) \ toCapture) => Captured(Descs(keys) \ toCapture)'
  BY <1>1 DEF Captured
<1>4. Captured(Descs(keys)) => Captured(Descs(keys))'
  BY <1>1 DEF Captured
<1>5. Serving(graphs)' = Serving(graphs) /\ Serving(ran.graphs)' = Serving(ran.graphs)
  BY DEF Serving
<1>6. (NamesLearned => NamesLearned') /\ RestrideRaises' = RestrideRaises
  BY LayersStay
<1> QED BY <1>1, <1>3, <1>4, <1>5, <1>6 DEF GraphInv

\* The configuration is read while no graph or key is there.
LEMMA ReadConfigKeepsGraphInv ==
  ASSUME GraphInv, ReadConfig
  PROVE  GraphInv'
<1>1. /\ stage = "load" /\ config' \in Configs /\ mode' = config'.mode
      /\ stage' \in {"profile", "allocate"}
      /\ UNCHANGED <<sizes, keys, draftKeys, graphs, attnGroups, ran, failed, sharedKv, runnerOnly>>
  BY DEF ReadConfig, layoutVars
<1>2. mode' \in ConfiguredModes
  <2>1. \A c \in Configs : c.mode \in ConfiguredModes
    BY GraphAssumption DEF ConfiguredModes
  <2> QED BY <1>1, <2>1
<1>3. Unresolved'
  BY <1>1 DEF GraphInv, Unresolved
<1>4. NamesLearned' /\ Serving(ran.graphs)' /\ ~failed'
  BY <1>1 DEF GraphInv, NamesLearned, Serving, EarlyStages
<1> QED BY <1>1, <1>2, <1>3, <1>4 DEF GraphInv, EarlyStages, LateStages

\* The first cache settles the keys.
LEMMA ProfileKeepsGraphInv ==
  ASSUME SizesRemain, GraphInv, ProfileGraphMemory
  PROVE  GraphInv'
<1>1. /\ stage = "profile" /\ stage' = "profiling" /\ capturing' /\ Allocate("minimal")
      /\ toCapture' = ProfileDescs(keys') /\ config' = config /\ ran' = ran
  BY DEF ProfileGraphMemory
<1>2. KeysSettled' /\ NamesLearned' /\ graphs' = {} /\ (failed' => RestrideRaises')
  BY <1>1, AllocateSettles
<1>3. config \in Configs /\ ran.fits /\ Serving(ran.graphs)
  BY <1>1 DEF GraphInv
<1>4. mode' \in ConfiguredModes /\ Serving(ran.graphs)'
  BY <1>1, <1>2, <1>3 DEF KeysSettled, ResolvedModes, Serving
<1>5. ProfileDescs(keys)' = ProfileDescs(keys')
  BY DEF ProfileDescs, Descs
<1> QED BY <1>1, <1>2, <1>3, <1>4, <1>5 DEF GraphInv, EarlyStages, LateStages

\* So does the real one, on what the first pass left.
LEMMA InitializeCacheKeepsGraphInv ==
  ASSUME SizesRemain, GraphInv, InitializeCache
  PROVE  GraphInv'
<1>1. /\ stage = "allocate" /\ stage' = "warmup" /\ Allocate("final")
      /\ config' = config /\ ran' = ran
  BY DEF InitializeCache
<1>2. KeysSettled' /\ NamesLearned' /\ graphs' = {} /\ (failed' => RestrideRaises')
  BY <1>1, AllocateSettles
<1>3. config \in Configs /\ ran.fits /\ Serving(ran.graphs)
  BY <1>1 DEF GraphInv
<1>4. mode' \in ConfiguredModes /\ Serving(ran.graphs)'
  BY <1>1, <1>2, <1>3 DEF KeysSettled, ResolvedModes, Serving
<1> QED BY <1>1, <1>2, <1>3, <1>4 DEF GraphInv, EarlyStages, LateStages

\* Captures for the estimate.
LEMMA ProfileCaptureKeepsGraphInv ==
  ASSUME SizesRemain, GraphInv, ProfileCapture
  PROVE  GraphInv'
<1>1. /\ stage = "profiling" /\ ~failed /\ CaptureOne("profiling", "minimal")
      /\ UNCHANGED <<config, mode, sizes, keys, keysReady, draftKeys, capturing, stage, ran,
                     sharedKv, runnerOnly>>
  BY DEF ProfileCapture, layoutVars
<1>2. /\ KeysSettled /\ capturing /\ ~failed /\ toCapture \subseteq ProfileDescs(keys)
      /\ NamesLearned /\ ran.fits /\ Serving(ran.graphs)
      /\ config \in Configs /\ mode \in ConfiguredModes
  BY <1>1 DEF GraphInv, LateStages
<1>3. toCapture \subseteq Descs(keys)
  BY <1>2, ProfileSome
<1>4. ~failed' /\ \E p \in toCapture : toCapture' = toCapture \ {p}
  BY <1>1, <1>2, <1>3, CaptureOneKeeps
<1>5. KeysSettled' /\ ProfileDescs(keys)' = ProfileDescs(keys)
  BY <1>1, <1>2, StaysSettled
<1>6. toCapture' \subseteq ProfileDescs(keys)' /\ ProfileDescs(keys)' # {}
  BY <1>2, <1>4, <1>5
<1>7. NamesLearned' /\ Serving(ran.graphs)'
  BY <1>1, <1>2, LayersStay DEF Serving
<1> QED BY <1>1, <1>2, <1>4, <1>5, <1>6, <1>7 DEF GraphInv, EarlyStages, LateStages

\* After the estimate no graph is left, and no key of the target.
LEMMA EndProfileKeepsGraphInv ==
  ASSUME SizesRemain, GraphInv, EndProfile
  PROVE  GraphInv'
<1>1. /\ stage = "profiling" /\ ~failed /\ stage' = "allocate" /\ attnGroups' = {}
      /\ UNCHANGED <<config, mode, sizes, draftKeys, ran, failed, sharedKv, runnerOnly>>
      /\ \/ ProfileDescs(keys) = {} /\ UNCHANGED <<graphs, keys>>
         \/ graphs' = {} /\ keys' = NoKeys
  BY DEF EndProfile, CleanupKvCache, ClearedGraphs
<1>2. /\ KeysSettled /\ (ProfileDescs(keys) = {} => graphs = {}) /\ ~failed
      /\ NamesLearned /\ ran.fits /\ Serving(ran.graphs)
      /\ config \in Configs /\ mode \in ConfiguredModes
  BY <1>1 DEF GraphInv, LateStages
<1>3. graphs' = {} /\ keys' = NoKeys
  BY <1>1, <1>2, NothingToProfile
<1>4. TornDown'
  BY <1>1, <1>2, <1>3 DEF KeysSettled, TornDown, DraftKeysOf
<1>5. NamesLearned' /\ Serving(ran.graphs)'
  BY <1>1, <1>2, LayersStay DEF Serving
<1> QED BY <1>1, <1>2, <1>3, <1>4, <1>5 DEF GraphInv, EarlyStages, LateStages

\* The warm-up runs pass the asserts of a dummy run.
LEMMA WarmUpKeepsGraphInv ==
  ASSUME GraphInv, WarmUp \/ WarmupDone
  PROVE  GraphInv'
<1>1. /\ stage = "warmup" /\ ~failed /\ stage' \in {"warmup", "capture"}
      /\ UNCHANGED <<config, mode, sizes, keys, keysReady, draftKeys, graphs, ran, sharedKv,
                     runnerOnly>>
  BY DEF WarmUp, WarmupDone, Warming, layoutVars
<1>2. /\ KeysSettled /\ graphs = {} /\ ~failed /\ NamesLearned /\ ran.fits /\ Serving(ran.graphs)
      /\ config \in Configs /\ mode \in ConfiguredModes
  BY <1>1 DEF GraphInv, LateStages
<1>3. \A s \in WarmupShapes : DummyFits(s[1], s[2], s[1])
  <2> SUFFICES ASSUME NEW s \in WarmupShapes PROVE DummyFits(s[1], s[2], s[1])
    OBVIOUS
  <2>1. CASE s = <<QueryLen, TRUE>>
    <3>1. (QueryLen * 1 + QueryLen - 1) \div QueryLen = 1
      BY Decodes
    <3>2. QueryLen * 1 = QueryLen
      BY Bounds
    <3>3. (QueryLen + QueryLen - 1) \div QueryLen = 1
      BY <3>1, <3>2
    <3>4. DummyFits(QueryLen, TRUE, QueryLen)
      BY <3>3, Bounds DEF DummyFits
    <3> QED BY <2>1, <3>4
  <2>2. CASE \E n \in WarmupTokens : s = <<ClampWarmupTokens(n), FALSE>>
    <3>1. PICK n \in WarmupTokens : s = <<ClampWarmupTokens(n), FALSE>>
      BY <2>2
    <3>2. n \in Nat /\ MaxNumTokens \in Nat
      BY WarmupAssumption, Bounds
    <3>3. ClampWarmupTokens(n) = IF n <= MaxNumTokens THEN n ELSE MaxNumTokens
      BY <3>2, LesserOf DEF ClampWarmupTokens
    <3>4. ClampWarmupTokens(n) <= MaxNumTokens
      BY <3>2, <3>3
    <3>5. DummyFits(ClampWarmupTokens(n), FALSE, ClampWarmupTokens(n))
      BY <3>4 DEF DummyFits
    <3> QED BY <3>1, <3>5
  <2> QED BY <2>1, <2>2 DEF WarmupShapes
<1>4. ~failed'
  BY <1>2, <1>3 DEF WarmUp, WarmupDone
<1>5. KeysSettled'
  BY <1>1, <1>2, StaysSettled
<1>6. NamesLearned' /\ Serving(ran.graphs)'
  BY <1>1, <1>2, LayersStay DEF Serving
<1> QED BY <1>1, <1>2, <1>4, <1>5, <1>6 DEF GraphInv, EarlyStages, LateStages

\* Nothing is captured yet when the captures begin.
LEMMA CaptureModelKeepsGraphInv ==
  ASSUME GraphInv, CaptureModel
  PROVE  GraphInv'
<1>1. /\ stage = "capture" /\ ~failed
      /\ \/ mode = "NONE" /\ stage' = "serve"
         \/ mode # "NONE" /\ stage' = "capturing" /\ capturing' /\ toCapture' = Descs(keys)
      /\ UNCHANGED <<config, mode, sizes, keys, keysReady, draftKeys, graphs, ran, failed, sharedKv,
                     runnerOnly>>
  BY DEF CaptureModel, layoutVars
<1>2. /\ KeysSettled /\ graphs = {} /\ ~failed /\ NamesLearned /\ ran.fits /\ Serving(ran.graphs)
      /\ config \in Configs /\ mode \in ConfiguredModes
  BY <1>1 DEF GraphInv, LateStages
<1>3. KeysSettled' /\ Descs(keys)' = Descs(keys)
  BY <1>1, <1>2, StaysSettled
<1>4. NamesLearned' /\ Serving(ran.graphs)' /\ Serving(graphs)'
  BY <1>1, <1>2, LayersStay DEF Serving
<1>5. CASE mode = "NONE"
  <2>1. Descs(keys) = {}
    BY <1>2, <1>5, KeysAre DEF SeparateRoutine, MixedMode
  <2>2. Captured(Descs(keys))'
    BY <1>3, <2>1 DEF Captured
  <2> QED BY <1>1, <1>2, <1>3, <1>4, <1>5, <2>2 DEF GraphInv, EarlyStages, LateStages
<1>6. CASE mode # "NONE"
  <2>1. Captured(Descs(keys) \ toCapture)'
    BY <1>1, <1>3, <1>6 DEF Captured
  <2>2. (toCapture \subseteq Descs(keys))'
    BY <1>1, <1>3, <1>6
  <2> QED BY <1>1, <1>2, <1>3, <1>4, <1>6, <2>1, <2>2 DEF GraphInv, EarlyStages, LateStages
<1> QED BY <1>5, <1>6

\* A capture for serving.
LEMMA CaptureGraphKeepsGraphInv ==
  ASSUME SizesRemain, GraphInv, CaptureGraph
  PROVE  GraphInv'
<1>1. /\ stage = "capturing" /\ ~failed /\ CaptureOne("global", "final")
      /\ UNCHANGED <<config, mode, sizes, keys, keysReady, draftKeys, capturing, stage, ran,
                     sharedKv, runnerOnly>>
  BY DEF CaptureGraph, layoutVars
<1>2. /\ KeysSettled /\ capturing /\ ~failed /\ toCapture \subseteq Descs(keys)
      /\ Captured(Descs(keys) \ toCapture) /\ Serving(graphs)
      /\ NamesLearned /\ ran.fits /\ Serving(ran.graphs)
      /\ config \in Configs /\ mode \in ConfiguredModes
  BY <1>1 DEF GraphInv, LateStages
<1>3. /\ ~failed' /\ graphs \subseteq graphs'
      /\ \A g \in graphs' \ graphs : g.pool = "global" /\ g.cache = "final"
      /\ \E p \in toCapture :
           toCapture' = toCapture \ {p} /\ GraphsFor(p) \subseteq {g.key : g \in graphs'}
  BY <1>1, <1>2, CaptureOneKeeps
<1>4. PICK p \in toCapture :
        toCapture' = toCapture \ {p} /\ GraphsFor(p) \subseteq {g.key : g \in graphs'}
  BY <1>3
<1>5. KeysSettled' /\ Descs(keys)' = Descs(keys) /\ \A q : GraphsFor(q)' = GraphsFor(q)
  BY <1>1, <1>2, StaysSettled
<1>6. \A q \in Descs(keys) \ toCapture' : GraphsFor(q) \subseteq {g.key : g \in graphs'}
  <2> SUFFICES ASSUME NEW q \in Descs(keys) \ toCapture', NEW k \in GraphsFor(q)
               PROVE  k \in {g.key : g \in graphs'}
    OBVIOUS
  <2>1. CASE q = p
    BY <1>4, <2>1
  <2>2. CASE q # p
    <3>1. q \in Descs(keys) \ toCapture
      BY <1>4, <2>2
    <3>2. PICK g \in graphs : g.key = k
      BY <1>2, <3>1 DEF Captured
    <3> QED BY <1>3, <3>2
  <2> QED BY <2>1, <2>2
<1>7. Captured(Descs(keys) \ toCapture)'
  BY <1>5, <1>6 DEF Captured
<1>8. (toCapture \subseteq Descs(keys))'
  BY <1>2, <1>4, <1>5
<1>9. NamesLearned' /\ Serving(ran.graphs)' /\ Serving(graphs)'
  BY <1>1, <1>2, <1>3, LayersStay DEF Serving
<1> QED BY <1>1, <1>2, <1>3, <1>5, <1>7, <1>8, <1>9 DEF GraphInv, EarlyStages, LateStages

\* When the captures end everything is captured.
LEMMA EndCaptureKeepsGraphInv ==
  ASSUME GraphInv, EndCapture
  PROVE  GraphInv'
<1>1. /\ stage = "capturing" /\ ~failed /\ stage' = "serve" /\ toCapture = {} /\ ~capturing'
      /\ UNCHANGED <<config, mode, sizes, keys, keysReady, draftKeys, graphs, ran, failed, sharedKv,
                     runnerOnly>>
  BY DEF EndCapture, layoutVars
<1>2. /\ KeysSettled /\ ~failed /\ Captured(Descs(keys) \ toCapture) /\ Serving(graphs)
      /\ NamesLearned /\ ran.fits /\ Serving(ran.graphs)
      /\ config \in Configs /\ mode \in ConfiguredModes
  BY <1>1 DEF GraphInv, LateStages
<1>3. KeysSettled' /\ Descs(keys)' = Descs(keys) /\ \A q : GraphsFor(q)' = GraphsFor(q)
  BY <1>1, <1>2, StaysSettled
<1>4. Captured(Descs(keys))'
  BY <1>1, <1>2, <1>3 DEF Captured
<1>5. NamesLearned' /\ Serving(ran.graphs)' /\ Serving(graphs)'
  BY <1>1, <1>2, LayersStay DEF Serving
<1> QED BY <1>1, <1>2, <1>3, <1>4, <1>5 DEF GraphInv, EarlyStages, LateStages

\* A batch.
LEMMA ExecuteKeepsGraphInv ==
  ASSUME SizesRemain, GraphInv, Execute
  PROVE  GraphInv'
<1>1. /\ stage = "serve"
      /\ UNCHANGED <<config, mode, sizes, keys, keysReady, draftKeys, graphs, capturing, stage,
                     sharedKv, runnerOnly>>
  BY DEF Execute, layoutVars
<1>2. /\ KeysSettled /\ Captured(Descs(keys)) /\ Serving(graphs) /\ (mode # "NONE" => ~capturing)
      /\ NamesLearned /\ config \in Configs /\ mode \in ConfiguredModes
  BY <1>1 DEF GraphInv, LateStages
<1>3. ~failed' /\ ran'.fits /\ Serving(ran'.graphs)
  <2>1. PICK n \in 1 .. MaxNumSeqs, cascade \in BOOLEAN, drafts \in BOOLEAN :
          \E tokens \in n .. MaxNumTokens : \E longest \in {QueryLen, tokens - n + 1} :
            ExecuteModel(n, tokens, longest, cascade, drafts)
    BY DEF Execute
  <2>2. PICK tokens \in n .. MaxNumTokens :
          \E longest : ExecuteModel(n, tokens, longest, cascade, drafts)
    BY <2>1
  <2>3. PICK longest : ExecuteModel(n, tokens, longest, cascade, drafts)
    BY <2>2
  <2> QED BY <1>2, <2>3, ReplayFits
<1>4. KeysSettled' /\ Descs(keys)' = Descs(keys) /\ \A q : GraphsFor(q)' = GraphsFor(q)
  BY <1>1, <1>2, StaysSettled
<1>5. Captured(Descs(keys))'
  BY <1>1, <1>2, <1>4 DEF Captured
<1>6. NamesLearned' /\ Serving(graphs)' /\ Serving(ran.graphs)'
  BY <1>1, <1>2, <1>3, LayersStay DEF Serving
<1> QED BY <1>1, <1>2, <1>3, <1>4, <1>5, <1>6 DEF GraphInv, EarlyStages, LateStages

\* No worker that starts as the code starts it dies of a shape assert or of a capture that
\* should have happened before, in whatever mode, with whatever sizes left to capture,
\* layers, backends and batches: it dies of layers whose layout cannot be updated, and of
\* nothing else. What it replays was captured in the serving worker's pool on the cache
\* that serves, for at least as many tokens and requests (capture_model,
\* profile_cudagraph_memory, CudagraphDispatcher.dispatch).
THEOREM OnlyCapturedIsReplayed ==
  ASSUME SizesRemain
  PROVE  Spec => []ReplaysOnlyCaptured
<1>1. Init => GraphInv
  <2> SUFFICES ASSUME Init PROVE GraphInv
    OBVIOUS
  <2>1. /\ stage = "load" /\ mode = "NONE" /\ ~failed /\ sizes = CaptureSizes /\ keys = NoKeys
        /\ draftKeys = {} /\ graphs = {} /\ attnGroups = {} /\ sharedKv = {} /\ runnerOnly = {}
        /\ ran = NothingRan
    BY DEF Init, GraphInit, LayoutInit
  <2>2. Unresolved /\ NamesLearned
    BY <2>1 DEF Unresolved, NamesLearned
  <2>3. ran.fits /\ Serving(ran.graphs)
    BY <2>1 DEF NothingRan, Serving
  <2> QED BY <2>1, <2>2, <2>3 DEF GraphInv, EarlyStages, LateStages, ConfiguredModes
<1>2. GraphInv /\ [Next]_vars => GraphInv'
  <2> SUFFICES ASSUME GraphInv, [Next]_vars PROVE GraphInv'
    OBVIOUS
  <2>1. CASE ConfigureEngine \/ StartWorkers \/ LoadWeights \/ UNCHANGED vars
    <3>1. UNCHANGED <<graphVars, layoutVars>>
      BY <2>1 DEF ConfigureEngine, StartWorkers, LoadWeights, workerVars, vars
    <3> QED BY <3>1, OthersKeepGraphInv
  <2>2. CASE ModelLoaded
    BY <2>2, ReadConfigKeepsGraphInv DEF ModelLoaded
  <2>3. CASE Graphs
    BY <2>3, ProfileKeepsGraphInv, InitializeCacheKeepsGraphInv, ProfileCaptureKeepsGraphInv,
       EndProfileKeepsGraphInv, CaptureModelKeepsGraphInv, CaptureGraphKeepsGraphInv,
       EndCaptureKeepsGraphInv, ExecuteKeepsGraphInv DEF Graphs
  <2>4. CASE Warmup
    <3>1. CASE WarmUp \/ WarmupDone
      BY <3>1, WarmUpKeepsGraphInv
    <3>2. CASE Barrier \/ \E r \in Ranks : Tune(r) \/ Broadcast(r) \/ Write(r) \/ Load(r)
                                            \/ FlashinferAutotune(r)
      <4>1. UNCHANGED <<graphVars, layoutVars>>
        BY <3>2 DEF Barrier, Tune, Broadcast, Write, Load, FlashinferAutotune
      <4> QED BY <4>1, OthersKeepGraphInv
    <3> QED BY <2>4, <3>1, <3>2 DEF Warmup, WarmupNext
  <2> QED BY <2>1, <2>2, <2>3, <2>4 DEF Next
<1>3. GraphInv => ReplaysOnlyCaptured
  BY DEF GraphInv, ReplaysOnlyCaptured, Serving
<1> QED BY <1>1, <1>2, <1>3, PTL DEF Spec

\* A batch writes no slot and reads no block that an earlier batch left in the rows it was
\* padded with, whatever ran before it (_get_slot_mappings, _build_attention_metadata).
THEOREM PaddedRowsAreInert == Spec => []PaddingIsInert
<1>1. Init => PaddingIsInert
  BY DEF Init, GraphInit, NothingRan, PaddingIsInert
<1>2. PaddingIsInert /\ [Next]_vars => PaddingIsInert'
  <2> SUFFICES ASSUME PaddingIsInert, [Next]_vars PROVE PaddingIsInert'
    OBVIOUS
  <2>1. CASE Execute
    <3>1. PICK n \in 1 .. MaxNumSeqs, cascade \in BOOLEAN, drafts \in BOOLEAN :
            \E tokens \in n .. MaxNumTokens : \E longest \in {QueryLen, tokens - n + 1} :
              ExecuteModel(n, tokens, longest, cascade, drafts)
      BY <2>1 DEF Execute
    <3>2. PICK tokens \in n .. MaxNumTokens :
            \E longest : ExecuteModel(n, tokens, longest, cascade, drafts)
      BY <3>1
    <3>3. PICK longest : ExecuteModel(n, tokens, longest, cascade, drafts)
      BY <3>2
    <3>4. \E d : ran'.foreign = ForeignRows(tokens, n, d)
      BY <3>3 DEF ExecuteModel
    <3>5. \A d : ForeignRows(tokens, n, d) = {}
      BY DEF ForeignRows, ClearedRows, MappedRows
    <3> QED BY <3>4, <3>5 DEF PaddingIsInert
  <2>2. CASE ~Execute
    <3>1. ran' = ran
      BY <2>2 DEF Next, ConfigureEngine, StartWorkers, LoadWeights, ModelLoaded, ReadConfig, Graphs,
                  ProfileGraphMemory, ProfileCapture, EndProfile, InitializeCache, CaptureModel,
                  CaptureGraph, EndCapture, Warmup, WarmupNext, WarmUp, Barrier, WarmupDone, Tune,
                  Broadcast, Write, Load, FlashinferAutotune, workerVars, graphVars, vars
    <3> QED BY <3>1 DEF PaddingIsInert
  <2> QED BY <2>1, <2>2
<1> QED BY <1>1, <1>2, PTL DEF Spec

===============================================================================
