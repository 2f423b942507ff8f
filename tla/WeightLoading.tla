---------------------------- MODULE WeightLoading ---------------------------
(***************************************************************************)
(* load_weights of the target model and then of the DSpark drafter         *)
(* (models/deepseek_v4/nvidia): every rank reads the whole checkpoint,     *)
(* whose tensors come in the order of its files, and keeps what belongs to *)
(* its layers, its attention heads and its experts. Several tensors make   *)
(* up one parameter: the projections that are fused, the two halves of an  *)
(* expert's gate and up projection, the experts of a rank.                 *)
(*                                                                         *)
(* The drafter's "mtp" stages become the layers from FirstDraftLayer on;   *)
(* every rank of the last pipeline stage has all of them. A parameter is a *)
(* layer and a name; a place in it is a pair of numbers: an expert of the  *)
(* rank and a half, zero and a shard, or zero and a head.                  *)
(***************************************************************************)
EXTENDS Integers, FiniteSets

CONSTANTS
  ExpertDtype,      \* "fp4" or "fp8": how the experts are quantized
  LoadRanks,        \* the ranks: records of pp and tp
  StageLayers,      \* the target layers of each pipeline stage, by pp
  FirstDraftLayer, NumDraftLayers,
  MtpStages,        \* the stages in the checkpoint
  TpSize, NumHeads, NumExperts

LastStage == CHOOSE s \in DOMAIN StageLayers : \A t \in DOMAIN StageLayers : t <= s

ASSUME LoadAssumption ==
  /\ ExpertDtype \in {"fp4", "fp8"}
  /\ {TpSize, NumHeads, NumExperts} \subseteq Nat \ {0}
  /\ NumHeads % TpSize = 0 /\ NumExperts % TpSize = 0
  /\ \A r \in LoadRanks : r.pp \in DOMAIN StageLayers /\ r.tp \in 0 .. TpSize - 1
  /\ FirstDraftLayer \in Nat /\ NumDraftLayers \in Nat
  /\ 0 .. NumDraftLayers - 1 \subseteq MtpStages /\ MtpStages \subseteq Nat
  /\ \A s \in DOMAIN StageLayers : StageLayers[s] \subseteq 0 .. FirstDraftLayer - 1

VARIABLES
  reading,       \* the model whose weights are loaded: "target" or "mtp"
  unread,        \* the kinds of tensors that are still to come
  weights,       \* per rank, what the places of its parameters hold
  reported,      \* per rank, the parameters load_weights says it loaded
  raised         \* a rank met a tensor it has no parameter for

loadVars == <<reading, unread, weights, reported, raised>>

Experts == 0 .. NumExperts - 1
Heads == 0 .. NumHeads - 1
LocalExperts == NumExperts \div TpSize
LocalHeads == NumHeads \div TpSize

\* Tensors outside the experts, and those of an expert.
Stacked == {"shared.w1", "shared.w3", "wq_a", "wkv"}
Plain == {"shared.w2", "gate.bias"}
OfExperts == {"w1", "w2", "w3"}
Kinds == Stacked \cup Plain \cup OfExperts \cup {"attn_sink"}

LoadInit ==
  /\ reading = "target"
  /\ unread = Kinds
  /\ weights = [r \in LoadRanks |-> {}]
  /\ reported = [r \in LoadRanks |-> {}]
  /\ raised = FALSE

-----------------------------------------------------------------------------
\* Names.

\* What the quantization methods register for the scales of the experts.
ScaleName == IF ExpertDtype = "fp4" THEN "weight_scale" ELSE "weight_scale_inv"

\* Mutant: every scale is named as those of the linear layers.
LinearScaleSuffix == "weight_scale_inv"

\* _make_deepseek_v4_weights_mapper and the drafter's expert_scale_suffix.
ScaleSuffix == IF ExpertDtype = "fp4" THEN "weight_scale" ELSE "weight_scale_inv"

\* stacked_params_mapping and map_dspark_stacked_param_name: the fused
\* parameter and the shard.
StackedParam(kind) ==
  CASE kind = "shared.w1" -> <<"gate_up_proj", 0>>
    [] kind = "shared.w3" -> <<"gate_up_proj", 1>>
    [] kind = "wq_a" -> <<"fused_wqa_wkv", 0>>
    [] kind = "wkv" -> <<"fused_wqa_wkv", 1>>

\* map_dspark_stacked_param_name knows the fused attention projection only:
\* load_weights of the drafter finds no parameter with the name of a shared
\* expert's gate or up projection, and skips it as unknown.
Unknown(kind) == reading = "mtp" /\ kind \in {"shared.w1", "shared.w3"}

\* The renamed parameters of tensors that are alone in theirs.
PlainParam(kind) == IF kind = "shared.w2" THEN "down_proj" ELSE "e_score_correction_bias"

\* make_deepseek_v4_expert_params_mapping.
ExpertParam(kind) == IF kind \in {"w1", "w3"} THEN "w13" ELSE "w2"

\* is_pp_missing_parameter; the drafter has the stages it was built with.
Present(r, layer) ==
  IF reading = "target" THEN layer \in StageLayers[r.pp]
  ELSE r.pp = LastStage /\ layer - FirstDraftLayer \in 0 .. NumDraftLayers - 1

TargetLayers == UNION {StageLayers[s] : s \in DOMAIN StageLayers}

\* The layers the tensors of this pass are for. A stage the drafter was not
\* built with is skipped.
LayersRead ==
  IF reading = "target" THEN TargetLayers ELSE {FirstDraftLayer + s : s \in MtpStages}

\* The parameters of a layer's experts, and all parameters of a layer.
ExpertParams == {<<p, s>> : p \in {"w13", "w2"}, s \in {"weight", ScaleName}}

LayerParams ==
  {<<p, "weight">> :
     p \in {"gate_up_proj", "down_proj", "fused_wqa_wkv", "attn_sink", "e_score_correction_bias"}}
  \cup ExpertParams

-----------------------------------------------------------------------------
\* What a rank writes.

\* Mutant: an expert's place is its number in the whole model.
GlobalExpertId(r, expert) == IF expert \in Experts THEN expert ELSE -1

\* _map_global_expert_id.
LocalExpertId(r, expert) ==
  LET first == r.tp * LocalExperts
  IN IF expert < first \/ expert >= first + LocalExperts THEN -1 ELSE expert - first

\* The half of an expert's w13 a tensor goes to.
Half(kind) == IF kind = "w3" THEN 1 ELSE 0

\* A scale keeps its bits: exponents are viewed as bytes before the copy.
Bits(suffix) == IF suffix = "weight" THEN "value" ELSE "raw bytes"

\* DeepseekV4MegaMoEExperts.weight_loader for the tensors of a layer's experts.
ExpertWrites(r, layer, kind) ==
  {[layer |-> layer, param |-> <<ExpertParam(kind), s>>,
    place |-> <<LocalExpertId(r, x), Half(kind)>>,
    holds |-> <<kind, x, Bits(s)>>] :
     x \in {y \in Experts : LocalExpertId(r, y) # -1}, s \in {"weight", ScaleSuffix}}

\* The heads of the sink this rank attends with; what its parameter has
\* beyond them for padding is left alone.
SinkWrites(r, layer) ==
  {[layer |-> layer, param |-> <<"attn_sink", "weight">>, place |-> <<0, h - LocalHeads * r.tp>>,
    holds |-> <<"attn_sink", h, "value">>] :
     h \in LocalHeads * r.tp .. LocalHeads * (r.tp + 1) - 1}

WritesOf(r, layer, kind) ==
  CASE Unknown(kind) -> {}
    [] kind \in Stacked /\ ~Unknown(kind) ->
         {[layer |-> layer, param |-> <<StackedParam(kind)[1], "weight">>,
           place |-> <<0, StackedParam(kind)[2]>>,
           holds |-> <<kind, 0, "value">>]}
    [] kind = "attn_sink" -> SinkWrites(r, layer)
    [] kind \in Plain ->
         {[layer |-> layer, param |-> <<PlainParam(kind), "weight">>, place |-> <<0, 0>>,
           holds |-> <<kind, 0, "value">>]}
    [] OTHER -> ExpertWrites(r, layer, kind)

\* The target's load_weights reports the name an expert's tensor was last
\* mapped to, whether the expert is one of this rank, and even when the layer
\* is missing on its stage and was skipped. The drafter's reports what a weight
\* loader took.
ReportedUnseen(kind) ==
  {<<l, <<ExpertParam(kind), s>>>> :
     l \in IF reading = "target" /\ kind \in OfExperts THEN LayersRead ELSE {},
     s \in {"weight", ScaleSuffix}}

\* The tensors of one kind, which are independent of each other, on all
\* ranks. A parameter the rank's layer does not have is a KeyError.
LoadTensors(kind) ==
  LET new(r) == UNION {WritesOf(r, l, kind) : l \in {k \in LayersRead : Present(r, k)}}
      same(a, b) == a.layer = b.layer /\ a.param = b.param /\ a.place = b.place
      names(r) == {<<w.layer, w.param>> : w \in new(r)}
  IN
  /\ kind \in unread /\ ~raised
  /\ unread' = unread \ {kind}
  /\ weights' = [r \in LoadRanks |->
                   {w \in weights[r] : \A n \in new(r) : ~same(w, n)} \cup new(r)]
  /\ reported' = [r \in LoadRanks |-> reported[r] \cup names(r) \cup ReportedUnseen(kind)]
  /\ raised' = \E r \in LoadRanks : \E w \in new(r) : w.param \notin LayerParams
  /\ UNCHANGED reading

\* The drafter reads the checkpoint again after the target.
NextModel ==
  /\ unread = {} /\ reading = "target" /\ ~raised
  /\ reading' = "mtp"
  /\ unread' = Kinds
  /\ UNCHANGED <<weights, reported, raised>>

LoadNext == NextModel \/ \E kind \in Kinds : LoadTensors(kind)

-----------------------------------------------------------------------------
\* The layers a rank has in the end.
LayersOf(r) ==
  StageLayers[r.pp]
  \cup (IF r.pp = LastStage THEN FirstDraftLayer .. FirstDraftLayer + NumDraftLayers - 1 ELSE {})

LocalPart(r, size) == r.tp * size .. (r.tp + 1) * size - 1

\* The parameters of a layer that load_weights is able to load.
Loadable(l) ==
  LayerParams \ (IF l >= FirstDraftLayer THEN {<<"gate_up_proj", "weight">>} ELSE {})

\* What load_weights of both models says it loaded: a rank's own parameters, and
\* those of the experts of all target layers.
ToReport(r) ==
  {<<l, p>> : l \in TargetLayers, p \in ExpertParams}
  \cup UNION {{<<l, p>> : p \in Loadable(l)} : l \in LayersOf(r)}

\* When both models are loaded, in whatever order the tensors came, every
\* rank has, in each of its layers and nowhere else, each tensor of the layer
\* once: fused ones whole, of the experts its own share with their scales'
\* bits kept, of the sinks its own heads; and it reports these parameters and,
\* besides, only the experts of the target layers of other stages
\* (load_weights of both models). The drafter's shared experts are left out:
\* nothing loads their gate and up projections.
WeightsInPlace ==
  /\ ~raised
  /\ (reading = "mtp" /\ unread = {}) =>
       \A r \in LoadRanks :
         LET inLayer(l) == {w \in weights[r] : w.layer = l}
             has(l, tensor, n, size) ==
               Cardinality({w \in inLayer(l) : w.holds[1] = tensor /\ w.holds[2] = n}) = size
         IN
         /\ {w.layer : w \in weights[r]} = LayersOf(r)
         /\ reported[r] = ToReport(r)
         /\ \A l \in LayersOf(r) :
              /\ \A t \in Plain \cup {"wq_a", "wkv"} : has(l, t, 0, 1)
              /\ <<"gate_up_proj", "weight">> \in Loadable(l) =>
                   has(l, "shared.w1", 0, 1) /\ has(l, "shared.w3", 0, 1)
              /\ \A h \in Heads :
                   has(l, "attn_sink", h, IF h \in LocalPart(r, LocalHeads) THEN 1 ELSE 0)
              /\ \A x \in Experts, t \in OfExperts :
                   has(l, t, x, IF x \in LocalPart(r, LocalExperts) THEN 2 ELSE 0)
              /\ \A w \in inLayer(l) : w.place[1] \in 0 .. LocalExperts - 1
=============================================================================
