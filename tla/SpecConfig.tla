------------------------------ MODULE SpecConfig ----------------------------
(***************************************************************************)
(* What SpeculativeConfig (config/speculative.py) makes of the user's      *)
(* arguments: the method, the draft model's architecture, the number of    *)
(* drafts, the drafter's share of the ranks and its longest sequence; and  *)
(* the proposer the runner builds for it.                                  *)
(*                                                                         *)
(* Arguments and results are one record, a Config, that the steps of       *)
(* __post_init__ fill in one after the other; a raised exception ends it.  *)
(* A checkpoint is what its path and its hf_config tell. Lengths are in    *)
(* tokens, acceptance rates in tenths.                                     *)
(***************************************************************************)
EXTENDS Integers, SequencesExt

CONSTANTS
  Checkpoints,   \* checkpoint ids -> records of words (in the path, in lower case), dotted
                 \* (a "." and no "/" in it), type, arch, nPredict, block, layers, len,
                 \* vocab and speculator (its config is a SpeculatorsConfig already)
  TargetTp,      \* the target's tensor_parallel_size
  TargetLen,     \* its max_model_len
  HasArctic,     \* arctic_inference is installed (suffix decoding)
  NoValue        \* None

ASSUME SpecConfigAssumption == TargetTp \in Nat \ {0} /\ TargetLen \in Nat \ {0}

MtpMethods ==
  {"deepseek_mtp", "mimo_mtp", "mimo_v2_mtp", "glm4_moe_mtp", "glm4_moe_lite_mtp",
   "glm_ocr_mtp", "ernie_mtp", "nemotron_h_mtp", "exaone_moe_mtp", "exaone4_5_mtp",
   "qwen3_next_mtp", "qwen3_5_mtp", "longcat_flash_mtp", "mtp", "pangu_ultra_moe_mtp",
   "step3p5_mtp", "hy_v3_mtp", "gemma4_mtp"}

\* The arguments as given, and the target's checkpoint; the rest is filled in.
NoArguments ==
  [target |-> NoValue, raised |-> FALSE, method |-> NoValue, model |-> NoValue, tokens |-> NoValue,
   tp |-> NoValue, len |-> NoValue, lookup |-> <<NoValue, NoValue>>, depth |-> 24,
   sampling |-> "standard", acceptance |-> NoValue, rates |-> <<>>,
   draft |-> NoValue, parallel |-> FALSE]

Given(x) == x # NoValue
Raise(k) == [k EXCEPT !.raised = TRUE]
Unless(bad, k, then) == IF bad THEN Raise(k) ELSE then

-----------------------------------------------------------------------------
(* hf_config_override: the target's checkpoint as a draft model.           *)

\* Model types whose checkpoint has draft layers, renamed.
MtpType ==
  [deepseek_v3 |-> "deepseek_mtp", deepseek_v32 |-> "deepseek_mtp",
   glm_moe_dsa |-> "deepseek_mtp", deepseek_v4 |-> "deepseek_mtp",
   pangu_ultra_moe |-> "pangu_ultra_moe_mtp", ernie4_5_moe |-> "ernie_mtp",
   nemotron_h |-> "nemotron_h_mtp", nemotron_h_puzzle |-> "nemotron_h_mtp",
   qwen3_next |-> "qwen3_next_mtp",
   exaone_moe |-> "exaone_moe_mtp", exaone4_5 |-> "exaone4_5_mtp",
   qwen3_5 |-> "qwen3_5_mtp", qwen3_5_moe |-> "qwen3_5_mtp",
   longcat_flash |-> "longcat_flash_mtp",
   step3p5 |-> "step3p5_mtp", hy_v3 |-> "hy_v3_mtp", gemma4_assistant |-> "gemma4_mtp"]

\* The architecture of their draft layers.
MtpArch ==
  [deepseek_mtp |-> "DeepSeekMTPModel", pangu_ultra_moe_mtp |-> "OpenPanguMTPModel",
   ernie_mtp |-> "ErnieMTPModel", nemotron_h_mtp |-> "NemotronHMTPModel",
   qwen3_next_mtp |-> "Qwen3NextMTP", exaone_moe_mtp |-> "ExaoneMoeMTP",
   exaone4_5_mtp |-> "Exaone4_5_MTP", qwen3_5_mtp |-> "Qwen3_5MTP",
   longcat_flash_mtp |-> "LongCatFlashMTPModel", step3p5_mtp |-> "Step3p5MTP",
   hy_v3_mtp |-> "HYV3MTPModel", gemma4_mtp |-> "Gemma4MTPModel"]

\* Draft layers selected by the architecture instead.
MtpOfArch ==
  [MiMoForCausalLM |-> <<"mimo_mtp", "MiMoMTPModel">>,
   MiMoV2ForCausalLM |-> <<"mimo_v2_mtp", "MiMoV2MTPModel">>,
   MiMoV2OmniForCausalLM |-> <<"mimo_v2_mtp", "MiMoV2OmniMTPModel">>,
   MiMoV2FlashForCausalLM |-> <<"mimo_v2_mtp", "MiMoV2MTPModel">>,
   Glm4MoeForCausalLM |-> <<"glm4_moe_mtp", "Glm4MoeMTPModel">>,
   Glm4MoeLiteForCausalLM |-> <<"glm4_moe_lite_mtp", "Glm4MoeLiteMTPModel">>,
   GlmOcrForConditionalGeneration |-> <<"glm_ocr_mtp", "GlmOcrMTPModel">>]

\* Mutant: a DSpark checkpoint is taken for one with MTP layers only.
DSparkFormAsMtp(c) ==
  [c EXCEPT !.type = "deepseek_mtp", !.arch = "DeepSeekV4MTPModel"]

\* A DeepSeek-V4 checkpoint with DSpark layers drafts a block at a time.
DSparkForm(c) ==
  [c EXCEPT !.type = "deepseek_v4_dspark", !.arch = "DeepSeekV4DSparkModel",
            !.nPredict = c.block]

\* A type or an architecture with draft layers.
DraftForm(c) ==
  LET type == IF /\ c.type \in DOMAIN MtpType
                 /\ c.type \in {"nemotron_h", "nemotron_h_puzzle"} => c.nPredict > 0
              THEN MtpType[c.type] ELSE c.type IN
  CASE c.type = "deepseek_v4" /\ c.block > 0 -> DSparkForm(c)
    [] c.type = "deepseek_v4" /\ c.block = 0 ->
         [c EXCEPT !.type = type, !.arch = "DeepSeekV4MTPModel"]
    [] c.type # "deepseek_v4" /\ type \in DOMAIN MtpArch ->
         [c EXCEPT !.type = type,
                   !.arch = IF c.type = "qwen3_5_moe" THEN "Qwen3_5MoeMTP" ELSE MtpArch[type],
                   !.nPredict = IF type = "gemma4_mtp" THEN 1 ELSE @]
    [] type \notin DOMAIN MtpArch /\ c.arch \in DOMAIN MtpOfArch ->
         [c EXCEPT !.type = MtpOfArch[c.arch][1], !.arch = MtpOfArch[c.arch][2]]
    [] OTHER -> c

\* The given architecture has the last word for Mistral's EAGLE head.
HfConfigOverride(c) ==
  IF c.arch = "MistralLarge3ForCausalLM"
  THEN [DraftForm(c) EXCEPT !.arch = "EagleMistralLarge3ForCausalLM"]
  ELSE DraftForm(c)

-----------------------------------------------------------------------------
(* __post_init__.                                                          *)

\* A path with a dot and no slash is a class path, whatever the method says.
InferMethod(k) ==
  IF k.model \in DOMAIN Checkpoints /\ Checkpoints[k.model].dotted
  THEN [k EXCEPT !.method = "custom_class"]
  ELSE IF k.model = "pkg.Proposer" THEN [k EXCEPT !.method = "custom_class"]
  ELSE IF ~Given(k.method)
       THEN [k EXCEPT !.method = IF k.model = "ngram" THEN "ngram" ELSE "draft_model"]
  ELSE IF k.method \in MtpMethods THEN [k EXCEPT !.method = "mtp"] ELSE k

\* Where the draft model comes from when the user named none.
DefaultModel(k) ==
  IF Given(k.model) \/ ~Given(k.tokens) THEN k
  ELSE IF k.method \in {"mtp", "dspark"} THEN [k EXCEPT !.model = k.target]
  ELSE IF k.method \in {"ngram", "ngram_gpu", "suffix", "extract_hidden_states"}
       THEN [k EXCEPT !.model = k.method]
  ELSE Raise(k)

NgramLookup(k) ==
  LET min == k.lookup[1]
      max == k.lookup[2]
      both == CASE ~Given(min) /\ ~Given(max) -> <<5, 5>>
                [] ~Given(min) /\ Given(max) -> <<max, max>>
                [] Given(min) /\ ~Given(max) -> <<min, min>>
                [] OTHER -> k.lookup
  IN  Unless(both[1] > both[2], k, [k EXCEPT !.lookup = both])

\* _validate_suffix_decoding.
ValidateSuffixDecoding(k) ==
  Unless(~HasArctic \/ k.depth < 1, k,
         [k EXCEPT !.tokens = IF Given(@) THEN @ ELSE k.depth])

\* The method of a draft model follows from its path, then from its type. Its own
\* type is compared before the number of drafts has its default (None > 1 raises).
DetectMethod(k) ==
  LET c == k.draft IN
  IF k.method \in {"eagle", "eagle3", "dflash", "dspark"} THEN k
  ELSE IF "eagle-" \in c.words THEN [k EXCEPT !.method = "eagle"]
  ELSE IF "eagle3" \in c.words THEN [k EXCEPT !.method = "eagle3"]
  ELSE IF "dflash" \in c.words THEN [k EXCEPT !.method = "dflash"]
  ELSE IF "dspark" \in c.words THEN [k EXCEPT !.method = "dspark"]
  ELSE IF c.type \in {"medusa", "mlp_speculator"} THEN [k EXCEPT !.method = c.type]
  ELSE IF c.type \in MtpMethods THEN Unless(~Given(k.tokens), k, [k EXCEPT !.method = "mtp"])
  ELSE Unless(k.method # "draft_model", k, k)

\* EAGLEConfig: the wrapped architecture (external).
EagleArch(k) ==
  IF k.method = "dflash" THEN "DFlashDraftModel"
  ELSE IF k.method = "eagle" THEN "Eagle" \o k.draft.arch ELSE "Eagle3" \o k.draft.arch

WrapEagle(k) ==
  IF k.method \in {"eagle", "eagle3", "dflash"} /\ ~k.draft.speculator
  THEN [k EXCEPT !.draft.arch = EagleArch(k), !.parallel = @ \/ k.method = "dflash"]
  ELSE [k EXCEPT !.parallel = @ \/ k.method = "dflash"]

\* Mutant: only more drafts than the model predicts at once are looked at.
DraftTokensUnchecked(k) ==
  IF k.draft.nPredict > 0 /\ ~Given(k.tokens) THEN [k EXCEPT !.tokens = k.draft.nPredict] ELSE k

\* n_predict: the default, and the unit of more drafts than that.
DraftTokens(k) ==
  LET n == k.draft.nPredict IN
  IF n > 0 /\ ~Given(k.tokens) THEN [k EXCEPT !.tokens = n]
  ELSE Unless(~Given(k.tokens) \/ (n > 0 /\ k.tokens > n /\ k.tokens % n # 0), k, k)

\* _verify_and_get_draft_tp.
DraftTp(k) ==
  IF ~Given(k.tp)
  THEN [k EXCEPT !.tp = IF k.draft.type = "mlp_speculator" THEN 1 ELSE TargetTp]
  ELSE Unless(k.tp \notin {1, TargetTp}, k, k)

\* Mutant: the drafter's own limit is what counts.
DraftMaxModelLenOfDraft(k) ==
  IF Given(k.len) THEN Unless(k.len > k.draft.len, k, k) ELSE [k EXCEPT !.len = k.draft.len]

\* _maybe_override_draft_max_model_len.
DraftMaxModelLen(k) ==
  IF Given(k.len) THEN Unless(k.len > k.draft.len \/ k.len > TargetLen, k, k)
  ELSE [k EXCEPT !.len = Min({k.draft.len, TargetLen})]

\* A step of a configuration that has not raised.
AndThen(k, Step(_)) == IF k.raised THEN k ELSE Step(k)

NeedsDraftModel(k) ==
  k.method \notin {"ngram", "ngram_gpu", "suffix", "custom_class", "extract_hidden_states"}

\* Up to the draft model's ModelConfig, whose registry is asked next (ModelRegistry).
Started(arguments) ==
  LET k == AndThen(InferMethod(arguments), DefaultModel) IN
  IF k.raised \/ ~NeedsDraftModel(k) \/ ~Given(k.model) THEN k
  ELSE Unless(k.model \notin DOMAIN Checkpoints, k,
              [k EXCEPT !.draft = HfConfigOverride(Checkpoints[k.model])])

\* The draft model's ModelConfig is made: its method and its architecture.
Detected(k) == AndThen(AndThen(k, DetectMethod), WrapEagle)

-----------------------------------------------------------------------------
(* _verify_args.                                                           *)

\* Mutant: the last full rate is left out.
AcceptanceLengthToRatesShort(length, n) ==
  LET drafts == length - 10
  IN  [i \in 1 .. n |-> IF i < drafts \div 10 THEN 10
                        ELSE IF i = drafts \div 10 + 1 THEN drafts % 10 ELSE 0]

\* _acceptance_length_to_rates: whole drafts first, then the fraction that is left.
AcceptanceLengthToRates(length, n) ==
  LET drafts == length - 10
  IN  [i \in 1 .. n |-> IF i <= drafts \div 10 THEN 10
                        ELSE IF i = drafts \div 10 + 1 THEN drafts % 10 ELSE 0]

\* _resolve_synthetic_acceptance_rates, from a mean length or from the rates themselves.
AcceptanceRates(k) ==
  LET a == k.acceptance
      n == k.tokens IN
  IF ~Given(a) THEN Raise(k)
  ELSE IF a.kind = "rates"
       THEN Unless(\/ Len(a.rates) # n
                   \/ \E i \in 1 .. Len(a.rates) : a.rates[i] \notin 0 .. 10
                   \/ \E i \in 2 .. Len(a.rates) : a.rates[i] > a.rates[i - 1],
                   k, [k EXCEPT !.rates = a.rates])
  ELSE Unless(a.length \notin 10 .. 10 * (n + 1), k,
              [k EXCEPT !.rates = AcceptanceLengthToRates(a.length, n)])

VerifyArgs(k) ==
  IF ~Given(k.tokens) \/ (Given(k.tokens) /\ k.tokens <= 0) THEN Raise(k)
  ELSE IF k.method = "draft_model" /\ Given(k.draft)
          /\ k.draft.vocab # Checkpoints[k.target].vocab
       THEN Raise(k)
  ELSE IF k.sampling = "synthetic" THEN AcceptanceRates(k)
  ELSE Unless(Given(k.acceptance), k, k)

\* The rest of __post_init__, and _verify_args.
Finished(k) ==
  LET built ==
        CASE k.raised -> k
          [] ~k.raised /\ k.method \in {"ngram", "ngram_gpu"} -> NgramLookup(k)
          [] ~k.raised /\ k.method = "suffix" -> ValidateSuffixDecoding(k)
          [] ~k.raised /\ Given(k.draft) ->
               AndThen(AndThen(AndThen(k, DraftTokens), DraftTp), DraftMaxModelLen)
          [] OTHER -> k
  IN  AndThen(built, VerifyArgs)

UseEagle(k) == k.method \in {"eagle", "eagle3", "mtp", "dflash", "dspark"}

-----------------------------------------------------------------------------
(* The runner: which proposer a configuration gets, or an exception.       *)

Proposer(k) ==
  CASE k.method = "custom_class" -> "CustomProposer"
    [] k.method = "ngram" -> "NgramProposer"
    [] k.method = "draft_model" -> "DraftModelProposer"
    [] k.method = "ngram_gpu" -> "NgramProposerGPU"
    [] k.method = "mtp" /\ k.draft.type = "gemma4_mtp" -> "Gemma4Proposer"
    [] k.method = "dflash" -> "DFlashProposer"
    [] k.method = "dspark" -> "DSparkProposer"
    [] k.method = "suffix" -> "SuffixDecodingProposer"
    [] UseEagle(k) /\ ~(k.method = "mtp" /\ k.draft.type = "gemma4_mtp")
         /\ k.method \notin {"dflash", "dspark"} -> "EagleProposer"
    [] k.method = "medusa" -> "MedusaProposer"
    [] k.method = "extract_hidden_states" -> "ExtractHiddenStatesProposer"
    [] OTHER -> NoValue

\* What a proposer's constructor reads from the draft model's hf_config.
ProposerStarts(k) ==
  /\ Given(Proposer(k))
  /\ Proposer(k) = "DSparkProposer" => k.draft.layers > 0 /\ k.draft.block > 0
=============================================================================
