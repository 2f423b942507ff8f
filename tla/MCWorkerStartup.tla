-------------------------- MODULE MCWorkerStartup ---------------------------
(* A small worker for TLC: layers with a cache, two kinds of them on one    *)
(* tensor, one that reads another layer's, and one of an encoder or one     *)
(* with a mamba state; two hosts, one of them with two ranks.               *)
(* Before it the engine, for targets and drafters of every kind.            *)
EXTENDS WorkerStartup

CONSTANTS none, r1, r2, r3, t1, t2, oldBuild, newBuild

Page(mamba, kvFirst, kernels, cells) ==
  [mamba |-> mamba, kvFirst |-> kvFirst, kernels |-> kernels, cells |-> cells, size |-> 4]

LayerRec(name, backend, spec, group, tensor, heads, page) ==
  [name |-> name, backend |-> backend, spec |-> spec, group |-> group, tensor |-> tensor,
   heads |-> heads, page |-> page, target |-> none, encoder |-> FALSE]

L0 == LayerRec("l0", "mla", "s", "g0", "k0", 4, Page(FALSE, FALSE, 1, 3))
L1 == LayerRec("l1", "swa", "s", "g1", "k0", 4, Page(FALSE, FALSE, 2, 2))
Encoder == [LayerRec("e", "mla", "s", "g0", "k0", 4, Page(FALSE, FALSE, 1, 3))
              EXCEPT !.encoder = TRUE]
Mamba == LayerRec("m", "mamba", "r", "g2", "k1", 4, Page(TRUE, FALSE, 1, 3))
KvFirst == LayerRec("f", "fa", "s", "g0", "k1", 4, Page(FALSE, TRUE, 2, 1))
Draft == LayerRec("draft", "mla", "s", "g0", "k2", 2, Page(FALSE, FALSE, 1, 3))
Sharer(l) == [l EXCEPT !.name = "l2", !.group = "g1", !.target = l.name]

\* Mamba layers are served without encoder-only ones, and with a sharing layer that is
\* not of a backend with kvFirst; each of the other two raises.
Hybrid == <<L0, L1, Mamba, KvFirst, Draft, Sharer(L0)>>
WithEncoder == <<L0, L1, Encoder, KvFirst, Draft, Sharer(KvFirst)>>
Unserved == {<<L0, Encoder, Mamba>>, <<KvFirst, Mamba, Sharer(KvFirst)>>}

\* Every mode with backends that support graphs of uniform batches, and one
\* mode that a backend without support for graphs turns into another; with and
\* without a profiling pass. The layers go with the drafter's mode.
MCConfigs ==
  LET with(m, e, p, layers) ==
        [mode |-> m[1],
         support |-> [b \in {"mla", "swa", "fa", "mamba"} |-> IF b = "mla" THEN m[2] ELSE 2],
         eager |-> e, profiles |-> p, separate |-> e, scales |-> ~p,
         autotune |-> p /\ m[1] = "FULL_AND_PIECEWISE", layers |-> layers] IN
  {with(m, e, p, IF e THEN Hybrid ELSE WithEncoder) :
     m \in {<<"NONE", 2>>, <<"PIECEWISE", 2>>, <<"FULL", 2>>, <<"FULL_DECODE_ONLY", 2>>,
            <<"FULL_AND_PIECEWISE", 2>>, <<"FULL_DECODE_ONLY", 0>>},
     e, p \in BOOLEAN}
  \cup {with(<<"FULL_AND_PIECEWISE", 2>>, FALSE, p, layers) : p \in BOOLEAN, layers \in Unserved}

MCHost == r1 :> "a" @@ r2 :> "b" @@ r3 :> "b"

MCLoadRanks == {[pp |-> 1, tp |-> 0], [pp |-> 2, tp |-> 0], [pp |-> 2, tp |-> 1]}

MCStageLayers == <<{0}, {1, 2}>>

Checkpoint(words, type, arch, nPredict, block, len, vocab) ==
  [words |-> words, dotted |-> FALSE, type |-> type, arch |-> arch, nPredict |-> nPredict,
   block |-> block, layers |-> block, len |-> len, vocab |-> vocab, speculator |-> FALSE]

MCCheckpoints ==
  [v4 |-> Checkpoint({}, "deepseek_v4", "DeepseekV4ForCausalLM", 1, 3, 8, "v"),
   v4_mtp |-> Checkpoint({}, "deepseek_v4", "DeepseekV4ForCausalLM", 2, 0, 8, "v"),
   v4_dspark |-> Checkpoint({"dspark"}, "deepseek_v4", "DeepseekV4ForCausalLM", 1, 3, 16, "v"),
   v4_dotted |-> [Checkpoint({"dspark"}, "deepseek_v4", "DeepseekV4ForCausalLM", 1, 3, 8, "v")
                    EXCEPT !.dotted = TRUE],
   mimo |-> Checkpoint({}, "mimo", "MiMoForCausalLM", 1, 0, 8, "v"),
   reward |-> Checkpoint({}, "llama", "LlamaForRewardModeling", 0, 0, 8, "v"),
   llama |-> Checkpoint({}, "llama", "LlamaForCausalLM", 0, 0, 4, "v"),
   other |-> Checkpoint({}, "llama", "LlamaForCausalLM", 0, 0, 8, "w"),
   eagle |-> Checkpoint({"eagle-"}, "llama", "LlamaForCausalLM", 0, 0, 8, "w"),
   eagle3 |-> Checkpoint({"eagle3"}, "llama", "LlamaForCausalLM", 0, 0, 4, "w"),
   medusa |-> Checkpoint({}, "medusa", "MedusaModel", 0, 0, 8, "v"),
   mlp |-> Checkpoint({}, "mlp_speculator", "MLPSpeculatorPreTrainedModel", 2, 0, 8, "v")]

\* The files of the registered classes; two are one package.
MCModels ==
  [DeepseekV4ForCausalLM |-> "deepseek_v4.V4", DeepSeekV4MTPModel |-> "deepseek_v4.MTP",
   DeepSeekV4DSparkModel |-> "deepseek_v4.DSpark", LlamaForCausalLM |-> "llama",
   EagleLlamaForCausalLM |-> "llama_eagle", Eagle3LlamaForCausalLM |-> "llama_eagle3",
   MiMoForCausalLM |-> "mimo", MiMoMTPModel |-> "mimo_mtp", MedusaModel |-> "medusa",
   TransformersForCausalLM |-> "transformers"]

MCConversions == [LlamaForRewardModeling |-> "LlamaForCausalLM"]

Classes == {MCModels[a] : a \in DOMAIN MCModels}

\* The new build changes one class of the package, and a model in a file of its own.
MCDefines == [c \in Classes |-> [b \in {oldBuild, newBuild} |->
                IF c \in {"deepseek_v4.DSpark", "llama"} THEN b ELSE newBuild]]
MCDigest == [c \in Classes |-> [b \in {oldBuild, newBuild} |-> IF c = "llama" THEN b ELSE newBuild]]

Ask(target, how, method, model, tokens) ==
  [impl |-> how[1], convert |-> how[2],
   spec |-> [NoArguments EXCEPT !.target = target, !.method = method, !.model = model,
                                !.tokens = tokens]]

\* A DSpark drafter with all the rest that can be asked for.
AskMore ==
  LET base == Ask("v4", <<"auto", "auto">>, "dspark", none, 3)
      synthetic == {[kind |-> "length", length |-> l, rates |-> <<>>] : l \in {9, 10, 25, 30, 41}}
                   \cup {[kind |-> "rates", length |-> 0, rates |-> r] :
                           r \in {<<9, 5, 0>>, <<5, 9, 0>>, <<9, 5>>}} IN
  {[base EXCEPT !.spec.tp = tp, !.spec.len = l] : tp \in {none, 1, 2, 3}, l \in {none, 4, 12}}
  \cup {[base EXCEPT !.spec.sampling = m, !.spec.acceptance = a] :
          m \in {"standard", "synthetic"}, a \in synthetic \cup {none}}
  \cup {[base EXCEPT !.spec.method = "ngram", !.spec.lookup = <<i, j>>] :
          i, j \in {none, 2, 4}}
  \cup {[base EXCEPT !.spec.method = "suffix", !.spec.depth = d, !.spec.tokens = n,
                     !.spec.model = "suffix"] : d \in {0, 4}, n \in {none, 2}}

MCArguments ==
  {Ask("v4", <<"auto", "auto">>, method, model, tokens) :
     method \in {none, "dspark", "mtp", "eagle", "eagle3", "draft_model", "medusa", "custom_class",
                 "extract_hidden_states"},
     model \in DOMAIN MCCheckpoints \cup {none, "ngram", "pkg.Proposer", "missing"},
     tokens \in {none, 0, 2, 3, 4}}
  \cup {Ask(target, <<impls, converts>>, "draft_model", "llama", 2) :
          target \in {"v4", "mimo", "reward", "mlp"},
          impls \in {"auto", "vllm", "transformers"}, converts \in {"auto", "none"}}
  \cup {Ask(target, <<"auto", "auto">>, "mtp", none, 2) : target \in {"v4_mtp", "mimo", "llama"}}
  \cup AskMore

=============================================================================
