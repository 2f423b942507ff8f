----------------------------- MODULE GraphCapture ---------------------------
(***************************************************************************)
(* CUDA graphs of the target model and of the DSpark drafter               *)
(* (GPUModelRunner in v1/worker/gpu_model_runner.py, DSparkProposer in     *)
(* v1/spec_decode/dspark_proposer.py): the graph mode is resolved against  *)
(* the attention backends, the dispatchers get their keys, the memory of   *)
(* the graphs may be profiled on a throw-away cache, the graphs are        *)
(* captured from dummy runs, capturing is switched off, and from then on   *)
(* every batch is padded to a captured shape and replayed, or run eagerly. *)
(*                                                                         *)
(* A graph reads fixed rows of the persistent buffers. What the rows       *)
(* beyond a batch hold is what an earlier batch left in them, unless       *)
(* somebody clears them.                                                   *)
(*                                                                         *)
(* CudagraphDispatcher, CUDAGraphWrapper, resolve_cudagraph_mode_and_sizes *)
(* and the block table are not in this repository: they are modelled by    *)
(* what the runner relies on. One data-parallel rank, no LoRA, no          *)
(* micro-batches.                                                          *)
(***************************************************************************)
EXTENDS KvCacheLayout, FiniteSetsExt

CONSTANTS
  CaptureSizes,   \* cudagraph_capture_sizes before they are adjusted
  MaxNumSeqs, MaxNumTokens,
  QueryLen        \* uniform_decode_query_len, 1 + num_spec_tokens

NeverSupported == 0
UniformBatch == 2
AlwaysSupported == 3

\* Of a configuration, mode: the configured mode. support: of each backend. eager: the drafter's
\* enforce_eager. profiles: the worker estimates the memory of the graphs
\* first. separate: a backend writes the cache outside its forward. scales:
\* calculate_kv_scales. autotune: enable_flashinfer_autotune and what it needs.
ASSUME GraphAssumption ==
  /\ CaptureSizes \subseteq 1 .. MaxNumTokens /\ CaptureSizes # {}
  /\ MaxNumSeqs \in Nat \ {0} /\ MaxNumTokens \in Nat /\ MaxNumSeqs <= MaxNumTokens
  /\ QueryLen \in 1 .. MaxNumTokens
  /\ \A c \in Configs :
       /\ c.mode \in {"NONE", "PIECEWISE", "FULL", "FULL_DECODE_ONLY", "FULL_AND_PIECEWISE"}
       /\ \A l \in NamesIn(c.layers) :
            c.support[LayerIn(c.layers, l).backend] \in NeverSupported .. UniformBatch
       /\ {c.eager, c.profiles, c.separate, c.scales, c.autotune} \subseteq BOOLEAN

VARIABLES
  mode,        \* compilation_config.cudagraph_mode
  sizes,       \* compilation_config.cudagraph_capture_sizes
  keys,        \* cudagraph_dispatcher.cudagraph_keys of the target
  keysReady,   \* keys_initialized
  draftKeys,   \* the drafter's dispatcher keys: batch sizes
  graphs,      \* the graphs the wrappers hold: their keys, pool and KV cache
  capturing,   \* set_cudagraph_capturing_enabled
  toCapture,   \* what is still to be captured: pairs of mode and descriptor
  stage,       \* how far the worker is
  staleSlots,  \* rows of slot_mapping.gpu with slots of an earlier batch
  staleRows,   \* rows of the block tables with blocks of an earlier batch
  kvScales,    \* calculate_kv_scales: the first step is still to come
  ran,         \* what the last batch ran on, and whether it fits
  failed       \* something on the way raised: the worker is dead

graphVars ==
  <<config, mode, sizes, keys, keysReady, draftKeys, graphs, capturing, toCapture, stage,
    staleSlots, staleRows, kvScales, ran, failed>>

GraphModes == {"FULL", "PIECEWISE"}

NoKeys == [m \in GraphModes |-> {}]

NothingRan == [graphs |-> {}, fits |-> TRUE, foreign |-> {}]

\* The configuration is drawn where it is first read.
NoConfig == "not read yet"

GraphInit ==
  /\ config = NoConfig
  /\ mode = "NONE"
  /\ sizes = CaptureSizes
  /\ keys = NoKeys /\ keysReady = FALSE /\ draftKeys = {}
  /\ graphs = {} /\ capturing = TRUE /\ toCapture = {}
  /\ stage = "load"
  /\ staleSlots = {} /\ staleRows = {}
  /\ kvScales = FALSE
  /\ ran = NothingRan
  /\ failed = FALSE

-----------------------------------------------------------------------------
\* The modes and the dispatcher.

HasFull(m) == m \in {"FULL", "FULL_DECODE_ONLY", "FULL_AND_PIECEWISE"}

SeparateRoutine(m) == m \in {"FULL_DECODE_ONLY", "FULL_AND_PIECEWISE"}

MixedMode(m) ==
  CASE m \in {"PIECEWISE", "FULL_AND_PIECEWISE"} -> "PIECEWISE"
    [] m = "FULL" -> "FULL"
    [] OTHER -> "NONE"

\* resolve_cudagraph_mode_and_sizes: a mode the backends do not support is
\* replaced by one they do, which resolves to itself.
Resolved(m, support) ==
  LET mixed == IF m = "FULL" /\ support < AlwaysSupported THEN "FULL_AND_PIECEWISE" ELSE m
      needed == IF QueryLen > 1 THEN UniformBatch ELSE NeverSupported + 1
  IN IF HasFull(mixed) /\ support < needed THEN "PIECEWISE" ELSE mixed

\* Mutant: the sizes stay as they were configured.
UnalignedSizes(m, s) == s

\* patch_cudagraph_align.py and adjust_cudagraph_sizes_for_spec_decode: with
\* drafts the sizes are multiples of the decode length, whatever the mode, and
\* none is above the largest.
AlignedSizes(m, s) ==
  IF m = "NONE" \/ QueryLen = 1 THEN s
  ELSE {n \in {QueryLen * ((k + QueryLen - 1) \div QueryLen) : k \in s} : n <= Max(s)}

MixedDesc(n) == [tokens |-> n, reqs |-> Min({n, MaxNumSeqs}), uniform |-> FALSE]

UniformDesc(n) == [tokens |-> n, reqs |-> Min({n \div QueryLen, MaxNumSeqs}), uniform |-> TRUE]

\* A piecewise graph leaves attention out and so takes any number of requests.
Relaxed(d) == [d EXCEPT !.reqs = 0, !.uniform = FALSE]

\* CudagraphDispatcher.initialize_cudagraph_keys.
KeysOf(m, s) ==
  [FULL |->
     (IF MixedMode(m) = "FULL" THEN {MixedDesc(n) : n \in s} ELSE {})
     \cup (IF SeparateRoutine(m)
           THEN {UniformDesc(n) : n \in {k \in s : QueryLen <= k /\ k <= QueryLen * MaxNumSeqs}}
           ELSE {}),
   PIECEWISE |-> IF MixedMode(m) = "PIECEWISE" THEN {Relaxed(MixedDesc(n)) : n \in s} ELSE {}]

\* CudagraphDispatcher.dispatch: the smallest captured shape that holds the
\* batch. It asserts that a uniform one is a multiple of the decode length.
Dispatched(n, uniform, allowed) ==
  IF ~keysReady \/ mode = "NONE" \/ n > Max(sizes) \/ allowed = {}
  THEN [mode |-> "NONE", desc |-> Relaxed(MixedDesc(n)), ok |-> TRUE]
  ELSE
    LET padded == Min({s \in sizes : s >= n})
        asUniform == uniform /\ SeparateRoutine(mode)
        d == IF asUniform THEN UniformDesc(padded) ELSE MixedDesc(padded)
        found == IF "FULL" \in allowed /\ d \in keys.FULL THEN "FULL"
                 ELSE IF Relaxed(d) \in keys.PIECEWISE THEN "PIECEWISE" ELSE "NONE"
    IN [mode |-> found,
        desc |-> CASE found = "FULL" -> d
                   [] found = "PIECEWISE" -> Relaxed(d)
                   [] OTHER -> Relaxed(MixedDesc(n)),
        ok |-> asUniform => padded % QueryLen = 0]

\* DSparkProposer.initialize_cudagraph_keys: piecewise graphs, or none.
DraftKeysOf(m, s) == IF ~config.eager /\ MixedMode(m) # "NONE" THEN s ELSE {}

\* DSparkProposer._determine_graph_batch: the graph for a batch of requests.
DraftGraph(batch) ==
  IF draftKeys = {} \/ batch > Max(draftKeys) THEN {}
  ELSE {<<"drafter", "PIECEWISE", Relaxed(MixedDesc(Min({s \in draftKeys : s >= batch})))>>}

TargetGraph(d) == IF d.mode = "NONE" THEN {} ELSE {<<"target", d.mode, d.desc>>}

-----------------------------------------------------------------------------
\* Dummy runs.

\* Mutant: a dummy run is a decode whenever its tokens could be decodes.
UniformByShape(n, uniform) ==
  uniform \/ (n % QueryLen = 0 /\ n \div QueryLen <= MaxNumSeqs)

\* _determine_batch_execution_and_padding with force_uniform_decode: a dummy
\* run says itself what it is.
DummyUniform(n, uniform) == uniform

\* The drafter takes part with its graph only in piecewise runs when graphs
\* are captured, and otherwise whenever the target uses one.
DraftsWithGraph(runMode, isCapturing) ==
  /\ ~config.eager
  /\ IF isCapturing THEN runMode = "PIECEWISE" ELSE runMode # "NONE"

\* The asserts of _dummy_run: a uniform batch of n tokens, with one shorter
\* request at most, has room for all of them.
DummyFits(n, uniform, padded) ==
  /\ n <= MaxNumTokens
  /\ uniform => (n + QueryLen - 1) \div QueryLen <= MaxNumSeqs
  /\ padded <= MaxNumTokens

\* The graphs a dummy run of n tokens goes through: the target's and, with
\* DSparkProposer.dummy_run, the drafter's.
DummyGraphs(n, d, isCapturing) ==
  TargetGraph(d)
  \cup (IF DraftsWithGraph(d.mode, isCapturing) THEN DraftGraph(Min({n, MaxNumSeqs})) ELSE {})

\* The slot mapping after a dummy run: -1 in the rows it was given, so that
\* nothing is written to the cache.
SlotsAfterDummyRun(tokens) == staleSlots \ 1 .. tokens

\* CUDAGraphWrapper: a graph that is not there is captured, which raises
\* unless capturing is enabled.
Missing(wanted) == wanted \ {g.key : g \in graphs}

-----------------------------------------------------------------------------
\* Start-up.

\* The end of load_model and what the worker does next.
ReadConfig ==
  /\ stage = "load"
  /\ config' \in Configs
  /\ mode' = config'.mode
  /\ kvScales' = config'.scales
  /\ stage' = IF config'.profiles THEN "profile" ELSE "allocate"
  /\ UNCHANGED <<sizes, keys, keysReady, draftKeys, graphs, capturing, toCapture, staleSlots,
                 staleRows, ran, failed, layoutVars>>

\* _check_and_update_cudagraph_mode: the least support of any backend decides
\* the mode, and both dispatchers get their keys, on top of those they have.
\* The drafter is given a new wrapper, without graphs.
InitializeDispatchers(gs) ==
  LET support == Min({config.support[a.key.backend[1]] : a \in AttnGroupsOf(gs)})
      m == Resolved(mode, support)
      s == AlignedSizes(m, sizes)
  IN
  /\ mode' = m
  /\ sizes' = s
  /\ keys' = [k \in GraphModes |-> keys[k] \cup KeysOf(m, s)[k]]
  /\ keysReady' = TRUE
  /\ draftKeys' = draftKeys \cup DraftKeysOf(m, s)
  /\ graphs' = {g \in graphs : g.key[1] # "drafter" \/ DraftKeysOf(m, s) = {}}

\* initialize_kv_cache.
Allocate(kind) ==
  LET gs == WithSharing(WithEncoderGroup(PlannedGroups)) IN
  /\ InitializeKvCache(kind)
  /\ InitializeDispatchers(gs)
  /\ failed' = (failed \/ ~LayoutAsserts(gs) \/ RestrideRaises)

Descs(ks) == UNION {{<<m, d>> : d \in ks[m]} : m \in GraphModes}

\* The largest descriptors of a mode are captured first.
LargestOf(m, pairs) ==
  {p \in pairs : p[1] = m /\ \A q \in pairs : q[1] = m => q[2].tokens <= p[2].tokens}

\* profile_cudagraph_memory captures the two largest of each mode.
ProfileDescs(ks) ==
  UNION {LET all == {p \in Descs(ks) : p[1] = m}
             first == LargestOf(m, all)
         IN first \cup LargestOf(m, all \ first) : m \in GraphModes}

\* profile_cudagraph_memory up to its captures: with nothing to capture the
\* cache is torn down at once, and the keys stay initialized.
ProfileGraphMemory ==
  /\ stage = "profile"
  /\ Allocate("minimal")
  /\ capturing' = TRUE
  /\ toCapture' = ProfileDescs(keys')
  /\ stage' = "profiling"
  /\ UNCHANGED <<config, staleSlots, staleRows, kvScales, ran>>

\* _warmup_and_capture: eager runs of the shape, then the run that captures.
\* The modes come one after the other, each with its largest shape first.
CaptureOne(pool, kind) ==
  \E m \in GraphModes : \E p \in LargestOf(m, toCapture) :
    LET n == p[2].tokens
        uniform == DummyUniform(n, p[2].uniform)
        d == Dispatched(n, uniform, GraphModes)
        new == Missing(DummyGraphs(n, d, TRUE))
    IN
    /\ m = "PIECEWISE" \/ LargestOf("PIECEWISE", toCapture) = {}
    /\ graphs' = graphs \cup {[key |-> k, pool |-> pool, cache |-> kind] : k \in new}
    /\ toCapture' = toCapture \ {p}
    /\ staleSlots' = SlotsAfterDummyRun(d.desc.tokens)
    /\ failed' = (failed \/ ~DummyFits(n, p[2].uniform, d.desc.tokens)
                         \/ ~d.ok \/ d.mode # m \/ (new # {} /\ ~capturing))

ProfileCapture ==
  /\ stage = "profiling" /\ ~failed
  /\ CaptureOne("profiling", "minimal")
  /\ UNCHANGED <<config, mode, sizes, keys, keysReady, draftKeys, capturing, stage, staleRows,
                 kvScales, ran, layoutVars>>

\* Mutant: the graphs captured for the estimate are kept.
KeptGraphs(gs) == gs

\* clear_all_graphs, of every wrapper there is.
ClearedGraphs(gs) == {}

\* The end of profile_cudagraph_memory, which leaves the drafter's keys.
EndProfile ==
  /\ stage = "profiling" /\ ~failed
  /\ toCapture = {}
  /\ CleanupKvCache
  /\ stage' = "allocate"
  /\ IF ProfileDescs(keys) = {} THEN UNCHANGED <<capturing, graphs, keys, keysReady>>
     ELSE /\ capturing' = FALSE
          /\ graphs' = ClearedGraphs(graphs)
          /\ keys' = NoKeys
          /\ keysReady' = FALSE
  /\ UNCHANGED <<config, mode, sizes, draftKeys, toCapture, staleSlots, staleRows, kvScales,
                 ran, failed>>

\* initialize_kv_cache with the real cache.
InitializeCache ==
  /\ stage = "allocate"
  /\ Allocate("final")
  /\ stage' = "warmup"
  /\ UNCHANGED <<config, capturing, toCapture, staleSlots, staleRows, kvScales, ran>>

\* The start of capture_model, which does nothing when the mode is NONE.
CaptureModel ==
  /\ stage = "capture" /\ ~failed
  /\ IF mode = "NONE"
     THEN stage' = "serve" /\ UNCHANGED <<capturing, toCapture>>
     ELSE stage' = "capturing" /\ capturing' = TRUE /\ toCapture' = Descs(keys)
  /\ UNCHANGED <<config, mode, sizes, keys, keysReady, draftKeys, graphs, staleSlots, staleRows,
                 kvScales, ran, failed, layoutVars>>

\* _capture_cudagraphs.
CaptureGraph ==
  /\ stage = "capturing" /\ ~failed
  /\ CaptureOne("global", "final")
  /\ UNCHANGED <<config, mode, sizes, keys, keysReady, draftKeys, capturing, stage, staleRows,
                 kvScales, ran, layoutVars>>

EndCapture ==
  /\ stage = "capturing" /\ ~failed
  /\ toCapture = {}
  /\ capturing' = FALSE
  /\ stage' = "serve"
  /\ UNCHANGED <<config, mode, sizes, keys, keysReady, draftKeys, graphs, toCapture, staleSlots,
                 staleRows, kvScales, ran, failed, layoutVars>>

-----------------------------------------------------------------------------
\* Serving.

\* _is_uniform_decode: n requests of at most longest tokens each.
IsUniformDecode(longest, tokens, n) == longest = QueryLen /\ tokens = longest * n

\* Mutant: the rows are the batch's own when no backend updates separately.
MappedRowsBySeparate(tokens, d) == IF config.separate THEN d.desc.tokens ELSE tokens

\* The rows of slot_mapping the model is given: those of the padded batch when
\* its attention is in the graph or the cache is updated on padded tensors.
MappedRows(tokens, d) ==
  IF d.mode = "FULL" \/ config.separate THEN d.desc.tokens ELSE tokens

\* Mutant: nothing is cleared beyond the batch.
LeftRows(first, last) == {}

\* _get_slot_mappings fills the rows after the batch with -1, and
\* _build_attention_metadata its block table rows with NULL_BLOCK_ID.
ClearedRows(first, last) == first + 1 .. last

\* Rows of the padded batch that belong to nobody in it and yet hold slots or
\* blocks, as the kernels that run find them.
ForeignRows(tokens, n, d) ==
  LET read == IF d.mode = "FULL" \/ config.separate THEN d.desc.tokens ELSE tokens
      rows == IF d.mode = "FULL" THEN d.desc.reqs ELSE n
  IN {<<"slot", r>> : r \in ((tokens + 1 .. read) \cap staleSlots)
                              \ ClearedRows(tokens, MappedRows(tokens, d))}
     \cup {<<"blocks", r>> : r \in ((n + 1 .. rows) \cap staleRows) \ ClearedRows(n, rows)}

\* The shape of a graph has room for a batch.
Holds(key, tokens, n) ==
  IF key[1] = "drafter" THEN key[3].tokens >= n
  ELSE key[3].tokens >= tokens /\ (key[2] = "FULL" => key[3].reqs >= n)

\* execute_model with n requests and this many tokens, the longest having
\* longest, and sample_tokens, which may draft. Cascade attention is not in a
\* FULL graph; the step that computes the KV scales runs eagerly after all
\* else was prepared for a graph.
ExecuteModel(n, tokens, longest, cascade, drafts) ==
  LET uniform == IsUniformDecode(longest, tokens, n)
      d == Dispatched(tokens, uniform, IF cascade THEN {"PIECEWISE"} ELSE GraphModes)
      wanted == (IF kvScales THEN {} ELSE TargetGraph(d))
                \cup (IF drafts THEN DraftGraph(n) ELSE {})
      replayed == {g \in graphs : g.key \in wanted}
      mapped == MappedRows(tokens, d)
      rows == IF d.mode = "FULL" THEN d.desc.reqs ELSE n
  IN
  /\ kvScales' = FALSE
  /\ ran' = [graphs |-> replayed, fits |-> \A g \in replayed : Holds(g.key, tokens, n),
             foreign |-> ForeignRows(tokens, n, d)]
  /\ staleSlots' = (staleSlots \ ClearedRows(tokens, mapped)) \cup 1 .. tokens
  /\ staleRows' = (staleRows \ ClearedRows(n, rows)) \cup 1 .. n
  /\ failed' = (~d.ok \/ d.desc.tokens > MaxNumTokens \/ (Missing(wanted) # {} /\ ~capturing))

\* Of the longest request matters only whether it has the decode length: its
\* other lengths are represented by the most uneven batch.
Execute ==
  /\ stage = "serve" /\ ~failed
  /\ \E n \in 1 .. MaxNumSeqs, cascade, drafts \in BOOLEAN :
     \E tokens \in n .. MaxNumTokens : \E longest \in {QueryLen, tokens - n + 1} :
       /\ tokens <= n * longest /\ longest + n - 1 <= tokens
       /\ ExecuteModel(n, tokens, longest, cascade, drafts)
  /\ UNCHANGED <<config, mode, sizes, keys, keysReady, draftKeys, graphs, capturing, toCapture,
                 stage, layoutVars>>

-----------------------------------------------------------------------------
Allocated == stage \in {"warmup", "capture", "capturing", "serve"}

\* Once the real cache is allocated its layout is the planned one, even if a
\* profiling pass laid out another before and left names behind
\* (initialize_kv_cache, _cleanup_profiling_kv_cache), and blocks do not overlap.
\* The models whose layout cannot be updated never get that far.
LayersBound == Allocated /\ ~RestrideRaises => BoundAsPlanned /\ BlocksApart

\* The worker dies of no shape assert and of no capture that should have
\* happened, but only of layers whose layout cannot be updated; and what it
\* replays was captured in the pool of the serving worker, on the cache that
\* serves, for at least the tokens and requests of the batch (capture_model:
\* "any unexpected cudagraph capturing will be detected and raise an error
\* after here"; profile_cudagraph_memory).
ReplaysOnlyCaptured ==
  /\ failed => RestrideRaises
  /\ stage = "serve" =>
       /\ mode # "NONE" => ~capturing
       /\ ran.fits
       /\ \A g \in ran.graphs : g.pool = "global" /\ g.cache = "final"

\* A replayed batch writes no cache slot and reads no block that an earlier
\* batch left in the rows it was padded with (_get_slot_mappings: "Fill unused
\* with -1. Needed for reshape_and_cache in full cuda graph mode").
PaddingIsInert == ran.foreign = {}
=============================================================================
