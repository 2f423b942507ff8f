---------------------------- MODULE KvCacheLayout ---------------------------
(***************************************************************************)
(* How the GPU worker lays out its KV cache (GPUModelRunner in             *)
(* v1/worker/gpu_model_runner.py): which layers have a cache of their own, *)
(* which read another layer's, the groups that share a block table, the    *)
(* attention groups that share a metadata builder, and the tensor each     *)
(* layer is bound to. It happens twice when the memory of the graphs is    *)
(* profiled first: with a minimal cache, torn down again, and then with    *)
(* the real one; what the first pass leaves behind the second one reads.   *)
(***************************************************************************)
EXTENDS Integers, Sequences, FiniteSetsExt, TLC

CONSTANTS
  Configs,      \* the configurations of a worker: the layers are read here
  SharingFastPrefill,  \* cache_config.kv_sharing_fast_prefill
  UpdatesTable, \* backends whose builders have supports_update_block_table
  NumBlocks,    \* kv_cache_config.num_blocks
  NoLayer, NoTensor

NamesIn(layers) == {layers[i].name : i \in DOMAIN layers}

LayerIn(layers, name) == CHOOSE l \in {layers[i] : i \in DOMAIN layers} : l.name = name

\* There are layers, their names are unique, a layer that shares reads a layer with its
\* own cache, and the group added for encoder-only layers is none of the planned ones.
ASSUME LayersAssumption ==
  \A c \in Configs :
    LET layers == c.layers
        Named(name) == LayerIn(layers, name) IN
    /\ NamesIn(layers) # {}
    /\ \A i, j \in DOMAIN layers : layers[i].name = layers[j].name => i = j
    /\ \A i \in DOMAIN layers :
         LET l == layers[i] IN
         /\ l.heads \in Nat /\ l.encoder \in BOOLEAN /\ l.group # "encoder"
         /\ l.page.kernels * l.page.cells * (IF l.page.kvFirst THEN 2 ELSE 1) <= l.page.size
         /\ l.target # NoLayer =>
              /\ l.target \in NamesIn(layers) /\ ~l.encoder
              /\ Named(l.target).target = NoLayer /\ ~Named(l.target).encoder

VARIABLES
  config,       \* the configuration of this worker, once it is read
  sharedKv,     \* shared_kv_cache_layers: the layers that read another's cache
  runnerOnly,   \* runner_only_attn_layers
  fastPrefill,  \* kv_sharing_fast_prefill_eligible_layers
  groups,       \* kv_cache_config.kv_cache_groups: layer names by group id
  attnGroups,   \* attn_groups
  tensorOf,     \* the tensor bind_kv_cache gave each layer
  batchGroups   \* the groups the InputBatch has block tables for

layoutVars ==
  <<sharedKv, runnerOnly, fastPrefill, groups, attnGroups, tensorOf, batchGroups>>

\* The attention layers in model order: a sequence of records.
AttnLayers == config.layers

LayerNames == NamesIn(AttnLayers)

Layer(name) == LayerIn(AttnLayers, name)

NoGroups == [g \in {} |-> {}]

LayoutInit ==
  /\ sharedKv = {} /\ runnerOnly = {} /\ fastPrefill = {}
  /\ groups = NoGroups /\ attnGroups = {}
  /\ tensorOf = [l \in {} |-> NoTensor]
  /\ batchGroups = {"placeholder"}

-----------------------------------------------------------------------------
\* Layers that have no kv_cache_spec because they read another layer's cache.
Sharing == {l \in LayerNames : Layer(l).target # NoLayer}

EncoderOnly == {l \in LayerNames : Layer(l).encoder}

\* get_kv_cache_spec leaves out the sharing layers, and encoder-only ones
\* have no spec.
WithSpec == LayerNames \ (Sharing \cup EncoderOnly)

\* kv_cache_utils: the groups and tensors planned for the layers with a spec.
PlannedGroups ==
  [g \in {Layer(l).group : l \in WithSpec} |-> {l \in WithSpec : Layer(l).group = g}]

\* may_add_encoder_only_layers_to_kv_cache_config: one more group, without
\* a cache or a block table of its own.
WithEncoderGroup(gs) ==
  IF EncoderOnly = {} THEN gs
  ELSE [g \in DOMAIN gs \cup {"encoder"} |-> IF g = "encoder" THEN EncoderOnly ELSE gs[g]]

\* Mutant: a sharing layer joins the group its own spec names.
WithOwnGroup(gs) ==
  [g \in DOMAIN gs |-> gs[g] \cup {l \in sharedKv' : Layer(l).group = g}]

\* add_kv_sharing_layers_to_kv_cache_groups: a sharing layer joins the group
\* of the layer it reads.
WithSharing(gs) ==
  [g \in DOMAIN gs |-> gs[g] \cup {l \in sharedKv' : Layer(l).target \in gs[g]}]

\* The sharing layers after the last one with a cache of its own: a prefill
\* can stop before them.
FastPrefillEligible ==
  IF ~SharingFastPrefill THEN {}
  ELSE {AttnLayers[i].name :
          i \in {k \in DOMAIN AttnLayers :
                   \A j \in k .. Len(AttnLayers) : AttnLayers[j].name \in sharedKv'}}

\* The backend of a layer, wrapped when a prefill may skip the layer.
BackendOf(l) ==
  <<Layer(l).backend, IF l \in fastPrefill' THEN "FastPrefill" ELSE "plain">>

\* Mutant: the query heads are not part of the key.
KeyWithoutHeads(l, g) == [gid |-> g, backend |-> BackendOf(l), spec |-> Layer(l).spec]

\* AttentionGroupKey.
GroupKey(l, g) ==
  [gid |-> g, backend |-> BackendOf(l), spec |-> Layer(l).spec, heads |-> Layer(l).heads]

\* get_attn_backends_for_group, create_attn_groups: the layers of a group
\* that have the same key share their metadata builders.
AttnGroupsOf(gs) ==
  LET keys == {GroupKey(l, g) : l \in LayerNames, g \in DOMAIN gs}
      members(k) == {l \in gs[k.gid] : GroupKey(l, k.gid) = k}
  IN {[key |-> k, layers |-> members(k)] : k \in {x \in keys : members(x) # {}}}

\* initialize_kv_cache_tensors: a planned tensor is shared by the layers it
\* was planned for, and a sharing layer is bound to its target's.
TensorsOf(kind) ==
  [l \in LayerNames |->
     IF l \in EncoderOnly THEN NoTensor
     ELSE IF l \in sharedKv' THEN <<kind, Layer(Layer(l).target).tensor>>
     ELSE <<kind, Layer(l).tensor>>]

\* page_size_padded: a page has more cells than its blocks need.
Padded(p) == p.kernels * p.cells * (IF p.kvFirst THEN 2 ELSE 1) < p.size

\* Mutant: the layouts are left as the backends want them.
NeverRestrided == FALSE

\* _reshape_kv_cache_tensors updates the layout when there are layers of both kinds.
Restrided == {Layer(l).page.mamba : l \in WithSpec} = BOOLEAN

\* _update_hybrid_attention_mamba_layout looks up the kernel block size of every
\* attention group, and the encoder-only one has none (IndexError); and the cache of
\* every layer with kvFirst, which a sharing layer has not yet (KeyError).
RestrideRaises ==
  Restrided /\ (EncoderOnly # {} \/ \E l \in Sharing : Layer(l).page.kvFirst)

\* Mutant: the blocks lie next to each other whatever the page holds.
ContiguousStride(p) == p.cells

\* From one kernel block to the next, or from a mamba state to the next.
BlockStride(p) == IF p.mamba \/ Padded(p) THEN p.size ELSE p.cells

\* _reshape_kv_cache_tensors: the cells of block b of a layer in its tensor. A block
\* is several kernel blocks; backends with kvFirst keep all keys before all values.
CellsOf(l, b) ==
  LET p == Layer(l).page
      at(k, h) == IF ~p.kvFirst THEN k * BlockStride(p)
                  ELSE IF Restrided THEN (2 * k + h) * p.cells
                  ELSE (h * NumBlocks * p.kernels + k) * p.cells
  IN  {at(b * p.kernels + i, h) + c :
         i \in 0 .. p.kernels - 1, h \in 0 .. (IF p.kvFirst THEN 1 ELSE 0), c \in 0 .. p.cells - 1}

\* may_reinitialize_input_batch: encoder-only groups have no block table.
BlockTableGroups(gs) == DOMAIN gs \ {"encoder"}

\* The asserts on the way: no attention groups yet, and every layer with a
\* cache planned for it, and no other, gets memory.
LayoutAsserts(gs) ==
  /\ attnGroups = {}
  /\ (UNION {gs[g] : g \in DOMAIN gs}) \ runnerOnly' = WithSpec

\* initialize_kv_cache with a cache of this kind, "minimal" or "final". Nothing is
\* bound when the layout cannot be updated.
InitializeKvCache(kind) ==
  LET withEncoder == WithEncoderGroup(PlannedGroups)
      gs == WithSharing(withEncoder)
  IN
  /\ sharedKv' = sharedKv \cup Sharing
  /\ runnerOnly' = runnerOnly \cup EncoderOnly \cup sharedKv'
  /\ fastPrefill' = fastPrefill \cup FastPrefillEligible
  /\ groups' = gs
  /\ attnGroups' = AttnGroupsOf(gs)
  /\ batchGroups' = BlockTableGroups(gs)
  /\ tensorOf' = IF RestrideRaises THEN tensorOf ELSE TensorsOf(kind)

\* _cleanup_profiling_kv_cache, which leaves the names it learned.
CleanupKvCache ==
  /\ groups' = NoGroups
  /\ attnGroups' = {}
  /\ tensorOf' = [l \in LayerNames |-> NoTensor]
  /\ UNCHANGED <<sharedKv, runnerOnly, fastPrefill, batchGroups>>

-----------------------------------------------------------------------------
\* The attention metadata of a step.

\* What differs between the groups: _get_block_table and the slot mapping.
CommonMetadata(g) == [table |-> IF g = "encoder" THEN "zeros" ELSE g, slots |-> g]

\* Mutant: what another group built is taken as it is.
SameMetadata(cached, own) == cached

\* update_block_table.
UpdatedMetadata(cached, own) == [cached EXCEPT !.table = own.table, !.slots = own.slots]

\* _build_attn_group_metadata: what a builder of the same backend has built in this
\* step for layers with the same spec is used again, with the table of this group.
BuildMetadata(a, step) ==
  LET key == <<a.key.spec, a.key.backend>>
      own == CommonMetadata(a.key.gid)
      reused == key \in DOMAIN step.cached
      m == IF reused THEN UpdatedMetadata(step.cached[key], own) ELSE own
  IN  [cached |-> IF a.key.backend[1] \in UpdatesTable /\ ~reused
                  THEN key :> m @@ step.cached ELSE step.cached,
       layers |-> [l \in a.layers |-> m] @@ step.layers]

Metadata == FoldSet(BuildMetadata, [cached |-> <<>>, layers |-> <<>>], attnGroups).layers

-----------------------------------------------------------------------------
\* Every layer has the memory that was planned for it in the real cache, a
\* layer that shares reads its target's blocks through its target's table,
\* every layer is in one attention group, and no group has layers with
\* different numbers of query heads (AttentionGroupKey's docstring). Each step it gets
\* the block table and the slots of its own group.
BoundAsPlanned ==
  /\ \A l \in LayerNames \ EncoderOnly :
       LET owner == IF l \in Sharing THEN Layer(l).target ELSE l IN
       /\ tensorOf[l] = <<"final", Layer(owner).tensor>>
       /\ \A a \in attnGroups : l \in a.layers =>
            /\ a.key.gid = Layer(owner).group
            /\ a.key.gid \in batchGroups
  /\ LET metadata == Metadata IN
     \A l \in LayerNames :
       \E a \in attnGroups :
         /\ l \in a.layers
         /\ \A b \in attnGroups : l \in b.layers => b = a
         /\ \A k \in a.layers : Layer(k).heads = Layer(l).heads
         /\ metadata[l] = CommonMetadata(a.key.gid)

\* Layers whose tensor is the same memory, also layers of different groups and kinds,
\* never meet in it: the cells of different blocks are different, and in the tensor.
BlocksApart ==
  \A l, k \in WithSpec : Layer(l).tensor = Layer(k).tensor =>
    \A b \in 0 .. NumBlocks - 1 :
      /\ CellsOf(l, b) \subseteq 0 .. NumBlocks * Layer(l).page.size - 1
      /\ \A c \in 0 .. NumBlocks - 1 : b # c => CellsOf(l, b) \cap CellsOf(k, c) = {}
=============================================================================
