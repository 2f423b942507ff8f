# A TLA+ model of the DSpark serving stack

This directory models the control logic of the vLLM overlay for DeepSeek-V4 on
GB10 (`src/overlay-dspark-b12x-nvfp4/vllm`): the scheduler that plans steps
ahead of their results, the model runner that carries samples from step to step
on the GPU, the DSpark drafter that keeps attention state across steps, the
algorithm that decides how many drafts are verified, and the start of a worker up
to its first batches. Paths below are relative to that root.

- [The system](#the-system)
- [Modules](#modules)
- [Runs](#runs)
- [What the violations show](#what-the-violations-show)
- [Fairness](#fairness)
- [Proofs](#proofs)
- [What is assumed, and what is left out](#what-is-assumed-and-what-is-left-out)
- [Plan](#plan)

## The system

The overlay replaces files of a vLLM installation. An engine-core process runs
the scheduler; worker processes (two, tensor parallel) run the model. The
deployment script turns on asynchronous scheduling, prefix caching, chunked
prefill and the `dspark` speculative method with three drafts per step.

    client -- add / abort --> Scheduler -- SchedulerOutput --> GPUModelRunner
       ^                       |     ^                          |          |
       |                       v     |                          v          v
       +--- EngineCoreOutput --+     +---- ModelRunnerOutput ---+     DSparkProposer
                                                                       |        |
                                                   main_kv_cache (ring)         confidence
                                                                                scheduling

| Component | State it keeps | Operations | What is hard |
|---|---|---|---|
| `v1/core/sched/scheduler.py` | requests, `running`, `waiting`, per request: computed tokens, output placeholders, spec placeholders, discard count; the ids of the last step; pause state | `schedule`, `update_from_output`, `add_request`, `finish_requests`, `set_pause_state`, `reset_prefix_cache` | Step N+1 is planned before the output of N is known. Preemption, abort, stop, rejection and forced resets all meet steps in flight. |
| the same, with a KV connector | `WAITING_FOR_REMOTE_KVS`, `skipped_waiting`, finished and failed transfers | promotion, failed loads, delayed frees | Loads fail while steps run on blocks that are shared. |
| the same, streaming sessions | a queue of input chunks per request | `_update_request_as_session`, `_handle_stopped_request` | A request ends and goes on. |
| the same, encoder inputs | encoder cache and budget | `_try_schedule_encoder_inputs` | A second budget in the same loops. |
| `v1/worker/gpu_model_runner.py`, batches | the persistent batch, token rows, sampled tokens kept on the GPU, draft lengths | `_update_states`, `_prepare_input_ids`, `sample_tokens`, `propose_draft_token_ids` | Rows are condensed and reordered; the last step's results are used before the host has seen them. |
| the same, streams | pinned buffers, events, copy streams, device buffers | uploads, downloads, `AsyncGPUModelRunnerOutput`, count corrections | Two threads and four streams share memory without locks. |
| the same, start-up | KV cache groups and tensors, graph keys and graphs | `initialize_kv_cache`, `profile_cudagraph_memory`, `capture_model`, `_dummy_run`, padding | Everything is set up twice, and what the first pass leaves behind stays. |
| `v1/spec_decode/dspark_proposer.py` | request id to slot map, free slots, `_prefilled`, last lengths | `propose`, `_row_to_slot`, `_trim_rejected_target_context` | Cross-step state keyed by request, batches keyed by row; unequal batches; skipped steps. |
| `models/deepseek_v4/nvidia/dspark.py` | `main_kv_cache`: a ring of the last `window_size` positions per slot | `store_main_kv`, `prefill_main`, `draft_with_confidence` | Rejected rows, window wrap, slots that change hands. |
| `v1/spec_decode/dspark.py` | none (pure), diagnostics counters | `confidence_threshold_prefix_length`, `hardware_aware_prefix_schedule` | Ties, zeros, stopping early. |
| `config/speculative.py` | the speculative configuration | `__post_init__` and its validators | Defaults depend on one another, on paths and on checkpoints. |
| `model_executor/models/registry.py` | cache files of what model classes can do | resolve, inspect in a subprocess, load | Other builds write the same files; engine and workers look a class up separately. |
| `models/deepseek_v4/nvidia/{model,dspark}.py`, weights | the parameters of each rank | `load_weights` | Any order of tensors; experts, heads and halves split over ranks. |
| `model_executor/warmup/kernel_warmup.py` | autotune cache files, one per host | `kernel_warmup`, `flashinfer_autotune` | Ranks share a file and must end with the same tactics. |
| forward passes, kernels, message types, flags, scripts | none | | Tensor arithmetic, plain data and command lines; not modelled. |

What makes each part correct:

- Scheduler: a client receives every generated token once and in order, whatever
  is preempted, rejected or reset inside; counters agree with the steps in
  flight; the step budget and the block pool add up; requests are in the queue
  their status names; every accepted request ends.
- Model runner: whatever happens to the rows, each position of each request is fed
  the token that belongs there; host, GPU and scheduler agree on how far a request
  is and which samples count.
- Drafter: no two requests share a slot, no slot is lost; a row drafts from its
  own request's ring, anchored at its last verified token; no batch kills the
  worker.
- Streams: a forward pass reads the inputs of its own step, an output holds the
  results of its own step, and no wait is for ever.
- Remote KV, sessions, encoder inputs: no token is sampled from KV that is not
  there or from another token's KV; held blocks come back; each placeholder gets its
  own embedding; everything that was accepted ends.
- Start-up: whatever the user asked for, the workers load what the engine planned
  with; weights, caches and tuned kernels are the same story on every rank; a
  replayed graph was captured on the cache that serves and touches no foreign row.
- Confidence scheduling: the lengths are prefixes, the reported numbers belong to
  them, and the result is the best schedule where the docstring claims it.

The full list of hazards, each at its line with the properties that cover it, is
in `PROJECT.json`, as are the components left out and the line map.

## Modules

| Module | What it is |
|---|---|
| `OutputStreams` | Abstract: what the engine promises a client. One growing sequence of token positions per request. |
| `AsyncScheduler` | The scheduler with its batch queue of two steps and as much of the worker as it depends on. Refines `OutputStreams`. |
| `MCAsyncScheduler` | Values for TLC. |
| `AsyncSchedulerProofs` | Theorems of `AsyncScheduler`: its accounts, its block pool, and that it implements `OutputStreams`. |
| `DSparkSlots` | The drafter's slot map, context preparation and ring buffer, with the batches the scheduler may send it. |
| `MCDSparkSlots` | Values for TLC. |
| `DSparkSlotsProofs` | Theorems of `DSparkSlots`. |
| `DSparkSchedule` | The confidence scheduling algorithm, one action per turn of its loop, against a brute-force definition of the best schedule. |
| `MCDSparkSchedule` | Step-rate curves and thresholds for TLC. |
| `ModelRunner` | The worker's persistent batch, and how a step's inputs are put together from the last step's results on the GPU. |
| `MCModelRunner` | Values for TLC. |
| `ModelRunnerProofs` | Theorems of `ModelRunner`. |
| `DeviceStreams` | The worker's two threads and four GPU streams over shared buffers. |
| `MCDeviceStreams` | Values for TLC, and the configurations explored. |
| `DeviceStreamsProofs` | Theorems of `DeviceStreams`: where the outputs come from. |
| `DeviceNumbersProofs` | What its forward passes and its host compute with; extends `DeviceStreamsProofs`. |
| `RemoteKV` | The scheduler with a KV connector: transfers, failures, held blocks. |
| `MCRemoteKV` | Values for TLC. |
| `RemoteKVProofs` | Theorems of `RemoteKV`. |
| `InputSessions` | The scheduler with streaming sessions and encoder inputs, and the worker's encoder cache. |
| `MCInputSessions` | Values for TLC. |
| `InputSessionsProofs` | Theorems of `InputSessions`. |
| `SpecConfig` | What the speculative configuration becomes; pure operators. |
| `ModelRegistry` | How engine and workers find a model class; extends `SpecConfig`. |
| `WeightLoading` | `load_weights` of target and drafter over the ranks. |
| `KvCacheLayout` | KV cache groups, attention groups, tensors, pages and metadata. |
| `GraphCapture` | Graph modes, keys, profiling, capture, dispatch and padding; extends `KvCacheLayout`. |
| `KernelWarmup` | Warm-up runs and distributed autotuning; extends `GraphCapture`. |
| `WorkerStartup` | The six above composed: a worker from its configuration to its batches. |
| `WorkerStartupProofs` | Theorems on the warm-up, the weights and the graphs within the whole start-up. |
| `MCWorkerStartup` | Values for TLC: checkpoints, arguments, layers, graph configurations. |

A definition named `...` that is preceded by a comment starting with "Mutant:" is
a plausible bug of the definition that follows it. It is used by no action; the
manifest pairs it with a property that fails when it takes the place of the
right one.

### AsyncScheduler

`schedule()` and `update_from_output()` run in one thread, so their loops are
unrolled into one action per iteration and `pc` keeps every other action out
until the call returns.

| Code | Actions |
|---|---|
| RUNNING loop | `BeginSchedule`, `SkipRunning` (the two `continue`s), `ConsiderRunning` (tokens computed, blocks sought), `ScheduleRunning`, `PreemptFor` (one turn of `while True`), `EndRunning` |
| WAITING loop | `Admit`, `EndWaiting` (loop condition and `break`s) |
| end of step, `_update_after_schedule` | `Commit` |
| `update_from_output` | `BeginUpdate`; per request `DropOutput` (gone), `NoSample` (prefill chunk), `DiscardOutput` (forced out), `TakeOutput`, `StopOutput`; `EndUpdate` |
| `reset_prefix_cache(reset_running_requests=True)` | `BeginReset`, `ResetRunning`, `EndReset` |
| the rest | `AddRequest`, `FinishRequest`, `SetPauseState` |

`older` and `newer` are the engine's batch queue. A frame holds the tokens and
drafts planned per request, and for a request that enters the worker's batch the
number of tokens it was sent (`base`); `glen` is the worker's count of tokens,
from which it continues otherwise. From these the model knows at which position
the worker really put a token, and `emitted` records the positions given to the
client: a lost, repeated or misplaced token shows as a gap, and `StreamsSpec`
fails. `stale` and `emitted` are history and guard nothing.

The sampled tokens themselves, wording, statistics and events are left out. A
step returns any number of accepted drafts, and an EOS may stop a request at any
token. A length report for the next draft is any number or none.

### DSparkSlots

One action is one step of the worker. `Works` and `Batches` say which batches
may come: any non-empty set of running requests in any row order, a prefill chunk
of any size or a decode of up to `NumSpec + 1` rows with any number rejected.
The step then is `StepUnfit` (the runner does not call `propose`), `StepUneven`
(the guard of `propose` returns zeros) or `StepProposes`: assign slots, prepare
the context, store it, draft. A ring cell holds the set of rows it may contain,
because a `scatter_` with two equal indices leaves either row.

`GpuMask` is the flag `VLLM_DSPARK_GPU_REJECTED_CONTEXT_MASK`; the deployment
script sets it, the code's default is off.

### DSparkSchedule

Confidences are multiples of `1/Unit` and survivals are kept times
`Unit ^ NumSpec`, so that the model's arithmetic is exact; floating-point
rounding is not modelled. `Optimal` is the reference: no schedule in
`[Rows -> 0 .. NumSpec]` that verifies only drafts which can survive is better.

### ModelRunner

| Code | Actions |
|---|---|
| `_update_states` | `UpdateStates` (with `CachedState`, `Kept`, `CachedOut`) |
| `_prepare_inputs`, `_compute_prev_positions`, `_prepare_input_ids` | `PrepareInputs` (with `PreparedId`, `StartOf`, `Discarded`) |
| `_get_cumsum_and_arange`, `_calc_spec_decode_metadata` | `CumSum`, `LogitsIndex`, `TargetIndex`, `BonusIndex`, `DraftId`: which input id each draft and each result is judged by |
| `correct_spec_decode_token_counts` | `CorrectCounts` |
| `sample_tokens`, `_bookkeeping_sync`, `_copy_valid_sampled_token_count`, `_get_prompt_logprobs_dict` | `SampleTokens` (with `FilledIn`, `Complete` for prompt logprobs), or `AnswerEmpty` for a step without tokens |
| `schedule`, seen through its messages | `StartPlan`, `PlanRunning`, `Preempt`, `Admit`, `SendStep` |
| the scheduler between steps | `UpdateFromOutput`, `FinishRequest`, `ResetPrefixCache` |

The scheduler of this module is simpler than `AsyncScheduler`: the same counters,
but any set of requests in any number of tokens, since a worker must cope with
every plan a budget and a pool could lead to. A worker reads only the message and
its own state, and runs its steps in order, so a step is taken to run as soon as
it is sent; what stays asynchronous is when the scheduler takes the output.

An input id is not a number but what it stands for: the token of a request at a
position (`Token`), a draft the last step made for a position (`Draft`), a zero of
a skipped drafter, the host's -1 (`Hole`) or what the buffer held before
(`Stale`). `last` is what a step leaves on the GPU: `prev_req_id_to_index`,
`prev_sampled_token_ids`, the drafts, valid counts and computed counts, by row.
`UpdateStates` permits every order of the rows, which covers condensing and
reordering. `len` and `kv` are history: how many tokens a request really has, and
where its valid KV ends.

Requests in `WantsLogprobs` ask for prompt logprobs. `awaited` is `num_prompt_logprobs`,
`logprobs` the prompt positions filled in so far in `in_progress_prompt_logprobs_cpu`; an
output carries those of a request whose last prompt chunk it ran. Such a request is
admitted without a prefix hit, as `Request` (not in the repository) asks for; with a
hit, the positions before it would never be filled in.

`InputBatch` is not in the repository. Whether its `remove_request` drops the id
from `prev_req_id_to_index` is the constant `RemoveForgets`, and the code depends
on it: with `FALSE` in `runner.cfg`, TLC finds `FeedsRightTokens` violated by a
request that a drained reset puts back and the next step recomputes in chunks (the
last sampled token is copied over the end of the first chunk).

### RemoteKV

The scheduler's loops are unrolled as in `AsyncScheduler`, with one step in flight
and one output token per request: what matters is the prompt.

| Code | Actions |
|---|---|
| WAITING loop with a connector | `SkipWaiting` (`WAITING_FOR_REMOTE_KVS` not ready), `Promote` (`_try_promote_blocked_waiting_request`), `Admit` (a load in the background, within the step, or none) |
| `update_from_output` | `UpdateFromOutput`: `_handle_invalid_blocks`, samples, `_update_from_kv_xfer_finished` |
| `finish_requests` | `FinishRequest`, which may leave a request `HELD` |
| connector and worker (external) | `BlockFails`, `TransferEnds`, `Execute` |

`kv` says what each block really holds and `cached` under which tokens it is found;
the properties compare the two.

### InputSessions

Adds to the same loops the encoder budget and cache 
(`TryScheduleEncoderInputs`), and to `UpdateFromOutput` the stop of a session
(`_handle_stopped_request`) and its next chunk (`_update_request_as_session`).
`UpdateStates` and `Forward` are the worker: its features, its encoder cache and
which token's KV lies at each position. A chunk has at most one multimodal input.

### DeviceStreams

One action is one operation of the host between two enqueues, one operation of a
stream, or one wake-up of the output thread. A queue entry knows the events it waits
for; a buffer knows the step its contents are of. A tensor whose last reference is
gone may be given to the next operation of the default stream.

| Code | Actions |
|---|---|
| `execute_model`, `synchronize_input_prep` | `Prepare`, `AnswerEmpty`, `LaunchForward`, `CorrectCounts`, `Pool` |
| `sample_tokens`, the drafter | `SampleTokens`, `Propose` |
| `_copy_draft_token_ids_to_cpu`, `_bookkeeping_sync` | `CopyDrafts`, `ZeroDrafts`, `DownloadTokens`, `ReturnTokens`, `ReturnAsync` |
| `take_draft_token_ids`, `_dummy_run` | `TakeDrafts`, `DummyRun` |
| the async outputs | `GetOutput` of the output thread |
| default stream, copy streams | `Run...` (`DefaultStream`), `DownloadOutput`, `DownloadDrafts`, `DownloadCounts` |
| the engine (external) | `PlanStep`, `TakeOutput` |

### WorkerStartup and its parts

`ConfigureEngine` is `ModelRegistry`: for the target, the drafter and a wrapped EAGLE
head each candidate architecture is looked up in the cache file, or inspected in a
subprocess whose answer is saved, while `OtherProcessSaves` lets another build write.
`SpecConfig` says what the arguments become in between. `LoadWeights` takes the kinds
of tensors in any order, on each rank. `Graphs` is `GraphCapture` (which calls
`KvCacheLayout` when a cache is laid out or torn down): resolve the mode, profile the
graphs' memory on a throw-away cache or not, allocate, capture, and `Execute` batches
of any shape. The layers and the backends are a configuration in which the start may
raise (`RestrideRaises`, `failed`), after which nothing is captured or executed. `Warmup`
comes between allocation and capture, with one action per step of each rank.

`WorkersAsConfigured` speaks of every method and checkpoint a user may name; from
`StartWorkers` on the configuration is DSpark's, and what it was made from is
forgotten, since nothing later reads it.

## Runs

| Run | Instance | Checks |
|---|---|---|
| `sched_spec` | PRIORITY, 2 requests, 2 drafts, 4 blocks of 2, budget 4, prefill threshold 2, pause, abort, one drained reset | type, `PlaceholdersMatchInFlight`, `ComputedMatchesTokens`, `WorkerRowFits`, `QueuesMatchStatus`, `BlocksConserved`, `ResumesFromKnownTokens`, `StreamsSpec` |
| `sched_live` | FCFS, no drafts, a reset with a step in flight, abort, fairness | `StaleFramesDiscarded`, `EveryRequestEnds` |
| `sched_reset` | as `sched_live` with one draft | violates `StaleFramesDiscarded` |
| `slots` | 3 requests, 2 slots, window 2, 1 draft, mask on, 1 preemption, prefix hits | `SlotsExclusive`, `NeverRaises`, `ContextKept`, `DraftInputsRight`, `SlotStable` |
| `lengths` | 2 requests, 3 drafts, confidences 0, 1/3, 2/3, 1, four curves, three thresholds, forced length | `NothingPassedOver`, `ExhaustiveIsOptimal`, `EarlyStopIsOptimal` |
| `runner` | 2 requests with prompts of 2, one with prompt logprobs, up to two drafts, model length 6, a preemption, a drained reset, aborts, prefix hits of one token | `FeedsRightTokens`, `StartsWhereKvEnds`, `DiscardsAgree`, `PromptLogprobsWhole`, `CorrectionMeetsGpu` |
| `remote` | 2 requests with one prompt (5 and 3 tokens of it), 3 blocks of 2, both ways to load, both failure policies, aborts, fairness | `TransferTargetsHeld`, `CacheTellsTruth`, `TokensFromValidKv`, `HeldBlocksComeBack` |
| `remote_shared` | as `remote`, loads within the step, recompute policy | violates `SharedBlocksRecomputed` |
| `inputs` | a session of three chunks (one input twice), two plain requests, encoder cache 3, KV cache 12, fairness | `EmbeddingsThere`, `KvMatchesTokens`, `EverySessionEnds` |
| `inputs_drafts` | a session with two drafts | violates `KvMatchesTokens` |
| `startup` | four lists of layers (two of which raise), 3 ranks on 2 hosts, capture sizes 3, 6, 8, every graph mode, two builds, some 800 speculative arguments | `LayersBound`, `ReplaysOnlyCaptured`, `PaddingIsInert`, `TacticsAgree`, `WeightsInPlace`, `WorkersAsConfigured` |
| `streams` | 1 request, 1 draft, 3 calls, six configurations, fairness | `ForwardSeesItsStep`, `OutputsOfOwnStep`, `HostReadsOwnStep`, `EveryStepAnswered` |

Why the bounds are enough:

- Two requests may each grow to three blocks of two tokens (the model length is
  six) and the pool has four blocks, so each can preempt the other and itself, before and after the victim was planned. Two steps in flight are
  the depth of the batch queue. Two drafts make partial rejection (one of two)
  possible. The prefill threshold of two with a two-token prompt and up to four
  tokens to recompute gives chunked prefills.
- `MaxResets` bounds the forced resets explored, `MaxPrefixHit` the length of a
  prefix hit.
- Three requests on two slots make a slot change hands while another stays
  mapped; a window of two with chunks of up to three rows wraps and truncates.
  `MaxPreemptions` and `MaxPrefixHit` bound the environment; `DrafterLen` is
  small enough for a skipped step to happen. Requests `r2` and `r3` have equal
  prompts and limits, so their permutation is a symmetry.
- The four curves are: none, a smooth one (step time one plus a half per token),
  a cliff, and one that drops and recovers.
- In `runner` two rows swap, leave and return; a prompt or recomputation of two or
  more tokens comes in chunks; two drafts are rejected in part; the drafter's
  length limit is met by one row while the other still decodes. One preemption and
  one reset (`MaxPreemptions`, `MaxResets`) each happen with every state of the
  other request. A prompt of two cut after its first token is the case in which all
  prompt logprobs are filled in one step before they may be returned.

- In `remote` the three blocks are fewer than the two requests want, so they wait for
  each other's, and equal prompts make them share; a budget of 3 computes the long
  prompt in chunks. Every block of a load may fail, at any time before it ends.
- In `inputs` the encoder cache holds one large input and a small one, so inputs evict
  one another; a chunk repeats an input that may still be cached; two of the three
  requests run at a time. `KvSlots` is 12: with 9 to 11 `EverySessionEnds` fails,
  because a waiting session keeps its blocks and cannot be preempted
  (`scheduler.py:733`); the property is claimed for a pool in which that cannot happen.
- In `startup` the capture sizes are such that one is no multiple of the decode length 2
  and one exceeds what three requests decode; 9 tokens is more than the largest size,
  so batches run eagerly too. The layers are of a model with mamba state or of one with
  encoder-only layers; two more lists are the two ways in which
  `_update_hybrid_attention_mamba_layout` raises. Backends support graphs up to uniform batches, as
  `b12x_mla_sparse.py:191` declares; autotuning is on in the deployed mode only, to keep
  the interleavings of the ranks apart from those of the other modes. The two builds
  differ in one class of a package and one module of its own.
- In `streams` three calls are needed: the count of the first step is corrected in the
  second, and read by the third. Values are per step, so a second request would repeat
  the first. The six configurations leave out two that race; they are
  listed under [disagreements](#disagreements-without-a-run), and whether the engine can
  be configured so is decided outside the repository.

Only `sched_spec` checks a type invariant of its own; elsewhere a wrong type shows in
the properties. Deadlock checking is off in every run: the system rests when every
request ended, when the result is computed, when a refused configuration stops the
engine, or when the bounded number of calls is made. That it does not rest too early
is what the liveness properties say.

## What the violations show

- `sched_reset`: a forced reset leaves a speculative step in flight; the request
  is admitted again before it returns; `update_from_output` then subtracts the
  stale step's rejected drafts from the new counters (lines 1372-1387), though
  the comment in `reset_prefix_cache` says such frames are discarded. A drained
  reset is safe (`sched_spec`), and so is a reset in flight without drafts
  (`sched_live`).
- `remote_shared`: under the recompute policy blocks that a load within the step lost
  stay in the prefix cache, for the first request recomputes them; if it is aborted
  first, the next one takes them for computed and samples from KV that was never loaded.
- `inputs_drafts`: `num_computed_tokens` is corrected for rejected drafts, not for
  accepted ones a stop cuts off. A session that goes on from there takes the first
  token of its next chunk for computed.

### Disagreements without a run

Met while modelling, and not claimed by a run because they cost speed only, depend on
code that is not in the repository, or concern one expression:

- `dspark_proposer.py:538` frees the slot of any request that is not in the batch; the
  docstring (532) speaks of requests that are no longer live. A running request that
  sits out a step loses its context. Drafts get worse; output does not.
- Without the mask, the non-uniform guard of `propose` tests divisibility (795): rows of
  3 and 1 divide by two and are cut 2 and 2, across requests.
- Request ids: a client that uses an id again while a step of its aborted request is in
  flight would receive the old one's tokens; `ReuseIds` lets TLC find it.
- The drafter's shared expert: `gate_up_proj` of the draft layers is never loaded, for
  the mapping names only the target's (`WeightLoading`, `Loadable`).
- `flashinfer_autotune`'s docstring says that tuning is done on rank 0 alone; kernels
  other than sparse MLA are tuned by each rank for itself (`kernel_warmup.py:772-801`).
- Streams: with asynchronous scheduling and readers of the drafts, the host zeroes
  `draft_token_ids_cpu` while the last copy may be under way (4901); a pooling step
  without asynchronous scheduling refills the inputs before their upload is done (3330).
- Registry: the hash of a package covers its `__init__.py` only, so an answer for a
  changed class of `vllm.models.deepseek_v4` is taken for current.
- `speculative.py`: MTP without `num_speculative_tokens` raises a `TypeError` (735)
  before it gets its default; DSpark accepts multiples of its block size, though the
  drafter emits one block; a model path with a "." and no "/" becomes a custom class
  whatever the method; a DSpark checkpoint whose path lacks the word is run as a plain
  draft model if no method is given.
- `_update_hybrid_attention_mamba_layout` (7346-7361) lacks the skip of
  `_reshape_kv_cache_tensors` (7228-7230, "There may be a last group for layers without kv
  cache"): with mamba layers, an encoder-only group raises an `IndexError` (7351), and layers that share the
  cache of a K/V-first backend a `KeyError` (7361). `RestrideRaises` is this condition;
  `LayersBound` speaks of the configurations that start.
- `load_weights` of the target reports an expert's parameter (`model.py:2025`) though its
  layer is missing on the rank's stage and was skipped (2005-2006). The
  docs promise nothing about the set; `WeightsInPlace` says what is in it.
- `update_max_model_len` (`gpu_model_runner.py:948-953`) never lowers the drafter's
  effective length. `_build_attn_group_metadata` (2374) reuses metadata without regard
  to the number of query heads its groups were split by.

## Fairness

`FairSpec` asks weak fairness of `Schedule`, of `UpdateFromOutput` and of the rest
of a reset. The engine core's busy loop calls `schedule` whenever there is work
and room in the batch queue, and then waits for the oldest step; both calls
return, so their unrolled iterations do. No fairness is asked of clients: nobody
has to abort, resubmit or reset. `EveryRequestEnds` is checked with the pause off,
since a paused engine may rest for ever, and under FCFS, since PRIORITY lets
later requests overtake. An EOS need not come; the limit on tokens must do.

`RemoteKV` and `InputSessions` ask the same of the engine in another form: again and
again either it is idle without requests or its `pc` moves. The connector ends the
transfers it has begun (strong fairness, since they move only while a step runs), and
a session's client sends its chunks and its end mark. `DeviceStreams` asks weak
fairness of each thread and of each stream; when the engine plans a step is left open.
`WorkerStartup` has no liveness: a worker may be refused.

## Proofs

`AsyncSchedulerProofs` assumes the constants' assumptions and, where it says so,
`~ResetInFlight` (forced resets come when the engine has drained) and `~ReuseIds`
(the id of an ended request is not used again). The run `sched_reset` shows the first to
be needed. It proves for
any number of requests, any prompt and output limits, any budget, pool, block
size, policy and number of drafts:

| Theorem | Property |
|---|---|
| `SchedulerInvariant` | `Spec => []IInv` |
| `TypeCorrect` | `TypeOK` |
| `QueuesCorrect` | `QueuesMatchStatus` |
| `PlaceholdersCorrect` | `PlaceholdersMatchInFlight` |
| `ComputedCorrect` | `ComputedMatchesTokens` |
| `RowsFit` | `WorkerRowFits` |
| `ResumesCorrect` | `ResumesFromKnownTokens` |
| `StaleDiscarded` | `StaleFramesDiscarded` |

None of these is inductive alone. That placeholders match what is in flight
needs to know which status a request with tokens in flight may have; that a
resumed request has nothing in flight needs that PREEMPTED requests wait until
`ph` is zero, which holds only because the WAITING loop does not run in a step
that preempted, and because two steps in flight at most can hold the request.
`IInv` is the conjunction of `TypeOK`, `QueuesMatchStatus`, `Phases` (which
variables mean something in which loop, and how many steps are in flight),
`PassedAreBehind` (the RUNNING loop has planned only what it has passed) and, for
each request, `Accounts`: what the frames know of it, and what its counters are
while it waits, while it was just admitted, while it prefills and while it
decodes. TLC finds no violation of it in the instance of `sched_spec`. The step proof has one lemma per
action and one step per conjunct the action can disturb; sequence facts
(removing, inserting by rank, appending) are lemmas of their own.

Three theorems go on from `IInv`, under the same assumptions:

| Module | Theorem | Property |
|---|---|---|
| `AsyncSchedulerProofs` | `RowsMeetTokens` | `Spec => []StreamsInv` |
| `AsyncSchedulerProofs` | `SchedulerKeepsPromise` | `StreamsSpec`, the refinement of `OutputStreams` |
| `AsyncSchedulerProofs` | `BlocksKept` | `BlocksConserved` |

A step of the scheduler names a token by its place in the worker's row (`glen`), the abstract
stream by the number of tokens given out. That these are the same is `RowAccount`: when the
step in flight comes back, the row it appends to ends with the last token the scheduler
knows. With a second step in flight this is only true of the second step once the first has
been taken, so `RowAccount` distinguishes rows that continue the step before from rows
that the message of the step brought.

`BlocksConserved` adds up the blocks of all requests with a fold. The library's induction
over finite sets is out of reach, so the total is shown to be the cardinality of a set with
one pair for each block of each request (`Units`), by taking the smallest set of requests
where the two differ; how it moves when one request gets or gives blocks is then a matter
of cardinalities. This needs that there are finitely many requests (`ReqAssumption`).

`DSparkSlotsProofs` proves for any number of requests, slots, window and drafts:

| Theorem | Property |
|---|---|
| `SlotMapInvariant` | `Spec => []SlotsInv` |
| `SlotsStayExclusive` | `SlotsExclusive` |
| `MaskedNeverRaises` (assumes `GpuMask`) | `NeverRaises` |
| `SlotNeverMoves` | `SlotStable` |
| `ContextInvariant` (assumes `GpuMask`) | `Spec => [](ContextInv /\ DraftInputsRight)` |
| `ContextStays` (assumes `GpuMask`) | `ContextKept` |
| `DraftsStartRight` (assumes `GpuMask`) | `DraftInputsRight` |

`SlotsInv` adds to `SlotsExclusive` that at most `MaxBatchSize` requests run, and
that a masked drafter has raised nothing. The pool never runs dry because after the reclaim the mapped requests are all in
the batch, the batch has at most `MaxBatchSize` requests, and mapped and free
slots partition the slots: a counting argument over finite sets.

`ContextInv` adds that positions given to `prefill_main` are before the end of
their request and that a request which does not run has none. A step writes the ring buffers through
flattened index and position tensors of equal shares per request, so the proof first shows
what the joined segments hold at each index (`FlattenJoins`: by the least length at which the fold
and its closed form would differ). Then the positions a request writes are the last of its
batch that fit in the window, so no two fall on one place of the ring; slots of different
requests are different rows; and what a place held before is further back than the window
reaches from the request's new end. Without the mask, the code's default, the drafter trims
the batch on the host, and raises on some batches (`TrimRaises`); nothing is claimed
of it here.

`WorkerStartupProofs` proves `RanksAgree` (`Spec => []TacticsAgree`) for the composition
`WorkerStartup`: any ranks, hosts, shapes, configuration, cache files and tuner. The
invariant `WarmupInv` follows the leader's choice: nobody passes the broadcast before it is
sent, the leader's file holds it once it is sent, another host's file once its first rank
has written it, and at the barrier this is every file. TLC finds no violation of it in the
instance of `startup`.

The same module proves `WeightsArrive` (`Spec => []WeightsInPlace`), for any checkpoint order,
pipeline stages, tensor-parallel size, heads, experts and drafter stages. `LoadInv` says that a
rank holds what it read, neither more nor less (`Loaded`), and has reported this and, as
the target's loader does, the experts of layers on other stages (`Told`); `OwnExpert`
(every rank has an expert) makes each kind of an expert's tensors fill a place on it. A tensor
that arrives displaces whatever is in its place, so the step rests on `KindsApart` (no two kinds
share a place of a parameter) and `LayersApart` (no layer is read in both passes);
the latter needs that the drafter's layers are numbered after the target's, as
`LoadAssumption` says and `dspark.py` does from `num_hidden_layers` on. That each rank gets
its own heads and experts is arithmetic on `tp` (`ExpertsHeld`, `SinksHeld`). TLC finds no
violation of `LoadInv` in the instance of `startup`.

And it proves, of the graphs, for any capture sizes, limits, layers, backends and
configurations, `PaddedRowsAreInert` (`Spec => []PaddingIsInert`) and
`OnlyCapturedIsReplayed` (`SizesRemain => (Spec => []ReplaysOnlyCaptured)`). `SizesRemain`
says that some capture size is left when they are made multiples of the decode length, for
otherwise `adjust_cudagraph_sizes_for_spec_decode` raises. `GraphInv` follows the keys of
both dispatchers and the graphs from stage to stage, and says that only a configuration of
which `RestrideRaises` holds has failed. That the layers are those of the configuration
once they are named, whichever is drawn, is `LayersAre` and `LayersStay`. The second allocation finds the mode and
the sizes that the first one settled, so it rests on `SizesFit` (aligning twice is aligning
once) and `ResolvedIs`; the keys the estimate leaves to the drafter are those it gets again.
`CapturesItself` says that a captured shape is dispatched to itself and `BatchFits` that a
batch is dispatched to a shape with room for it, FULL only if it is made of whole decodes.
`DraftFits` is about the drafter, which looks up its graph by the number of requests: it was
captured in the run of the target's graph of the same size, though that run has its requests
cut at `MaxNumSeqs`. That the layers planned for a cache are those that get one, and that some
backend decides the mode, is `SharersJoin` and `LeastSupport`; it needs of `LayersAssumption`
that there are layers and that the encoder's group is a new one, as the code appends it. TLC
finds no violation of `GraphInv` in the instance of `startup`.

`ModelRunnerProofs` proves of `ModelRunner`, for any finite set of requests, any prompts,
limits and drafts:

| Theorem | Property |
|---|---|
| `RunnerInvariant` | `Spec => []RunnerInv` |
| `StartsRight` | `StartsWhereKvEnds` |
| `DiscardsRight` | `DiscardsAgree` |
| `CorrectionRight` | `CorrectionMeetsGpu` |
| `PromptsWhole` | `PromptLogprobsWhole` |
| `TokensRight` | `RemoveForgets => (Spec => []FeedsRightTokens)` |

All but the last hold whichever way `InputBatch.remove_request` behaves.

The three properties speak of the worker while it runs a step; why they hold lies
with the scheduler, one or two steps back. `RunnerInv` relates the two. For each request,
`JobAccount` adds up what its placeholders stand for: what each output in flight will be
taken to have given (`OwedTo`), which drafts in it were rejected and are still counted as
computed (`LostOf`), and what the step at work will add (`OwedByPlan`). Thus
`job.computed` is ahead of the valid KV by just what the scheduler has not heard was lost.
For the worker, `InLastStep` and `Reported` say what the batch and the GPU remember of the
last step until the next message comes: that the row a count is corrected by is the row of
the same request, with the valid count the output in flight carries. `InThisStep` says what
`_update_states` makes of the message, and that `CorrectCounts` takes back exactly `LostOf`. A
preempted request that comes back has nothing in flight, so its count needs no
correction. TLC finds no violation of `RunnerInv` in the instance of `runner`.

That `SampleTokens` moves `kv` as the account says rests on `NewLenIs`: k samples of
a row come right after its last token that is no draft. The row is
found there by two running totals, of tokens and of logits, so the proof first shows
that they exist, grow, and tell the row an index falls into (`TotalsExist`, `CumSumIs`,
`RowInIs`).

`TokensRight` needs to know what the host's rows and the GPU's leftovers stand for, which is
the second invariant, `TokensInv`. `LenAccount` ties the tokens a request really has to what
the scheduler knows of and has not heard of yet. `RowKnows` says that a request without a
row in the last step has all its real ids on the host, and that one with a row lacks
exactly the id of the last sample, so that one id from the GPU fills the hole. `LeftBehind`
says what the row of the last step left for it: its last token, and proposals that
start right after it. `Brought` and `ReadsTo` follow the message: a request
that the last step did not hold brings all its ids, and a step reads no further than the
drafts made for it. `HostIdsCopied` then shows that the host's ids are copied whenever an
input id is neither a last sample nor a draft, so no id is stale, and `SliceIsRight` that the
shortcut of one copied slice is right when it is taken. With `RemoveForgets` false the
invariant fails where a request comes back to a row it had before. TLC finds no violation of
`TokensInv` in the instance of `runner`.

`PromptsWhole` rests on `PromptInv`. A request that awaits its prompt logprobs has nothing
in flight and no row to look samples up by (`Unsampled`, `NoRow`), so its count needs no
correction and the positions filled in are those its KV covers (`Filled`); the worker's test for
the last chunk and the scheduler's for a prefill then agree (`ChunkFills`). `Promised`
follows the logprobs from the worker to the scheduler: as long as no token of the request is
known, they are in the first output that has one, or still awaited. TLC finds no violation of
`PromptInv` in the instance of `runner`.

`RunnerAssumption` asks that there are finitely many requests: a batch has a row
for each planned one.

`RemoteKVProofs` proves of `RemoteKV`, for any finite set of requests of any lengths, any
number and size of blocks, either failure policy and both ways of loading:

| Theorem | Property |
|---|---|
| `RemoteInvariant` | `Spec => []HeldInv` |
| `TransfersKept` | `TransferTargetsHeld` |
| `RemoteData` | `Spec => [](HeldInv /\ (~syncFailed => DataInv))` |
| `CacheTruthful` | `CacheTellsTruth` |
| `TokensValid` | `TokensFromValidKv` |

A transfer outlives what happens to its request, so `HeldInv` follows the two together:
`TransferAccount` says which status a request with a transfer may have, that its table is
the one the transfer was given, and that until the scheduler has taken the end of the
transfer no other request has a block it fills and the cache names none. This is only kept
because the other queues and counts are right. A hit must not reach into a transfer, a
block handed out must be free, and the loop over failed loads must not bring a count below
what the step in flight relies on; hence `Room` (a request has blocks for what it has
computed and will compute), `RunningOnce` and `WaitersSkipped` (the end of a transfer is
looked for where the request is). The loop of `_update_requests_with_invalid_blocks` is a
recursive function along the list of requests: that there is one, and what it does to the
counts, is shown by the first place where it would fail (`LoopExists`, `InvalidatedIs`).

`DataInv` is about what the blocks hold. Blocks are cached, and counts raised, when a step
is planned, before its KV is there, so the invariant compares both with `AfterThisStep`:
what the blocks hold and what the planned step writes or loads (`Coming`), if no load in it
fails. `ComputedThere` says that each token a request has computed is in the block of its
place, unless the request waits for a transfer and either the token is still to be loaded
or its block has failed and the scheduler will hear of it; `CacheTrue` says the same of
the tokens the cache names. The hard step is `UpdateFromOutput`: a count is cut before the
request's first lost block that no earlier request has marked, so a block shared by two
tables would be taken for good by the second. `LossesKnown` excludes that: a lost block is
of a transfer the scheduler still believes in, so of one table only (`TransferAccount`), and
`NothingLostLeft` then shows that what remains counted is in no lost block. For loads within
a step none of this holds, as the run `remote_shared` shows, so `DataInv` is claimed while
`syncFailed` is false. The readers of wrong KV are a recursive function again
(`NobodyWrong`). TLC finds no violation of `HeldInv` or of `~syncFailed => DataInv` in the
instance of `remote`.

`DeviceStreamsProofs` proves of `DeviceStreams`, for any requests, drafts and number of
calls, in every configuration of `Modes`:

| Theorem | Property |
|---|---|
| `StreamsRight` | `Spec => []StreamInv` |
| `OutputsRight` | `OutputsOfOwnStep` |

An output says nothing of how far the streams are, so `StreamInv` puts an order on all that
waits on the default stream: by step and, within a step, by stage (`InOrder`,
`NothingAhead`). For each step, and each of its slots, routing data, tokens and clones,
there are then two cases: the kernel that writes them is still waiting, or they are where their next
reader looks for them and nothing that could overwrite them comes before it (`SlotsOf`, `ExpertsOf`,
`TokensOf`, `ClonesOf`). The memory of a tensor can be given away once it is freed;
`FreedLate` says that of a freed step nothing waits, on either stream, and `AfterLast` that
the copy of an output waits for the last operation of its step, not just for any. Outputs
are followed from the moment they are sent (`OutputRight`). The types are part of the
induction, since the proof reads the stage of an operation off its name. TLC finds no violation of
`StreamInv` in the instance of `streams`, nor with every combination of the configuration's fields
for one request and one draft. The proof needs
one thing of the constants that a model value gives for free: `NoOp` is not the name of an
operation.

`DeviceNumbersProofs` goes on from `StreamInv`, for any requests, drafts and number of calls:

| Theorem | Property |
|---|---|
| `NumbersAreRight` | `Spec => []NumbersRight` |
| `ForwardPassesRight` | `ForwardSeesItsStep` |
| `HostReadsRight` | `HostReadsOwnStep` |

All three are about configurations in which the host waits for what it reads, as those of the
run do. `PoolingIsWaitedFor`: pooling without asynchronous scheduling always has a finished
prompt, since a step without one returns before the uploads from the pinned buffers are
done. `DraftsAreWaitedFor`: with asynchronous scheduling, the host's drafts are not both
copied in some steps and zeroed in others, since the zeros do not wait for the copy. In the
configurations left out the code does not wait, and the properties fail (the hazard at line 4901).

Three places count the same tokens at different times. The scheduler counts drafts as
accepted when it plans them; the host takes the scheduler's count and, from the counts copied
back, its correction for the last step; the GPU adds what it sampled itself. `NumbersRight` says
by how much each is off. A step starts at what was sent with it less the drafts rejected in
the step before (`StartOf`), whether or not these are known, and ends at what it sampled
(`EndOf`). `Chain` says that each step with requests starts where the last one ended.
`SchedRight` and `TruthRight` place the scheduler's count and the true one on that line, by which
answers were taken (`AnswersRight`: they are taken in order, at most two are missing) and which samplers
have run; `CorrectionRight` and `UploadsRight` do so for the host's and the GPU's numbers. When
a step's inputs are uploaded, the host does not have the right numbers of requests with drafts in
the last step (`DeferredOf`), and it writes them while the upload may be under way. The GPU
takes these from the tensor of the last counts, and `TensorsRight` says that its memory is not
given away before. `CountCopiesRight` and `DraftCopiesRight` follow the
copies to the host: as long as the event the host waits for is not past, the copy is in its
stream behind the kernel that writes what it reads. TLC finds no violation of `NumbersRight` with
two requests, one draft and three calls, in the configurations of the run and one without drafts
that fit.

`InputSessionsProofs` proves of `InputSessions`, for any requests and sessions, lists of
chunks, budgets, pool and encoder cache, under `NoDraftsInSessions` (there are no
drafts, or no session):

| Theorem | Property |
|---|---|
| `SessionsInvariant` | `Spec => []IInv` |
| `ComputedTokensAreWritten` | `KvMatchesTokens` |
| `GatheredInputsAreThere` | `EmbeddingsThere` |

The assumption is needed: `num_computed_tokens` still counts accepted drafts that a
stop cuts off, and a session goes on from there (the run `inputs_drafts`).
Sessions without drafts and drafts without sessions are both covered.

Both properties speak of one moment (between steps, and when a step gathers), and depend on all
others, so `IInv` follows them through the loops. `Numbers` and `KvOK` say where a request's
counts lie: what no step in flight has yet to account for (`Behind`) is less than its tokens,
and its KV is written; the rest of what is computed is in the step (`Pending`), and drafts among
it are taken as accepted until the output comes. `InputsPlaced` ties tokens and inputs, which a
session gets chunk by chunk, at offsets the chunk does not know: the placeholders lie in order,
and at each position the one embedding there is the one the token was sent with (`Embedded`,
`WantedBy`). A session drops its last token without moving its inputs, which is right because a
stopped session has computed all of them (`EndBy`). `InputsKnown` says when the worker's copy
of the inputs is that of the scheduler.

For the encoder cache, `CacheOK` says that what nobody refers to is what can be evicted, in the
order it was freed, and that the embeddings cached fit. `GpuFollows` says that the worker's cache
is the scheduler's but for what the plan will encode and what it was told to free. An input is
found or given room when a request is planned, may be evicted when the last reference to it
goes, and is gathered after every other request of the step was planned. That it is still there
is `InputsHeld`: of what a plan or step touches, the request itself holds a reference. In the
RUNNING loop the inputs are chosen before blocks are allocated, which may preempt others and
free what they held, and referred to after; `NeedHeld` bridges the two. That the total of the embeddings moves
right when one input comes or goes is again the cardinality of a set of units (`Units`).
TLC finds no violation of `IInv` in the instance of `inputs`, nor with drafts and no session.

Only model-checked:

- liveness (`EveryRequestEnds` and every other property under fairness) and `ENABLED`, which
  the provers do not handle;
- all of `DSparkSchedule`: survival is a recursive function over the confidences, and that the
  search finds the best schedule is an induction over it;
- of the start-up, `LayersBound` and `WorkersAsConfigured`: what the layouts and the
  registry tables are is computed by operators over the constants, and TLC evaluates them.

## What is assumed, and what is left out

Some code the scheduler calls is not in the repository and is modelled from its
use, marked external in the map:

- the block manager: a pool that adds blocks up to a token count, says None when
  short, and offers any whole-block prefix hit short of the full request;
- the `AsyncScheduler` subclass: a sampling step owes one token and its drafts,
  placeholders drop by the tokens taken, and one step's output is dropped per
  count of `async_tokens_to_discard`;
- `InputBatch`: rows keyed by request, in any order after condensing; and the
  kernel behind `update_num_computed_tokens_for_batch_change`, which starts a row
  whose drafts were assumed accepted from the last step's count plus its valid
  samples (the comment at `gpu_model_runner.py` 2098-2101);
- the KV connector, with any order and outcome of transfers, and the encoder cache
  manager, which evicts what no request refers to, oldest first;
- `CudagraphDispatcher`, `CUDAGraphWrapper`, `resolve_cudagraph_mode_and_sizes` and the
  order in which the GPU worker calls the runner at its start;
- the GPU: each stream runs its operations in order, an event is done when what was
  before it is, and memory nobody refers to may be used again by the stream it is of;
- the autotuner's broadcast and barrier, and the file system of each host;
- `check_stop`, the request queues, and the engine core's batch queue, which is
  filled to two steps before the oldest is awaited.

Left out of the modelled parts: LoRA, grammars, pooling (but for its streams), routed
experts' contents, pipeline-parallel receive and broadcast, micro-batches, cascade
attention (but for its effect on graphs), mamba and ngram state, prompt embeddings,
sample logprobs, timing, statistics and events. `SpecConfig` leaves out the configuration of
the draft model that is passed on unread, terratorch, `auto_map` models with code of
their own, `extract_hidden_states`' own draft configuration, checkpoints with several architectures,
the types decided by a nested `text_config` (`intern_s2_preview`, Nemotron's omni model),
and range checks of single arguments (pydantic's fields, suffix decoding's other three
numbers, the refused `tensor_parallel_size`).

Not modelled at all: forward passes and kernels (tensor arithmetic), `envs.py` (a table
of flags; those that change behaviour are constants here), the message types (plain
data, part of the frames of the modules), the text patches of the image build, scripts
and benchmarks. The components in `PROJECT.json` give the reasons one by one.

## Plan

Done: the scheduler, its abstract specification and its proofs; the drafter's slots and
their proofs; confidence scheduling; the model runner and the proofs of its counts; remote
KV and its proofs; sessions, encoder inputs and their proofs; device streams and
the proofs of their outputs and numbers;
the start of a worker with configuration, registry, weights, cache, graphs and warm-up, and
the proofs of its weights, tactics and graphs.

Left, most useful first:

1. Proofs: `LayersBound` for any layers.
2. Two steps in flight in `RemoteKV` and `InputSessions`, where the code supports them.
3. Pipeline parallelism: which rank samples, what it broadcasts, what the others assume.
4. Grammars and pooling in the scheduler's loops.
