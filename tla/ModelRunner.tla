----------------------------- MODULE ModelRunner ------------------------------
(***************************************************************************)
(* The worker's side of asynchronous scheduling                            *)
(* (v1/worker/gpu_model_runner.py): how a step's input ids and positions   *)
(* are put together before the host has seen the last step's samples. The  *)
(* host keeps -1 where a token was sampled; the real token, the drafts and *)
(* the number of tokens computed come from what the last step left on the  *)
(* GPU, looked up by the row its request had then.                         *)
(*                                                                         *)
(* The scheduler appears as far as its messages depend on it: the counters *)
(* of a request and which requests it may plan, in any order and number    *)
(* (AsyncScheduler has its loops, queues, budget and blocks). A worker     *)
(* reads nothing but the message and its own state, so a step is taken to  *)
(* run as soon as it is sent; its output waits until the scheduler takes   *)
(* it, behind at most one more.                                            *)
(***************************************************************************)
EXTENDS Integers, FiniteSets, SequencesExt

CONSTANTS
  Req,           \* request ids
  PromptLen,     \* [Req -> Nat]  num_prompt_tokens
  MaxTokens,     \* [Req -> Nat]  sampling_params.max_tokens
  NumSpec,       \* num_spec_tokens
  MaxModelLen,   \* max_model_len
  DrafterLen,    \* effective_drafter_max_model_len
  MaxPrefixHit,  \* bound: longest prefix-cache hit explored
  MaxPreemptions,\* bound: preemptions explored
  MaxResets,     \* bound: forced prefix-cache resets explored
  RemoveForgets, \* InputBatch.remove_request drops the id from prev_req_id_to_index
  WantsLogprobs, \* requests with sampling_params.prompt_logprobs
  NoReq

ASSUME RunnerAssumption ==
  /\ PromptLen \in [Req -> Nat \ {0}]
  /\ MaxTokens \in [Req -> Nat \ {0}]
  /\ {NumSpec, MaxModelLen, DrafterLen, MaxPrefixHit, MaxPreemptions, MaxResets} \subseteq Nat
  /\ \A r \in Req : PromptLen[r] < MaxModelLen
  /\ NoReq \notin Req
  /\ WantsLogprobs \subseteq Req
  /\ RemoveForgets \in BOOLEAN
  /\ IsFiniteSet(Req)

VARIABLES
  job,         \* the scheduler's Request objects
  prevStep,    \* prev_step_scheduled_req_ids
  finishedIds, \* finished_req_ids
  plan,        \* the step being put together, then the SchedulerOutput sent
  outputs,     \* outputs of executed steps the scheduler has not taken yet
  pc,          \* "idle", "plan", then the stage of the worker
  cache,       \* self.requests: the CachedRequestState of each request
  batch,       \* input_batch.req_ids: the request in each row
  assumed,     \* drafts of the last step taken as accepted, per request
  awaited,     \* num_prompt_logprobs: requests whose prompt logprobs are not all there
  logprobs,    \* in_progress_prompt_logprobs_cpu: prompt positions filled in, per request
  last,        \* what the last step that ran left on the GPU, by its rows
  ids,         \* input_ids on the GPU
  start,       \* num_computed_tokens on the GPU, by row
  discards,    \* discard_request_mask, as the set of rows
  len,         \* history: tokens of a request, up to the last one sampled
  kv,          \* history: positions of a request whose KV is valid
  evictions    \* preemptions and resets so far (bounded)

schedVars == <<job, prevStep, finishedIds, outputs, evictions>>
promptVars == <<awaited, logprobs>>
hostVars == <<cache, batch, assumed, promptVars>>
gpuVars == <<ids, start, discards>>
history == <<len, kv>>
vars == <<schedVars, plan, pc, hostVars, last, gpuVars, history>>

-----------------------------------------------------------------------------
(* What an input id may be. Two sampled tokens are told apart by request   *)
(* and position alone.                                                     *)

Id == [kind : {"token", "draft", "zero", "hole", "stale"}, of : Req \cup {NoReq}, at : Nat]

Token(r, p) == [kind |-> "token", of |-> r, at |-> p]
Draft(r, p) == [kind |-> "draft", of |-> r, at |-> p]
Nothing(kind) == [kind |-> kind, of |-> NoReq, at |-> 0]
Zero == Nothing("zero")    \* draft of a step that skipped the drafter
Hole == Nothing("hole")    \* -1, the host's placeholder
Stale == Nothing("stale")  \* whatever the buffer held before

Lesser(a, b) == IF a <= b THEN a ELSE b
Greater(a, b) == IF a >= b THEN a ELSE b

-----------------------------------------------------------------------------
(* The messages.                                                           *)

Job ==
  [status : {"waiting", "running", "preempted", "done"}, known : Nat, computed : Nat,
   ph : Nat, spec : 0 .. NumSpec, chunk : BOOLEAN]

Counts == [Req -> Nat]
None == [r \in Req |-> 0]

\* SchedulerOutput: tokens and drafts; new and resumed requests; who ended; and
\* per cached request num_computed_tokens, num_output_tokens and the token ids
\* that are sent along (those of a request the last step did not hold).
Plan ==
  [n : Counts, d : Counts, new : SUBSET Req, resumed : SUBSET Req,
   finished : SUBSET Req, computed : Counts, out : [Req -> Int], sent : Counts,
   chunk : SUBSET Req, preempted : SUBSET Req]

NoPlan ==
  [n |-> None, d |-> None, new |-> {}, resumed |-> {}, finished |-> {},
   computed |-> None, out |-> None, sent |-> None, chunk |-> {}, preempted |-> {}]

Planned == {r \in Req : plan.n[r] # 0}

\* prev_sampled_token_ids is None: nothing has been sampled yet.
NothingLast ==
  [index |-> None, sampled |-> <<>>, proposed |-> <<>>, valid |-> <<>>, computed |-> <<>>]

\* A request that ended is forgotten, by the scheduler and then by the worker.
Ended ==
  [status |-> "done", known |-> 0, computed |-> 0, ph |-> 0, spec |-> 0, chunk |-> FALSE]

NotCached == [there |-> FALSE, out |-> 0, real |-> 0, computed |-> 0, drafts |-> 0]

Init ==
  /\ job = [r \in Req |->
              [status |-> "waiting", known |-> PromptLen[r], computed |-> 0, ph |-> 0,
               spec |-> 0, chunk |-> FALSE]]
  /\ prevStep = {} /\ finishedIds = {} /\ plan = NoPlan /\ outputs = <<>> /\ pc = "idle"
  /\ cache = [r \in Req |-> NotCached]
  /\ batch = <<>> /\ assumed = None
  /\ awaited = {} /\ logprobs = [r \in Req |-> {}]
  /\ last = NothingLast
  /\ ids = <<>> /\ start = <<>> /\ discards = {}
  /\ len = PromptLen /\ kv = None
  /\ evictions = [preemptions |-> 0, resets |-> 0]

-----------------------------------------------------------------------------
(* The scheduler plans a step.                                             *)

\* The engine loop fills the batch queue before it waits for the oldest step.
StartPlan ==
  /\ pc = "idle" /\ Len(outputs) < 2
  /\ finishedIds # {} \/ \E r \in Req : job[r].status # "done"
  /\ pc' = "plan"
  /\ UNCHANGED <<schedVars, plan, hostVars, last, gpuVars, history>>

\* The steps in flight are sure to reach max_tokens.
ReachesMaxTokens(r) ==
  /\ job[r].ph > 0
  /\ job[r].computed + 2 - job[r].ph >= PromptLen[r] + MaxTokens[r]

NumNewTokens(r) ==
  Lesser(job[r].known + job[r].spec + job[r].ph - job[r].computed,
         MaxModelLen - 1 - job[r].computed)

DraftsAmong(r, n) ==
  Greater(0, Lesser(job[r].spec, n + job[r].computed - job[r].known - job[r].ph))

\* The RUNNING loop gives r any number of the tokens it lacks.
PlanRunning(r) ==
  /\ pc = "plan" /\ job[r].status = "running"
  /\ r \notin Planned \cup plan.preempted
  /\ ~ReachesMaxTokens(r)
  /\ \E n \in 1 .. NumNewTokens(r) :
       plan' = [plan EXCEPT !.n[r] = n, !.d[r] = DraftsAmong(r, n)]
  /\ UNCHANGED <<schedVars, pc, hostVars, last, gpuVars, history>>

\* _preempt_request on the Request object.
PreemptedJob(q) == [q EXCEPT !.status = "preempted", !.computed = 0, !.spec = 0]

Preempt(r) ==
  /\ pc = "plan" /\ job[r].status = "running" /\ r \notin Planned
  /\ plan.new \cup plan.resumed = {}
  /\ evictions.preemptions < MaxPreemptions
  /\ job' = [job EXCEPT ![r] = PreemptedJob(@)]
  /\ plan' = [plan EXCEPT !.preempted = @ \cup {r}]
  /\ evictions' = [evictions EXCEPT !.preemptions = @ + 1]
  /\ UNCHANGED <<prevStep, finishedIds, outputs, pc, hostVars, last, gpuVars, history>>

\* The WAITING loop runs in a step that preempted nobody, after the RUNNING loop. The
\* whole prompt is computed for prompt logprobs (Request.skip_reading_prefix_cache).
Admit(r) ==
  /\ pc = "plan" /\ job[r].status \in {"waiting", "preempted"}
  /\ plan.preempted = {}
  /\ \E hit \in IF r \in WantsLogprobs THEN {0}
                ELSE 0 .. Lesser(MaxPrefixHit, job[r].known - 1) :
     \E n \in 1 .. job[r].known - hit :
       /\ job' = [job EXCEPT ![r].status = "running", ![r].computed = hit]
       /\ plan' = [plan EXCEPT
                     !.n[r] = n,
                     !.new = IF job[r].status = "waiting" THEN @ \cup {r} ELSE @,
                     !.resumed = IF job[r].status = "preempted" THEN @ \cup {r} ELSE @]
       /\ kv' = [kv EXCEPT ![r] = hit]
  /\ UNCHANGED <<prevStep, finishedIds, outputs, evictions, pc, hostVars, last, gpuVars, len>>

StaysPrefill(r) == job[r].computed + plan.n[r] < job[r].known + job[r].ph

Advanced(r) ==
  LET q == [job[r] EXCEPT !.computed = @ + plan.n[r], !.chunk = StaysPrefill(r)]
  IN IF StaysPrefill(r) THEN q
     ELSE [q EXCEPT !.ph = @ + 1 + plan.d[r], !.spec = NumSpec]

\* _make_cached_request_data, then _update_after_schedule.
SendStep ==
  /\ pc = "plan"
  /\ plan' = [plan EXCEPT
                !.finished = finishedIds,
                !.computed = [r \in Req |-> IF r \in Planned THEN job[r].computed ELSE 0],
                !.out = [r \in Req |-> IF r \in Planned
                                       THEN job[r].known - PromptLen[r] + job[r].ph ELSE 0],
                !.sent = [r \in Req |-> IF r \in Planned \ prevStep THEN job[r].known ELSE 0],
                !.chunk = {r \in Planned : StaysPrefill(r)}]
  /\ job' = [r \in Req |-> IF r \in Planned THEN Advanced(r) ELSE job[r]]
  /\ prevStep' = Planned /\ finishedIds' = {}
  /\ pc' = "update"
  /\ UNCHANGED <<outputs, evictions, hostVars, last, gpuVars, history>>

-----------------------------------------------------------------------------
(* _update_states: the persistent batch follows the message.               *)

\* Rows that stay: neither finished, nor unscheduled, nor to be rebuilt.
Kept == (ToSet(batch) \ plan.finished) \cap (Planned \ plan.resumed)

\* Mutant: the output ids are not cut back to what the scheduler knows of.
UntrimmedOut(r) ==
  IF r \in Kept THEN cache[r].out + cache[r].drafts ELSE plan.out[r]

\* Length of output_token_ids: the drafts of the last step count as accepted
\* until the message says how many there are; a row that is rebuilt starts from
\* what the message brings.
CachedOut(r) ==
  IF r \in Kept THEN Lesser(cache[r].out + cache[r].drafts, plan.out[r]) ELSE plan.out[r]

\* optimistic_num_accepted
OptimisticallyAccepted(r) == IF r \in Kept THEN cache[r].drafts ELSE 0

\* What _update_states leaves of the cached state of r: output ids, how many ids
\* from the front are real, num_computed_tokens and prev_num_draft_len.
CachedState(r) ==
  CASE r \in plan.new ->
         [there |-> TRUE, out |-> 0, real |-> PromptLen[r], computed |-> plan.computed[r],
          drafts |-> plan.d[r]]
    [] r \in Planned \ plan.new ->
         [there |-> TRUE, out |-> CachedOut(r),
          real |-> IF r \in Kept THEN cache[r].real ELSE plan.sent[r],
          computed |-> plan.computed[r], drafts |-> plan.d[r]]
    [] r \in plan.finished -> NotCached
    [] OTHER -> cache[r]

Removed == ToSet(batch) \ Kept

\* The rows are condensed and the backend may reorder them: any order may result.
UpdateStates ==
  /\ pc = "update"
  /\ cache' = [r \in Req |-> CachedState(r)]
  /\ assumed' = [r \in Req |-> OptimisticallyAccepted(r)]
  /\ awaited' = (awaited \ plan.finished) \cup (plan.new \cap WantsLogprobs)
  /\ logprobs' = [r \in Req |-> IF r \in plan.finished THEN {} ELSE logprobs[r]]
  /\ batch' \in SetToSeqs(Planned)
  /\ last' = IF RemoveForgets
             THEN [last EXCEPT !.index = [r \in Req |-> IF r \in Removed THEN 0 ELSE @[r]]]
             ELSE last
  /\ pc' = IF Planned = {} THEN "answer" ELSE "prepare"
  /\ UNCHANGED <<schedVars, plan, gpuVars, history>>

-----------------------------------------------------------------------------
(* _prepare_inputs and _prepare_input_ids. Flattened indices start at 1.   *)

Rows == 1 .. Len(batch)

\* _get_cumsum_and_arange: the totals of a count of each row, up to each row, and the row
\* an index below the last total falls into.
CumSum(count) ==
  LET upTo[i \in 0 .. Len(batch)] == IF i = 0 THEN 0 ELSE upTo[i - 1] + count[i]
  IN  upTo

RowIn(cumsum, x) == CHOOSE i \in Rows : cumsum[i - 1] < x /\ x <= cumsum[i]

CuNumTokens == CumSum([i \in Rows |-> plan.n[batch[i]]])

TotalTokens == CuNumTokens[Len(batch)]

\* Row of the x-th input id.
RowAt(x) == RowIn(CuNumTokens, x)

\* _compute_prev_positions: the row of the i-th request in the last step, or 0.
PrevPosition(i) == last.index[batch[i]]

\* The host's row of token ids, gathered at the optimistic positions.
HostId(x) ==
  LET r == batch[RowAt(x)]
      p == cache[r].computed + x - 1 - CuNumTokens[RowAt(x) - 1]
  IN IF p < cache[r].real THEN Token(r, p) ELSE Hole

Common == {i \in Rows : PrevPosition(i) # 0}

CommonDrafts == CumSum([i \in Rows |-> IF i \in Common THEN plan.d[batch[i]] ELSE 0])[Len(batch)]

\* The host's ids are needed unless every row is a decode of the last step.
CopiesHostIds == Cardinality(Common) < TotalTokens - CommonDrafts

\* Where the last sampled token of a common row goes, and its drafts.
SampleIndex(i) == CuNumTokens[i] - plan.d[batch[i]]

IsSampleIndex(x) == RowAt(x) \in Common /\ x = SampleIndex(RowAt(x))
IsDraftIndex(x) == RowAt(x) \in Common /\ x > SampleIndex(RowAt(x))

\* The batch is unchanged, one token per row: one slice is copied.
CommonIndicesMatch ==
  \A i \in Common : PrevPosition(i) = CuNumTokens[i] /\ CuNumTokens[i] <= Cardinality(Common)

BaseId(x) == IF last = NothingLast \/ CopiesHostIds THEN HostId(x) ELSE Stale

PreparedId(x) ==
  CASE last = NothingLast \/ Common = {} -> BaseId(x)
    [] Common # {} /\ CommonIndicesMatch ->
         IF x <= Cardinality(Common) THEN last.sampled[x] ELSE BaseId(x)
    [] OTHER ->
         IF IsSampleIndex(x) THEN last.sampled[PrevPosition(RowAt(x))]
         ELSE IF IsDraftIndex(x)
         THEN last.proposed[PrevPosition(RowAt(x))][x - SampleIndex(RowAt(x))]
         ELSE BaseId(x)

\* Mutant: the GPU takes the host's count of computed tokens.
OptimisticStart(i) == cache[batch[i]].computed

\* update_num_computed_tokens_for_batch_change: a row whose drafts were taken as
\* accepted goes on from the last step's count and its valid samples.
StartOf(i) ==
  IF PrevPosition(i) # 0 /\ assumed[batch[i]] > 0
  THEN last.computed[PrevPosition(i)] + last.valid[PrevPosition(i)]
  ELSE cache[batch[i]].computed

\* Rows whose sample is thrown away: the step ends inside the known tokens.
Discarded(i) ==
  cache[batch[i]].computed + plan.n[batch[i]] < PromptLen[batch[i]] + cache[batch[i]].out

PrepareInputs ==
  /\ pc = "prepare"
  /\ ids' = [x \in 1 .. TotalTokens |-> PreparedId(x)]
  /\ start' = [i \in Rows |-> StartOf(i)]
  /\ discards' = {i \in Rows : Discarded(i)}
  /\ pc' = "forward"
  /\ UNCHANGED <<schedVars, plan, hostVars, last, history>>

-----------------------------------------------------------------------------
(* _calc_spec_decode_metadata: which hidden states become logits. A row     *)
(* without drafts has one, at its last token.                              *)

DraftsOf(i) == plan.d[batch[i]]

CuNumSampled == CumSum([i \in Rows |-> DraftsOf(i) + 1])

\* logits_indices: from the x-th row of the logits to the input id behind it.
LogitsIndex(x) ==
  LET i == RowIn(CuNumSampled, x)
  IN  CuNumTokens[i] - (DraftsOf(i) + 1) + x - CuNumSampled[i - 1]

\* Mutant: the drafts of the rows before are counted without their bonus tokens.
TargetIndexOfDrafts(i, j) == CumSum([k \in Rows |-> DraftsOf(k)])[i - 1] + j

\* target_logits_indices: what the j-th draft of row i is judged by.
TargetIndex(i, j) == CuNumSampled[i] - (DraftsOf(i) + 1) + j

\* bonus_logits_indices
BonusIndex(i) == CuNumSampled[i]

\* draft_token_ids
DraftId(i, j) == ids[LogitsIndex(TargetIndex(i, j) + 1)]

\* The input id behind the k-th token that row i gets.
ResultIndex(i, k) == LogitsIndex(IF k <= DraftsOf(i) THEN TargetIndex(i, k) ELSE BonusIndex(i))

-----------------------------------------------------------------------------
(* After the forward pass.                                                 *)

\* Position of the x-th input id on the GPU.
PositionAt(x) == start[RowAt(x)] + x - 1 - CuNumTokens[RowAt(x) - 1]

\* Mutant: the bonus token is counted as an accepted draft.
CorrectionWithBonus(r) == assumed[r] - last.valid[last.index[r]]

\* Drafts of the last step that were taken as accepted and were not.
Correction(r) == assumed[r] - (last.valid[last.index[r]] - 1)

\* correct_spec_decode_token_counts
CorrectCounts ==
  /\ pc = "forward"
  /\ cache' = [r \in Req |->
                 IF assumed[r] > 0 /\ last.index[r] # 0
                 THEN [cache[r] EXCEPT !.computed = @ - Correction(r)] ELSE cache[r]]
  /\ pc' = "sample"
  /\ UNCHANGED <<schedVars, plan, batch, assumed, promptVars, last, gpuVars, history>>

\* The drafter runs only if the longest row leaves room for the drafts.
InputFitsInDrafter ==
  \A i \in Rows : plan.computed[batch[i]] + plan.n[batch[i]] + NumSpec <= DrafterLen

\* Length of row i's request once k tokens are sampled for it.
NewLen(i, k) == PositionAt(ResultIndex(i, k)) + 2

\* propose_draft_token_ids, or zeros.
Proposals(lens) ==
  [i \in Rows |-> [j \in 1 .. NumSpec |->
     IF InputFitsInDrafter THEN Draft(batch[i], lens[i] + j - 1) ELSE Zero]]

\* Mutant: rows whose sample was discarded stay in prev_req_id_to_index.
IndexOfAll(r) == IF r \in ToSet(batch) THEN CHOOSE i \in Rows : batch[i] = r ELSE 0

\* prev_req_id_to_index
IndexOf(r) ==
  IF \E i \in Rows \ discards : batch[i] = r THEN CHOOSE i \in Rows : batch[i] = r ELSE 0

\* Samples per row: one and the accepted drafts, none where they are discarded.
SampleCounts ==
  {k \in [Rows -> 0 .. NumSpec + 1] :
     \A i \in Rows : IF i \in discards THEN k[i] = 0
                     ELSE k[i] \in 1 .. plan.d[batch[i]] + 1}

-----------------------------------------------------------------------------
(* _get_prompt_logprobs_dict: position p of a prompt has the logprob of the   *)
(* prompt token after it.                                                    *)

\* Mutant: the chunk before the last token is taken for the last one.
CompletesEarly(r) == plan.n[r] >= PromptLen[r] - (cache[r].computed + 1)

\* This chunk is the last one. If exactly the last token is missing afterwards, there
\* is nothing more to fill in, but the logprobs wait for the first sampled token.
CompletesPrompt(r) == plan.n[r] > PromptLen[r] - (cache[r].computed + 1)

\* Prompt positions filled in from the chunk's logits, which start at the row's first
\* input id: those whose logits are of that position.
FilledBy(r) ==
  LET first == CuNumTokens[(CHOOSE i \in Rows : batch[i] = r) - 1] + 1
      from  == cache[r].computed
  IN  {p \in from .. Lesser(from + plan.n[r], PromptLen[r] - 1) - 1 :
         PositionAt(first + p - from) = p}

FilledIn == [r \in Req |-> IF r \in awaited \cap Planned THEN logprobs[r] \cup FilledBy(r)
                           ELSE logprobs[r]]

Complete == {r \in awaited \cap Planned : CompletesPrompt(r)}

OutputOf(k) ==
  [n |-> plan.n, d |-> plan.d, prompt |-> [r \in Complete |-> FilledIn[r]],
   k |-> [r \in Req |-> IF r \in ToSet(batch)
                        THEN k[CHOOSE i \in Rows : batch[i] = r] ELSE 0]]

\* sample_tokens: sample and reject, propose, bookkeeping.
SampleTokens ==
  /\ pc = "sample"
  /\ \E k \in SampleCounts :
       LET lens == [i \in Rows |-> IF i \in discards THEN len[batch[i]] ELSE NewLen(i, k[i])]
           rowOf(r) == CHOOSE i \in Rows : batch[i] = r
       IN /\ last' = [index |-> [r \in Req |-> IndexOf(r)],
                      sampled |-> [i \in Rows |-> IF i \in discards THEN Stale
                                                  ELSE Token(batch[i], lens[i] - 1)],
                      proposed |-> Proposals(lens), valid |-> k, computed |-> start]
          /\ cache' = [r \in Req |-> IF r \in Planned /\ rowOf(r) \notin discards
                                     THEN [cache[r] EXCEPT !.out = @ + 1] ELSE cache[r]]
          /\ len' = [r \in Req |-> IF r \in Planned THEN lens[rowOf(r)] ELSE len[r]]
          /\ kv' = [r \in Req |->
                      IF r \notin Planned THEN kv[r]
                      ELSE IF rowOf(r) \in discards THEN start[rowOf(r)] + plan.n[r]
                      ELSE NewLen(rowOf(r), k[rowOf(r)]) - 1]
          /\ outputs' = Append(outputs, OutputOf(k))
  /\ awaited' = awaited \ Complete
  /\ logprobs' = [r \in Req |-> IF r \in Complete THEN {} ELSE FilledIn[r]]
  /\ ids' = <<>> /\ start' = <<>> /\ discards' = {}
  /\ assumed' = None
  /\ plan' = NoPlan /\ pc' = "idle"
  /\ UNCHANGED <<job, prevStep, finishedIds, evictions, batch>>

\* A step without tokens has an empty output, and leaves the GPU as it was.
AnswerEmpty ==
  /\ pc = "answer"
  /\ outputs' = Append(outputs, [n |-> None, d |-> None, prompt |-> <<>>, k |-> None])
  /\ plan' = NoPlan /\ pc' = "idle"
  /\ UNCHANGED <<job, prevStep, finishedIds, evictions, hostVars, last, gpuVars, history>>

-----------------------------------------------------------------------------
(* The scheduler takes an output; clients and control calls.               *)

AtLimit(r, j) ==
  job[r].known + j >= PromptLen[r] + MaxTokens[r] \/ job[r].known + j >= MaxModelLen

\* The request after k of its 1 + d tokens in flight proved valid.
Corrected(q, d, k) ==
  LET c == IF q.computed > 0 THEN [q EXCEPT !.computed = @ - (d + 1 - k)] ELSE q
  IN [c EXCEPT !.ph = @ - (d + 1), !.known = @ + k]

\* The drafter may report a shorter draft for the next step.
Resized(q, length) == IF q.status = "running" /\ ~q.chunk THEN [q EXCEPT !.spec = length] ELSE q

Taken(r, o, length) ==
  IF job[r].status = "done" \/ o.k[r] = 0 THEN job[r]
  ELSE IF \E j \in 1 .. o.k[r] : AtLimit(r, j) THEN Ended
  ELSE Resized(Corrected(job[r], o.d[r], o.k[r]), length)

\* A stop token may end a request at any of its tokens: stops are those it ends.
UpdateFromOutput ==
  /\ pc = "idle" /\ outputs # <<>>
  /\ \E stops \in SUBSET {r \in Req : Head(outputs).k[r] # 0}, length \in 0 .. NumSpec :
       job' = [r \in Req |-> IF r \in stops THEN Ended
                             ELSE Taken(r, Head(outputs), length)]
  /\ finishedIds' =
       finishedIds \cup {r \in Req : job[r].status # "done" /\ job'[r].status = "done"}
  /\ outputs' = Tail(outputs)
  /\ UNCHANGED <<prevStep, evictions, plan, pc, hostVars, last, gpuVars, history>>

FinishRequest(r) ==
  /\ pc = "idle" /\ job[r].status # "done"
  /\ job' = [job EXCEPT ![r] = Ended]
  /\ finishedIds' = finishedIds \cup {r}
  /\ UNCHANGED <<prevStep, outputs, evictions, plan, pc, hostVars, last, gpuVars, history>>

\* reset_prefix_cache(reset_running_requests=True), with nothing in flight.
ResetPrefixCache ==
  /\ pc = "idle" /\ outputs = <<>>
  /\ evictions.resets < MaxResets
  /\ job' = [r \in Req |-> IF job[r].status = "running" THEN PreemptedJob(job[r]) ELSE job[r]]
  /\ prevStep' = {}
  /\ evictions' = [evictions EXCEPT !.resets = @ + 1]
  /\ UNCHANGED <<finishedIds, outputs, plan, pc, hostVars, last, gpuVars, history>>

Next ==
  \/ StartPlan \/ SendStep
  \/ UpdateStates \/ PrepareInputs \/ CorrectCounts \/ SampleTokens \/ AnswerEmpty
  \/ UpdateFromOutput \/ ResetPrefixCache
  \/ \E r \in Req : PlanRunning(r) \/ Preempt(r) \/ Admit(r) \/ FinishRequest(r)

Spec == Init /\ [][Next]_vars

-----------------------------------------------------------------------------
(* Properties.                                                             *)

\* The x-th id is right: the token of its request at its position, or a draft
\* made for that place by the step before. A row that skipped a step has only
\* placeholders for drafts.
RightId(x) ==
  LET r == batch[RowAt(x)]
      p == PositionAt(x)
  IN IF p < len[r] THEN ids[x] = Token(r, p)
     ELSE \/ ids[x] \in {Draft(r, p), Zero}
          \/ last.index[r] = 0 /\ ids[x] = Hole

\* Whatever rows were condensed, reordered, added or dropped, and whether or not
\* the host knows the samples: the model reads at each position of each request
\* the token that belongs there, or a draft of the last step made for it
\* (_prepare_input_ids). The j-th draft is judged by the logits of the token before it,
\* in its own row (_calc_spec_decode_metadata). A request that is taken back into the batch is no
\* exception, if remove_request made it forget its row.
FeedsRightTokens ==
  pc = "sample" =>
    /\ \A x \in DOMAIN ids : RightId(x)
    /\ \A i \in Rows \ discards : \A j \in 1 .. DraftsOf(i) :
         LET x == ResultIndex(i, j) IN
         /\ RowAt(x) = i /\ PositionAt(x) = len[batch[i]] - 2 + j
         /\ DraftId(i, j) = ids[x + 1]

\* The GPU goes on exactly where the valid KV of a request ends: the host's
\* optimistic counts are corrected by the last step's own result, once.
StartsWhereKvEnds ==
  pc \in {"forward", "sample"} => \A i \in Rows : start[i] = kv[batch[i]]

\* Worker and scheduler agree on which samples count: the worker from its own
\* count of tokens, the scheduler from its placeholders.
DiscardsAgree ==
  pc \in {"forward", "sample"} => {batch[i] : i \in discards} = plan.chunk

\* Prompt logprobs come once and whole, with the first token of the request, however
\* the prompt was cut into chunks and whatever preemption started it anew: "EngineCore
\* returns no partial prefill outputs" (an assert of update_from_output).
PromptLogprobsWhole ==
  /\ \A i \in DOMAIN outputs : \A r \in DOMAIN outputs[i].prompt :
       outputs[i].prompt[r] = 0 .. PromptLen[r] - 2 /\ outputs[i].k[r] # 0
  /\ outputs # <<>> =>
       \A r \in WantsLogprobs :
         job[r].known = PromptLen[r] /\ Head(outputs).k[r] # 0
           => r \in DOMAIN Head(outputs).prompt

\* Once corrected, the host's count is the GPU's, if the output of the last step
\* was not yet in the scheduler's count.
CorrectionMeetsGpu ==
  pc = "sample" /\ outputs # <<>> =>
    \A i \in Rows : cache[batch[i]].computed = start[i]

===============================================================================
