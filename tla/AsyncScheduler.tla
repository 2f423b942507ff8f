--------------------------- MODULE AsyncScheduler ---------------------------
(***************************************************************************)
(* The engine-core scheduler (v1/core/sched/scheduler.py) in the mode the  *)
(* deployment runs it: asynchronous scheduling with speculative decoding,  *)
(* where schedule() plans step N+1 before the output of step N is known.   *)
(*                                                                         *)
(* schedule() and update_from_output() are single-threaded, so their loops *)
(* are unrolled into one action per loop iteration: pc says which loop is  *)
(* running and no other action may happen until it is "idle" again.        *)
(*                                                                         *)
(* Requests here have no encoder inputs, no LoRA, no KV connector, no      *)
(* grammar and no streaming session: then every waiting request is in the  *)
(* queue waiting, and skipped_waiting stays empty.                         *)
(***************************************************************************)
EXTENDS Integers, FiniteSets, SequencesExt

CONSTANTS
  Req,                 \* request ids
  PromptLen,           \* [Req -> Nat]  num_prompt_tokens
  MaxTokens,           \* [Req -> Nat]  sampling_params.max_tokens
  Rank,                \* [Req -> Nat]  order of (priority, arrival_time); lowest first
  PriorityPolicy,      \* scheduling policy: TRUE = PRIORITY, FALSE = FCFS
  MaxModelLen,         \* max_model_len
  MaxNumScheduledTokens, \* the token budget of a step
  MaxNumRunningReqs,   \* max_num_seqs
  LongPrefillThreshold,\* long_prefill_token_threshold, 0 = off
  ChunkedPrefill,      \* enable_chunked_prefill
  ReserveFullIsl,      \* scheduler_reserve_full_isl
  NumSpec,             \* num_speculative_tokens (also the lookahead)
  BlockSize, NumBlocks,\* the KV cache
  MaxPrefixHit,        \* bound: longest local prefix-cache hit explored
  MaxResets,           \* bound: forced prefix-cache resets explored
  ResetInFlight,       \* may a reset come while a step is in flight?
  ReuseIds,            \* may a client submit a finished id again?
  AllowPause,          \* may the engine be paused?
  AllowAbort,          \* may a client abort?
  NoFrame

ASSUME ConstantsAssumption ==
  /\ PromptLen \in [Req -> Nat \ {0}]
  /\ MaxTokens \in [Req -> Nat \ {0}]
  /\ Rank \in [Req -> Nat]
  /\ \A r, s \in Req : Rank[r] = Rank[s] => r = s
  /\ MaxModelLen \in Nat
  /\ \A r \in Req : PromptLen[r] < MaxModelLen
  /\ MaxNumScheduledTokens \in Nat \ {0}
  /\ MaxNumRunningReqs \in Nat \ {0}
  /\ LongPrefillThreshold \in Nat
  /\ NumSpec \in Nat
  /\ BlockSize \in Nat \ {0}
  /\ NumBlocks \in Nat
  /\ MaxPrefixHit \in Nat
  /\ MaxResets \in Nat
  /\ \A flag \in {PriorityPolicy, ChunkedPrefill, ReserveFullIsl, ResetInFlight,
                  ReuseIds, AllowPause, AllowAbort} : flag \in BOOLEAN

\* An engine holds finitely many requests.
ASSUME ReqAssumption == IsFiniteSet(Req)

VARIABLES
  req,          \* self.requests: the Request object of each id
  running,      \* self.running, in order
  waiting,      \* self.waiting, in the order it is popped
  free,         \* free blocks of the KV cache manager
  finishedIds,  \* self.finished_req_ids: to be told to the worker
  prevStep,     \* self.prev_step_scheduled_req_ids
  pause,        \* self._pause_state
  pc,           \* "idle" or the loop that is running
  idx,          \* req_index of the RUNNING loop
  budget,       \* token_budget
  sched,        \* num_scheduled_tokens, 0 for a request that is not in it
  need,         \* num_new_tokens of the running request blocks are sought for
  draft,        \* lengths of scheduled_spec_decode_tokens
  preempted,    \* preempted_reqs of this step
  admitted,     \* scheduled_new_reqs and scheduled_resumed_reqs of this step
  older, newer, \* the batch queue: steps in flight, at most two
  left,         \* requests update_from_output has still to visit
  resets,       \* forced resets so far (bounded)
  glen,         \* the worker's token count of a request, up to its last sample
  emitted       \* history: positions of the tokens a client was given

stepVars == <<idx, budget, sched, need, draft, preempted, admitted>>
pipeVars == <<older, newer, left>>
envVars  == <<pause, resets>>
workVars == <<glen, emitted>>
vars == <<req, running, waiting, free, finishedIds, prevStep, pc,
          stepVars, pipeVars, envVars, workVars>>

-----------------------------------------------------------------------------
Status == {"ABSENT", "WAITING", "RUNNING", "PREEMPTED", "FINISHED"}

Request ==
  [status : Status, out : Nat, computed : Nat, ph : Nat, spec : 0 .. NumSpec,
   chunk : BOOLEAN, discard : Nat, blocks : Nat]

NewRequest ==
  [status |-> "WAITING", out |-> 0, computed |-> 0, ph |-> 0, spec |-> 0,
   chunk |-> FALSE, discard |-> 0, blocks |-> 0]

\* A step in flight: tokens and drafts per request, the requests whose sample
\* the worker discards, and for a request that (re)enters the worker's batch the
\* tokens it was sent (Continues for one that was in the last batch). stale is
\* history: requests that ended or were reset since.
Continues == -1
Frame ==
  [n : [Req -> Nat], d : [Req -> 0 .. NumSpec], chunk : SUBSET Req,
   base : [Req -> Nat \cup {Continues}], stale : SUBSET Req]

ASSUME NoFrameAssumption == NoFrame \notin Frame

\* Mutant: a finished request still takes the output of its last steps.
LiveUntilForgotten(r) == req[r].status # "ABSENT"

Live(r) == req[r].status \in {"WAITING", "RUNNING", "PREEMPTED"}

Lesser(a, b) == IF a <= b THEN a ELSE b
Greater(a, b) == IF a >= b THEN a ELSE b

NumTokens(r) == PromptLen[r] + req[r].out

\* Requests a step schedules.
InStep(n) == {r \in Req : n[r] # 0}

PlaceOf(list, r) == CHOOSE i \in DOMAIN list : list[i] = r

\* list with r taken out, as list.remove and remove_all do (r is in it once).
Without(list, r) ==
  IF Contains(list, r) THEN RemoveAt(list, PlaceOf(list, r)) ELSE list

\* A request queue under the PRIORITY policy keeps its order by (priority, arrival).
RankBelow(queue, r) == {i \in 1 .. Len(queue) : Rank[queue[i]] < Rank[r]}

InsertByRank(queue, r) == InsertAt(queue, 1 + Cardinality(RankBelow(queue, r)), r)

\* add_request and prepend_request of the request queue.
Enqueue(queue, r) ==
  IF PriorityPolicy THEN InsertByRank(queue, r) ELSE Append(queue, r)

Requeue(queue, r) ==
  IF PriorityPolicy THEN InsertByRank(queue, r) ELSE InsertAt(queue, 1, r)

-----------------------------------------------------------------------------
(* The KV cache manager: external, used as a pool that hands out blocks up *)
(* to a token count and says None when the pool is short.                  *)

BlocksFor(n) == (Lesser(n, MaxModelLen) + BlockSize - 1) \div BlockSize

\* Blocks allocate_slots must add so that r has room for n tokens.
ExtraBlocks(r, n) == Greater(BlocksFor(n) - req[r].blocks, 0)

CanAllocate(r, n) == ExtraBlocks(r, n) <= free

Init ==
  /\ req = [r \in Req |-> [NewRequest EXCEPT !.status = "ABSENT"]]
  /\ running = <<>> /\ waiting = <<>>
  /\ free = NumBlocks
  /\ finishedIds = {} /\ prevStep = {}
  /\ pause = "UNPAUSED" /\ resets = 0
  /\ pc = "idle" /\ idx = 1 /\ budget = 0
  /\ sched = [r \in Req |-> 0] /\ draft = [r \in Req |-> 0]
  /\ need = [r \in Req |-> 0]
  /\ preempted = {} /\ admitted = {}
  /\ older = NoFrame /\ newer = NoFrame /\ left = {}
  /\ glen = [r \in Req |-> 0] /\ emitted = [r \in Req |-> <<>>]

-----------------------------------------------------------------------------
(* schedule(): the RUNNING loop.                                           *)

NumWaiting == Len(waiting)

\* get_num_unfinished_requests
NumUnfinished ==
  CASE pause = "PAUSED_ALL" -> 0
    [] pause = "PAUSED_NEW" -> Len(running)
    [] OTHER -> NumWaiting + Len(running)

\* The engine loop fills the batch queue before it waits for the oldest step.
BeginSchedule ==
  /\ pc = "idle" /\ newer = NoFrame
  /\ NumUnfinished > 0 \/ finishedIds # {}
  /\ pc' = "running" /\ idx' = 1
  /\ budget' = IF pause = "PAUSED_ALL" THEN 0 ELSE MaxNumScheduledTokens
  /\ sched' = [r \in Req |-> 0] /\ draft' = [r \in Req |-> 0]
  /\ preempted' = {} /\ admitted' = {}
  /\ UNCHANGED <<req, running, waiting, free, finishedIds, prevStep, need,
                 pipeVars, envVars, workVars>>

\* Mutant: a request with nothing in flight is taken to have its last token coming.
ReachesMaxTokensSoon(r) ==
  req[r].computed + 2 - req[r].ph >= PromptLen[r] + MaxTokens[r]

\* The steps in flight are sure to reach max_tokens, even if every draft fails.
ReachesMaxTokens(r) ==
  /\ req[r].ph > 0
  /\ req[r].computed + 2 - req[r].ph >= PromptLen[r] + MaxTokens[r]

Thresholded(n) ==
  IF 0 < LongPrefillThreshold /\ LongPrefillThreshold < n
  THEN LongPrefillThreshold ELSE n

\* Mutant: speculation is not kept below max_model_len.
UncappedNewTokens(r) ==
  Lesser(Thresholded(NumTokens(r) + req[r].spec + req[r].ph - req[r].computed), budget)

\* Never past max_model_len - 1: speculation could.
NumNewTokens(r) ==
  LET missing == NumTokens(r) + req[r].spec + req[r].ph - req[r].computed
  IN Lesser(Lesser(Thresholded(missing), budget),
            MaxModelLen - 1 - req[r].computed)

InRunningLoop == pc = "running" /\ idx <= Len(running) /\ budget > 0

SkipRunning(r) ==
  /\ InRunningLoop /\ r = running[idx]
  /\ ReachesMaxTokens(r) \/ NumNewTokens(r) = 0
  /\ idx' = idx + 1
  /\ UNCHANGED <<req, running, waiting, free, finishedIds, prevStep, pc, budget,
                 sched, need, draft, preempted, admitted,
                 pipeVars, envVars, workVars>>

ConsiderRunning(r) ==
  /\ InRunningLoop /\ r = running[idx]
  /\ ~ReachesMaxTokens(r) /\ NumNewTokens(r) # 0
  /\ pc' = "allocate"
  /\ need' = [need EXCEPT ![r] = NumNewTokens(r)]
  /\ UNCHANGED <<req, running, waiting, free, finishedIds, prevStep, idx, budget,
                 sched, draft, preempted, admitted,
                 pipeVars, envVars, workVars>>

RoomNeeded(r) == req[r].computed + need[r] + NumSpec

\* Speculative tokens among the n tokens scheduled for r.
DraftsAmong(r, n) ==
  IF req[r].spec = 0 THEN 0
  ELSE Greater(0, Lesser(req[r].spec,
                         n + req[r].computed - NumTokens(r) - req[r].ph))

ScheduleRunning(r) ==
  /\ pc = "allocate" /\ need[r] # 0
  /\ CanAllocate(r, RoomNeeded(r))
  /\ free' = free - ExtraBlocks(r, RoomNeeded(r))
  /\ req' = [req EXCEPT ![r].spec = 0,
                        ![r].blocks = @ + ExtraBlocks(r, RoomNeeded(r))]
  /\ sched' = [sched EXCEPT ![r] = need[r]]
  /\ draft' = [draft EXCEPT ![r] = DraftsAmong(r, need[r])]
  /\ need' = [need EXCEPT ![r] = 0]
  /\ budget' = budget - need[r]
  /\ idx' = idx + 1 /\ pc' = "running"
  /\ UNCHANGED <<running, waiting, finishedIds, prevStep, preempted, admitted,
                 pipeVars, envVars, workVars>>

\* FCFS preempts the tail of running, PRIORITY the request that ranks last.
IsVictim(v) ==
  IF PriorityPolicy
  THEN \E i \in 1 .. Len(running) :
         /\ v = running[i]
         /\ \A j \in 1 .. Len(running) : Rank[running[j]] <= Rank[v]
  ELSE v = running[Len(running)]

\* Mutant: preemption forgets the tokens that are still to come.
PreemptedWithoutPlaceholders(q) ==
  [q EXCEPT !.status = "PREEMPTED", !.computed = 0, !.spec = 0, !.blocks = 0,
            !.ph = 0]

\* Mutant: the preempted request holds on to its blocks.
PreemptedWithBlocks(q) ==
  [q EXCEPT !.status = "PREEMPTED", !.computed = 0, !.spec = 0]

\* _preempt_request on the Request object.
PreemptedRequest(q) ==
  [q EXCEPT !.status = "PREEMPTED", !.computed = 0, !.spec = 0, !.blocks = 0]

\* No room for r: preempt v, give back what this step had planned for it, and
\* try again unless it was r itself.
PreemptFor(r, v) ==
  /\ pc = "allocate" /\ need[r] # 0
  /\ ~CanAllocate(r, RoomNeeded(r))
  /\ IsVictim(v)
  /\ req' = [req EXCEPT ![v] = PreemptedRequest(@)]
  /\ free' = free + req[v].blocks
  /\ running' = Without(running, v)
  /\ waiting' = Requeue(waiting, v)
  /\ preempted' = preempted \cup {v}
  /\ sched' = [sched EXCEPT ![v] = 0]
  /\ draft' = [draft EXCEPT ![v] = 0]
  /\ budget' = budget + sched[v]
  /\ idx' = IF sched[v] # 0 THEN idx - 1 ELSE idx
  /\ pc' = IF v = r THEN "commit" ELSE "allocate"
  /\ need' = IF v = r THEN [need EXCEPT ![r] = 0] ELSE need
  /\ UNCHANGED <<finishedIds, prevStep, admitted, pipeVars, envVars, workVars>>

\* Mutant: a step that preempted goes on to admit waiting requests.
EndRunningAnyway ==
  /\ pc = "running" /\ ~InRunningLoop
  /\ pc' = IF pause = "UNPAUSED" THEN "waiting" ELSE "commit"
  /\ UNCHANGED <<req, running, waiting, free, finishedIds, prevStep,
                 stepVars, pipeVars, envVars, workVars>>

EndRunning ==
  /\ pc = "running" /\ ~InRunningLoop
  /\ pc' = IF preempted = {} /\ pause = "UNPAUSED" THEN "waiting" ELSE "commit"
  /\ UNCHANGED <<req, running, waiting, free, finishedIds, prevStep,
                 stepVars, pipeVars, envVars, workVars>>

-----------------------------------------------------------------------------
(* schedule(): the WAITING loop and the end of the step.                   *)

InWaitingLoop ==
  /\ pc = "waiting" /\ waiting # <<>> /\ budget > 0
  /\ Len(running) # MaxNumRunningReqs

\* Whole cached blocks, never the whole request (get_computed_blocks).
PrefixHits(r) ==
  {h \in 0 .. Lesser(MaxPrefixHit, NumTokens(r) - 1) : h % BlockSize = 0}

\* Tokens already computed when r is admitted: a prefix hit, unless it has some.
StartOf(r, hit) == IF req[r].computed = 0 THEN hit ELSE req[r].computed

PrefillTokens(r, hit) == Thresholded(NumTokens(r) - StartOf(r, hit))

Lookahead(r) == IF req[r].computed = 0 THEN 0 ELSE NumSpec

RoomForPrefill(r, hit) ==
  StartOf(r, hit) + Lesser(PrefillTokens(r, hit), budget) + Lookahead(r)

Admissible(r, hit) ==
  /\ ChunkedPrefill \/ PrefillTokens(r, hit) <= budget
  /\ CanAllocate(r, RoomForPrefill(r, hit))
  /\ ReserveFullIsl => CanAllocate(r, NumTokens(r))

Admit(r, hit) ==
  /\ InWaitingLoop /\ r = Head(waiting) /\ hit \in PrefixHits(r)
  /\ Admissible(r, hit)
  /\ waiting' = Tail(waiting)
  /\ running' = Append(running, r)
  /\ admitted' = admitted \cup {r}
  /\ free' = free - ExtraBlocks(r, RoomForPrefill(r, hit))
  /\ sched' = [sched EXCEPT ![r] = Lesser(PrefillTokens(r, hit), budget)]
  /\ budget' = budget - Lesser(PrefillTokens(r, hit), budget)
  /\ req' = [req EXCEPT
               ![r].status = "RUNNING",
               ![r].computed = StartOf(r, hit),
               ![r].blocks = @ + ExtraBlocks(r, RoomForPrefill(r, hit))]
  /\ UNCHANGED <<finishedIds, prevStep, pc, idx, need, draft, preempted,
                 pipeVars, envVars, workVars>>

\* The loop ends, or breaks at a head request that does not fit.
EndWaiting ==
  /\ pc = "waiting"
  /\ InWaitingLoop =>
       \E hit \in PrefixHits(Head(waiting)) : ~Admissible(Head(waiting), hit)
  /\ pc' = "commit"
  /\ UNCHANGED <<req, running, waiting, free, finishedIds, prevStep,
                 stepVars, pipeVars, envVars, workVars>>

\* The step leaves r short of its last token: its sample is not an output.
StaysPrefill(r) == req[r].computed + sched[r] < NumTokens(r) + req[r].ph

\* _update_after_schedule of AsyncScheduler: it owes one token and the drafts.
Advanced(r) ==
  LET q == [req[r] EXCEPT !.computed = @ + sched[r], !.chunk = StaysPrefill(r)]
  IN IF StaysPrefill(r) THEN q
     ELSE [q EXCEPT !.ph = @ + 1 + draft[r], !.spec = NumSpec]

\* What the worker gets: its persistent batch holds what the last step
\* scheduled, and any other request comes with all its known token ids.
ThisFrame ==
  [n |-> sched, d |-> draft,
   chunk |-> {r \in InStep(sched) : StaysPrefill(r)},
   base |-> [r \in Req |-> IF r \in prevStep THEN Continues ELSE NumTokens(r)],
   stale |-> {}]

Commit ==
  /\ pc = "commit"
  /\ req' = [r \in Req |-> IF sched[r] = 0 THEN req[r] ELSE Advanced(r)]
  /\ prevStep' = InStep(sched)
  /\ finishedIds' = {}
  /\ IF older = NoFrame
     THEN older' = ThisFrame /\ UNCHANGED newer
     ELSE newer' = ThisFrame /\ UNCHANGED older
  /\ pc' = "idle" /\ idx' = 1 /\ budget' = 0
  /\ sched' = [r \in Req |-> 0] /\ draft' = [r \in Req |-> 0]
  /\ preempted' = {} /\ admitted' = {}
  /\ UNCHANGED <<running, waiting, free, need, left, envVars, workVars>>

-----------------------------------------------------------------------------
(* update_from_output(): the oldest step of the batch queue comes back.    *)

BeginUpdate ==
  /\ pc = "idle" /\ older # NoFrame
  /\ pc' = "update" /\ left' = InStep(older.n)
  /\ UNCHANGED <<req, running, waiting, free, finishedIds, prevStep,
                 stepVars, older, newer, envVars, workVars>>

\* The requests of a step are visited one by one; they do not interact.
Visits(r) ==
  /\ pc = "update" /\ r \in left
  /\ \A s \in left : Rank[r] <= Rank[s]
  /\ left' = left \ {r}

\* The step sampled k tokens: one, and one per accepted draft.
Samples(r) == 1 .. older.d[r] + 1

\* Where the worker puts the first of them.
SampledFrom(r) == IF older.base[r] = Continues THEN glen[r] ELSE older.base[r]

\* A request that is gone: its sample is dropped.
DropOutput(r) ==
  /\ Visits(r) /\ ~Live(r)
  /\ UNCHANGED <<req, running, waiting, free, finishedIds, prevStep, pc,
                 stepVars, older, newer, envVars, workVars>>

\* The worker discards the sample of a step that ends inside the known tokens.
NoSample(r) ==
  /\ Visits(r) /\ Live(r) /\ r \in older.chunk
  /\ glen' = [glen EXCEPT ![r] = SampledFrom(r)]
  /\ UNCHANGED <<req, running, waiting, free, finishedIds, prevStep, pc,
                 stepVars, older, newer, envVars, emitted>>

\* Mutant: rejected drafts leave negative counters behind.
CorrectedBelowZero(q, rejected) ==
  [q EXCEPT !.computed = @ - rejected, !.ph = @ - rejected]

\* Mutant: the placeholders are corrected, the computed tokens are not.
CorrectedPlaceholders(q, rejected) ==
  [q EXCEPT !.ph = IF @ > 0 THEN @ - rejected ELSE @]

\* Rejected drafts are taken back from the computed tokens and the placeholders.
Corrected(q, rejected) ==
  [q EXCEPT !.computed = IF @ > 0 THEN @ - rejected ELSE @,
            !.ph = IF @ > 0 THEN @ - rejected ELSE @]

Rejected(r, k) == older.d[r] - (k - 1)

\* A step that a forced preemption overtook: AsyncScheduler drops its output.
DiscardOutput(r) ==
  /\ Visits(r) /\ Live(r) /\ r \notin older.chunk
  /\ req[r].discard > 0
  /\ \E k \in Samples(r) :
       /\ req' = [req EXCEPT ![r] =
                    [Corrected(@, Rejected(r, k)) EXCEPT !.discard = @ - 1]]
       /\ glen' = [glen EXCEPT ![r] =
                    SampledFrom(r) + k]
  /\ UNCHANGED <<running, waiting, free, finishedIds, prevStep, pc,
                 stepVars, older, newer, envVars, emitted>>

\* check_stop: the length limits of the request and of the model.
AtLimit(r, j) ==
  req[r].out + j >= MaxTokens[r] \/ NumTokens(r) + j >= MaxModelLen

\* j of the k sampled tokens are appended: all, unless a stop comes first. A
\* stop is a limit or, at any token, an EOS.
Keeps(r, k, j, stops) ==
  /\ j \in 1 .. k
  /\ \A i \in 1 .. j - 1 : ~AtLimit(r, i)
  /\ ~stops => j = k /\ ~AtLimit(r, j)

\* AsyncScheduler._update_request_with_output
WithOutput(q, j) == [q EXCEPT !.out = @ + j, !.ph = @ - j]

\* The positions the worker gave to the first j tokens, counted after the prompt.
Positions(r, j) == [i \in 1 .. j |-> SampledFrom(r) - PromptLen[r] + i]

Deliver(r, k, j) ==
  /\ emitted' = [emitted EXCEPT ![r] = @ \o Positions(r, j)]
  /\ glen' = [glen EXCEPT ![r] = SampledFrom(r) + k]

\* draft_token_lengths: the worker's draft for r is shorter than the fixed
\* placeholder, or there is no length for it (NumSpec placeholders stay).
ResizedSpec(q, length) ==
  IF ~q.chunk /\ q.status = "RUNNING"
  THEN [q EXCEPT !.spec = Greater(0, Lesser(length, NumSpec))]
  ELSE q

NoLength == -1

TakeOutput(r) ==
  /\ Visits(r) /\ Live(r) /\ r \notin older.chunk
  /\ req[r].discard <= 0
  /\ \E k \in Samples(r), length \in NoLength .. NumSpec :
       /\ Keeps(r, k, k, FALSE)
       /\ LET q == WithOutput(Corrected(req[r], Rejected(r, k)), k)
          IN req' = [req EXCEPT ![r] =
                       IF length = NoLength THEN q ELSE ResizedSpec(q, length)]
       /\ Deliver(r, k, k)
  /\ UNCHANGED <<running, waiting, free, finishedIds, prevStep, pc,
                 stepVars, older, newer, envVars>>

\* History: what is still in flight for r belongs to a request that ended.
Outdated(f, r) == IF f = NoFrame THEN f ELSE [f EXCEPT !.stale = @ \cup {r}]

\* _free_request and the removal from the queues.
Finished(q) == [q EXCEPT !.status = "FINISHED", !.blocks = 0]

\* Mutant: a request that ends is looked for among the running ones only.
LeaveRunning(r) == running' = Without(running, r) /\ UNCHANGED waiting

\* A request that ends is taken out of the queue its status says it is in.
LeaveQueue(r) ==
  IF req[r].status = "RUNNING"
  THEN running' = Without(running, r) /\ UNCHANGED waiting
  ELSE waiting' = Without(waiting, r) /\ UNCHANGED running

StopOutput(r) ==
  /\ Visits(r) /\ Live(r) /\ r \notin older.chunk
  /\ req[r].discard <= 0
  /\ \E k \in Samples(r) : \E j \in 1 .. k :
       /\ Keeps(r, k, j, TRUE)
       /\ req' = [req EXCEPT ![r] =
                    Finished(WithOutput(Corrected(@, Rejected(r, k)), j))]
       /\ Deliver(r, k, j)
  /\ free' = free + req[r].blocks
  /\ finishedIds' = finishedIds \cup {r}
  /\ LeaveQueue(r)
  /\ older' = Outdated(older, r) /\ newer' = Outdated(newer, r)
  /\ UNCHANGED <<prevStep, pc, stepVars, envVars>>

EndUpdate ==
  /\ pc = "update" /\ left = {}
  /\ pc' = "idle"
  /\ older' = newer /\ newer' = NoFrame
  /\ UNCHANGED <<req, running, waiting, free, finishedIds, prevStep,
                 stepVars, left, envVars, workVars>>

-----------------------------------------------------------------------------
(* What clients and the engine's control calls do between steps.           *)

AddRequest(r) ==
  /\ pc = "idle"
  /\ req[r].status = "ABSENT" \/ (ReuseIds /\ req[r].status = "FINISHED")
  /\ req' = [req EXCEPT ![r] = NewRequest]
  /\ waiting' = Enqueue(waiting, r)
  /\ emitted' = [emitted EXCEPT ![r] = <<>>]
  /\ UNCHANGED <<running, free, finishedIds, prevStep, pc,
                 stepVars, pipeVars, envVars, glen>>

\* finish_requests: a client goes away.
FinishRequest(r) ==
  /\ pc = "idle" /\ AllowAbort /\ Live(r)
  /\ req' = [req EXCEPT ![r] = Finished(@)]
  /\ free' = free + req[r].blocks
  /\ finishedIds' = finishedIds \cup {r}
  /\ LeaveQueue(r)
  /\ older' = Outdated(older, r) /\ newer' = Outdated(newer, r)
  /\ UNCHANGED <<prevStep, pc, stepVars, left, envVars, workVars>>

SetPauseState(p) ==
  /\ pc = "idle" /\ AllowPause /\ pause # p
  /\ pause' = p
  /\ UNCHANGED <<req, running, waiting, free, finishedIds, prevStep, pc,
                 stepVars, pipeVars, resets, workVars>>

\* Mutant: a forced preemption keeps no count of the steps to discard.
ForcePreemptedForgetful(q) == [PreemptedRequest(q) EXCEPT !.ph = 0]

\* reset_prefix_cache(reset_running_requests=True): every running request is
\* preempted, last one first, and what is in flight for it is to be discarded.
ForcePreempted(q) ==
  [PreemptedRequest(q) EXCEPT !.discard = q.ph, !.ph = 0]

BeginReset ==
  /\ pc = "idle" /\ newer = NoFrame /\ running # <<>>
  /\ resets < MaxResets
  /\ ResetInFlight \/ older = NoFrame
  /\ pc' = "reset" /\ resets' = resets + 1
  /\ UNCHANGED <<req, running, waiting, free, finishedIds, prevStep,
                 stepVars, pipeVars, pause, workVars>>

ResetRunning(r) ==
  /\ pc = "reset" /\ running # <<>> /\ r = Last(running)
  /\ req' = [req EXCEPT ![r] = ForcePreempted(@)]
  /\ free' = free + req[r].blocks
  /\ running' = Front(running)
  /\ waiting' = Requeue(waiting, r)
  /\ older' = Outdated(older, r) /\ UNCHANGED newer
  /\ UNCHANGED <<finishedIds, prevStep, pc, stepVars, left, envVars, workVars>>

\* The step to come must send every request to the worker anew.
EndReset ==
  /\ pc = "reset" /\ running = <<>>
  /\ pc' = "idle" /\ prevStep' = {}
  /\ UNCHANGED <<req, running, waiting, free, finishedIds,
                 stepVars, pipeVars, envVars, workVars>>

-----------------------------------------------------------------------------
Schedule ==
  \/ BeginSchedule \/ EndRunning \/ EndWaiting \/ Commit
  \/ \E r \in Req :
       \/ SkipRunning(r) \/ ConsiderRunning(r) \/ ScheduleRunning(r)
       \/ \E v \in Req : PreemptFor(r, v)
       \/ \E hit \in 0 .. MaxPrefixHit : Admit(r, hit)

UpdateFromOutput ==
  \/ BeginUpdate \/ EndUpdate
  \/ \E r \in Req : DropOutput(r) \/ NoSample(r) \/ DiscardOutput(r)
                      \/ TakeOutput(r) \/ StopOutput(r)

\* The rest of reset_prefix_cache, which nothing interrupts.
GoOnReset == EndReset \/ \E r \in Req : ResetRunning(r)

Environment ==
  \/ \E r \in Req : AddRequest(r) \/ FinishRequest(r)
  \/ \E p \in {"UNPAUSED", "PAUSED_NEW", "PAUSED_ALL"} : SetPauseState(p)
  \/ BeginReset

Next == Schedule \/ UpdateFromOutput \/ GoOnReset \/ Environment

Spec == Init /\ [][Next]_vars

\* The engine's busy loop never stops while it has something to do.
FairSpec ==
  Spec /\ WF_vars(Schedule) /\ WF_vars(UpdateFromOutput) /\ WF_vars(GoOnReset)

-----------------------------------------------------------------------------
(* Properties.                                                             *)

TypeOK ==
  /\ req \in [Req -> Request]
  /\ running \in Seq(Req) /\ waiting \in Seq(Req)
  /\ free \in Nat
  /\ finishedIds \subseteq Req /\ prevStep \subseteq Req
  /\ pause \in {"UNPAUSED", "PAUSED_NEW", "PAUSED_ALL"}
  /\ pc \in {"idle", "running", "allocate", "waiting", "commit", "update", "reset"}
  /\ idx \in Nat \ {0} /\ budget \in Nat
  /\ sched \in [Req -> Nat] /\ need \in [Req -> Nat] /\ draft \in [Req -> 0 .. NumSpec]
  /\ preempted \subseteq Req /\ admitted \subseteq Req /\ left \subseteq Req
  /\ older \in Frame \cup {NoFrame} /\ newer \in Frame \cup {NoFrame}
  /\ resets \in 0 .. MaxResets
  /\ glen \in [Req -> Nat] /\ emitted \in [Req -> Seq(Int)]

OwedBy(f, r) ==
  IF f = NoFrame THEN 0
  ELSE IF f.n[r] = 0 \/ r \in f.chunk \cup f.stale THEN 0 ELSE 1 + f.d[r]

\* Tokens the steps in flight may still return for r.
Owed(r) ==
  (IF pc = "update" /\ r \notin left THEN 0 ELSE OwedBy(older, r)) + OwedBy(newer, r)

\* num_output_placeholders counts exactly the tokens the steps in flight may
\* still return: one and its drafts per sampling step, across preemption,
\* rejection, trimmed drafts and the step that is half processed.
PlaceholdersMatchInFlight ==
  \A r \in Req : Live(r) => req[r].ph = Owed(r)

\* A decoding request has computed every token, in flight ones included, but
\* the last sampled one; one in prefill is short of its known tokens; and a
\* request in the waiting queue starts over.
ComputedMatchesTokens ==
  \A r \in Req :
    /\ req[r].status \in {"WAITING", "PREEMPTED"} => req[r].computed = 0
    /\ req[r].status = "RUNNING" /\ r \notin admitted =>
         IF req[r].chunk
         THEN req[r].computed < NumTokens(r)
         ELSE req[r].computed = NumTokens(r) + req[r].ph - 1

\* The worker's row of token ids for a request, which takes a place for every
\* token in flight, never outgrows max_model_len (the assertion in
\* _bookkeeping_sync), and no position computed reaches max_model_len.
WorkerRowFits ==
  \A r \in Req : Live(r) =>
    /\ NumTokens(r) + req[r].ph <= MaxModelLen
    /\ req[r].computed + sched[r] < MaxModelLen

Total(f) == FoldFunction(+, 0, f)

\* Every live request is in the queue its status names, once, and no other is
\* in a queue.
QueuesMatchStatus ==
  /\ Range(running) = {r \in Req : req[r].status = "RUNNING"}
  /\ Range(waiting) = {r \in Req : req[r].status \in {"WAITING", "PREEMPTED"}}
  /\ IsInjective(running) /\ IsInjective(waiting)

\* Blocks are neither lost nor held by a request that is not running, and a
\* running request has room for the tokens it has computed or will this step.
BlocksConserved ==
  /\ free + Total([r \in Req |-> req[r].blocks]) = NumBlocks
  /\ \A r \in Req :
       IF req[r].status = "RUNNING"
       THEN req[r].blocks >= BlocksFor(req[r].computed + sched[r])
       ELSE req[r].blocks = 0

\* A request is taken from the waiting queue only when nothing that was
\* sampled for it is in flight and the last step did not hold it: the worker
\* can rebuild its row from the tokens the scheduler knows (the assertion in
\* _make_cached_request_data; resumed_token_ids in _update_states).
ResumesFromKnownTokens ==
  pc = "waiting" =>
    \A r \in Range(waiting) : req[r].ph = 0 /\ r \notin prevStep

\* What a step returns for a request that ended or was forced out since then is
\* discarded: it changes neither what the client gets nor the counters of the
\* request, or of a new request with its id. Only the count of steps to discard
\* moves.
StaleFramesDiscarded ==
  [][\A r \in Req :
       pc = "update" /\ older # NoFrame /\ r \in older.stale /\ r \in left \ left' =>
         /\ emitted'[r] = emitted[r]
         /\ req'[r] = [req[r] EXCEPT !.discard = req'[r].discard]]_vars

PhaseOf(r) ==
  CASE req[r].status = "ABSENT" -> "absent"
    [] req[r].status = "FINISHED" -> "closed"
    [] OTHER -> "open"

Streams == INSTANCE OutputStreams WITH
  phase <- [r \in Req |-> PhaseOf(r)], stream <- emitted

\* The scheduler keeps the promise OutputStreams makes to clients.
StreamsSpec == Streams!Spec

\* Every request that was accepted ends: whatever preempts it, no request is
\* left in a queue for ever.
EveryRequestEnds == \A r \in Req : Live(r) ~> ~Live(r)

=============================================================================
