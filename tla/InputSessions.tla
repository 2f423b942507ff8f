--------------------------- MODULE InputSessions ---------------------------
(***************************************************************************)
(* Inputs that arrive in pieces: streaming sessions, whose request stops    *)
(* after each chunk and goes on with the next, and multimodal inputs, whose  *)
(* placeholder tokens need an encoder output (v1/core/sched/scheduler.py,    *)
(* and the encoder cache of v1/worker/gpu_model_runner.py).                  *)
(*                                                                          *)
(* One step is in flight at a time, policy FCFS, no connectors.  A chunk     *)
(* holds at most one multimodal input.  A token is <<chunk, index>> if the   *)
(* client sent it and Out if it was sampled, so that what the worker is fed  *)
(* at a position can be compared with what belongs there.  KV blocks are of   *)
(* one token, and only counted; requests find only blocks of their own in the *)
(* prefix cache.  EncoderCacheManager is external.                           *)
(***************************************************************************)
EXTENDS Integers, FiniteSetsExt, SequencesExt

CONSTANTS
  Req,
  Sessions,       \* the requests that are resumable
  Chunks,         \* [Req -> Seq([len, offset, hash])]; hash may be NoHash
  Hash,           \* identifiers of multimodal inputs
  NoHash,
  Embeds,         \* [Hash -> Nat]: embeddings, and placeholder tokens, of each
  MaxTokens,      \* [Req -> Nat]: max_tokens, per chunk
  NumDrafts,      \* num_spec_tokens
  Shift,          \* shift_computed_tokens: 1 if use_eagle
  DisableChunkedMM,   \* disable_chunked_mm_input
  TokenBudget,    \* max_num_scheduled_tokens
  EncoderBudget,  \* max_num_encoder_input_tokens
  CacheSize,      \* the encoder cache, in embeddings
  KvSlots,        \* the KV cache, in tokens
  MaxNumRunningReqs

ASSUME ConstantsAssumption ==
  /\ Sessions \subseteq Req
  /\ NoHash \notin Hash
  /\ TokenBudget \in Nat /\ EncoderBudget \in Nat /\ CacheSize \in Nat
  /\ Embeds \in [Hash -> 1 .. CacheSize]
  /\ \A h \in Hash : Embeds[h] <= EncoderBudget
  /\ \A r \in Req :
       /\ Len(Chunks[r]) \in Nat \ {0}
       /\ \A k \in 1 .. Len(Chunks[r]) :
            LET c == Chunks[r][k]
            IN  /\ c.len \in Nat \ {0} /\ c.offset \in Nat /\ c.hash \in Hash \cup {NoHash}
                /\ c.hash # NoHash => c.offset + Embeds[c.hash] <= c.len
  /\ \A r \in Req : MaxTokens[r] \in Nat \ {0}
  /\ NumDrafts \in Nat /\ Shift \in {0, 1}

VARIABLES
  \* The client.
  sent,         \* how many chunks (for a session: and the end mark) it has sent
  \* The scheduler.
  req,          \* the Request objects
  waiting, skipped, running,
  numWaitingForStreamingInput,
  enc,          \* the EncoderCacheManager
  \* One call of schedule().
  pc, plan,
  need,         \* what the request at hand wants to schedule; n = 0: nothing
  \* The worker.
  step,         \* the SchedulerOutput in flight
  gpu,          \* encoder_cache
  wfeats,       \* mm_features of its request states
  kv            \* the token whose KV is at each position of a request

queueVars  == <<waiting, skipped, running, numWaitingForStreamingInput>>
workerVars == <<step, gpu, wfeats, kv>>
vars == <<sent, req, queueVars, enc, pc, plan, need, workerVars>>

-----------------------------------------------------------------------------
Out == <<0, 0>>
EndMark == 0
Lesser(a, b) == IF a <= b THEN a ELSE b
Positive(n) == IF n > 0 THEN n ELSE 0
SumOf(S, Op(_)) == MapThenSumSet(Op, S)

Absent ==
  [status |-> "ABSENT", toks |-> <<>>, outs |-> 0, computed |-> 0, spec |-> 0,
   feats |-> <<>>, queue |-> <<>>, alloc |-> 0]

Gone == [Absent EXCEPT !.status = "GONE"]

Live == {r \in Req : req[r].status \notin {"ABSENT", "GONE"}}

ChunkTokens(r, k) == [i \in 1 .. Chunks[r][k].len |-> <<k, i - 1>>]

\* A chunk's multimodal input, its position shifted to where the chunk starts.
ChunkFeatures(r, k, base) ==
  LET c == Chunks[r][k]
  IN  IF c.hash = NoHash THEN <<>>
      ELSE << [start |-> base + c.offset, hash |-> c.hash] >>

EndOf(feature) == feature.start + Embeds[feature.hash]

FreeSlots == KvSlots - SumOf(Req, LAMBDA r : req[r].alloc)

-----------------------------------------------------------------------------
(* EncoderCacheManager: entries are kept as long as there is room; those no  *)
(* request refers to are evicted, the longest unused first.                 *)

EmptyEncoderCache ==
  [cached |-> {}, refs |-> [h \in Hash |-> {}], freeable |-> <<>>, freed |-> {}]

EmbedsOf(hashes) == SumOf(hashes, LAMBDA h : Embeds[h])

NumFreeSlots(e) == CacheSize - EmbedsOf(e.cached)

NumFreeableSlots(e) == CacheSize - EmbedsOf({h \in e.cached : e.refs[h] # {}})

\* allocate, and check_and_update_cache of an entry that is cached.
Referred(e, r, h) ==
  [e EXCEPT !.cached = @ \cup {h}, !.refs[h] = @ \cup {r}, !.freeable = RemoveFirst(@, h)]

FreeEncoderInput(e, r, h) ==
  IF e.refs[h] = {} THEN e
  ELSE [e EXCEPT !.refs[h] = @ \ {r},
                 !.freeable = IF e.refs[h] = {r} THEN Append(@, h) ELSE @]

\* free_encoder_input for each of these inputs of the request in turn.
Released(e, r, features, inputs) ==
  LET after[i \in 0 .. Len(features)] ==
        IF i = 0 THEN e
        ELSE IF i \in inputs THEN FreeEncoderInput(after[i - 1], r, features[i].hash)
        ELSE after[i - 1]
  IN  after[Len(features)]

\* free: the request refers to none of its inputs any more.
ReleasedAll(e, r, features) == Released(e, r, features, DOMAIN features)

\* The evictions of can_allocate, until there is room for so many embeddings.
Evicted(e, room) ==
  LET Without(k) ==
        [e EXCEPT !.cached = @ \ Range(SubSeq(e.freeable, 1, k)),
                  !.freed = @ \cup Range(SubSeq(e.freeable, 1, k)),
                  !.freeable = SubSeq(@, k + 1, Len(@))]
  IN  Without(CHOOSE k \in 0 .. Len(e.freeable) :
                /\ NumFreeSlots(Without(k)) >= room
                /\ \A j \in 0 .. k - 1 : NumFreeSlots(Without(j)) < room)

-----------------------------------------------------------------------------
(* _try_schedule_encoder_inputs: which inputs a step over n tokens from c    *)
(* needs encoded, and how many of the n tokens it can take.                 *)

\* One input after the other; stop says the loop is left.
Consider(r, c, acc, i) ==
  LET f == req[r].feats[i]
      to == c + acc.n
      Before == Positive(f.start - (c + Shift))
      room == acc.embeds + Embeds[f.hash]
  IN  CASE acc.stop -> acc
        [] ~acc.stop /\ f.start >= to + Shift -> [acc EXCEPT !.stop = TRUE]
        [] ~acc.stop /\ f.start < to + Shift ->
           CASE EndOf(f) <= c \/ f.hash \in acc.hashes -> acc
             [] EndOf(f) > c /\ f.hash \in acc.enc.cached \ acc.hashes ->
                [acc EXCEPT !.enc = Referred(@, r, f.hash)]
             [] EndOf(f) > c /\ f.hash \notin acc.enc.cached \cup acc.hashes ->
                IF \/ DisableChunkedMM /\ c < f.start /\ to < EndOf(f)
                   \/ Embeds[f.hash] > acc.budget
                   \/ room > NumFreeableSlots(acc.enc)
                THEN [acc EXCEPT !.n = Before, !.stop = TRUE]
                ELSE LET roomy == [acc EXCEPT !.enc = Evicted(@, room)]
                     IN  IF f.start >= to THEN roomy
                         ELSE [roomy EXCEPT !.embeds = room,
                                            !.budget = @ - Embeds[f.hash],
                                            !.hashes = @ \cup {f.hash},
                                            !.inputs = Append(@, i)]

TryScheduleEncoderInputs(r, c, n) ==
  LET after[i \in 0 .. Len(req[r].feats)] ==
        IF i = 0
        THEN [n |-> n, enc |-> enc, budget |-> plan.encBudget, embeds |-> 0,
              hashes |-> {}, inputs |-> <<>>, stop |-> n = 0]
        ELSE Consider(r, c, after[i - 1], i)
  IN  after[Len(req[r].feats)]

-----------------------------------------------------------------------------
NoPlan ==
  [idx |-> 1, budget |-> 0, encBudget |-> 0, preempted |-> FALSE, stepSkipped |-> <<>>,
   n |-> [r \in Req |-> 0], drafts |-> [r \in Req |-> 0],
   inputs |-> [r \in Req |-> <<>>], order |-> <<>>, new |-> {}]

NoNeed == [n |-> 0, inputs |-> <<>>, budget |-> 0]

NoStep ==
  [n |-> NoPlan.n, drafts |-> NoPlan.drafts, inputs |-> NoPlan.inputs,
   order |-> <<>>, new |-> {}, freed |-> {}]

Init ==
  /\ sent = [r \in Req |-> 0]
  /\ req = [r \in Req |-> Absent]
  /\ waiting = <<>> /\ skipped = <<>> /\ running = <<>>
  /\ numWaitingForStreamingInput = 0
  /\ enc = EmptyEncoderCache
  /\ pc = "idle" /\ plan = NoPlan /\ need = NoNeed
  /\ step = NoStep
  /\ gpu = {}
  /\ wfeats = [r \in Req |-> <<>>]
  /\ kv = [r \in Req |-> <<>>]

\* _free_request, and what the worker then forgets.
Freed(r) ==
  /\ req' = [req EXCEPT ![r] = Gone]
  /\ kv' = [kv EXCEPT ![r] = <<>>]
  /\ wfeats' = [wfeats EXCEPT ![r] = <<>>]

\* Mutant: the features are placed before the tokens to be dropped are dropped.
BaseBeforeTrimming(q) == Len(q.toks)

\* base = session.num_tokens
Base(q) == Lesser(q.computed, Len(q.toks))

\* Mutant: all sampled tokens of the last chunk are dropped, computed or not.
DropOutputs(q) == SubSeq(q.toks, 1, Len(q.toks) - q.outs)

\* del session._all_token_ids[num_computed_tokens:]
KeptTokens(q) == SubSeq(q.toks, 1, Lesser(q.computed, Len(q.toks)))

\* _update_request_as_session
AsSession(q, r, k) ==
  [q EXCEPT !.toks = KeptTokens(q) \o ChunkTokens(r, k),
            !.feats = @ \o ChunkFeatures(r, k, Base(q)),
            !.outs = 0,
            !.status = "WAITING"]

LastSent(r) == IF r \in Sessions THEN Len(Chunks[r]) + 1 ELSE 1

\* add_request: a new request, or the next chunk of a session, or its end mark.
AddRequest(r) ==
  /\ pc = "idle"
  /\ sent[r] < LastSent(r)
  /\ req[r].status # "GONE"
  /\ sent' = [sent EXCEPT ![r] = @ + 1]
  /\ LET k == IF sent[r] < Len(Chunks[r]) THEN sent[r] + 1 ELSE EndMark
         status == req[r].status
     IN  CASE status = "ABSENT" ->
              /\ req' = [req EXCEPT ![r] = AsSession(Absent, r, k)]
              /\ waiting' = Append(waiting, r)
              /\ UNCHANGED <<skipped, numWaitingForStreamingInput, enc, wfeats, kv>>
           [] status = "WAITING_FOR_STREAMING_REQ" ->
              /\ numWaitingForStreamingInput' = numWaitingForStreamingInput - 1
              /\ IF k # EndMark
                 THEN /\ req' = [req EXCEPT ![r] = AsSession(@, r, k)]
                      /\ UNCHANGED <<skipped, enc, wfeats, kv>>
                 ELSE /\ Freed(r)
                      /\ enc' = ReleasedAll(enc, r, req[r].feats)
                      /\ skipped' = RemoveFirst(skipped, r)
              /\ UNCHANGED waiting
           [] status \in {"WAITING", "RUNNING", "PREEMPTED"} ->
              /\ req' = [req EXCEPT ![r].queue = Append(@, k)]
              /\ UNCHANGED <<waiting, skipped, numWaitingForStreamingInput, enc, wfeats, kv>>
  /\ UNCHANGED <<running, pc, plan, need, step, gpu>>

\* 1 if an abort of r takes it out of those waiting for input.
WaitsForInput(r) == IF req[r].status = "WAITING_FOR_STREAMING_REQ" THEN 1 ELSE 0

\* finish_requests: the client aborts.
FinishRequest(r) ==
  /\ pc = "idle"
  /\ r \in Live
  /\ Freed(r)
  /\ enc' = ReleasedAll(enc, r, req[r].feats)
  /\ waiting' = RemoveFirst(waiting, r)
  /\ skipped' = RemoveFirst(skipped, r)
  /\ running' = RemoveFirst(running, r)
  /\ numWaitingForStreamingInput' = numWaitingForStreamingInput - WaitsForInput(r)
  /\ UNCHANGED <<sent, pc, plan, need, step, gpu>>

-----------------------------------------------------------------------------
(* schedule(): the RUNNING loop.                                           *)

\* Mutant: what is in skipped_waiting is all taken for blocked.
RunnableRequests == Len(running) + Len(waiting) > 0

\* get_num_unfinished_requests: sessions that wait for input do not count.
HasUnfinishedRequests ==
  Len(running) + Len(waiting) + Len(skipped) - numWaitingForStreamingInput > 0

BeginSchedule ==
  /\ pc = "idle"
  /\ HasUnfinishedRequests
  /\ pc' = "running"
  /\ plan' = [NoPlan EXCEPT !.budget = TokenBudget, !.encBudget = EncoderBudget]
  /\ UNCHANGED <<sent, req, queueVars, enc, need, workerVars>>

NumTokens(r) == Len(req[r].toks)

InRunningLoop == pc = "running" /\ plan.idx <= Len(running) /\ plan.budget > 0

\* What the request could do in this step; with nothing, it is passed over.
ConsiderRunning ==
  /\ InRunningLoop
  /\ need = NoNeed
  /\ LET r == running[plan.idx]
         n == Lesser(NumTokens(r) + req[r].spec - req[r].computed, plan.budget)
         try == TryScheduleEncoderInputs(r, req[r].computed, n)
     IN  /\ enc' = try.enc
         /\ need' = IF try.n = 0 THEN NoNeed
                    ELSE [n |-> try.n, inputs |-> try.inputs, budget |-> try.budget]
         /\ plan' = IF try.n = 0 THEN [plan EXCEPT !.idx = @ + 1] ELSE plan
  /\ UNCHANGED <<sent, req, queueVars, pc, workerVars>>

\* The slots r needs beyond those it has.
Missing(r, from, n) == Positive(from + n - req[r].alloc)

\* Entries in the plan for n tokens of r; inputs are allocated in the encoder cache.
Planned(r, n, inputs, encBudget) ==
  [plan EXCEPT !.n[r] = n, !.inputs[r] = inputs, !.order = Append(@, r),
               !.budget = @ - n, !.encBudget = encBudget]

Allocated(e, r, inputs) ==
  LET after[k \in 0 .. Len(inputs)] ==
        IF k = 0 THEN e ELSE Referred(after[k - 1], r, req[r].feats[inputs[k]].hash)
  IN  after[Len(inputs)]

ScheduleRunning ==
  /\ InRunningLoop
  /\ need # NoNeed
  /\ LET r == running[plan.idx]
         c == req[r].computed
     IN  /\ Missing(r, c, need.n) <= FreeSlots
         /\ plan' = [Planned(r, need.n, need.inputs, need.budget) EXCEPT
                       !.idx = @ + 1,
                       !.drafts[r] = IF req[r].spec > 0
                                     THEN Positive(need.n + c - NumTokens(r)) ELSE 0]
         /\ req' = [req EXCEPT ![r].alloc = @ + Missing(r, c, need.n), ![r].spec = 0]
         /\ enc' = Allocated(enc, r, need.inputs)
  /\ need' = NoNeed
  /\ UNCHANGED <<sent, queueVars, pc, workerVars>>

\* _preempt_request
Preempted(q) ==
  [q EXCEPT !.status = "PREEMPTED", !.computed = 0, !.spec = 0, !.alloc = 0]

PreemptFor ==
  /\ InRunningLoop
  /\ need # NoNeed
  /\ LET r == running[plan.idx]
         victim == Last(running)
     IN  /\ Missing(r, req[r].computed, need.n) > FreeSlots
         /\ running' = Front(running)
         /\ req' = [req EXCEPT ![victim] = Preempted(@)]
         /\ enc' = ReleasedAll(enc, victim, req[victim].feats)
         /\ waiting' = <<victim>> \o waiting
         /\ pc' = IF victim = r THEN "commit" ELSE pc
         /\ need' = IF victim = r THEN NoNeed ELSE need
  /\ plan' = [plan EXCEPT !.preempted = TRUE]
  /\ UNCHANGED <<sent, skipped, numWaitingForStreamingInput, workerVars>>

EndRunning ==
  /\ pc = "running"
  /\ ~InRunningLoop
  /\ pc' = IF plan.preempted THEN "commit" ELSE "waiting"
  /\ UNCHANGED <<sent, req, queueVars, enc, plan, need, workerVars>>

-----------------------------------------------------------------------------
(* schedule(): the WAITING loop.                                           *)

HeadRequest == Head(skipped \o waiting)

Looking ==
  /\ pc = "waiting"
  /\ skipped \o waiting # <<>>
  /\ plan.budget > 0
  /\ Len(running) < MaxNumRunningReqs

\* pop_request from the queue the request was peeked in.
Popped ==
  /\ skipped' = IF skipped # <<>> THEN Tail(skipped) ELSE skipped
  /\ waiting' = IF skipped # <<>> THEN waiting ELSE Tail(waiting)

\* A session that waits for its next chunk stays blocked.
SkipWaiting ==
  /\ Looking
  /\ req[HeadRequest].status = "WAITING_FOR_STREAMING_REQ"
  /\ Popped
  /\ plan' = [plan EXCEPT !.stepSkipped = Append(@, HeadRequest)]
  /\ UNCHANGED <<sent, req, running, numWaitingForStreamingInput, enc, pc, need, workerVars>>

\* get_computed_blocks: a preempted request may find any of its blocks again whose
\* tokens still are its tokens, from the first on and never all of them.
Hits(r) ==
  IF req[r].computed # 0 THEN {req[r].computed}
  ELSE {k \in 0 .. Lesser(NumTokens(r) - 1, Len(kv[r])) :
          SubSeq(kv[r], 1, k) = SubSeq(req[r].toks, 1, k)}

\* What the head of the queue would do from position c on.
TryWaiting(r, c) == TryScheduleEncoderInputs(r, c, Lesser(NumTokens(r) - c, plan.budget))

Admit ==
  /\ Looking
  /\ LET r == HeadRequest
     IN  /\ req[r].status # "WAITING_FOR_STREAMING_REQ"
         /\ \E c \in Hits(r) :
              LET try == TryWaiting(r, c)
              IN  /\ try.n > 0
                  /\ Missing(r, c, try.n) <= FreeSlots
                  /\ req' = [req EXCEPT ![r].status = "RUNNING", ![r].computed = c,
                                        ![r].alloc = @ + Missing(r, c, try.n)]
                  /\ enc' = Allocated(try.enc, r, try.inputs)
                  /\ plan' = [Planned(r, try.n, try.inputs, try.budget) EXCEPT
                                !.new = IF req[r].status = "WAITING" THEN @ \cup {r} ELSE @]
         /\ running' = Append(running, r)
  /\ Popped
  /\ UNCHANGED <<sent, numWaitingForStreamingInput, pc, need, workerVars>>

\* The loop ends where a request cannot be scheduled; without room for its tokens
\* it refers to no encoder output any more.
EndWaiting ==
  /\ pc = "waiting"
  /\ \/ ~Looking /\ UNCHANGED enc
     \/ /\ Looking
        /\ req[HeadRequest].status # "WAITING_FOR_STREAMING_REQ"
        /\ \E c \in Hits(HeadRequest) :
             LET try == TryWaiting(HeadRequest, c)
             IN  \/ try.n = 0 /\ enc' = try.enc
                 \/ /\ try.n > 0
                    /\ Missing(HeadRequest, c, try.n) > FreeSlots
                    /\ enc' = ReleasedAll(try.enc, HeadRequest, req[HeadRequest].feats)
  /\ pc' = "commit"
  /\ UNCHANGED <<sent, req, queueVars, plan, need, workerVars>>

\* The SchedulerOutput, and _update_after_schedule.
Commit ==
  /\ pc = "commit"
  /\ pc' = "worker"
  /\ skipped' = plan.stepSkipped \o skipped
  /\ step' = [n |-> plan.n, drafts |-> plan.drafts, inputs |-> plan.inputs,
              order |-> plan.order, new |-> plan.new, freed |-> enc.freed]
  /\ enc' = [enc EXCEPT !.freed = {}]
  /\ req' = [r \in Req |-> [req[r] EXCEPT !.computed = @ + plan.n[r]]]
  /\ plan' = NoPlan
  /\ UNCHANGED <<sent, waiting, running, numWaitingForStreamingInput, need, gpu, wfeats, kv>>

-----------------------------------------------------------------------------
(* The worker.                                                             *)

\* Mutant: the hashes to free are dropped after the encoder has run.
FreeAfterEncoding(hashes) == (gpu \cup hashes) \ step.freed

\* encoder_cache after _update_states and _execute_mm_encoder.
FreeThenEncode(hashes) == (gpu \ step.freed) \cup hashes

\* Mutant: a session's request state keeps the features it was created with.
FeaturesOfFirstChunk(r) == IF wfeats[r] = <<>> THEN req[r].feats ELSE wfeats[r]

\* mm_features of a new request, or of a session that goes on
\* (_update_streaming_request).
FeaturesSent(r) == req[r].feats

\* _update_states, then the encoder for the inputs the step names.
UpdateStates ==
  /\ pc = "worker"
  /\ pc' = "gather"
  /\ wfeats' = [r \in Req |-> IF r \in step.new THEN FeaturesSent(r) ELSE wfeats[r]]
  /\ gpu' = FreeThenEncode({wfeats'[x[1]][x[2]].hash : x \in
              UNION {{r} \X Range(step.inputs[r]) : r \in Req}})
  /\ UNCHANGED <<sent, req, queueVars, enc, plan, need, step, kv>>

Start(r) == req[r].computed - step.n[r]

\* The token at each position of a step: r's own, then the drafts, taken as accepted.
Fed(r) ==
  [i \in 1 .. step.n[r] |->
     IF Start(r) + i <= NumTokens(r) THEN req[r].toks[Start(r) + i] ELSE Out]

\* The forward pass writes the KV of what it is fed.
Forward ==
  /\ pc = "gather"
  /\ pc' = "update"
  /\ kv' = [r \in Req |-> IF step.n[r] = 0 THEN kv[r]
                          ELSE SubSeq(kv[r], 1, Start(r)) \o Fed(r)]
  /\ UNCHANGED <<sent, req, queueVars, enc, plan, need, step, gpu, wfeats>>

-----------------------------------------------------------------------------
(* update_from_output(), and update_draft_token_ids after it.               *)

\* _free_encoder_inputs: those whose tokens are all computed.
FreeEncoderInputs(r, q) ==
  Released(enc, r, q.feats, {i \in DOMAIN q.feats : EndOf(q.feats[i]) <= q.computed})

\* A partial prefill yields no token.
UpdateChunk(r) ==
  /\ req[r].computed < NumTokens(r)
  /\ enc' = FreeEncoderInputs(r, req[r])
  /\ req' = [req EXCEPT ![r].spec = 0]
  /\ UNCHANGED <<waiting, skipped, running, numWaitingForStreamingInput, wfeats, kv>>

\* Some drafts are accepted; the sampled tokens up to the one that stops the request.
Outcomes(r) ==
  {o \in [accepted : 0 .. step.drafts[r], kept : 1 .. step.drafts[r] + 1, stopped : BOOLEAN] :
     /\ o.kept <= Lesser(o.accepted + 1, MaxTokens[r] - req[r].outs)
     /\ o.kept = MaxTokens[r] - req[r].outs => o.stopped
     /\ o.kept < o.accepted + 1 => o.stopped}

WithOutput(q, r, o) ==
  [q EXCEPT !.computed = @ - (step.drafts[r] - o.accepted),
            !.toks = @ \o [i \in 1 .. o.kept |-> Out],
            !.outs = @ + o.kept,
            !.spec = NumDrafts]

\* _handle_stopped_request, and _free_request of a request that has finished.
HandleStopped(r, q) ==
  IF r \notin Sessions \/ (q.queue # <<>> /\ Head(q.queue) = EndMark)
  THEN /\ Freed(r)
       /\ enc' = ReleasedAll(enc, r, q.feats)
       /\ UNCHANGED <<waiting, skipped, numWaitingForStreamingInput>>
  ELSE /\ IF q.queue # <<>>
          THEN /\ req' = [req EXCEPT ![r] =
                            AsSession([q EXCEPT !.queue = Tail(@)], r, Head(q.queue))]
               /\ waiting' = Append(waiting, r)
               /\ UNCHANGED <<skipped, numWaitingForStreamingInput>>
          ELSE /\ req' = [req EXCEPT ![r] = [q EXCEPT !.status = "WAITING_FOR_STREAMING_REQ"]]
               /\ skipped' = Append(skipped, r)
               /\ numWaitingForStreamingInput' = numWaitingForStreamingInput + 1
               /\ UNCHANGED waiting
       /\ enc' = FreeEncoderInputs(r, q)
       /\ UNCHANGED <<wfeats, kv>>

UpdateSampled(r) ==
  /\ req[r].computed >= NumTokens(r)
  /\ \E o \in Outcomes(r) :
       LET q == WithOutput(req[r], r, o)
       IN  IF o.stopped
           THEN HandleStopped(r, q) /\ running' = RemoveFirst(running, r)
           ELSE /\ req' = [req EXCEPT ![r] = q]
                /\ enc' = FreeEncoderInputs(r, q)
                /\ UNCHANGED <<waiting, skipped, running, numWaitingForStreamingInput,
                               wfeats, kv>>

\* The next request of the step's output.
UpdateFromOutput ==
  /\ pc = "update"
  /\ step.order # <<>>
  /\ UpdateChunk(Head(step.order)) \/ UpdateSampled(Head(step.order))
  /\ step' = [step EXCEPT !.order = Tail(@)]
  /\ UNCHANGED <<sent, pc, plan, need, gpu>>

EndUpdate ==
  /\ pc = "update"
  /\ step.order = <<>>
  /\ pc' = "idle"
  /\ step' = NoStep
  /\ UNCHANGED <<sent, req, queueVars, enc, plan, need, gpu, wfeats, kv>>

-----------------------------------------------------------------------------
Scheduling ==
  \/ BeginSchedule
  \/ ConsiderRunning
  \/ ScheduleRunning
  \/ PreemptFor
  \/ EndRunning
  \/ SkipWaiting
  \/ Admit
  \/ EndWaiting
  \/ Commit

Next ==
  \/ \E r \in Req : AddRequest(r)
  \/ \E r \in Req : FinishRequest(r)
  \/ Scheduling
  \/ UpdateStates
  \/ Forward
  \/ UpdateFromOutput
  \/ EndUpdate

Spec == Init /\ [][Next]_vars

\* The engine goes on stepping while it has unfinished requests; each client sends
\* what it has, and ends its session.
FairSpec ==
  /\ Spec
  /\ []<>(pc = "idle" /\ ~HasUnfinishedRequests) \/ []<><<pc' # pc>>_vars
  /\ \A r \in Req :
       []<>(req[r].status = "GONE" \/ sent[r] = LastSent(r)) \/ []<><<sent'[r] # sent[r]>>_vars

-----------------------------------------------------------------------------
(* Properties.                                                             *)

\* The embedding the token at position p of r stands for, if it is a placeholder.
Wanted(r, p) ==
  LET t == req[r].toks[p + 1]
      c == Chunks[r][t[1]]
  IN  IF t # Out /\ c.hash # NoHash /\ t[2] - c.offset \in 0 .. Embeds[c.hash] - 1
      THEN {<<c.hash, t[2] - c.offset>>} ELSE {}

\* What _gather_mm_embeddings puts at position p of r.
Gathered(r, p) ==
  {<<f.hash, p - f.start>> : f \in {g \in Range(wfeats[r]) : p \in g.start .. EndOf(g) - 1}}

\* Each placeholder a step computes gets the embedding of its own input, and the
\* encoder output is there when it is gathered ("Encoder cache miss"): whatever was
\* evicted, preempted, aborted or appended to a session in between. The worker's cache
\* holds what the scheduler counts as cached, and so never more than fits.
EmbeddingsThere ==
  pc = "gather" =>
    /\ \A r \in Req : \A p \in Start(r) .. Start(r) + step.n[r] - 1 :
         p < NumTokens(r) =>
           /\ Gathered(r, p) = Wanted(r, p)
           /\ \A e \in Gathered(r, p) : e[1] \in gpu
    /\ gpu = enc.cached
    /\ EmbedsOf(gpu) <= CacheSize

\* Behind num_computed_tokens the KV is that of the request's tokens, also after a
\* session has dropped its last token and gone on: "Keep only computed output tokens
\* (discard final sampled output token)".
KvMatchesTokens ==
  pc = "idle" =>
    \A r \in Live : \A i \in 1 .. Lesser(req[r].computed, NumTokens(r)) :
      i \in DOMAIN kv[r] /\ kv[r][i] = req[r].toks[i]

\* Every request ends, also a session whose chunks come while it runs, waits or is
\* preempted, and a request that waits for room in the encoder cache.
EverySessionEnds == \A r \in Req : r \in Live ~> req[r].status = "GONE"
=============================================================================
