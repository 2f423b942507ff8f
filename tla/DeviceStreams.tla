----------------------------- MODULE DeviceStreams -----------------------------
(***************************************************************************)
(* How the worker (v1/worker/gpu_model_runner.py) shares memory with the   *)
(* GPU. The host thread only enqueues: kernels and uploads on the default  *)
(* stream, downloads on three copy streams that wait for the default one.  *)
(* Each stream works its queue off in order and at its own pace, a second  *)
(* thread waits for finished outputs, and meanwhile the host writes its    *)
(* pinned buffers for the next step. What holds this together is a handful *)
(* of events, and references that keep a tensor's memory from being given  *)
(* away.                                                                   *)
(*                                                                         *)
(* Values are abstracted to the step they belong to; 0 stands for memory   *)
(* that was cleared or given to another tensor. Only num_computed_tokens   *)
(* and the accepted drafts are numbers, for the host corrects the one by   *)
(* the other while the GPU may be reading it. Requests are in decode: one  *)
(* token and some drafts in each step. ModelRunner has the rows, the token *)
(* ids and the scheduler's side in full.                                   *)
(***************************************************************************)
EXTENDS Integers, FiniteSets, SequencesExt, Functions

CONSTANTS
  Req,        \* request ids
  MaxDrafts,  \* num_spec_tokens
  Modes,      \* configurations explored, a set of records (Mode)
  MaxSteps,   \* bound: calls of execute_model and _dummy_run
  NoOp        \* no operation: an event that is not pending

Streams == {"default", "output", "draft", "count"}

\* async : use_async_scheduling; pool : is_pooling_model; dummies : data parallel, so
\* that idle engines run dummy batches; readers : whether a step's requests need
\* drafts on the host; fits : whether a step may fit in the drafter; finishes : whether
\* some prompt of a pooling step may end in it; waits : the drafter reads a GPU value
\* (confidence, rejected drafts) before it returns.
Mode ==
  [async : BOOLEAN, pool : BOOLEAN, dummies : BOOLEAN, waits : BOOLEAN,
   readers : SUBSET BOOLEAN, fits : SUBSET BOOLEAN, finishes : SUBSET BOOLEAN]

\* The operations of the streams.
Kinds ==
  {"upload", "forward", "sample", "draft", "clone", "pooler", "experts", "tokens",
   "output", "drafts", "count"}

ASSUME StreamsAssumption ==
  /\ NoOp \notin Kinds \X Nat
  /\ Modes \subseteq Mode /\ Modes # {}
  /\ MaxDrafts \in Nat /\ MaxSteps \in Nat
  /\ \A m \in Modes : {} \notin {m.readers, m.fits, m.finishes}

VARIABLES
  mode,     \* the configuration
  pc,       \* where the worker's main thread is
  step,     \* the call in progress or, between calls, the last one
  info,     \* per step: its batch, drafts, and what the GPU accepted
  sched,    \* the scheduler's num_computed_tokens
  pending,  \* outputs the engine has not taken, oldest first
  taken,    \* the output it took last
  host,     \* pinned buffers
  worker,   \* the runner's own state: batch, last step, references to tensors
  events,   \* per event, the operation it was recorded behind
  queue,    \* per stream, the operations enqueued and not yet run
  dev,      \* persistent device buffers
  mem,      \* the other tensors whose memory is intact
  freed,    \* tensors nobody refers to, whose memory the next operation gets
  ran,      \* history: what the last forward pass computed with
  truth,    \* history: num_computed_tokens as sampling made it
  read      \* history: the last drafts read on the host

engine == <<sched, pending, taken>>
gpu == <<queue, dev, mem, freed>>
history == <<ran, truth, read>>
vars == <<mode, pc, step, info, engine, host, worker, events, gpu, history>>

None == [r \in Req |-> 0]

-----------------------------------------------------------------------------
(* Streams, events and tensors (CUDA and the caching allocator).           *)

Id(kind, n) == <<kind, n>>
LastOf(s) == IF queue[s] = <<>> THEN NoOp ELSE Last(queue[s]).id
IsDone(s, id) == \A i \in DOMAIN queue[s] : queue[s][i].id # id

\* after: the operation of the default stream this one waits for (wait_stream).
\* takes: a kernel on the default stream allocates, and may get the memory of tensors
\* that were freed, though another stream is still to read them.
Kernel(kind, n, garbage) == [id |-> Id(kind, n), after |-> NoOp, takes |-> garbage]
Copy(kind, n, after) == [id |-> Id(kind, n), after |-> after, takes |-> {}]

Enqueue(s, op) == queue' = [queue EXCEPT ![s] = Append(@, op)]

Contents(tensor, lost) == IF tensor \in DOMAIN mem THEN mem[tensor] ELSE lost

\* What a download finds when its tensor's memory was given away.
LostExperts == [routing |-> 0, slots |-> 0]

-----------------------------------------------------------------------------

NoStep ==
  [batch |-> {}, sent |-> None, d |-> None, assumed |-> None, part |-> {}, src |-> 0,
   acc |-> None, dummy |-> FALSE]
NoDrafts == [of |-> 0, zero |-> FALSE]
Nothing == [n |-> 0, state |-> "none", reqs |-> {}, tokens |-> None, experts |-> LostExperts]

Init ==
  /\ mode \in Modes
  /\ pc = "idle" /\ step = 0 /\ info = <<>>
  /\ sched = None /\ pending = <<>> /\ taken = Nothing
  /\ host = [inputs |-> 0, computed |-> None, counts |-> None, drafts |-> 0,
             tokens |-> None, experts |-> LostExperts]
  /\ worker = [rows |-> {}, drafted |-> None, prevRows |-> {}, counts |-> 0,
               tensor |-> 0, drafts |-> NoDrafts]
  /\ events = [inputs |-> NoOp, count |-> NoOp, draft |-> NoOp]
  /\ queue = [s \in Streams |-> <<>>]
  /\ dev = [inputs |-> 0, computed |-> None, experts |-> 0, slots |-> 0]
  /\ mem = <<>> /\ freed = {}
  /\ ran = [n |-> 0, inputs |-> 0, computed |-> None, truth |-> None]
  /\ truth = None /\ read = [expected |-> 0, got |-> 0]

-----------------------------------------------------------------------------
(* The engine. Under asynchronous scheduling it plans a step before it     *)
(* takes the output of the one before, and sends an empty step rather than *)
(* let the queue run dry.                                                  *)

InFlight == Len(pending) + (IF pc = "idle" THEN 0 ELSE 1)

\* The scheduler counts every draft as computed until it knows better.
PlanStep(b, d) ==
  /\ pc = "idle" /\ step < MaxSteps
  /\ IF mode.async THEN InFlight < 2 ELSE InFlight = 0 /\ worker.drafts = NoDrafts
  /\ b = {} => mode.async /\ step > 0
  /\ \A r \in Req : d[r] > 0 => r \in b /\ sched[r] > 0 /\ ~mode.pool
  /\ step' = step + 1 /\ pc' = "prepare"
  /\ info' = Append(info, [NoStep EXCEPT !.batch = b, !.sent = sched, !.d = d])
  /\ sched' = [r \in Req |-> IF r \in b THEN sched[r] + 1 + d[r] ELSE sched[r]]
  /\ UNCHANGED <<mode, pending, taken, host, worker, events, gpu, history>>

TakeOutput ==
  /\ pending # <<>> /\ Head(pending).state = "got"
  /\ mode.async => InFlight = 2 \/ info[step].batch = {} \/ step = MaxSteps
  /\ taken' = Head(pending) /\ pending' = Tail(pending)
  /\ LET n == Head(pending).n IN
       sched' = [r \in Req |-> IF r \in Head(pending).reqs
                               THEN sched[r] - (info[n].d[r] - Head(pending).tokens[r])
                               ELSE sched[r]]
  /\ UNCHANGED <<mode, pc, step, info, host, worker, events, gpu, history>>

-----------------------------------------------------------------------------
(* execute_model.                                                          *)

This == info[step]

\* Mutant: the event is not waited for.
InputsFreeAtOnce == TRUE

\* synchronize_input_prep: the last step's uploads are done with the pinned buffers.
InputsFree == mode.async => IsDone("default", events.inputs)

\* Rows whose last step had drafts: taken as accepted, to be corrected later.
Deferred(b) == {r \in b \cap worker.rows : mode.async /\ worker.drafted[r] > 0}

\* clear_buffer, then within synchronize_input_prep _update_states, _prepare_inputs and
\* the attention metadata: the pinned buffers are written and their upload enqueued.
Prepare ==
  /\ pc = "prepare" /\ InputsFree /\ This.batch # {}
  /\ LET b == This.batch
         deferred == Deferred(b) IN
       /\ info' = [info EXCEPT ![step].assumed =
                                  [r \in Req |-> IF r \in deferred THEN worker.drafted[r] ELSE 0],
                               ![step].part = IF worker.counts = 0 THEN {}
                                              ELSE deferred \cap worker.prevRows,
                               ![step].src = worker.counts]
       /\ host' = [host EXCEPT !.inputs = step,
                               !.computed = [r \in Req |-> IF r \in b THEN This.sent[r] ELSE @[r]]]
       /\ worker' = [worker EXCEPT !.rows = b,
                                   !.drafted = [r \in Req |-> IF r \in b THEN This.d[r] ELSE @[r]]]
  /\ Enqueue("default", Kernel("upload", step, freed)) /\ freed' = {}
  /\ events' = [events EXCEPT !.inputs = Id("upload", step)]
  /\ pc' = "launch"
  /\ UNCHANGED <<mode, step, engine, dev, mem, history>>

\* Mutant: only a batch that has rows is emptied and answered.
AnswerEmptyOnce ==
  /\ pc = "prepare" /\ InputsFree /\ This.batch = {} /\ worker.rows # {}
  /\ worker' = [worker EXCEPT !.rows = {}]
  /\ events' = [events EXCEPT !.inputs = LastOf("default")]
  /\ pending' = Append(pending, [Nothing EXCEPT !.n = step, !.state = "got"])
  /\ pc' = "idle"
  /\ UNCHANGED <<mode, step, info, sched, taken, host, gpu, history>>

\* Nothing scheduled: the batch is emptied and EMPTY_MODEL_RUNNER_OUTPUT returned.
AnswerEmpty ==
  /\ pc = "prepare" /\ InputsFree /\ This.batch = {}
  /\ worker' = [worker EXCEPT !.rows = {}]
  /\ events' = [events EXCEPT !.inputs = LastOf("default")]
  /\ pending' = Append(pending, [Nothing EXCEPT !.n = step, !.state = "got"])
  /\ pc' = "idle"
  /\ UNCHANGED <<mode, step, info, sched, taken, host, gpu, history>>

\* The forward pass and, on a host that runs ahead of it, the deferred correction next.
LaunchForward ==
  /\ pc = "launch"
  /\ Enqueue("default", Kernel("forward", step, freed)) /\ freed' = {}
  /\ pc' = IF mode.pool THEN "pool"
           ELSE IF This.assumed # None THEN "correct" ELSE "sample"
  /\ UNCHANGED <<mode, step, info, engine, host, worker, events, dev, mem, history>>

\* Mutant: the counts are read without waiting for their copy.
CorrectCountsAtOnce ==
  /\ pc = "correct"
  /\ host' = [host EXCEPT !.computed =
       [r \in Req |-> IF This.assumed[r] > 0 /\ r \in worker.prevRows
                      THEN @[r] - (This.assumed[r] - (host.counts[r] - 1)) ELSE @[r]]]
  /\ pc' = "sample"
  /\ UNCHANGED <<mode, step, info, engine, worker, events, gpu, history>>

\* correct_spec_decode_token_counts. The event says that the counts of the last step
\* are here; of this step's own upload, which reads the cells now changed, it says nothing.
CorrectCounts ==
  /\ pc = "correct" /\ IsDone("count", events.count)
  /\ host' = [host EXCEPT !.computed =
       [r \in Req |-> IF This.assumed[r] > 0 /\ r \in worker.prevRows
                      THEN @[r] - (This.assumed[r] - (host.counts[r] - 1)) ELSE @[r]]]
  /\ pc' = "sample"
  /\ UNCHANGED <<mode, step, info, engine, worker, events, gpu, history>>

\* _dummy_run of an idle data-parallel engine: the same buffers, the same protocol.
DummyRun ==
  /\ pc = "idle" /\ mode.dummies /\ pending = <<>> /\ step < MaxSteps /\ InputsFree
  /\ step' = step + 1
  /\ info' = Append(info, [NoStep EXCEPT !.dummy = TRUE])
  /\ host' = [host EXCEPT !.inputs = step']
  /\ queue' = [queue EXCEPT !["default"] =
                 @ \o <<Kernel("upload", step', freed), Kernel("forward", step', {})>>]
  /\ freed' = {}
  /\ events' = [events EXCEPT !.inputs = Id("upload", step')]
  /\ UNCHANGED <<mode, pc, engine, worker, dev, mem, history>>

-----------------------------------------------------------------------------
(* sample_tokens.                                                          *)

\* _get_draft_token_ids_cpu: what the host finds, and what the GPU was given.
ReadDrafts ==
  /\ IsDone("draft", events.draft)
  /\ read' = [expected |-> IF worker.drafts.zero THEN 0 ELSE worker.drafts.of,
              got |-> host.drafts]

\* take_draft_token_ids: after every step or, asynchronously, between execute_model and
\* sample_tokens when a grammar needs the drafts.
TakeDrafts ==
  /\ worker.drafts # NoDrafts /\ ReadDrafts
  /\ IF mode.async THEN pc = "sample" /\ UNCHANGED worker
     ELSE pc = "idle" /\ worker' = [worker EXCEPT !.drafts = NoDrafts]
  /\ UNCHANGED <<mode, pc, step, info, engine, host, events, gpu, ran, truth>>

\* _sample, which reads the last drafts when this step verifies some, and then the
\* reset of all the last step left: its tensors are no longer referred to.
SampleTokens ==
  /\ pc = "sample"
  /\ IF mode.async /\ worker.drafts # NoDrafts /\ This.d # None
     THEN ReadDrafts ELSE UNCHANGED read
  /\ Enqueue("default", Kernel("sample", step, freed))
  /\ freed' = {Id("counts", worker.counts), Id("drafts", worker.tensor)}
  /\ worker' = [worker EXCEPT !.counts = 0, !.tensor = 0, !.drafts = NoDrafts]
  /\ pc' = "propose"
  /\ UNCHANGED <<mode, step, info, engine, host, events, dev, mem, ran, truth>>

\* _copy_valid_sampled_token_count, on a stream of its own that waits for the sampler.
CountCopy ==
  IF mode.async THEN <<Copy("count", step, LastOf("default"))>> ELSE <<>>
StashCounts ==
  IF mode.async THEN events' = [events EXCEPT !.count = Id("count", step)]
  ELSE UNCHANGED events
CountsRef == IF mode.async THEN step ELSE 0

Propose ==
  /\ pc = "propose" /\ TRUE \in mode.fits
  /\ queue' = [queue EXCEPT !["count"] = @ \o CountCopy,
                            !["default"] = Append(@, Kernel("draft", step, freed))]
  /\ freed' = {} /\ StashCounts
  /\ worker' = [worker EXCEPT !.counts = CountsRef, !.tensor = step]
  /\ pc' = "drafted"
  /\ UNCHANGED <<mode, step, info, engine, host, dev, mem, history>>

\* _copy_draft_token_ids_to_cpu, once the drafter returns.
CopyDrafts(wanted) ==
  /\ pc = "drafted"
  /\ mode.waits => queue["default"] = <<>>
  /\ IF wanted
     THEN /\ Enqueue("draft", Copy("drafts", step, LastOf("default")))
          /\ events' = [events EXCEPT !.draft = Id("drafts", step)]
          /\ worker' = [worker EXCEPT !.drafts = [of |-> step, zero |-> FALSE]]
     ELSE UNCHANGED <<queue, events, worker>>
  /\ pc' = "book"
  /\ UNCHANGED <<mode, step, info, engine, host, dev, mem, freed, history>>

\* The batch does not fit in the drafter: zeros, written by the host itself. The event
\* is recorded behind whatever the copy stream still has to do.
ZeroDrafts(wanted) ==
  /\ pc = "propose" /\ FALSE \in mode.fits
  /\ queue' = [queue EXCEPT !["count"] = @ \o CountCopy]
  /\ events' = [events EXCEPT !.count = IF mode.async THEN Id("count", step) ELSE @,
                              !.draft = IF wanted THEN LastOf("draft") ELSE @]
  /\ worker' = [worker EXCEPT !.counts = CountsRef,
                  !.drafts = IF wanted THEN [of |-> step, zero |-> TRUE] ELSE @]
  /\ host' = IF wanted THEN [host EXCEPT !.drafts = 0] ELSE host
  /\ pc' = "book"
  /\ UNCHANGED <<mode, step, info, engine, dev, mem, freed, history>>

\* _bookkeeping_sync without asynchronous scheduling: routing data and slots go to
\* pinned buffers, then the tokens, and the host waits for these.
DownloadTokens ==
  /\ pc = "book" /\ ~mode.async
  /\ queue' = [queue EXCEPT !["default"] =
                 @ \o <<Copy("experts", step, NoOp), Copy("tokens", step, NoOp)>>]
  /\ pc' = "wait"
  /\ UNCHANGED <<mode, step, info, engine, host, worker, events, dev, mem, freed, history>>

ReturnTokens ==
  /\ pc = "wait" /\ IsDone("default", Id("tokens", step))
  /\ pending' = Append(pending, [n |-> step, state |-> "got", reqs |-> worker.rows,
                                 tokens |-> host.tokens, experts |-> host.experts])
  /\ pc' = "idle"
  /\ UNCHANGED <<mode, step, info, sched, taken, host, worker, events, gpu, history>>

\* Mutant: the output object does not keep the tensors it copies.
ReturnAsyncUnreferenced ==
  /\ pc = "book" /\ mode.async
  /\ queue' = [queue EXCEPT !["default"] = Append(@, Kernel("clone", step, freed)),
                            !["output"] = Append(@, Copy("output", step, Id("clone", step)))]
  /\ freed' = {Id("tokens", step), Id("clones", step)}
  /\ worker' = [worker EXCEPT !.prevRows = worker.rows]
  /\ pending' = Append(pending, [Nothing EXCEPT !.n = step, !.state = "copying",
                                                !.reqs = worker.rows])
  /\ pc' = "idle"
  /\ UNCHANGED <<mode, step, info, sched, taken, host, events, dev, mem, history>>

\* With it: private clones of the routing data, and AsyncGPUModelRunnerOutput, which
\* copies them and the tokens on the output stream and keeps both alive until then.
ReturnAsync ==
  /\ pc = "book" /\ mode.async
  /\ queue' = [queue EXCEPT !["default"] = Append(@, Kernel("clone", step, freed)),
                            !["output"] = Append(@, Copy("output", step, Id("clone", step)))]
  /\ freed' = {}
  /\ worker' = [worker EXCEPT !.prevRows = worker.rows]
  /\ pending' = Append(pending, [Nothing EXCEPT !.n = step, !.state = "copying",
                                                !.reqs = worker.rows])
  /\ pc' = "idle"
  /\ UNCHANGED <<mode, step, info, sched, taken, host, events, dev, mem, history>>

\* _pool: an output object of the same kind, or none when no prompt is finished.
Pool(finished) ==
  /\ pc = "pool"
  /\ queue' = [queue EXCEPT
       !["default"] = Append(@, Kernel("pooler", step, freed)),
       !["output"] = IF finished THEN Append(@, Copy("output", step, Id("pooler", step)))
                     ELSE @]
  /\ freed' = {}
  /\ pending' = Append(pending, [Nothing EXCEPT !.n = step, !.reqs = worker.rows,
                                   !.state = IF finished THEN "copying" ELSE "got"])
  /\ pc' = "idle"
  /\ UNCHANGED <<mode, step, info, sched, taken, host, worker, events, dev, mem, history>>

\* get_output, on the executor's output thread: waits for the copy, drops the tensors.
GetOutput(i) ==
  /\ pending[i].state = "copying" /\ IsDone("output", Id("output", pending[i].n))
  /\ pending' = [pending EXCEPT ![i].state = "got"]
  /\ freed' = freed \cup {Id("tokens", pending[i].n), Id("clones", pending[i].n)}
  /\ UNCHANGED <<mode, pc, step, info, sched, taken, host, worker, events, queue, dev, mem,
                 history>>

-----------------------------------------------------------------------------
(* The streams.                                                            *)

\* The first operation of a stream runs, and writes or takes memory.
Runs(s, kind) ==
  /\ queue[s] # <<>>
  /\ Head(queue[s]).id[1] = kind
  /\ Head(queue[s]).after = NoOp \/ IsDone("default", Head(queue[s]).after)
  /\ queue' = [queue EXCEPT ![s] = Tail(@)]
  /\ UNCHANGED <<mode, pc, step, sched, taken, worker, events, freed>>

Now(s) == Head(queue[s]).id[2]
Taken == Head(queue["default"]).takes
Kept == Restrict(mem, DOMAIN mem \ Taken)
With(tensors, tensor, value) ==
  [t \in DOMAIN tensors \cup {tensor} |-> IF t = tensor THEN value ELSE tensors[t]]
Holding(tensor, value) == With(Kept, tensor, value)

\* The uploads of _prepare_inputs and its kernels on them. Where the last step had
\* drafts the GPU goes on from its own count and not from the host's.
RunUpload ==
  /\ Runs("default", "upload")
  /\ LET n == Now("default")
         b == info[n].batch
         valid == Contents(Id("counts", info[n].src), None) IN
       dev' = [dev EXCEPT !.inputs = host.inputs, !.slots = n, !.experts = 0,
                 !.computed = [r \in Req |-> IF r \in info[n].part THEN @[r] + valid[r]
                                             ELSE IF r \in b THEN host.computed[r] ELSE @[r]]]
  /\ mem' = Kept
  /\ UNCHANGED <<info, pending, host, history>>

RunForward ==
  /\ Runs("default", "forward")
  /\ ran' = [n |-> Now("default"), inputs |-> dev.inputs, computed |-> dev.computed,
             truth |-> truth]
  /\ dev' = [dev EXCEPT !.experts = Now("default")]
  /\ mem' = Kept
  /\ UNCHANGED <<info, pending, host, truth, read>>

\* The rejection sampler: some of the drafts are accepted, and one token more.
RunSample(acc) ==
  /\ Runs("default", "sample")
  /\ LET n == Now("default") IN
       /\ \A r \in Req : acc[r] <= info[n].d[r]
       /\ info' = [info EXCEPT ![n].acc = acc]
       /\ truth' = [r \in Req |-> IF r \in info[n].batch THEN truth[r] + acc[r] + 1
                                  ELSE truth[r]]
       /\ mem' = With(Holding(Id("counts", n), [r \in Req |-> acc[r] + 1]), Id("tokens", n), acc)
  /\ UNCHANGED <<pending, host, dev, ran, read>>

RunDraft ==
  /\ Runs("default", "draft")
  /\ mem' = Holding(Id("drafts", Now("default")), Now("default"))
  /\ UNCHANGED <<info, pending, host, dev, history>>

RunClone ==
  /\ Runs("default", "clone")
  /\ mem' = Holding(Id("clones", Now("default")), [routing |-> dev.experts, slots |-> dev.slots])
  /\ UNCHANGED <<info, pending, host, dev, history>>

RunPooler ==
  /\ Runs("default", "pooler")
  /\ LET n == Now("default") IN
       /\ mem' = Holding(Id("tokens", n), None)
       /\ truth' = [r \in Req |-> IF r \in info[n].batch THEN truth[r] + 1 ELSE truth[r]]
  /\ UNCHANGED <<info, pending, host, dev, ran, read>>

DownloadExperts ==
  /\ Runs("default", "experts")
  /\ host' = [host EXCEPT !.experts = [routing |-> dev.experts, slots |-> dev.slots]]
  /\ UNCHANGED <<info, pending, dev, mem, history>>

DownloadToList ==
  /\ Runs("default", "tokens")
  /\ host' = [host EXCEPT !.tokens = Contents(Id("tokens", Now("default")), None)]
  /\ UNCHANGED <<info, pending, dev, mem, history>>

DownloadOutput ==
  /\ Runs("output", "output")
  /\ LET n == Now("output") IN
       pending' = [i \in DOMAIN pending |->
         IF pending[i].n = n
         THEN [pending[i] EXCEPT !.tokens = Contents(Id("tokens", n), None),
                                 !.experts = Contents(Id("clones", n), LostExperts)]
         ELSE pending[i]]
  /\ UNCHANGED <<info, host, dev, mem, history>>

DownloadDrafts ==
  /\ Runs("draft", "drafts")
  /\ host' = [host EXCEPT !.drafts = Contents(Id("drafts", Now("draft")), 0)]
  /\ UNCHANGED <<info, pending, dev, mem, history>>

DownloadCounts ==
  /\ Runs("count", "count")
  /\ host' = [host EXCEPT !.counts = Contents(Id("counts", Now("count")), None)]
  /\ UNCHANGED <<info, pending, dev, mem, history>>

-----------------------------------------------------------------------------

DraftCounts == [Req -> 0 .. MaxDrafts]

Engine ==
  \/ \E b \in SUBSET Req, d \in DraftCounts : PlanStep(b, d)
  \/ TakeOutput
  \/ DummyRun

MainThread ==
  \/ Prepare
  \/ AnswerEmpty
  \/ LaunchForward
  \/ CorrectCounts
  \/ SampleTokens
  \/ Propose
  \/ \E wanted \in (IF mode.async THEN mode.readers ELSE {TRUE}) :
       CopyDrafts(wanted) \/ ZeroDrafts(wanted)
  \/ DownloadTokens
  \/ ReturnTokens
  \/ ReturnAsync
  \/ \E finished \in mode.finishes : Pool(finished)

OutputThread == \E i \in DOMAIN pending : GetOutput(i)

DefaultStream ==
  \/ RunUpload
  \/ RunForward
  \/ \E acc \in DraftCounts : RunSample(acc)
  \/ RunDraft
  \/ RunClone
  \/ RunPooler
  \/ DownloadExperts
  \/ DownloadToList

Next ==
  \/ Engine
  \/ MainThread
  \/ TakeDrafts
  \/ OutputThread
  \/ DefaultStream
  \/ DownloadOutput
  \/ DownloadDrafts
  \/ DownloadCounts

Spec == Init /\ [][Next]_vars

\* The threads run, and the GPU gets on with every stream. When the engine plans a
\* step is its own affair.
FairSpec ==
  /\ Spec
  /\ WF_vars(MainThread) /\ WF_vars(OutputThread)
  /\ WF_vars(DefaultStream) /\ WF_vars(DownloadOutput)
  /\ WF_vars(DownloadDrafts) /\ WF_vars(DownloadCounts)

-----------------------------------------------------------------------------

\* Every forward pass runs on the inputs its own call wrote to the pinned buffers, and
\* from as many computed tokens as sampling really left: the host may overwrite the
\* cells it uploads (CorrectCounts, after the guarded section) only where the GPU does
\* not use them. Without an event, in synchronous scheduling, a dummy run may see the
\* inputs of the step that follows it; nobody reads its result.
ForwardSeesItsStep ==
  ran.n > 0 =>
    /\ ran.inputs = ran.n \/ (info[ran.n].dummy /\ ~mode.async)
    /\ \A r \in info[ran.n].batch : ran.computed[r] = ran.truth[r]

\* The output the engine takes holds the tokens its own step sampled, and the routing
\* data and slots of that step, though the buffers they come from are cleared and
\* overwritten and the tensors' memory is given away as the next step goes on.
OutputsOfOwnStep ==
  taken.n > 0 =>
    /\ taken.reqs = info[taken.n].batch
    /\ taken.reqs # {} => taken.tokens = info[taken.n].acc
    /\ taken.reqs # {} /\ ~mode.pool =>
         taken.experts = [routing |-> taken.n, slots |-> taken.n]

\* What the host reads from its pinned buffers is what the GPU has: the drafts of the
\* step it asks for, zeros if that step was not drafted ("so the scheduler doesn't
\* schedule stale drafts from the previous step"), and the number of tokens computed
\* once the accepted drafts are known.
HostReadsOwnStep ==
  /\ read.got = read.expected
  /\ pc = "sample" /\ (\A i \in DOMAIN queue["default"] : queue["default"][i].id[1] # "sample") =>
       \A r \in This.batch : host.computed[r] = truth[r]

\* No wait of a thread or of a stream is for something that never comes: of all the
\* steps that are sent, as many as they are, each is answered in the end, and every
\* copy it left behind is done.
EveryStepAnswered ==
  <>[](/\ pc = "idle" /\ \A i \in DOMAIN pending : pending[i].state = "got"
       /\ \A s \in Streams : queue[s] = <<>>)
=============================================================================
