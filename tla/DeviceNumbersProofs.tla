-------------------------- MODULE DeviceNumbersProofs -------------------------
(***************************************************************************)
(* What the forward passes of DeviceStreams compute with and what its host *)
(* reads: the scheduler, the host and the GPU each keep their own numbers  *)
(* of computed tokens, accepted drafts and drafts proposed, and each adds  *)
(* them up at another time. For any requests, drafts and number of calls   *)
(* the numbers agree where they are used.                                  *)
(***************************************************************************)
EXTENDS DeviceStreamsProofs

-----------------------------------------------------------------------------
(* The hypotheses and the inductive invariant.                             *)

\* Two configurations are left out, as in the runs: a pooling step without asynchronous
\* scheduling whose prompts are all unfinished is not waited for, and neither is the copy
\* of the last drafts when the host clears them.
PoolingIsWaitedFor == \A m \in Modes : m.pool /\ ~m.async => FALSE \notin m.finishes
DraftsAreWaitedFor ==
  \A m \in Modes : m.async /\ FALSE \in m.fits => TRUE \notin m.fits \/ TRUE \notin m.readers

ModeRight ==
  /\ mode.pool /\ ~mode.async => FALSE \notin mode.finishes
  /\ mode.async /\ FALSE \in mode.fits => TRUE \notin mode.fits \/ TRUE \notin mode.readers
  /\ DOMAIN events = {"inputs", "count", "draft"}

Batch(n) == IF n \in 1 .. step THEN info[n].batch ELSE {}

\* Step n is not answered, or the engine has not taken its answer.
Unanswered(n) == (n = step /\ pc # "idle") \/ \E i \in DOMAIN pending : pending[i].n = n

\* The last steps wait for their answers to be taken. A step with requests is taken only
\* when the one after it is on its way; without asynchronous scheduling it is over then.
AnswersRight ==
  /\ \A i \in DOMAIN pending :
       pending[i].n = (IF pc = "idle" THEN step ELSE step - 1) - Len(pending) + i
  /\ InFlight <= (IF mode.async THEN 2 ELSE 1)
  /\ mode.async /\ pc = "idle" /\ step < MaxSteps /\ Batch(step) # {} => pending # <<>>
  /\ \A a \in Waiting : a[1] = "sample" => Unanswered(a[2])
  /\ ~mode.async =>
       /\ \A n \in 1 .. step : ~info[n].dummy => Unanswered(n) \/ Gone(n)
       /\ \A i \in DOMAIN pending : pending[i].state = "got" => Gone(pending[i].n)

\* Which steps have requests, and so a forward pass and a sampler.
StepsReal ==
  /\ \A n \in 1 .. step : /\ info[n].dummy => Batch(n) = {}
                          /\ ~mode.async /\ ~info[n].dummy => Batch(n) # {}
  /\ pc # "idle" => ~info[step].dummy
  /\ pc \notin {"idle", "prepare"} => Batch(step) # {}
  /\ \A a \in Waiting :
       Batch(a[2]) # {} \/ (info[a[2]].dummy /\ a[1] \in {"upload", "forward"})

\* The requests of step n that were in the step before it and had drafts there.
DeferredOf(n) == {r \in Batch(n) \cap Batch(n - 1) : mode.async /\ info[n - 1].d[r] > 0}

PlansRight ==
  /\ \A n \in 1 .. step, r \in Req :
       /\ 0 <= info[n].acc[r] /\ info[n].acc[r] <= info[n].d[r]
       /\ r \notin Batch(n) \/ mode.pool => info[n].d[r] = 0
  /\ \A n \in 1 .. step : Batch(n) # {} /\ (n < step \/ pc # "prepare") =>
       /\ \A r \in Req :
            info[n].assumed[r] = IF r \in DeferredOf(n) THEN info[n - 1].d[r] ELSE 0
       /\ info[n].part = DeferredOf(n) /\ (DeferredOf(n) # {} => info[n].src = n - 1)

\* The main thread has not yet enqueued the sampler of the call in progress.
Early == {"prepare", "launch", "pool", "correct", "sample"}

\* The runner's own state is that of the last step it prepared, sampled or returned.
WorkerRight ==
  LET prepared == IF pc = "prepare" THEN step - 1 ELSE step
      sampled == IF pc \in Early \cup {"propose"} THEN step - 1 ELSE step
      returned == IF pc = "idle" THEN step ELSE step - 1
  IN  /\ mode.async => /\ worker.rows = Batch(prepared)
                       /\ \A r \in worker.rows : worker.drafted[r] = info[prepared].d[r]
      /\ mode.async /\ ~mode.pool =>
           /\ pc # "propose" /\ Batch(sampled) # {} => worker.counts = sampled
           /\ Batch(returned) # {} => worker.prevRows = Batch(returned)
      /\ worker.counts <= sampled /\ worker.tensor <= sampled
      /\ pc = "propose" => worker.counts = 0 /\ worker.tensor = 0
      /\ ~mode.async => worker.counts = 0
      /\ pc = "wait" => ~mode.async

-----------------------------------------------------------------------------

Sampler == IF mode.pool THEN "pooler" ELSE "sample"
ToSample == {a \in Waiting : a[1] \in {"sample", "pooler"}}
IsSampled(n) ==
  \A a \in Waiting : n < a[2] \/ (n = a[2] /\ 3 < Stage[a[1]] /\ a[1] # "pooler")

\* By how much the scheduler was ahead of the truth for r when it planned step n: the
\* drafts of the step before it that would be rejected.
Rejected(n, r) ==
  IF mode.async /\ r \in Batch(n - 1) THEN info[n - 1].d[r] - info[n - 1].acc[r] ELSE 0

\* The tokens computed before step n and after it.
StartOf(n, r) == info[n].sent[r] - Rejected(n, r)
EndOf(n, r) == StartOf(n, r) + (IF r \in Batch(n) THEN 1 + info[n].acc[r] ELSE 0)

Latest(n) == n \in 1 .. step /\ Batch(n) # {} /\ \A k \in n + 1 .. step : Batch(k) = {}
Follows(m, n) ==
  /\ m \in 1 .. step /\ n \in m + 1 .. step /\ Batch(m) # {} /\ Batch(n) # {}
  /\ \A k \in m + 1 .. n - 1 : Batch(k) = {}

\* Steps are sampled in their order.
SamplesInOrder ==
  \A n \in 1 .. step : Batch(n) # {} => Id(Sampler, n) \in Waiting \/ At(n, Early) \/ IsSampled(n)

\* Each step starts where the one before it ends.
Chain ==
  /\ \A m, n \in 1 .. step : Follows(m, n) => \A r \in Req : StartOf(n, r) = EndOf(m, r)
  /\ \/ \E n \in 1 .. step : Latest(n)
     \/ /\ \A n \in 1 .. step : Batch(n) = {}
        /\ \A r \in Req : sched[r] = 0 /\ truth[r] = 0

\* Both the scheduler's count and the true one are somewhere on this line.
SchedRight ==
  \A n \in 1 .. step : Latest(n) => \A r \in Req :
    sched[r] = (IF Unanswered(n - 1) THEN info[n].sent[r] ELSE StartOf(n, r))
               + (IF r \notin Batch(n) THEN 0
                  ELSE IF Unanswered(n) THEN 1 + info[n].d[r] ELSE 1 + info[n].acc[r])

TruthRight ==
  /\ \A n \in 1 .. step : Latest(n) /\ ToSample = {} => \A r \in Req :
       truth[r] = IF At(n, Early) THEN StartOf(n, r) ELSE EndOf(n, r)
  /\ \A a \in ToSample : (\A b \in ToSample : a[2] <= b[2]) =>
       \A r \in Req : truth[r] = StartOf(a[2], r)

CountingRight == truth \in Totals /\ SamplesInOrder /\ Chain /\ SchedRight /\ TruthRight

\* The host's own number, before and after its correction.
CorrectionRight ==
  /\ pc \in {"launch", "correct"} =>
       \A r \in Batch(step) : host.computed[r] = info[step].sent[r]
  /\ pc = "sample" => \A r \in Batch(step) :
       /\ host.computed[r] = StartOf(step, r)
       /\ r \in DeferredOf(step) => Id("sample", step - 1) \notin Waiting

-----------------------------------------------------------------------------

Uploading(n) == Id("upload", n) \in Waiting

\* Pinned buffers hold the inputs of the step whose upload is to come, and the GPU has
\* the inputs and the count of the last one that ran.
UploadsRight ==
  /\ mode.async => \A n \in 1 .. step : Uploading(n) => events.inputs = Id("upload", n)
  /\ \A n \in 1 .. step : Uploading(n) =>
       /\ mode.async \/ ~info[n].dummy => host.inputs = n
       /\ dev.slots < n
       /\ \A r \in Batch(n) \ DeferredOf(n) : host.computed[r] = info[n].sent[r]
  /\ \A n \in 1 .. step :
       Batch(n) # {} /\ (n < step \/ pc # "prepare") => Uploading(n) \/ n <= dev.slots
  /\ dev.slots <= step /\ (pc = "prepare" => dev.slots < step)
  /\ dev.slots > 0 =>
       /\ mode.async \/ ~info[dev.slots].dummy => dev.inputs = dev.slots
       /\ Batch(dev.slots) # {} =>
            /\ Id("sample", dev.slots - 1) \notin Waiting
            /\ \A r \in Batch(dev.slots) : dev.computed[r] = StartOf(dev.slots, r)

\* What a forward pass ran on, as the property has it.
RanRight == ran.n <= step /\ ran.n \in Nat /\ ForwardSeesItsStep

-----------------------------------------------------------------------------

CountsAt(n) ==
  Id("sample", n) \in Waiting \/ Holds(Id("counts", n), [r \in Req |-> info[n].acc[r] + 1])
DraftsAt(n) == Id("draft", n) \in Waiting \/ Holds(Id("drafts", n), n)

\* The tensor's memory goes to none of the operations up to this one.
TakenAfter(t, a) ==
  \A i \in DOMAIN queue["default"] :
    t \in queue["default"][i].takes => Before(a, queue["default"][i].id)

\* A tensor that is referred to, or that an upload is still to read, is not given away.
TensorsRight ==
  /\ \A t \in Garbage : t[1] \in {"counts", "drafts"} => t[2] < step \/ t[2] = 0
  /\ pc = "propose" => CountsAt(step)
  /\ worker.counts > 0 => Id("counts", worker.counts) \notin Garbage /\ CountsAt(worker.counts)
  /\ worker.tensor > 0 => Id("drafts", worker.tensor) \notin Garbage /\ DraftsAt(worker.tensor)
  /\ \A n \in 1 .. step : Uploading(n) /\ DeferredOf(n) # {} =>
       CountsAt(n - 1) /\ TakenAfter(Id("counts", n - 1), Id("upload", n))

Increasing(q) == \A i, j \in DOMAIN q : i < j => q[i].id[2] < q[j].id[2]

\* A copy stream copies what a kernel of the same step wrote, once that has run.
CopiesOf(s, kernel, before) ==
  /\ Increasing(queue[s])
  /\ \A i \in DOMAIN queue[s] :
       LET op == queue[s][i]
       IN  /\ op.id[2] \in 1 .. step /\ (pc \in before => op.id[2] < step)
           /\ IF op.after = NoOp THEN Id(kernel, op.id[2]) \notin Waiting
              ELSE op.after = Id(kernel, op.id[2])

\* The last copy of the counts is on its way or has arrived.
CountCopiesRight ==
  /\ CopiesOf("count", "sample", Early \cup {"propose"})
  /\ worker.counts > 0 =>
       /\ events.count = Id("count", worker.counts)
       /\ \A i \in DOMAIN queue["count"] : queue["count"][i].id[2] <= worker.counts
       /\ \/ Id("count", worker.counts) \in IdsOf(queue["count"])
          \/ /\ queue["count"] = <<>> /\ Id("sample", worker.counts) \notin Waiting
             /\ \A r \in Req : host.counts[r] = info[worker.counts].acc[r] + 1

\* And so is that of the drafts, or they are zeros and no copy is on its way.
DraftCopiesRight ==
  LET last == worker.drafts IN
  /\ CopiesOf("draft", "draft", Early \cup {"propose", "drafted"})
  /\ pc = "drafted" => /\ worker.tensor = step /\ TRUE \in mode.fits
                       /\ Id("draft", step) \in Waiting \/ queue["default"] = <<>>
  /\ pc \in {"propose", "drafted"} => last = NoDrafts
  /\ ~mode.async /\ pc \notin {"idle", "book", "wait"} => last = NoDrafts
  /\ (~mode.async /\ last = NoDrafts) \/ (mode.async /\ TRUE \notin mode.fits) =>
       queue["draft"] = <<>>
  /\ mode.async /\ TRUE \notin mode.readers => last = NoDrafts
  /\ last # NoDrafts =>
       IF last.zero THEN host.drafts = 0 /\ queue["draft"] = <<>>
       ELSE /\ last.of > 0 /\ worker.tensor = last.of /\ events.draft = Id("drafts", last.of)
            /\ \A i \in DOMAIN queue["draft"] : queue["draft"][i].id[2] <= last.of
            /\ \/ Id("drafts", last.of) \in IdsOf(queue["draft"])
               \/ queue["draft"] = <<>> /\ host.drafts = last.of
  /\ read.got = read.expected

NumbersRight ==
  /\ ModeRight /\ AnswersRight /\ StepsReal /\ PlansRight /\ WorkerRight
  /\ CountingRight /\ CorrectionRight /\ UploadsRight /\ RanRight
  /\ TensorsRight /\ CountCopiesRight /\ DraftCopiesRight

\* What is known of the state at every step.
LEMMA Known ==
  ASSUME StreamInv
  PROVE  /\ step \in Nat /\ DOMAIN info = 1 .. step /\ info \in Seq(Infos) /\ Len(info) = step
         /\ pc # "idle" => step \in 1 .. step
         /\ \A n \in 1 .. step :
              /\ info[n] \in Infos /\ info[n].batch \in SUBSET Req /\ info[n].dummy \in BOOLEAN
              /\ \A r \in Req : /\ info[n].sent[r] \in Int /\ info[n].d[r] \in Int
                                /\ info[n].acc[r] \in Int /\ info[n].assumed[r] \in Int
         /\ Waiting \subseteq Ids
         /\ \A a \in Waiting : /\ a[2] \in 1 .. step /\ a = Id(a[1], a[2]) /\ a[1] \in DOMAIN Stage
                               /\ a[2] < step \/ Stage[a[1]] <= Enqueued
         /\ sched \in Totals
<1>1. step \in Nat /\ info \in Seq(Infos) /\ Len(info) = step /\ (pc # "idle" => step > 0)
      /\ sched \in Totals
  BY DEF StreamInv, StreamTypes, EngineTypes
<1>2. DOMAIN info = 1 .. step /\ \A n \in 1 .. step : info[n] \in Infos
  BY <1>1, ElementOfSeq
<1>3. \A n \in 1 .. step :
        /\ info[n].batch \in SUBSET Req /\ info[n].dummy \in BOOLEAN
        /\ \A r \in Req : /\ info[n].sent[r] \in Int /\ info[n].d[r] \in Int
                          /\ info[n].acc[r] \in Int /\ info[n].assumed[r] \in Int
  BY <1>2 DEF Infos, Totals
<1>4. \A a \in Waiting : /\ a[2] \in 1 .. step /\ a = Id(a[1], a[2]) /\ a[1] \in DOMAIN Stage
                         /\ a[2] < step \/ Stage[a[1]] <= Enqueued
  <2>1. Waiting \subseteq Ids
    BY Typed
  <2>2. \A a \in Waiting : a = Id(a[1], a[2]) /\ a[1] \in DOMAIN Stage /\ a[2] \in Nat
    BY <2>1, IdIs
  <2>3. \A a \in Waiting : 0 < a[2] /\ (a[2] < step \/ (a[2] = step /\ Stage[a[1]] <= Enqueued))
    BY DEF StreamInv, WorkRight, NothingAhead
  <2> QED BY <1>1, <2>2, <2>3
<1> QED BY <1>1, <1>2, <1>3, <1>4, Typed

\* The records of the host, and the queues.
LEMMA Buffers ==
  ASSUME StreamInv
  PROVE  /\ host \in [inputs : Nat, computed : Totals, counts : Totals, drafts : Nat,
                      tokens : Totals, experts : Experts]
         /\ worker \in [rows : SUBSET Req, drafted : Totals, prevRows : SUBSET Req, counts : Nat,
                        tensor : Nat, drafts : [of : Nat, zero : BOOLEAN]]
         /\ dev \in [inputs : Nat, computed : Totals, experts : Nat, slots : Nat]
         /\ DOMAIN queue = Streams /\ queue["default"] \in Seq(Kernels)
         /\ queue["draft"] \in Seq(Copies("drafts")) /\ queue["count"] \in Seq(Copies("count"))
         /\ mode \in Mode
BY DEF StreamInv, StreamTypes, EngineTypes, HostTypes, QueueTypes, DeviceTypes

-----------------------------------------------------------------------------
(* What each action does to the queues and the records.                    *)

\* The plans of the steps stay.
SamePlans ==
  \A n \in 1 .. step : /\ info'[n].batch = info[n].batch /\ info'[n].sent = info[n].sent
                       /\ info'[n].d = info[n].d /\ info'[n].dummy = info[n].dummy

\* And so does all the rest of them.
SameSteps ==
  /\ SamePlans
  /\ \A n \in 1 .. step : /\ info'[n].acc = info[n].acc /\ info'[n].assumed = info[n].assumed
                          /\ info'[n].part = info[n].part /\ info'[n].src = info[n].src

\* One operation more on the default stream.
LEMMA Appended ==
  ASSUME StreamInv, NEW k \in DOMAIN Stage, NEW c \in Nat,
         queue'["default"] = Append(queue["default"], Kernel(k, c, freed))
  PROVE  /\ Waiting' = Waiting \cup {Id(k, c)}
         /\ TakenBy(queue["default"])' = TakenBy(queue["default"]) \cup freed
         /\ \A t, a : TakenAfter(t, a) /\ (t \in freed => Before(a, Id(k, c))) => TakenAfter(t, a)'
<1> DEFINE op == Kernel(k, c, freed)
<1>1. op \in Kernels /\ op.id = Id(k, c) /\ op.takes = freed
  <2>1. freed \in SUBSET Tensors
    BY DEF StreamInv, StreamTypes, DeviceTypes
  <2> QED BY <2>1, IdIs DEF Kernel, Kernels
<1>2. queue["default"] \in Seq(Kernels)
  BY Buffers
<1> HIDE DEF op
<1>3. queue'["default"] = Append(queue["default"], op)
  BY DEF op
<1>4. LET q == queue["default"]
          p == Append(q, op)
      IN  /\ IdsOf(p) = IdsOf(q) \cup {op.id}
          /\ TakenBy(p) = TakenBy(q) \cup op.takes
          /\ DOMAIN p = DOMAIN q \cup {Len(q) + 1}
          /\ p[Len(q) + 1] = op /\ \A i \in DOMAIN q : p[i] = q[i]
  BY <1>1, <1>2, AppendIs
<1>5. TakenBy(queue["default"])' = TakenBy(Append(queue["default"], op))
  BY <1>3 DEF TakenBy
<1>6. ASSUME NEW t, NEW a, TakenAfter(t, a), t \in freed => Before(a, Id(k, c))
      PROVE  TakenAfter(t, a)'
  BY <1>1, <1>3, <1>4, <1>6 DEF TakenAfter
<1> QED BY <1>1, <1>3, <1>4, <1>5, <1>6 DEF Waiting

\* Two operations more.
LEMMA TwoAppended ==
  ASSUME NEW q \in Seq(Kernels), NEW a \in Kernels, NEW b \in Kernels
  PROVE  LET p == q \o <<a, b>>
         IN  /\ DOMAIN p = (DOMAIN q) \cup {Len(q) + 1, Len(q) + 2}
             /\ \A i \in DOMAIN q : p[i] = q[i]
             /\ p[Len(q) + 1] = a /\ p[Len(q) + 2] = b
             /\ IdsOf(p) = IdsOf(q) \cup {a.id, b.id}
             /\ TakenBy(p) = TakenBy(q) \cup a.takes \cup b.takes
<1> DEFINE p == q \o <<a, b>>
<1>1. /\ Len(q) \in Nat /\ DOMAIN q = 1 .. Len(q) /\ DOMAIN p = 1 .. Len(q) + 2
      /\ \A i \in 1 .. Len(q) : p[i] = q[i]
      /\ p[Len(q) + 1] = a /\ p[Len(q) + 2] = b
  BY ConcatProperties
<1> HIDE DEF p
<1>2. /\ DOMAIN p = (DOMAIN q) \cup {Len(q) + 1, Len(q) + 2}
      /\ \A i \in DOMAIN q : p[i] = q[i]
  BY <1>1
<1>3. /\ IdsOf(p) = IdsOf(q) \cup {a.id, b.id}
      /\ TakenBy(p) = TakenBy(q) \cup a.takes \cup b.takes
  <2>1. PICK j, k : j = Len(q) + 1 /\ k = Len(q) + 2
    OBVIOUS
  <2>2. DOMAIN p = (DOMAIN q) \cup {j, k} /\ (\A i \in DOMAIN q : p[i] = q[i]) /\ p[j] = a /\ p[k] = b
    BY <1>1, <1>2, <2>1
  <2>3. IdsOf(p) = IdsOf(q) \cup {a.id, b.id}
    BY <2>2 DEF IdsOf
  <2>4. TakenBy(p) = TakenBy(q) \cup a.takes \cup b.takes
    BY <2>2 DEF TakenBy
  <2> QED BY <2>3, <2>4
<1> QED BY <1>1, <1>2, <1>3 DEF p

\* A step is planned behind the others.
LEMMA PlanAdds ==
  ASSUME StreamInv, NEW b \in SUBSET Req, NEW d \in DraftCounts, PlanStep(b, d)
  PROVE  SameSteps /\ Waiting' = Waiting
<1> DEFINE new == [NoStep EXCEPT !.batch = b, !.sent = sched, !.d = d]
<1>1. info' = Append(info, new) /\ UNCHANGED queue
  BY DEF PlanStep, gpu
<1> HIDE DEF new
<1>2. \A n \in 1 .. step : info'[n] = info[n]
  BY <1>1, Known, AppendProperties
<1> QED BY <1>1, <1>2 DEF SameSteps, SamePlans, Waiting

\* A planned step.
LEMMA PlanDoes ==
  ASSUME StreamInv, NEW b \in SUBSET Req, NEW d \in DraftCounts, PlanStep(b, d), NEW c, c = step + 1
  PROVE  /\ pc = "idle" /\ pc' = "prepare" /\ step' = c /\ c \in Nat /\ step < MaxSteps
         /\ UNCHANGED <<mode, pending, taken, host, worker, events, queue, dev, mem, freed, ran,
                        truth, read>>
         /\ Waiting' = Waiting /\ Garbage' = Garbage /\ SameSteps
         /\ c \in 1 .. step' /\ \A n \in 1 .. step' : n = c \/ n \in 1 .. step
         /\ info'[c].batch = b /\ info'[c].sent = sched /\ info'[c].d = d
         /\ info'[c].acc = None /\ ~info'[c].dummy
         /\ \A r \in Req : sched'[r] = IF r \in b THEN sched[r] + 1 + d[r] ELSE sched[r]
<1> DEFINE new == [NoStep EXCEPT !.batch = b, !.sent = sched, !.d = d]
<1>1. /\ new.batch = b /\ new.sent = sched /\ new.d = d /\ new.acc = None /\ ~new.dummy
  BY DEF NoStep
<1> HIDE DEF new
<1>2. info' = Append(info, new) /\ step' = c
  BY DEF PlanStep, new
<1>3. info'[c] = new /\ \A n \in 1 .. step : info'[n] = info[n]
  BY <1>2, Known, AppendProperties
<1>4. c \in 1 .. step' /\ c \in Nat /\ \A n \in 1 .. step' : n = c \/ n \in 1 .. step
  BY <1>2, Known
<1>5. SameSteps
  BY PlanAdds
<1>6. /\ pc = "idle" /\ pc' = "prepare" /\ step < MaxSteps
      /\ UNCHANGED <<mode, pending, taken, host, worker, events, queue, dev, mem, freed, ran,
                     truth, read>>
      /\ sched' = [r \in Req |-> IF r \in b THEN sched[r] + 1 + d[r] ELSE sched[r]]
  BY DEF PlanStep, gpu, history
<1>7. Waiting' = Waiting /\ Garbage' = Garbage
  BY <1>6 DEF Waiting, Garbage
<1> QED BY <1>1, <1>2, <1>3, <1>4, <1>5, <1>6, <1>7

\* A dummy run.
LEMMA DummyDoes ==
  ASSUME StreamInv, DummyRun, NEW c, c = step + 1
  PROVE  /\ pc = "idle" /\ pc' = "idle" /\ step' = c /\ c \in Nat /\ step < MaxSteps
         /\ pending = <<>>
         /\ UNCHANGED <<mode, pending, taken, sched, worker, dev, mem, ran, truth, read>>
         /\ Waiting' = Waiting \cup {Id("upload", c), Id("forward", c)}
         /\ Garbage' = Garbage /\ freed' = {} /\ SameSteps
         /\ c \in 1 .. step' /\ \A n \in 1 .. step' : n = c \/ n \in 1 .. step
         /\ info'[c].batch = {} /\ info'[c].d = None /\ info'[c].acc = None /\ info'[c].dummy
         /\ host' = [host EXCEPT !.inputs = c] /\ events' = [events EXCEPT !.inputs = Id("upload", c)]
         /\ UNCHANGED <<queue["draft"], queue["count"], queue["output"]>>
         /\ \A t, x : TakenAfter(t, x) /\ (t \in freed => Before(x, Id("upload", c)))
                       => TakenAfter(t, x)'
<1> DEFINE new == [NoStep EXCEPT !.dummy = TRUE]
           a == Kernel("upload", c, freed)
           b == Kernel("forward", c, {})
           q == queue["default"]
<1>1. new.batch = {} /\ new.d = None /\ new.acc = None /\ new.dummy
  BY DEF NoStep
<1> HIDE DEF new
<1>2. /\ info' = Append(info, new) /\ step' = c /\ pc = "idle" /\ pc' = "idle" /\ step < MaxSteps
      /\ pending = <<>> /\ UNCHANGED <<mode, pending, taken, sched, worker, dev, mem, ran, truth, read>>
      /\ freed' = {} /\ host' = [host EXCEPT !.inputs = c]
      /\ events' = [events EXCEPT !.inputs = Id("upload", c)]
      /\ queue' = [queue EXCEPT !["default"] = q \o <<a, b>>]
  BY DEF DummyRun, new, engine, history
<1>3. info'[c] = new /\ \A n \in 1 .. step : info'[n] = info[n]
  BY <1>2, Known, AppendProperties
<1>4. c \in 1 .. step' /\ c \in Nat /\ \A n \in 1 .. step' : n = c \/ n \in 1 .. step
  BY <1>2, Known
<1>5. SameSteps
  BY <1>3 DEF SameSteps, SamePlans
<1>6. /\ queue'["default"] = q \o <<a, b>>
      /\ UNCHANGED <<queue["draft"], queue["count"], queue["output"]>>
  BY <1>2, Buffers DEF Streams
<1>7. /\ a \in Kernels /\ a.id = Id("upload", c) /\ a.takes = freed
      /\ b \in Kernels /\ b.id = Id("forward", c) /\ b.takes = {}
  <2>1. freed \in SUBSET Tensors
    BY DEF StreamInv, StreamTypes, DeviceTypes
  <2>2. Id("upload", c) \in Ids /\ Id("forward", c) \in Ids
    BY <1>4, IdIs, Stages
  <2> QED BY <2>1, <2>2 DEF Kernel, Kernels
<1> HIDE DEF a, b
<1>8. q \in Seq(Kernels)
  BY Buffers
<1>9. a \in Kernels /\ b \in Kernels
  BY <1>7
<1> DEFINE p == q \o <<a, b>>
<1>10. /\ DOMAIN p = (DOMAIN q) \cup {Len(q) + 1, Len(q) + 2}
       /\ \A i \in DOMAIN q : p[i] = q[i]
       /\ p[Len(q) + 1] = a /\ p[Len(q) + 2] = b
       /\ IdsOf(p) = IdsOf(q) \cup {a.id, b.id}
       /\ TakenBy(p) = TakenBy(q) \cup a.takes \cup b.takes
  BY <1>8, <1>9, TwoAppended
<1>11. queue'["default"] = p
  BY <1>6
<1> HIDE DEF p
<1>12. /\ Waiting' = Waiting \cup {Id("upload", c), Id("forward", c)}
       /\ Garbage' = Garbage
  BY <1>2, <1>7, <1>10, <1>11 DEF Waiting, Garbage
<1>13. ASSUME NEW t, NEW x, TakenAfter(t, x), t \in freed => Before(x, Id("upload", c))
       PROVE  TakenAfter(t, x)'
  <2>1. t \notin b.takes
    BY <1>7
  <2> QED BY <1>7, <1>10, <1>11, <1>13, <2>1 DEF TakenAfter
<1> QED BY <1>1, <1>2, <1>3, <1>4, <1>5, <1>6, <1>7, <1>12, <1>13

\* An answer is taken.
LEMMA TakeDoes ==
  ASSUME StreamInv, TakeOutput, NEW o, o = Head(pending)
  PROVE  /\ pending # <<>> /\ 1 \in DOMAIN pending /\ o = pending[1] /\ o.state = "got"
         /\ o.n \in 1 .. step /\ OutputRight(o)
         /\ \A i \in DOMAIN pending' : i + 1 \in DOMAIN pending /\ pending'[i] = pending[i + 1]
         /\ \A i \in DOMAIN pending : i = 1 \/ i - 1 \in DOMAIN pending'
         /\ Len(pending) \in Nat /\ DOMAIN pending = 1 .. Len(pending)
         /\ DOMAIN pending' = 1 .. Len(pending') /\ Len(pending') = Len(pending) - 1
         /\ Waiting' = Waiting /\ Garbage' = Garbage /\ SameSteps
         /\ UNCHANGED <<mode, pc, step, info, host, worker, events, queue, dev, mem, freed, ran,
                        truth, read>>
         /\ mode.async => InFlight = 2 \/ info[step].batch = {} \/ step = MaxSteps
         /\ \A r \in Req :
              sched'[r] = IF r \in info[o.n].batch
                          THEN sched[r] - (info[o.n].d[r] - info[o.n].acc[r]) ELSE sched[r]
<1>1. /\ pending # <<>> /\ o.state = "got" /\ pending' = Tail(pending)
      /\ mode.async => InFlight = 2 \/ info[step].batch = {} \/ step = MaxSteps
      /\ UNCHANGED <<mode, pc, step, info, host, worker, events, queue, dev, mem, freed, ran,
                     truth, read>>
      /\ sched' = [r \in Req |-> IF r \in o.reqs THEN sched[r] - (info[o.n].d[r] - o.tokens[r])
                                 ELSE sched[r]]
  BY DEF TakeOutput, gpu, history
<1>2. pending \in Seq(Outs) /\ Len(pending) \in Nat /\ DOMAIN pending = 1 .. Len(pending)
  BY DEF StreamInv, StreamTypes, EngineTypes
<1>3. /\ 1 \in DOMAIN pending /\ o = pending[1] /\ o \in Outs
      /\ \A i \in DOMAIN pending' : i + 1 \in DOMAIN pending /\ pending'[i] = pending[i + 1]
  BY <1>1, <1>2, TailIs
<1>4. DOMAIN pending' = 1 .. Len(pending') /\ Len(pending') = Len(pending) - 1
  BY <1>1, <1>2, HeadTailProperties
<1>5. \A i \in DOMAIN pending : i = 1 \/ i - 1 \in DOMAIN pending'
  BY <1>2, <1>4
<1>6. OutputRight(o)
  BY <1>3 DEF StreamInv, PendingRight
<1>7. o.n \in 1 .. step /\ o.reqs = info[o.n].batch /\ (o.reqs # {} => o.tokens = info[o.n].acc)
  BY <1>1, <1>6 DEF OutputRight, Complete
<1>8. \A r \in Req :
        sched'[r] = IF r \in info[o.n].batch
                    THEN sched[r] - (info[o.n].d[r] - info[o.n].acc[r]) ELSE sched[r]
  BY <1>1, <1>7
<1>9. Waiting' = Waiting /\ Garbage' = Garbage /\ SameSteps
  BY <1>1 DEF Waiting, Garbage, SameSteps, SamePlans
<1> QED BY <1>1, <1>2, <1>3, <1>4, <1>5, <1>6, <1>7, <1>8, <1>9

\* _update_states and _prepare_inputs, and their upload.
LEMMA PrepareDoes ==
  ASSUME StreamInv, Prepare
  PROVE  /\ pc = "prepare" /\ pc' = "launch" /\ info[step].batch # {} /\ SamePlans
         /\ mode.async => IsDone("default", events.inputs)
         /\ UNCHANGED <<mode, step, sched, pending, taken, dev, mem, ran, truth, read>>
         /\ UNCHANGED <<queue["draft"], queue["count"], queue["output"]>>
         /\ Waiting' = Waiting \cup {Id("upload", step)} /\ Garbage' = Garbage
         /\ \A t, a : TakenAfter(t, a) /\ (t \in freed => Before(a, Id("upload", step)))
                        => TakenAfter(t, a)'
         /\ events' = [events EXCEPT !.inputs = Id("upload", step)]
         /\ \A n \in 1 .. step : /\ info'[n].acc = info[n].acc
                                 /\ n # step => /\ info'[n].assumed = info[n].assumed
                                                /\ info'[n].part = info[n].part
                                                /\ info'[n].src = info[n].src
         /\ LET deferred == Deferred(info[step].batch)
            IN  /\ \A r \in Req : info'[step].assumed[r] =
                                    IF r \in deferred THEN worker.drafted[r] ELSE 0
                /\ info'[step].part = IF worker.counts = 0 THEN {}
                                      ELSE deferred \cap worker.prevRows
                /\ info'[step].src = worker.counts
         /\ host'.inputs = step /\ UNCHANGED <<host.counts, host.drafts>>
         /\ \A r \in Req : host'.computed[r] = IF r \in info[step].batch THEN info[step].sent[r]
                                               ELSE host.computed[r]
         /\ worker'.rows = info[step].batch
         /\ \A r \in Req : worker'.drafted[r] = IF r \in info[step].batch THEN info[step].d[r]
                                                ELSE worker.drafted[r]
         /\ UNCHANGED <<worker.prevRows, worker.counts, worker.tensor, worker.drafts>>
<1>1. /\ pc = "prepare" /\ pc' = "launch" /\ This.batch # {}
      /\ mode.async => IsDone("default", events.inputs)
      /\ UNCHANGED <<mode, step, sched, pending, taken, dev, mem, ran, truth, read>>
      /\ Enqueue("default", Kernel("upload", step, freed)) /\ freed' = {}
      /\ events' = [events EXCEPT !.inputs = Id("upload", step)]
  BY DEF Prepare, InputsFree, engine, history
<1>2. step \in 1 .. step /\ DOMAIN info = 1 .. step /\ info[step] \in Infos
  BY <1>1, Known
<1>3. /\ queue'["default"] = Append(queue["default"], Kernel("upload", step, freed))
      /\ UNCHANGED <<queue["draft"], queue["count"], queue["output"]>>
  BY <1>1, Buffers DEF Enqueue, Streams
<1>4. /\ Waiting' = Waiting \cup {Id("upload", step)}
      /\ TakenBy(queue["default"])' = TakenBy(queue["default"]) \cup freed
      /\ \A t, a : TakenAfter(t, a) /\ (t \in freed => Before(a, Id("upload", step)))
                     => TakenAfter(t, a)'
  BY <1>2, <1>3, Appended, Stages, Known
<1>5. /\ SamePlans
      /\ \A n \in 1 .. step : /\ info'[n].acc = info[n].acc
                              /\ n # step => /\ info'[n].assumed = info[n].assumed
                                             /\ info'[n].part = info[n].part
                                             /\ info'[n].src = info[n].src
      /\ LET deferred == Deferred(info[step].batch)
         IN  /\ \A r \in Req : info'[step].assumed[r] =
                                 IF r \in deferred THEN worker.drafted[r] ELSE 0
             /\ info'[step].part = IF worker.counts = 0 THEN {}
                                   ELSE deferred \cap worker.prevRows
             /\ info'[step].src = worker.counts
  BY <1>2 DEF Prepare, SamePlans, This, Infos
<1>6. /\ host'.inputs = step /\ UNCHANGED <<host.counts, host.drafts>>
      /\ \A r \in Req : host'.computed[r] = IF r \in info[step].batch THEN info[step].sent[r]
                                            ELSE host.computed[r]
      /\ worker'.rows = info[step].batch
      /\ \A r \in Req : worker'.drafted[r] = IF r \in info[step].batch THEN info[step].d[r]
                                             ELSE worker.drafted[r]
      /\ UNCHANGED <<worker.prevRows, worker.counts, worker.tensor, worker.drafts>>
  BY Buffers DEF Prepare, This
<1>7. Garbage' = Garbage
  BY <1>1, <1>4 DEF Garbage
<1> QED BY <1>1, <1>3, <1>4, <1>5, <1>6, <1>7 DEF This

\* An answer more.
Answers(state) ==
  /\ Len(pending') = Len(pending) + 1 /\ Len(pending) \in Nat
  /\ DOMAIN pending = 1 .. Len(pending) /\ DOMAIN pending' = 1 .. Len(pending')
  /\ \A i \in DOMAIN pending : pending'[i] = pending[i]
  /\ pending'[Len(pending')].n = step /\ pending'[Len(pending')].state = state

\* An answer that is appended is the last one, and of the call in progress.
LEMMA Answered ==
  ASSUME StreamInv, NEW o, pending' = Append(pending, o), o.n = step
  PROVE  Answers(o.state)
<1>1. pending \in Seq(Outs)
  BY DEF StreamInv, StreamTypes, EngineTypes
<1>2. Len(pending) \in Nat /\ DOMAIN pending = 1 .. Len(pending)
  BY <1>1
<1>3. /\ Len(pending') = Len(pending) + 1 /\ DOMAIN pending' = 1 .. Len(pending) + 1
      /\ \A i \in 1 .. Len(pending) : pending'[i] = pending[i]
      /\ pending'[Len(pending) + 1] = o
  BY <1>1
<1> QED BY <1>2, <1>3 DEF Answers

\* An empty step is answered.
LEMMA EmptyDoes ==
  ASSUME StreamInv, AnswerEmpty
  PROVE  /\ pc = "prepare" /\ pc' = "idle" /\ info[step].batch = {} /\ SameSteps
         /\ mode.async => IsDone("default", events.inputs)
         /\ UNCHANGED <<mode, step, info, sched, taken, host, queue, dev, mem, freed, ran, truth,
                        read>>
         /\ Waiting' = Waiting /\ Garbage' = Garbage /\ Answers("got")
         /\ worker' = [worker EXCEPT !.rows = {}]
         /\ events' = [events EXCEPT !.inputs = LastOf("default")]
<1>1. /\ pc = "prepare" /\ pc' = "idle" /\ This.batch = {}
      /\ mode.async => IsDone("default", events.inputs)
      /\ UNCHANGED <<mode, step, info, sched, taken, host, queue, dev, mem, freed, ran, truth,
                     read>>
      /\ worker' = [worker EXCEPT !.rows = {}]
      /\ events' = [events EXCEPT !.inputs = LastOf("default")]
      /\ pending' = Append(pending, [Nothing EXCEPT !.n = step, !.state = "got"])
  BY DEF AnswerEmpty, InputsFree, gpu, history
<1> DEFINE o == [Nothing EXCEPT !.n = step, !.state = "got"]
<1>2. o.n = step /\ o.state = "got"
  BY DEF Nothing
<1>3. pending' = Append(pending, o)
  BY <1>1
<1> HIDE DEF o
<1>4. Answers("got")
  BY <1>2, <1>3, Answered
<1> QED BY <1>1, <1>4 DEF Waiting, Garbage, SameSteps, SamePlans, This

\* The forward pass.
LEMMA LaunchDoes ==
  ASSUME StreamInv, LaunchForward
  PROVE  /\ pc = "launch" /\ SameSteps
         /\ pc' = (IF mode.pool THEN "pool"
                   ELSE IF info[step].assumed # None THEN "correct" ELSE "sample")
         /\ UNCHANGED <<mode, step, info, sched, pending, taken, host, worker, events, dev, mem,
                        ran, truth, read>>
         /\ UNCHANGED <<queue["draft"], queue["count"], queue["output"]>>
         /\ Waiting' = Waiting \cup {Id("forward", step)} /\ Garbage' = Garbage
         /\ \A t, a : TakenAfter(t, a) /\ (t \in freed => Before(a, Id("forward", step)))
                        => TakenAfter(t, a)'
<1>1. /\ pc = "launch" /\ freed' = {}
      /\ pc' = (IF mode.pool THEN "pool"
                ELSE IF info[step].assumed # None THEN "correct" ELSE "sample")
      /\ UNCHANGED <<mode, step, info, sched, pending, taken, host, worker, events, dev, mem,
                     ran, truth, read>>
      /\ Enqueue("default", Kernel("forward", step, freed))
  BY DEF LaunchForward, This, engine, history
<1>2. /\ queue'["default"] = Append(queue["default"], Kernel("forward", step, freed))
      /\ UNCHANGED <<queue["draft"], queue["count"], queue["output"]>>
  BY <1>1, Buffers DEF Enqueue, Streams
<1>3. /\ Waiting' = Waiting \cup {Id("forward", step)}
      /\ TakenBy(queue["default"])' = TakenBy(queue["default"]) \cup freed
      /\ \A t, a : TakenAfter(t, a) /\ (t \in freed => Before(a, Id("forward", step)))
                     => TakenAfter(t, a)'
  BY <1>2, Appended, Stages, Known
<1> QED BY <1>1, <1>2, <1>3 DEF Garbage, SameSteps, SamePlans

\* The correction.
LEMMA CorrectDoes ==
  ASSUME StreamInv, CorrectCounts
  PROVE  /\ pc = "correct" /\ pc' = "sample" /\ SameSteps /\ IsDone("count", events.count)
         /\ UNCHANGED <<mode, step, info, sched, pending, taken, worker, events, queue, dev, mem,
                        freed, ran, truth, read>>
         /\ UNCHANGED <<host.inputs, host.counts, host.drafts>>
         /\ \A r \in Req : host'.computed[r] =
              IF info[step].assumed[r] > 0 /\ r \in worker.prevRows
              THEN host.computed[r] - (info[step].assumed[r] - (host.counts[r] - 1))
              ELSE host.computed[r]
         /\ Waiting' = Waiting /\ Garbage' = Garbage
<1>1. /\ pc = "correct" /\ pc' = "sample" /\ IsDone("count", events.count)
      /\ UNCHANGED <<mode, step, info, sched, pending, taken, worker, events, queue, dev, mem,
                     freed, ran, truth, read>>
  BY DEF CorrectCounts, engine, gpu, history
<1>2. /\ UNCHANGED <<host.inputs, host.counts, host.drafts>>
      /\ \A r \in Req : host'.computed[r] =
           IF info[step].assumed[r] > 0 /\ r \in worker.prevRows
           THEN host.computed[r] - (info[step].assumed[r] - (host.counts[r] - 1))
           ELSE host.computed[r]
  BY Buffers DEF CorrectCounts, This
<1> QED BY <1>1, <1>2 DEF Waiting, Garbage, SameSteps, SamePlans

\* What reading the drafts says.
DraftsRead ==
  /\ IsDone("draft", events.draft) /\ read'.got = host.drafts
  /\ read'.expected = IF worker.drafts.zero THEN 0 ELSE worker.drafts.of

\* The sampler.
LEMMA SampleDoes ==
  ASSUME StreamInv, SampleTokens
  PROVE  /\ pc = "sample" /\ pc' = "propose" /\ SameSteps
         /\ UNCHANGED <<mode, step, info, sched, pending, taken, host, events, dev, mem, ran,
                        truth>>
         /\ UNCHANGED <<queue["draft"], queue["count"], queue["output"]>>
         /\ Waiting' = Waiting \cup {Id("sample", step)}
         /\ Garbage' = Garbage \cup {Id("counts", worker.counts), Id("drafts", worker.tensor)}
         /\ \A t, a : TakenAfter(t, a) /\ (t \in freed => Before(a, Id("sample", step)))
                        => TakenAfter(t, a)'
         /\ worker'.counts = 0 /\ worker'.tensor = 0 /\ worker'.drafts = NoDrafts
         /\ UNCHANGED <<worker.rows, worker.drafted, worker.prevRows>>
         /\ read' = read \/ (worker.drafts # NoDrafts /\ DraftsRead)
<1>1. /\ pc = "sample" /\ pc' = "propose"
      /\ freed' = {Id("counts", worker.counts), Id("drafts", worker.tensor)}
      /\ UNCHANGED <<mode, step, info, sched, pending, taken, host, events, dev, mem, ran,
                     truth>>
      /\ Enqueue("default", Kernel("sample", step, freed))
      /\ worker' = [worker EXCEPT !.counts = 0, !.tensor = 0, !.drafts = NoDrafts]
      /\ IF mode.async /\ worker.drafts # NoDrafts /\ This.d # None
         THEN ReadDrafts ELSE UNCHANGED read
  BY DEF SampleTokens, engine
<1>2. /\ queue'["default"] = Append(queue["default"], Kernel("sample", step, freed))
      /\ UNCHANGED <<queue["draft"], queue["count"], queue["output"]>>
  BY <1>1, Buffers DEF Enqueue, Streams
<1>3. /\ Waiting' = Waiting \cup {Id("sample", step)}
      /\ TakenBy(queue["default"])' = TakenBy(queue["default"]) \cup freed
      /\ \A t, a : TakenAfter(t, a) /\ (t \in freed => Before(a, Id("sample", step)))
                     => TakenAfter(t, a)'
  BY <1>2, Appended, Stages, Known
<1>4. /\ worker'.counts = 0 /\ worker'.tensor = 0 /\ worker'.drafts = NoDrafts
      /\ UNCHANGED <<worker.rows, worker.drafted, worker.prevRows>>
  BY <1>1, Buffers
<1>5. read' = read \/ (worker.drafts # NoDrafts /\ DraftsRead)
  BY <1>1 DEF ReadDrafts, DraftsRead
<1> QED BY <1>1, <1>2, <1>3, <1>4, <1>5 DEF Garbage, SameSteps, SamePlans

\* The drafts are read.
LEMMA TakeDraftsDoes ==
  ASSUME StreamInv, TakeDrafts
  PROVE  /\ worker.drafts # NoDrafts /\ DraftsRead /\ SameSteps
         /\ IF mode.async THEN pc = "sample" /\ worker' = worker
            ELSE pc = "idle" /\ worker' = [worker EXCEPT !.drafts = NoDrafts]
         /\ UNCHANGED <<mode, pc, step, info, sched, pending, taken, host, events, queue, dev,
                        mem, freed, ran, truth>>
         /\ Waiting' = Waiting /\ Garbage' = Garbage
<1>1. /\ worker.drafts # NoDrafts /\ ReadDrafts
      /\ IF mode.async THEN pc = "sample" /\ worker' = worker
         ELSE pc = "idle" /\ worker' = [worker EXCEPT !.drafts = NoDrafts]
      /\ UNCHANGED <<mode, pc, step, info, sched, pending, taken, host, events, queue, dev,
                     mem, freed, ran, truth>>
  BY DEF TakeDrafts, engine, gpu
<1>2. DraftsRead
  BY <1>1 DEF ReadDrafts, DraftsRead
<1> QED BY <1>1, <1>2 DEF Waiting, Garbage, SameSteps, SamePlans

\* The drafter, and the copy of the counts.
LEMMA ProposeDoes ==
  ASSUME StreamInv, Propose
  PROVE  /\ pc = "propose" /\ pc' = "drafted" /\ SameSteps /\ TRUE \in mode.fits
         /\ UNCHANGED <<mode, step, info, sched, pending, taken, host, dev, mem, ran, truth, read>>
         /\ UNCHANGED <<queue["draft"], queue["output"]>>
         /\ queue'["count"] = queue["count"] \o CountCopy
         /\ Waiting' = Waiting \cup {Id("draft", step)} /\ Garbage' = Garbage
         /\ \A t, a : TakenAfter(t, a) /\ (t \in freed => Before(a, Id("draft", step)))
                        => TakenAfter(t, a)'
         /\ StashCounts
         /\ worker'.counts = CountsRef /\ worker'.tensor = step
         /\ UNCHANGED <<worker.rows, worker.drafted, worker.prevRows, worker.drafts>>
<1>1. /\ pc = "propose" /\ pc' = "drafted" /\ freed' = {} /\ TRUE \in mode.fits
      /\ UNCHANGED <<mode, step, info, sched, pending, taken, host, dev, mem, ran, truth, read>>
      /\ queue' = [queue EXCEPT !["count"] = @ \o CountCopy,
                                !["default"] = Append(@, Kernel("draft", step, freed))]
      /\ StashCounts /\ worker' = [worker EXCEPT !.counts = CountsRef, !.tensor = step]
  BY DEF Propose, engine, history
<1>2. /\ queue'["default"] = Append(queue["default"], Kernel("draft", step, freed))
      /\ queue'["count"] = queue["count"] \o CountCopy
      /\ UNCHANGED <<queue["draft"], queue["output"]>>
  BY <1>1, Buffers DEF Streams
<1>3. /\ Waiting' = Waiting \cup {Id("draft", step)}
      /\ TakenBy(queue["default"])' = TakenBy(queue["default"]) \cup freed
      /\ \A t, a : TakenAfter(t, a) /\ (t \in freed => Before(a, Id("draft", step)))
                     => TakenAfter(t, a)'
  BY <1>2, Appended, Stages, Known
<1>4. /\ worker'.counts = CountsRef /\ worker'.tensor = step
      /\ UNCHANGED <<worker.rows, worker.drafted, worker.prevRows, worker.drafts>>
  BY <1>1, Buffers
<1> QED BY <1>1, <1>2, <1>3, <1>4 DEF Garbage, SameSteps, SamePlans

\* The copy of the drafts.
LEMMA CopyDraftsDoes ==
  ASSUME StreamInv, NEW wanted, CopyDrafts(wanted)
  PROVE  /\ pc = "drafted" /\ pc' = "book" /\ SameSteps
         /\ UNCHANGED <<mode, step, info, sched, pending, taken, host, dev, mem, freed, ran, truth,
                        read>>
         /\ UNCHANGED <<queue["default"], queue["count"], queue["output"]>>
         /\ Waiting' = Waiting /\ Garbage' = Garbage
         /\ UNCHANGED <<worker.rows, worker.drafted, worker.prevRows, worker.counts, worker.tensor>>
         /\ UNCHANGED <<events.inputs, events.count>> /\ DOMAIN events' = DOMAIN events
         /\ IF wanted
            THEN /\ queue'["draft"] = Append(queue["draft"], Copy("drafts", step, LastOf("default")))
                 /\ "draft" \in DOMAIN events => events'.draft = Id("drafts", step)
                 /\ worker'.drafts = [of |-> step, zero |-> FALSE]
            ELSE UNCHANGED <<queue, events, worker>>
<1>1. /\ pc = "drafted" /\ pc' = "book"
      /\ UNCHANGED <<mode, step, info, sched, pending, taken, host, dev, mem, freed, ran, truth,
                     read>>
  BY DEF CopyDrafts, engine, history
<1>2. /\ UNCHANGED <<queue["default"], queue["count"], queue["output"]>>
      /\ UNCHANGED <<worker.rows, worker.drafted, worker.prevRows, worker.counts, worker.tensor>>
      /\ UNCHANGED <<events.inputs, events.count>> /\ DOMAIN events' = DOMAIN events
      /\ IF wanted
         THEN /\ queue'["draft"] = Append(queue["draft"], Copy("drafts", step, LastOf("default")))
              /\ "draft" \in DOMAIN events => events'.draft = Id("drafts", step)
              /\ worker'.drafts = [of |-> step, zero |-> FALSE]
         ELSE UNCHANGED <<queue, events, worker>>
  <2>1. CASE wanted
    <3>1. /\ queue' = [queue EXCEPT !["draft"] =
                         Append(@, Copy("drafts", step, LastOf("default")))]
          /\ events' = [events EXCEPT !.draft = Id("drafts", step)]
          /\ worker' = [worker EXCEPT !.drafts = [of |-> step, zero |-> FALSE]]
      BY <2>1 DEF CopyDrafts, Enqueue
    <3> QED BY <2>1, <3>1, Buffers DEF Streams
  <2>2. CASE ~ wanted
    BY <2>2 DEF CopyDrafts
  <2> QED BY <2>1, <2>2
<1> QED BY <1>1, <1>2 DEF Waiting, Garbage, SameSteps, SamePlans

\* The zeros of a batch that does not fit.
LEMMA ZeroDraftsDoes ==
  ASSUME StreamInv, NEW wanted, ZeroDrafts(wanted)
  PROVE  /\ pc = "propose" /\ pc' = "book" /\ SameSteps /\ FALSE \in mode.fits
         /\ UNCHANGED <<mode, step, info, sched, pending, taken, dev, mem, freed, ran, truth, read>>
         /\ UNCHANGED <<queue["default"], queue["draft"], queue["output"]>>
         /\ queue'["count"] = queue["count"] \o CountCopy
         /\ Waiting' = Waiting /\ Garbage' = Garbage
         /\ UNCHANGED <<worker.rows, worker.drafted, worker.prevRows, worker.tensor>>
         /\ UNCHANGED <<host.inputs, host.computed, host.counts>>
         /\ worker'.counts = CountsRef
         /\ events'.inputs = events.inputs /\ DOMAIN events' = DOMAIN events
         /\ "count" \in DOMAIN events =>
              events'.count = IF mode.async THEN Id("count", step) ELSE events.count
         /\ IF wanted THEN worker'.drafts = [of |-> step, zero |-> TRUE] /\ host'.drafts = 0
            ELSE UNCHANGED <<worker.drafts, host.drafts, events.draft>>
<1>1. /\ pc = "propose" /\ pc' = "book" /\ FALSE \in mode.fits
      /\ UNCHANGED <<mode, step, info, sched, pending, taken, dev, mem, freed, ran, truth, read>>
      /\ queue' = [queue EXCEPT !["count"] = @ \o CountCopy]
      /\ events' = [events EXCEPT !.count = IF mode.async THEN Id("count", step) ELSE @,
                                  !.draft = IF wanted THEN LastOf("draft") ELSE @]
      /\ worker' = [worker EXCEPT !.counts = CountsRef,
                      !.drafts = IF wanted THEN [of |-> step, zero |-> TRUE] ELSE @]
      /\ host' = IF wanted THEN [host EXCEPT !.drafts = 0] ELSE host
  BY DEF ZeroDrafts, engine, history
<1>2. /\ UNCHANGED <<queue["default"], queue["draft"], queue["output"]>>
      /\ queue'["count"] = queue["count"] \o CountCopy
  BY <1>1, Buffers DEF Streams
<1>3. /\ UNCHANGED <<worker.rows, worker.drafted, worker.prevRows, worker.tensor>>
      /\ worker'.counts = CountsRef
      /\ worker'.drafts = IF wanted THEN [of |-> step, zero |-> TRUE] ELSE worker.drafts
  BY <1>1, Buffers
<1>4. /\ UNCHANGED <<host.inputs, host.computed, host.counts>>
      /\ host'.drafts = IF wanted THEN 0 ELSE host.drafts
  BY <1>1, Buffers
<1>5. /\ events'.inputs = events.inputs /\ DOMAIN events' = DOMAIN events
      /\ "count" \in DOMAIN events =>
           events'.count = IF mode.async THEN Id("count", step) ELSE events.count
      /\ ~ wanted => events'.draft = events.draft
  BY <1>1
<1> QED BY <1>1, <1>2, <1>3, <1>4, <1>5 DEF Waiting, Garbage, SameSteps, SamePlans

\* The downloads of a synchronous step.
LEMMA DownloadTokensDoes ==
  ASSUME StreamInv, DownloadTokens
  PROVE  /\ pc = "book" /\ pc' = "wait" /\ ~mode.async /\ SameSteps
         /\ UNCHANGED <<mode, step, info, sched, pending, taken, host, worker, events, dev, mem,
                        freed, ran, truth, read>>
         /\ UNCHANGED <<queue["draft"], queue["count"], queue["output"]>>
         /\ Waiting' = Waiting \cup {Id("experts", step), Id("tokens", step)}
         /\ Garbage' = Garbage /\ \A t, x : TakenAfter(t, x) => TakenAfter(t, x)'
<1> DEFINE q == queue["default"]
           a == Copy("experts", step, NoOp)
           b == Copy("tokens", step, NoOp)
<1>1. /\ pc = "book" /\ pc' = "wait" /\ ~mode.async
      /\ UNCHANGED <<mode, step, info, sched, pending, taken, host, worker, events, dev, mem,
                     freed, ran, truth, read>>
      /\ queue' = [queue EXCEPT !["default"] = q \o <<a, b>>]
  BY DEF DownloadTokens, engine, history
<1>2. /\ queue'["default"] = q \o <<a, b>>
      /\ UNCHANGED <<queue["draft"], queue["count"], queue["output"]>>
  BY <1>1, Buffers DEF Streams
<1>3. /\ a \in Kernels /\ a.id = Id("experts", step) /\ a.takes = {}
      /\ b \in Kernels /\ b.id = Id("tokens", step) /\ b.takes = {}
  <2>1. Id("experts", step) \in Ids /\ Id("tokens", step) \in Ids
    BY IdIs, Stages, Known
  <2> QED BY <2>1 DEF Copy, Kernels
<1> HIDE DEF a, b
<1>4. q \in Seq(Kernels)
  BY Buffers
<1>9. a \in Kernels /\ b \in Kernels
  BY <1>3
<1> DEFINE p == q \o <<a, b>>
<1>5. /\ DOMAIN p = (DOMAIN q) \cup {Len(q) + 1, Len(q) + 2}
      /\ \A i \in DOMAIN q : p[i] = q[i]
      /\ p[Len(q) + 1] = a /\ p[Len(q) + 2] = b
      /\ IdsOf(p) = IdsOf(q) \cup {a.id, b.id}
      /\ TakenBy(p) = TakenBy(q) \cup a.takes \cup b.takes
  BY <1>4, <1>9, TwoAppended
<1>6. queue'["default"] = p
  BY <1>2
<1> HIDE DEF p
<1>7. Waiting' = Waiting \cup {Id("experts", step), Id("tokens", step)} /\ Garbage' = Garbage
  BY <1>1, <1>3, <1>5, <1>6 DEF Waiting, Garbage
<1>8. ASSUME NEW t, NEW x, TakenAfter(t, x)
      PROVE  TakenAfter(t, x)'
  BY <1>3, <1>5, <1>6, <1>8 DEF TakenAfter
<1> QED BY <1>1, <1>2, <1>7, <1>8 DEF SameSteps, SamePlans

\* The answer of a synchronous step.
LEMMA ReturnTokensDoes ==
  ASSUME StreamInv, ReturnTokens
  PROVE  /\ pc = "wait" /\ pc' = "idle" /\ SameSteps /\ Id("tokens", step) \notin Waiting
         /\ UNCHANGED <<mode, step, info, sched, taken, host, worker, events, queue, dev, mem,
                        freed, ran, truth, read>>
         /\ Waiting' = Waiting /\ Garbage' = Garbage /\ Answers("got")
<1> DEFINE o == [n |-> step, state |-> "got", reqs |-> worker.rows, tokens |-> host.tokens,
                 experts |-> host.experts]
<1>1. /\ pc = "wait" /\ pc' = "idle" /\ IsDone("default", Id("tokens", step))
      /\ UNCHANGED <<mode, step, info, sched, taken, host, worker, events, queue, dev, mem,
                     freed, ran, truth, read>>
      /\ pending' = Append(pending, o)
  BY DEF ReturnTokens, gpu, history
<1>2. o.n = step /\ o.state = "got"
  OBVIOUS
<1> HIDE DEF o
<1>3. Answers("got")
  BY <1>1, <1>2, Answered
<1>4. Id("tokens", step) \notin Waiting
  BY <1>1 DEF IsDone, Waiting, IdsOf
<1> QED BY <1>1, <1>3, <1>4 DEF Waiting, Garbage, SameSteps, SamePlans

\* The answer of an asynchronous one.
LEMMA ReturnAsyncDoes ==
  ASSUME StreamInv, ReturnAsync
  PROVE  /\ pc = "book" /\ pc' = "idle" /\ mode.async /\ SameSteps
         /\ UNCHANGED <<mode, step, info, sched, taken, host, events, dev, mem, ran, truth, read>>
         /\ UNCHANGED <<queue["draft"], queue["count"]>>
         /\ Waiting' = Waiting \cup {Id("clone", step)} /\ Garbage' = Garbage
         /\ \A t, a : TakenAfter(t, a) /\ (t \in freed => Before(a, Id("clone", step)))
                        => TakenAfter(t, a)'
         /\ worker'.prevRows = worker.rows
         /\ UNCHANGED <<worker.rows, worker.drafted, worker.counts, worker.tensor, worker.drafts>>
         /\ Answers("copying")
<1> DEFINE o == [Nothing EXCEPT !.n = step, !.state = "copying", !.reqs = worker.rows]
<1>1. /\ pc = "book" /\ pc' = "idle" /\ mode.async /\ freed' = {}
      /\ UNCHANGED <<mode, step, info, sched, taken, host, events, dev, mem, ran, truth, read>>
      /\ queue' = [queue EXCEPT !["default"] = Append(@, Kernel("clone", step, freed)),
                                !["output"] = Append(@, Copy("output", step, Id("clone", step)))]
      /\ worker' = [worker EXCEPT !.prevRows = worker.rows]
      /\ pending' = Append(pending, o)
  BY DEF ReturnAsync, history
<1>2. /\ queue'["default"] = Append(queue["default"], Kernel("clone", step, freed))
      /\ UNCHANGED <<queue["draft"], queue["count"]>>
  BY <1>1, Buffers DEF Streams
<1>3. /\ Waiting' = Waiting \cup {Id("clone", step)}
      /\ TakenBy(queue["default"])' = TakenBy(queue["default"]) \cup freed
      /\ \A t, a : TakenAfter(t, a) /\ (t \in freed => Before(a, Id("clone", step)))
                     => TakenAfter(t, a)'
  BY <1>2, Appended, Stages, Known
<1>4. /\ worker'.prevRows = worker.rows
      /\ UNCHANGED <<worker.rows, worker.drafted, worker.counts, worker.tensor, worker.drafts>>
  BY <1>1, Buffers
<1>5. o.n = step /\ o.state = "copying"
  BY DEF Nothing
<1> HIDE DEF o
<1>6. Answers("copying")
  BY <1>1, <1>5, Answered
<1> QED BY <1>1, <1>2, <1>3, <1>4, <1>6 DEF Garbage, SameSteps, SamePlans

\* The answer of a pooling step.
LEMMA PoolDoes ==
  ASSUME StreamInv, NEW finished, Pool(finished)
  PROVE  /\ pc = "pool" /\ pc' = "idle" /\ SameSteps
         /\ UNCHANGED <<mode, step, info, sched, taken, host, worker, events, dev, mem, ran, truth,
                        read>>
         /\ UNCHANGED <<queue["draft"], queue["count"]>>
         /\ Waiting' = Waiting \cup {Id("pooler", step)} /\ Garbage' = Garbage
         /\ \A t, a : TakenAfter(t, a) /\ (t \in freed => Before(a, Id("pooler", step)))
                        => TakenAfter(t, a)'
         /\ Answers(IF finished THEN "copying" ELSE "got")
<1> DEFINE o == [Nothing EXCEPT !.n = step, !.reqs = worker.rows,
                   !.state = IF finished THEN "copying" ELSE "got"]
<1>1. /\ pc = "pool" /\ pc' = "idle" /\ freed' = {}
      /\ UNCHANGED <<mode, step, info, sched, taken, host, worker, events, dev, mem, ran, truth,
                     read>>
      /\ queue' = [queue EXCEPT
           !["default"] = Append(@, Kernel("pooler", step, freed)),
           !["output"] = IF finished THEN Append(@, Copy("output", step, Id("pooler", step)))
                         ELSE @]
      /\ pending' = Append(pending, o)
  BY DEF Pool, history
<1>2. /\ queue'["default"] = Append(queue["default"], Kernel("pooler", step, freed))
      /\ UNCHANGED <<queue["draft"], queue["count"]>>
  BY <1>1, Buffers DEF Streams
<1>3. /\ Waiting' = Waiting \cup {Id("pooler", step)}
      /\ TakenBy(queue["default"])' = TakenBy(queue["default"]) \cup freed
      /\ \A t, a : TakenAfter(t, a) /\ (t \in freed => Before(a, Id("pooler", step)))
                     => TakenAfter(t, a)'
  BY <1>2, Appended, Stages, Known
<1>4. o.n = step /\ o.state = IF finished THEN "copying" ELSE "got"
  BY DEF Nothing
<1> HIDE DEF o
<1>5. Answers(IF finished THEN "copying" ELSE "got")
  BY <1>1, <1>4, Answered
<1> QED BY <1>1, <1>2, <1>3, <1>5 DEF Garbage, SameSteps, SamePlans

\* An answer is handed on.
LEMMA GetDoes ==
  ASSUME StreamInv, NEW i \in DOMAIN pending, GetOutput(i)
  PROVE  /\ SameSteps /\ pending[i].state = "copying"
         /\ Id("output", pending[i].n) \notin Downloads
         /\ UNCHANGED <<mode, pc, step, info, sched, taken, host, worker, events, queue, dev, mem,
                        ran, truth, read>>
         /\ Waiting' = Waiting
         /\ Garbage' = Garbage \cup {Id("tokens", pending[i].n), Id("clones", pending[i].n)}
         /\ Len(pending') = Len(pending) /\ DOMAIN pending' = DOMAIN pending
         /\ \A j \in DOMAIN pending :
              /\ pending'[j].n = pending[j].n
              /\ pending'[j].state = IF j = i THEN "got" ELSE pending[j].state
<1>1. /\ pending[i].state = "copying" /\ IsDone("output", Id("output", pending[i].n))
      /\ UNCHANGED <<mode, pc, step, info, sched, taken, host, worker, events, queue, dev, mem,
                     ran, truth, read>>
      /\ freed' = freed \cup {Id("tokens", pending[i].n), Id("clones", pending[i].n)}
      /\ pending' = [pending EXCEPT ![i].state = "got"]
  BY DEF GetOutput, history
<1>2. pending \in Seq(Outs) /\ \A j \in DOMAIN pending : pending[j] \in Outs
  BY Typed DEF StreamInv, StreamTypes, EngineTypes
<1>3. Len(pending') = Len(pending)
  <2>1. pending' = [pending EXCEPT ![i] = [pending[i] EXCEPT !.state = "got"]]
    BY <1>1
  <2> DEFINE e == [pending[i] EXCEPT !.state = "got"]
  <2> HIDE DEF e
  <2>2. pending' = [pending EXCEPT ![i] = e]
    BY <2>1 DEF e
  <2>3. DOMAIN pending = 1 .. Len(pending) /\ Len(pending) \in Nat
    BY <1>2
  <2>4. DOMAIN pending' = 1 .. Len(pending)
    BY <2>2, <2>3
  <2>5. pending' = [j \in 1 .. Len(pending) |-> pending'[j]]
    BY <2>2, <2>3
  <2>6. pending' \in Seq(Outs \cup {e})
    <3>1. \A j \in 1 .. Len(pending) : pending'[j] \in Outs \cup {e}
      BY <1>2, <2>2, <2>3
    <3> QED BY <2>3, <2>5, <3>1, IsASeq
  <2> QED BY <2>3, <2>4, <2>6, LenProperties
<1>4. /\ DOMAIN pending' = DOMAIN pending
      /\ \A j \in DOMAIN pending :
           /\ pending'[j].n = pending[j].n
           /\ pending'[j].state = IF j = i THEN "got" ELSE pending[j].state
  BY <1>1, <1>2 DEF Outs
<1>5. Id("output", pending[i].n) \notin Downloads
  BY <1>1 DEF IsDone, Downloads, IdsOf
<1> QED BY <1>1, <1>3, <1>4, <1>5 DEF Waiting, Garbage, SameSteps, SamePlans

-----------------------------------------------------------------------------
(* What the streams do.                                                    *)

\* The head of the default stream leaves it, and takes garbage.
LEMMA HeadRuns ==
  ASSUME StreamInv, NEW kind, Runs("default", kind), NEW n, n = Now("default")
  PROVE  /\ n \in 1 .. step /\ kind \in DOMAIN Stage
         /\ Id(kind, n) \in Waiting /\ Id(kind, n) \notin Waiting'
         /\ Waiting = Waiting' \cup {Id(kind, n)}
         /\ \A a \in Waiting' : Before(Id(kind, n), a)
         /\ Garbage' \subseteq Garbage /\ Taken \subseteq Garbage
         /\ \A t, a : TakenAfter(t, a) => TakenAfter(t, a)' /\ (t \in Taken => Before(a, Id(kind, n)))
         /\ UNCHANGED <<queue["draft"], queue["count"], queue["output"]>>
         /\ UNCHANGED <<mode, pc, step, sched, taken, worker, events, freed>>
<1>1. /\ n \in 1 .. step /\ kind \in DOMAIN Stage
      /\ Id(kind, n) \in Waiting /\ Id(kind, n) \notin Waiting'
      /\ Waiting = Waiting' \cup {Id(kind, n)}
      /\ \A a \in Waiting' : Before(Id(kind, n), a)
      /\ Garbage' \subseteq Garbage /\ Taken \subseteq Garbage
  BY DefaultRuns
<1>2. /\ queue["default"] # <<>> /\ queue' = [queue EXCEPT !["default"] = Tail(@)]
      /\ Head(queue["default"]).id[1] = kind
      /\ UNCHANGED <<mode, pc, step, sched, taken, worker, events, freed>>
  BY DEF Runs
<1>3. /\ queue'["default"] = Tail(queue["default"])
      /\ UNCHANGED <<queue["draft"], queue["count"], queue["output"]>>
  BY <1>2, Buffers DEF Streams
<1>4. queue["default"] \in Seq(Kernels)
  BY Buffers
<1>5. LET q == queue["default"]
          p == Tail(q)
      IN  /\ 1 \in DOMAIN q /\ Head(q) = q[1] /\ Head(q) \in Kernels
          /\ \A i \in DOMAIN p : i + 1 \in DOMAIN q /\ p[i] = q[i + 1]
  BY <1>2, <1>4, TailIs
<1>6. Head(queue["default"]).id = Id(kind, n)
  BY <1>2, <1>5, IdIs DEF Now, Kernels
<1>7. ASSUME NEW t, NEW a, TakenAfter(t, a)
      PROVE  TakenAfter(t, a)' /\ (t \in Taken => Before(a, Id(kind, n)))
  BY <1>3, <1>5, <1>6, <1>7 DEF TakenAfter, Taken
<1> QED BY <1>1, <1>2, <1>3, <1>7

\* What memory holds after it.
LEMMA MemoryKept ==
  /\ \A t, v : mem' = mem /\ Holds(t, v) => Holds(t, v)'
  /\ \A t, v : mem' = Kept /\ Holds(t, v) /\ t \notin Taken => Holds(t, v)'
  /\ \A x, w, t, v : mem' = Holding(x, w) =>
       /\ Holds(t, v) /\ t \notin Taken /\ t # x => Holds(t, v)'
       /\ Holds(x, w)'
  /\ \A x, w, y, z, t, v : mem' = With(Holding(x, w), y, z) =>
       /\ Holds(t, v) /\ t \notin Taken /\ t # x /\ t # y => Holds(t, v)'
       /\ x # y => Holds(x, w)'
BY KeptIs, ZenonT(40) DEF Holds, With

\* An upload and the kernels on it.
LEMMA UploadDoes ==
  ASSUME StreamInv, RunUpload, NEW n, n = Now("default")
  PROVE  /\ Runs("default", "upload") /\ SameSteps
         /\ UNCHANGED <<info, pending, host, ran, truth, read>>
         /\ \A t, v : Holds(t, v) /\ t \notin Taken => Holds(t, v)'
         /\ dev'.inputs = host.inputs /\ dev'.slots = n
         /\ \A r \in Req : dev'.computed[r] =
              IF r \in info[n].part
              THEN dev.computed[r] + Contents(Id("counts", info[n].src), None)[r]
              ELSE IF r \in info[n].batch THEN host.computed[r] ELSE dev.computed[r]
<1>1. /\ Runs("default", "upload") /\ mem' = Kept /\ UNCHANGED <<info, pending, host, ran, truth, read>>
      /\ step' = step
  BY DEF RunUpload, history, Runs
<1>2. /\ dev'.inputs = host.inputs /\ dev'.slots = n
      /\ \A r \in Req : dev'.computed[r] =
           IF r \in info[n].part
           THEN dev.computed[r] + Contents(Id("counts", info[n].src), None)[r]
           ELSE IF r \in info[n].batch THEN host.computed[r] ELSE dev.computed[r]
  BY Buffers DEF RunUpload
<1> QED BY <1>1, <1>2, MemoryKept DEF SameSteps, SamePlans

\* A forward pass.
LEMMA ForwardDoes ==
  ASSUME StreamInv, RunForward, NEW n, n = Now("default")
  PROVE  /\ Runs("default", "forward") /\ SameSteps
         /\ UNCHANGED <<info, pending, host, truth, read, dev.inputs, dev.computed, dev.slots>>
         /\ \A t, v : Holds(t, v) /\ t \notin Taken => Holds(t, v)'
         /\ ran' = [n |-> n, inputs |-> dev.inputs, computed |-> dev.computed, truth |-> truth]
<1>1. /\ Runs("default", "forward") /\ mem' = Kept /\ UNCHANGED <<info, pending, host, truth, read>>
      /\ ran' = [n |-> n, inputs |-> dev.inputs, computed |-> dev.computed, truth |-> truth]
      /\ dev' = [dev EXCEPT !.experts = Now("default")]
  BY DEF RunForward
<1>2. UNCHANGED <<dev.inputs, dev.computed, dev.slots>>
  BY <1>1, Buffers
<1> QED BY <1>1, <1>2, MemoryKept DEF SameSteps, SamePlans

\* The sampler.
LEMMA SamplerDoes ==
  ASSUME StreamInv, NEW acc \in DraftCounts, RunSample(acc), NEW n, n = Now("default")
  PROVE  /\ Runs("default", "sample") /\ SamePlans
         /\ UNCHANGED <<pending, host, dev, ran, read>>
         /\ \A r \in Req : 0 <= acc[r] /\ acc[r] <= info[n].d[r]
         /\ info'[n].acc = acc
         /\ \A m \in 1 .. step : /\ m # n => info'[m].acc = info[m].acc
                                 /\ info'[m].assumed = info[m].assumed
                                 /\ info'[m].part = info[m].part /\ info'[m].src = info[m].src
         /\ \A r \in Req : truth'[r] = IF r \in info[n].batch THEN truth[r] + acc[r] + 1 ELSE truth[r]
         /\ \A t, v : Holds(t, v) /\ t \notin Taken /\ t \notin {Id("counts", n), Id("tokens", n)}
                        => Holds(t, v)'
         /\ Holds(Id("counts", n), [r \in Req |-> acc[r] + 1])'
<1>1. /\ Runs("default", "sample") /\ UNCHANGED <<pending, host, dev, ran, read>>
      /\ \A r \in Req : acc[r] <= info[n].d[r]
      /\ info' = [info EXCEPT ![n].acc = acc]
      /\ truth' = [r \in Req |-> IF r \in info[n].batch THEN truth[r] + acc[r] + 1 ELSE truth[r]]
      /\ mem' = With(Holding(Id("counts", n), [r \in Req |-> acc[r] + 1]), Id("tokens", n), acc)
  BY DEF RunSample
<1>2. n \in 1 .. step /\ DOMAIN info = 1 .. step /\ \A m \in 1 .. step : info[m] \in Infos
  BY <1>1, HeadRuns, Known
<1>3. /\ SamePlans /\ info'[n].acc = acc
      /\ \A m \in 1 .. step : /\ m # n => info'[m].acc = info[m].acc
                              /\ info'[m].assumed = info[m].assumed
                              /\ info'[m].part = info[m].part /\ info'[m].src = info[m].src
  BY <1>1, <1>2 DEF SamePlans, Infos
<1>4. \A r \in Req : 0 <= acc[r]
  BY DEF DraftCounts
<1>5. Id("counts", n) # Id("tokens", n)
  BY IdIs
<1>6. Holds(Id("counts", n), [r \in Req |-> acc[r] + 1])'
  <2> DEFINE v == [r \in Req |-> acc[r] + 1]
  <2> HIDE DEF v
  <2>1. mem' = With(Holding(Id("counts", n), v), Id("tokens", n), acc)
    BY <1>1 DEF v
  <2>2. Id("counts", n) \in DOMAIN mem' /\ mem'[Id("counts", n)] = v
    BY <1>5, <2>1 DEF With, Holding
  <2> QED BY <2>2 DEF Holds, v
<1>7. \A t, v : Holds(t, v) /\ t \notin Taken /\ t \notin {Id("counts", n), Id("tokens", n)}
                  => Holds(t, v)'
  BY <1>1, MemoryKept
<1> QED BY <1>1, <1>3, <1>4, <1>6, <1>7

\* The pooler.
LEMMA PoolerDoes ==
  ASSUME StreamInv, RunPooler, NEW n, n = Now("default")
  PROVE  /\ Runs("default", "pooler") /\ SameSteps
         /\ UNCHANGED <<info, pending, host, dev, ran, read>>
         /\ \A r \in Req : truth'[r] = IF r \in info[n].batch THEN truth[r] + 1 ELSE truth[r]
         /\ \A t, v : Holds(t, v) /\ t \notin Taken /\ t # Id("tokens", n) => Holds(t, v)'
<1>1. /\ Runs("default", "pooler") /\ UNCHANGED <<info, pending, host, dev, ran, read>>
      /\ truth' = [r \in Req |-> IF r \in info[n].batch THEN truth[r] + 1 ELSE truth[r]]
      /\ mem' = Holding(Id("tokens", n), None)
  BY DEF RunPooler
<1> QED BY <1>1, MemoryKept DEF SameSteps, SamePlans

\* The drafter.
LEMMA DrafterDoes ==
  ASSUME StreamInv, RunDraft, NEW n, n = Now("default")
  PROVE  /\ Runs("default", "draft") /\ SameSteps
         /\ UNCHANGED <<info, pending, host, dev, ran, truth, read>>
         /\ Holds(Id("drafts", n), n)'
         /\ \A t, v : Holds(t, v) /\ t \notin Taken /\ t # Id("drafts", n) => Holds(t, v)'
<1>1. /\ Runs("default", "draft") /\ UNCHANGED <<info, pending, host, dev, ran, truth, read>>
      /\ mem' = Holding(Id("drafts", n), n)
  BY DEF RunDraft, history
<1> QED BY <1>1, MemoryKept DEF SameSteps, SamePlans

\* The other operations of the default stream, which no number depends on.
LEMMA OtherRuns ==
  ASSUME StreamInv, RunClone \/ DownloadExperts \/ DownloadToList
  PROVE  /\ \E kind \in {"clone", "experts", "tokens"} : Runs("default", kind)
         /\ SameSteps
         /\ UNCHANGED <<info, pending, dev, ran, truth, read>>
         /\ UNCHANGED <<host.inputs, host.computed, host.counts, host.drafts>>
         /\ \A t, v : Holds(t, v) /\ t \notin Taken /\ t[1] # "clones" => Holds(t, v)'
<1>1. CASE RunClone
  <2> DEFINE n == Now("default")
             v == [routing |-> dev.experts, slots |-> dev.slots]
  <2> HIDE DEF v
  <2>1. /\ Runs("default", "clone") /\ UNCHANGED <<info, pending, host, dev, ran, truth, read>>
        /\ mem' = Holding(Id("clones", n), v)
    BY <1>1 DEF RunClone, history, v
  <2> QED BY <2>1, MemoryKept, IdIs DEF SameSteps, SamePlans
<1>2. CASE DownloadExperts \/ DownloadToList
  <2>1. /\ Runs("default", "experts") \/ Runs("default", "tokens")
        /\ UNCHANGED <<info, pending, dev, mem, ran, truth, read>>
    BY <1>2 DEF DownloadExperts, DownloadToList, history
  <2>2. UNCHANGED <<host.inputs, host.computed, host.counts, host.drafts>>
    BY <1>2, Buffers DEF DownloadExperts, DownloadToList
  <2> QED BY <2>1, <2>2, MemoryKept DEF SameSteps, SamePlans
<1> QED BY <1>1, <1>2

\* A download on a stream of its own.
LEMMA DownloadDoes ==
  ASSUME StreamInv, NEW s \in {"output", "draft", "count"}, NEW kind, Runs(s, kind), info' = info
  PROVE  /\ queue[s] # <<>> /\ queue'[s] = Tail(queue[s])
         /\ Head(queue[s]).after = NoOp \/ Head(queue[s]).after \notin Waiting
         /\ \A t \in Streams \ {s} : queue'[t] = queue[t]
         /\ UNCHANGED <<mode, pc, step, sched, taken, worker, events, freed>>
         /\ Waiting' = Waiting /\ Garbage' = Garbage /\ SameSteps
<1>1. /\ queue[s] # <<>> /\ queue' = [queue EXCEPT ![s] = Tail(@)]
      /\ Head(queue[s]).after = NoOp \/ IsDone("default", Head(queue[s]).after)
      /\ UNCHANGED <<mode, pc, step, sched, taken, worker, events, freed>>
  BY DEF Runs
<1>2. /\ queue'[s] = Tail(queue[s]) /\ \A t \in Streams \ {s} : queue'[t] = queue[t]
  BY <1>1, Buffers DEF Streams
<1>3. queue'["default"] = queue["default"]
  BY <1>2 DEF Streams
<1>4. Head(queue[s]).after = NoOp \/ Head(queue[s]).after \notin Waiting
  BY <1>1 DEF IsDone, Waiting, IdsOf
<1> QED BY <1>1, <1>2, <1>3, <1>4 DEF Waiting, Garbage, SameSteps, SamePlans

-----------------------------------------------------------------------------
(* Answers and steps.                                                      *)

\* A step of the main thread within a call, or of a stream.
Works ==
  /\ UNCHANGED <<mode, step>> /\ SamePlans
  /\ (pc' = "idle") = (pc = "idle") /\ (pc' = "prepare" => pc = "prepare")
  /\ pc' \notin {"idle", "prepare"} => Batch(step) # {}
  /\ Len(pending') = Len(pending) /\ DOMAIN pending' = DOMAIN pending
  /\ \A i \in DOMAIN pending : pending'[i].n = pending[i].n /\ pending'[i].state = pending[i].state
  /\ \A a \in Waiting' : a \in Waiting \/ (a[2] = step /\ pc # "idle" /\ Batch(step) # {})

\* The main thread's part of these.
LEMMA MainWorks ==
  ASSUME StreamInv, StepsReal,
         \/ Prepare \/ LaunchForward \/ CorrectCounts \/ SampleTokens \/ Propose \/ DownloadTokens
         \/ TakeDrafts \/ \E wanted : CopyDrafts(wanted) \/ ZeroDrafts(wanted)
  PROVE  Works
<1>1. step \in Nat /\ (pc # "idle" => step \in 1 .. step)
  BY Known
<1>2. CASE Prepare
  BY <1>1, <1>2, PrepareDoes, IdIs DEF Works, Batch
<1>3. CASE LaunchForward \/ CorrectCounts \/ SampleTokens
  BY <1>1, <1>3, LaunchDoes, CorrectDoes, SampleDoes, IdIs DEF Works, Batch, StepsReal, SameSteps
<1>4. CASE Propose
  BY <1>1, <1>4, ProposeDoes, IdIs DEF Works, Batch, StepsReal, SameSteps
<1>6. CASE DownloadTokens
  BY <1>1, <1>6, DownloadTokensDoes, IdIs DEF Works, Batch, StepsReal, SameSteps
<1>7. CASE TakeDrafts
  BY <1>1, <1>7, TakeDraftsDoes DEF Works, Batch, StepsReal, SameSteps
<1>5. CASE \E wanted : CopyDrafts(wanted) \/ ZeroDrafts(wanted)
  BY <1>1, <1>5, CopyDraftsDoes, ZeroDraftsDoes DEF Works, Batch, StepsReal, SameSteps
<1> QED BY <1>2, <1>3, <1>4, <1>5, <1>6, <1>7

\* And the streams'.
LEMMA StreamsWork ==
  ASSUME StreamInv, StepsReal, DefaultStream \/ DownloadOutput \/ DownloadDrafts \/ DownloadCounts
  PROVE  Works
<1>1. step \in Nat /\ (pc # "idle" => step \in 1 .. step)
  BY Known
<1>2. ASSUME NEW kind, Runs("default", kind), SamePlans, pending' = pending
      PROVE  Works
  BY <1>1, <1>2, HeadRuns DEF Works, Batch, StepsReal
<1>3. CASE RunUpload \/ RunForward \/ RunPooler \/ RunDraft
  BY <1>2, <1>3, UploadDoes, ForwardDoes, PoolerDoes, DrafterDoes DEF SameSteps
<1>4. CASE RunClone \/ DownloadExperts \/ DownloadToList
  BY <1>2, <1>4, OtherRuns DEF SameSteps
<1>5. CASE \E acc \in DraftCounts : RunSample(acc)
  BY <1>2, <1>5, SamplerDoes
<1>6. ASSUME NEW s \in {"output", "draft", "count"}, NEW kind, Runs(s, kind), info' = info,
             Len(pending') = Len(pending), DOMAIN pending' = DOMAIN pending,
             \A i \in DOMAIN pending : pending'[i].n = pending[i].n
                                       /\ pending'[i].state = pending[i].state
      PROVE  Works
  BY <1>1, <1>6, DownloadDoes DEF Works, Batch, StepsReal, SameSteps
<1>7. CASE DownloadDrafts \/ DownloadCounts
  BY <1>6, <1>7 DEF DownloadDrafts, DownloadCounts
<1>8. CASE DownloadOutput
  <2>1. pending \in Seq(Outs) /\ \A i \in DOMAIN pending : pending[i] \in Outs
    BY Typed DEF StreamInv, StreamTypes, EngineTypes
  <2>2. /\ DOMAIN pending' = DOMAIN pending
        /\ \A i \in DOMAIN pending : pending'[i].n = pending[i].n
                                     /\ pending'[i].state = pending[i].state
    BY <1>8, <2>1 DEF DownloadOutput, Outs
  <2>3. Len(pending') = Len(pending)
    <3>1. DOMAIN pending = 1 .. Len(pending) /\ Len(pending) \in Nat
      BY <2>1
    <3>2. pending' \in Seq(Outs)
      BY <1>8, NextStreams DEF Next, StreamInv, StreamTypes, EngineTypes
    <3> QED BY <2>2, <3>1, <3>2, LenProperties
  <2> QED BY <1>6, <1>8, <2>2, <2>3 DEF DownloadOutput
<1> QED BY <1>3, <1>4, <1>5, <1>7, <1>8 DEF DefaultStream

\* The main thread's answers.
LEMMA AnswersSent ==
  ASSUME StreamInv, StepsReal, ModeRight,
         AnswerEmpty \/ ReturnTokens \/ ReturnAsync \/ \E finished \in mode.finishes : Pool(finished)
  PROVE  \E state \in {"got", "copying"} :
           /\ UNCHANGED <<mode, step>> /\ SamePlans /\ Answers(state)
           /\ pc # "idle" /\ pc' = "idle"
           /\ \A a \in Waiting' : a \in Waiting \/ (a[2] = step /\ a[1] \in {"clone", "pooler"}
                                                    /\ Batch(step) # {})
           /\ ~mode.async => Batch(step) # {}
           /\ state = "got" /\ ~mode.async => Gone(step)'
<1>1. step \in Nat /\ (pc # "idle" => step \in 1 .. step)
  BY Known
<1>2. CASE AnswerEmpty
  BY <1>1, <1>2, EmptyDoes DEF Batch, StepsReal, SameSteps
<1>3. CASE ReturnTokens
  <2>1. Gone(step)
    BY <1>3, ReturnTokensDoes DEF StreamInv, WorkRight, OnHost
  <2>2. Gone(step)'
    BY <1>3, <2>1, ReturnTokensDoes DEF Gone
  <2> QED BY <1>1, <1>3, <2>2, ReturnTokensDoes DEF Batch, StepsReal, SameSteps
<1>4. CASE ReturnAsync
  BY <1>1, <1>4, ReturnAsyncDoes, IdIs DEF Batch, StepsReal, SameSteps
<1>5. ASSUME NEW finished \in mode.finishes, Pool(finished)
      PROVE  \E state \in {"got", "copying"} :
               /\ UNCHANGED <<mode, step>> /\ SamePlans /\ Answers(state)
               /\ pc # "idle" /\ pc' = "idle"
               /\ \A a \in Waiting' : a \in Waiting \/ (a[2] = step /\ a[1] \in {"clone", "pooler"}
                                                        /\ Batch(step) # {})
               /\ ~mode.async => Batch(step) # {}
               /\ state = "got" /\ ~mode.async => Gone(step)'
  <2>1. mode.pool /\ finished \in BOOLEAN
    BY <1>5, PoolDoes, Buffers DEF StreamInv, WorkRight, PoolingOnly, Mode
  <2>2. ~mode.async => finished
    BY <1>5, <2>1 DEF ModeRight
  <2> QED BY <1>1, <1>5, <2>1, <2>2, PoolDoes, IdIs DEF Batch, StepsReal, SameSteps
<1> QED BY <1>2, <1>3, <1>4, <1>5

\* The batches of the steps there were.
LEMMA BatchKept ==
  ASSUME StreamInv, SamePlans, step' \in Nat, step' >= step
  PROVE  /\ \A n : n <= step => Batch(n)' = Batch(n)
         /\ \A n \in 1 .. step : Batch(n) = info[n].batch
         /\ \A n \in 1 .. step' : Batch(n)' = info'[n].batch
  BY Known DEF SamePlans, Batch

\* Which steps wait for their answers to be taken.
LEMMA AnswersKept ==
  ASSUME StreamInv, NumbersRight, [Next]_vars
  PROVE  AnswersRight'
<1> USE DEF NumbersRight
<1>1. /\ step \in Nat /\ (pc # "idle" => step \in 1 .. step)
      /\ pending \in Seq(Outs) /\ Len(pending) \in Nat /\ DOMAIN pending = 1 .. Len(pending)
      /\ mode \in Mode
  BY Known, Buffers DEF StreamInv, StreamTypes, EngineTypes
<1>2. \A i \in DOMAIN pending : pending[i].n \in 1 .. step /\ (pc # "idle" => pending[i].n < step)
  BY DEF StreamInv, PendingRight, OutputRight
<1>3. \A a \in Waiting : a[2] \in 1 .. step
  BY Known
<1>12. /\ \A i \in DOMAIN pending :
            pending[i].n = (IF pc = "idle" THEN step ELSE step - 1) - Len(pending) + i
       /\ InFlight <= (IF mode.async THEN 2 ELSE 1)
  BY DEF AnswersRight
<1>13. \A a \in Waiting : a[1] = "sample" => Unanswered(a[2])
  BY DEF AnswersRight
<1>14. ~mode.async => \A n \in 1 .. step : ~info[n].dummy => Unanswered(n) \/ Gone(n)
  BY DEF AnswersRight
<1>15. ~mode.async => \A i \in DOMAIN pending : pending[i].state = "got" => Gone(pending[i].n)
  BY DEF AnswersRight
<1>16. ASSUME /\ \A i \in DOMAIN pending' :
                   pending'[i].n = (IF pc' = "idle" THEN step' ELSE step' - 1) - Len(pending') + i
              /\ InFlight' <= (IF mode'.async THEN 2 ELSE 1)
              /\ mode'.async /\ pc' = "idle" /\ step' < MaxSteps /\ Batch(step)' # {} =>
                   pending' # <<>>,
              \A a \in Waiting' : a[1] = "sample" => Unanswered(a[2])',
              ~mode'.async => \A n \in 1 .. step' : ~info'[n].dummy => Unanswered(n)' \/ Gone(n)',
              ~mode'.async => \A i \in DOMAIN pending' :
                                pending'[i].state = "got" => Gone(pending[i].n)'
       PROVE  AnswersRight'
  BY <1>16 DEF AnswersRight
<1>4. ASSUME Works
      PROVE  AnswersRight'
  <2>1. Batch(step)' = Batch(step) /\ \A n \in 1 .. step : info'[n].dummy = info[n].dummy
    BY <1>1, <1>4, BatchKept DEF Works, SamePlans
  <2>2. \A n : Unanswered(n)' <=> Unanswered(n)
    BY <1>4 DEF Works, Unanswered
  <2>3. \A n \in 1 .. step : Gone(n) /\ (n < step \/ pc = "idle") => Gone(n)'
    BY <1>1, <1>4 DEF Works, Gone
  <2>4. /\ \A i \in DOMAIN pending' :
             pending'[i].n = (IF pc' = "idle" THEN step' ELSE step' - 1) - Len(pending') + i
        /\ InFlight' <= (IF mode'.async THEN 2 ELSE 1)
        /\ mode'.async /\ pc' = "idle" /\ step' < MaxSteps /\ Batch(step)' # {} => pending' # <<>>
    BY <1>1, <1>4, <2>1 DEF Works, AnswersRight, InFlight
  <2>5. \A a \in Waiting' : a[1] = "sample" => Unanswered(a[2])'
    BY <1>4, <2>2 DEF Works, AnswersRight, Unanswered
  <2>6. \A n \in 1 .. step : n < step \/ pc = "idle" \/ Unanswered(n)
    BY <1>1 DEF Unanswered
  <2>7. ~mode.async => \A n \in 1 .. step : ~info'[n].dummy => Unanswered(n)' \/ Gone(n)'
    BY <1>14, <2>1, <2>2, <2>3, <2>6
  <2>8. ~mode.async => \A i \in DOMAIN pending :
                         pending[i].state = "got" => \A a \in Waiting' : pending[i].n < a[2]
    BY <1>2, <1>15, <2>3 DEF Gone
  <2>9. ~mode'.async => \A i \in DOMAIN pending' :
                          pending'[i].state = "got" => Gone(pending[i].n)'
    BY <1>4, <2>8 DEF Works, Gone
  <2>10. ~mode'.async => \A n \in 1 .. step' : ~info'[n].dummy => Unanswered(n)' \/ Gone(n)'
    BY <1>4, <2>7 DEF Works
  <2> QED BY <1>16, <2>4, <2>5, <2>9, <2>10
<1>5. ASSUME NEW i \in DOMAIN pending, GetOutput(i)
      PROVE  AnswersRight'
  <2>1. Gone(pending[i].n)
    BY <1>5, GetDoes DEF StreamInv, PendingRight, OutputRight
  <2>2. /\ \A n : (Unanswered(n)' <=> Unanswered(n)) /\ (Gone(n)' <=> Gone(n))
        /\ Batch(step)' = Batch(step)
    BY <1>5, GetDoes DEF Unanswered, Gone, Batch
  <2>3. pending = <<>> <=> pending' = <<>>
    BY <1>1, <1>5, GetDoes
  <2>4. /\ UNCHANGED <<mode, pc, step, info>> /\ Waiting' = Waiting
        /\ Len(pending') = Len(pending) /\ DOMAIN pending' = DOMAIN pending
        /\ \A j \in DOMAIN pending :
             /\ pending'[j].n = pending[j].n
             /\ pending'[j].state = IF j = i THEN "got" ELSE pending[j].state
    BY <1>5, GetDoes
  <2>5. mode.async /\ pc = "idle" /\ step < MaxSteps /\ Batch(step) # {} => pending # <<>>
    BY DEF AnswersRight
  <2>6. InFlight' = InFlight
    BY <2>4 DEF InFlight
  <2>7. ~mode'.async => \A j \in DOMAIN pending' :
                          pending'[j].state = "got" => Gone(pending[j].n)'
    BY <1>15, <2>1, <2>2, <2>4 DEF Gone
  <2> QED BY <1>12, <1>13, <1>14, <1>16, <2>2, <2>3, <2>4, <2>5, <2>6, <2>7
<1>6. ASSUME NEW state \in {"got", "copying"}, UNCHANGED <<mode, step>>, SamePlans, Answers(state),
             pc # "idle", pc' = "idle",
             \A a \in Waiting' : a \in Waiting \/ (a[2] = step /\ a[1] \in {"clone", "pooler"}),
             state = "got" /\ ~mode.async => Gone(step)'
      PROVE  AnswersRight'
  <2>1. \A n \in 1 .. step : info'[n].dummy = info[n].dummy
    BY <1>6 DEF SamePlans
  <2>2. \A n : Unanswered(n)' <=> Unanswered(n)
    BY <1>1, <1>6 DEF Answers, Unanswered
  <2>3. \A n \in 1 .. step : Gone(n) /\ n < step => Gone(n)'
    BY <1>1, <1>6 DEF Gone
  <2>4. /\ \A i \in DOMAIN pending' : pending'[i].n = step' - Len(pending') + i
        /\ InFlight' <= (IF mode'.async THEN 2 ELSE 1) /\ pending' # <<>>
    BY <1>1, <1>6 DEF Answers, AnswersRight, InFlight
  <2>5. \A a \in Waiting' : a[1] = "sample" => Unanswered(a[2])'
    BY <1>6, <2>2 DEF AnswersRight
  <2>6. ~mode'.async => \A n \in 1 .. step' : ~info'[n].dummy => Unanswered(n)' \/ Gone(n)'
    BY <1>1, <1>6, <1>14, <2>1, <2>2, <2>3 DEF Unanswered
  <2>7. ~mode.async => \A i \in DOMAIN pending :
                         pending[i].state = "got" => \A a \in Waiting' : pending[i].n < a[2]
    BY <1>2, <1>6, <1>15, <2>3 DEF Gone
  <2>8. \A i \in DOMAIN pending' : i \in DOMAIN pending \/ i = Len(pending')
    BY <1>1, <1>6 DEF Answers
  <2>9. ~mode'.async => \A i \in DOMAIN pending' :
                          pending'[i].state = "got" => Gone(pending[i].n)'
    BY <1>6, <2>7, <2>8 DEF Answers, Gone
  <2> QED BY <1>6, <1>16, <2>4, <2>5, <2>6, <2>9
<1>7. ASSUME NEW b \in SUBSET Req, NEW d \in DraftCounts, PlanStep(b, d)
      PROVE  AnswersRight'
  <2>1. PICK c : c = step + 1
    OBVIOUS
  <2>2. /\ pc = "idle" /\ pc' = "prepare" /\ step' = c /\ UNCHANGED <<mode, pending>>
        /\ Waiting' = Waiting /\ SameSteps /\ \A n \in 1 .. step' : n = c \/ n \in 1 .. step
    BY <1>7, <2>1, PlanDoes
  <2>3. IF mode.async THEN InFlight < 2 ELSE InFlight = 0
    BY <1>7 DEF PlanStep
  <2>4. \A n : (Unanswered(n)' <=> Unanswered(n) \/ n = c) /\ (Gone(n)' <=> Gone(n))
    BY <2>2 DEF Unanswered, Gone
  <2>5. /\ \A i \in DOMAIN pending' : pending'[i].n = step' - 1 - Len(pending') + i
        /\ InFlight' <= (IF mode'.async THEN 2 ELSE 1)
    BY <1>1, <2>1, <2>2, <2>3 DEF AnswersRight, InFlight
  <2> QED BY <2>2, <2>4, <2>5 DEF AnswersRight, SameSteps, SamePlans
<1>8. CASE TakeOutput
  <2>1. PICK o : o = Head(pending)
    OBVIOUS
  <2>2. /\ 1 \in DOMAIN pending /\ o = pending[1] /\ o.state = "got"
        /\ \A i \in DOMAIN pending' : i + 1 \in DOMAIN pending /\ pending'[i] = pending[i + 1]
        /\ \A i \in DOMAIN pending : i = 1 \/ i - 1 \in DOMAIN pending'
        /\ DOMAIN pending' = 1 .. Len(pending') /\ Len(pending') = Len(pending) - 1
        /\ Waiting' = Waiting /\ UNCHANGED <<mode, pc, step, info>>
        /\ mode.async => InFlight = 2 \/ info[step].batch = {} \/ step = MaxSteps
        /\ OutputRight(o)
    BY <1>8, <2>1, TakeDoes
  <2>3. /\ \A n : Unanswered(n)' \/ n = o.n <=> Unanswered(n) \/ n = o.n
        /\ \A n : Gone(n)' <=> Gone(n)
    <3>1. \A i \in DOMAIN pending : i = 1 \/ pending'[i - 1] = pending[i]
      BY <1>1, <2>2
    <3> QED BY <1>1, <2>2, <3>1 DEF Unanswered, Gone
  <2>4. /\ \A i \in DOMAIN pending' :
             pending'[i].n = (IF pc' = "idle" THEN step' ELSE step' - 1) - Len(pending') + i
        /\ InFlight' <= (IF mode'.async THEN 2 ELSE 1)
    BY <1>1, <2>2 DEF AnswersRight, InFlight
  <2>5. mode.async /\ pc = "idle" /\ step < MaxSteps /\ Batch(step) # {} => pending' # <<>>
    BY <1>1, <2>2 DEF Batch, InFlight
  <2>6. Id("sample", o.n) \notin Waiting
    BY <2>2 DEF OutputRight
  <2>7. \A a \in Waiting : a[1] = "sample" => a[2] # o.n
    BY <2>6, Known
  <2>8. ~mode.async => Gone(o.n)
    BY <2>2 DEF AnswersRight
  <2> QED BY <2>2, <2>3, <2>4, <2>5, <2>7, <2>8 DEF AnswersRight, Batch
<1>9. CASE DummyRun
  <2>1. PICK c : c = step + 1
    OBVIOUS
  <2>2. /\ pc = "idle" /\ pc' = "idle" /\ step' = c /\ pending = <<>> /\ UNCHANGED <<mode, pending>>
        /\ Waiting' = Waiting \cup {Id("upload", c), Id("forward", c)} /\ SameSteps
        /\ \A n \in 1 .. step' : n = c \/ n \in 1 .. step
        /\ info'[c].batch = {} /\ info'[c].dummy
    BY <1>9, <2>1, DummyDoes
  <2>3. \A n : ~Unanswered(n)
    BY <2>2 DEF Unanswered
  <2>4. \A n \in 1 .. step : Gone(n) => Gone(n)'
    BY <1>1, <2>1, <2>2, IdIs DEF Gone
  <2>5. Batch(c)' = {}
    BY <2>2 DEF Batch
  <2>6. \A a \in Waiting' : a[1] # "sample"
    BY <2>2, <2>3, IdIs DEF AnswersRight
  <2>7. Len(pending') = 0 /\ DOMAIN pending' = {}
    BY <2>2
  <2>8. InFlight' <= (IF mode'.async THEN 2 ELSE 1)
    BY <2>2, <2>7 DEF InFlight
  <2> QED BY <2>2, <2>3, <2>4, <2>5, <2>6, <2>7, <2>8 DEF AnswersRight, SameSteps, SamePlans
<1>10. CASE UNCHANGED vars
  <2>1. UNCHANGED <<mode, pc, step, info, pending, queue>>
    BY <1>10 DEF vars, engine, gpu
  <2> QED BY <2>1 DEF AnswersRight, InFlight, Batch, Waiting, Unanswered, Gone
<1>11. CASE AnswerEmpty \/ ReturnTokens \/ ReturnAsync \/ \E finished \in mode.finishes : Pool(finished)
  BY <1>6, <1>11, AnswersSent
<1> QED
  BY <1>4, <1>5, <1>7, <1>8, <1>9, <1>10, <1>11, MainWorks, StreamsWork
     DEF Next, Engine, MainThread, OutputThread

\* Only steps with requests go on from their preparation, and leave something to do.
LEMMA StepsKept ==
  ASSUME StreamInv, NumbersRight, [Next]_vars
  PROVE  StepsReal'
<1> USE DEF NumbersRight
<1>1. step \in Nat /\ (pc # "idle" => step \in 1 .. step) /\ \A a \in Waiting : a[2] \in 1 .. step
  BY Known
<1>2. ASSUME UNCHANGED <<mode, step>>, SamePlans, pc' = "idle" \/ pc # "idle",
             pc' \notin {"idle", "prepare"} => Batch(step) # {},
             \A a \in Waiting' : a \in Waiting \/ (a[2] = step /\ Batch(step) # {})
      PROVE  StepsReal'
  <2>1. \A n \in 1 .. step : Batch(n)' = Batch(n) /\ info'[n].dummy = info[n].dummy
    BY <1>1, <1>2, BatchKept DEF SamePlans
  <2>2. Batch(step)' = Batch(step)
    BY <1>1, <1>2, BatchKept
  <2> QED BY <1>1, <1>2, <2>1, <2>2 DEF StepsReal
<1>3. CASE Works
  BY <1>2, <1>3 DEF Works
<1>4. CASE AnswerEmpty \/ ReturnTokens \/ ReturnAsync \/ \E finished \in mode.finishes : Pool(finished)
  BY <1>2, <1>4, AnswersSent
<1>5. ASSUME NEW b \in SUBSET Req, NEW d \in DraftCounts, PlanStep(b, d)
      PROVE  StepsReal'
  <2>1. PICK c : c = step + 1
    OBVIOUS
  <2>2. /\ pc' = "prepare" /\ step' = c /\ mode' = mode /\ c \in Nat
        /\ Waiting' = Waiting /\ SameSteps /\ \A n \in 1 .. step' : n = c \/ n \in 1 .. step
        /\ info'[c].batch = b /\ ~info'[c].dummy
    BY <1>5, <2>1, PlanDoes
  <2>5. c \in 1 .. step'
    BY <1>1, <2>1, <2>2
  <2>3. \A n \in 1 .. step : Batch(n)' = Batch(n) /\ info'[n].dummy = info[n].dummy
    BY <1>1, <2>1, <2>2, BatchKept DEF SameSteps, SamePlans
  <2>4. Batch(c)' = b /\ (b = {} => mode.async)
    BY <1>5, <2>2, <2>5 DEF Batch, PlanStep
  <2> QED BY <1>1, <2>2, <2>3, <2>4, <2>5 DEF StepsReal
<1>6. CASE DummyRun
  <2>1. PICK c : c = step + 1
    OBVIOUS
  <2>2. /\ pc' = "idle" /\ step' = c /\ mode' = mode /\ c \in Nat
        /\ Waiting' = Waiting \cup {Id("upload", c), Id("forward", c)} /\ SameSteps
        /\ \A n \in 1 .. step' : n = c \/ n \in 1 .. step
        /\ c \in 1 .. step' /\ info'[c].batch = {} /\ info'[c].dummy
    BY <1>6, <2>1, DummyDoes
  <2>3. \A n \in 1 .. step : Batch(n)' = Batch(n) /\ info'[n].dummy = info[n].dummy
    BY <1>1, <2>1, <2>2, BatchKept DEF SameSteps, SamePlans
  <2>4. Batch(c)' = {}
    BY <2>2 DEF Batch
  <2> QED BY <1>1, <2>2, <2>3, <2>4, IdIs DEF StepsReal
<1>7. CASE TakeOutput \/ (\E i \in DOMAIN pending : GetOutput(i)) \/ UNCHANGED vars
  <2>1. UNCHANGED <<mode, pc, step, info>> /\ Waiting' = Waiting
    BY <1>7, TakeDoes, GetDoes DEF vars, gpu, engine, Waiting
  <2> QED BY <2>1 DEF StepsReal, Batch
<1> QED
  BY <1>3, <1>4, <1>5, <1>6, <1>7, MainWorks, StreamsWork
     DEF Next, Engine, MainThread, OutputThread

-----------------------------------------------------------------------------
(* Plans, and the runner's own state.                                      *)

\* All other steps leave the calls as they are.
LEMMA Rest ==
  ASSUME StreamInv, NumbersRight, [Next]_vars
  PROVE  \/ \E b \in SUBSET Req, d \in DraftCounts : PlanStep(b, d)
         \/ DummyRun
         \/ Prepare
         \/ \E acc \in DraftCounts : RunSample(acc)
         \/ /\ UNCHANGED <<mode, step>> /\ SameSteps /\ (pc' = "prepare" => pc = "prepare")
            /\ pc = "prepare" /\ pc' # "prepare" => Batch(step) = {}
<1> DEFINE Same == /\ UNCHANGED <<mode, step>> /\ SameSteps /\ (pc' = "prepare" => pc = "prepare")
                   /\ pc = "prepare" /\ pc' # "prepare" => Batch(step) = {}
<1>1. CASE TakeOutput \/ TakeDrafts \/ \E i \in DOMAIN pending : GetOutput(i)
  <2>1. UNCHANGED <<mode, step, pc>> /\ SameSteps
    BY <1>1, TakeDoes, TakeDraftsDoes, GetDoes
  <2> QED BY <2>1
<1>2. CASE AnswerEmpty \/ LaunchForward \/ CorrectCounts \/ SampleTokens \/ Propose
  BY <1>2, EmptyDoes, LaunchDoes, CorrectDoes, SampleDoes, ProposeDoes DEF Batch
<1>3. CASE \E wanted : CopyDrafts(wanted) \/ ZeroDrafts(wanted)
  BY <1>3, CopyDraftsDoes, ZeroDraftsDoes
<1>4. CASE DownloadTokens \/ ReturnTokens \/ ReturnAsync
  BY <1>4, DownloadTokensDoes, ReturnTokensDoes, ReturnAsyncDoes
<1>5. CASE \E finished : Pool(finished)
  BY <1>5, PoolDoes
<1>6. CASE RunUpload \/ RunForward \/ RunDraft \/ RunPooler
  <2>1. (\E kind : Runs("default", kind)) /\ SameSteps
    BY <1>6, UploadDoes, ForwardDoes, DrafterDoes, PoolerDoes
  <2>2. UNCHANGED <<mode, step, pc>>
    BY <2>1 DEF Runs
  <2> QED BY <2>1, <2>2
<1>7. CASE RunClone \/ DownloadExperts \/ DownloadToList
  <2>1. (\E kind : Runs("default", kind)) /\ SameSteps
    BY <1>7, OtherRuns
  <2>2. UNCHANGED <<mode, step, pc>>
    BY <2>1 DEF Runs
  <2> QED BY <2>1, <2>2
<1>8. CASE DownloadOutput \/ DownloadDrafts \/ DownloadCounts
  <2>1. UNCHANGED <<mode, step, pc, info>>
    BY <1>8 DEF DownloadOutput, DownloadDrafts, DownloadCounts, Runs
  <2> QED BY <2>1 DEF SameSteps, SamePlans
<1>9. CASE UNCHANGED vars
  BY <1>9 DEF vars, SameSteps, SamePlans
<1> QED
  BY <1>1, <1>2, <1>3, <1>4, <1>5, <1>6, <1>7, <1>8, <1>9
     DEF Next, Engine, MainThread, OutputThread, DefaultStream

\* The requests of a step whose corrections are to come stay.
LEMMA DeferredKept ==
  ASSUME StreamInv, SamePlans, mode' = mode, step' \in Nat, step' >= step
  PROVE  \A n \in 1 .. step : DeferredOf(n)' = DeferredOf(n)
<1>1. step \in Nat
  BY Known
<1>2. ASSUME NEW n \in 1 .. step
      PROVE  DeferredOf(n)' = DeferredOf(n)
  <2>1. Batch(n)' = Batch(n) /\ Batch(n - 1)' = Batch(n - 1)
    BY <1>1, BatchKept
  <2>2. n - 1 \in 1 .. step \/ Batch(n - 1) = {}
    BY <1>1 DEF Batch
  <2>3. n - 1 \in 1 .. step => info'[n - 1].d = info[n - 1].d
    BY DEF SamePlans
  <2> QED BY <2>1, <2>2, <2>3 DEF DeferredOf
<1> QED BY <1>2

\* The plans of the steps, and what was assumed of the step before each.
LEMMA PlansKept ==
  ASSUME StreamInv, NumbersRight, [Next]_vars
  PROVE  PlansRight'
<1> USE DEF NumbersRight
<1>1. /\ step \in Nat /\ (pc # "idle" => step \in 1 .. step)
      /\ \A n \in 1 .. step, r \in Req : /\ info[n].d[r] \in Int /\ info[n].acc[r] \in Int
                                         /\ info[n].assumed[r] \in Int
  BY Known
<1>2. /\ \A n \in 1 .. step, r \in Req :
           /\ 0 <= info[n].acc[r] /\ info[n].acc[r] <= info[n].d[r]
           /\ r \notin Batch(n) \/ mode.pool => info[n].d[r] = 0
      /\ \A n \in 1 .. step : Batch(n) # {} /\ (n < step \/ pc # "prepare") =>
           /\ \A r \in Req :
                info[n].assumed[r] = IF r \in DeferredOf(n) THEN info[n - 1].d[r] ELSE 0
           /\ info[n].part = DeferredOf(n) /\ (DeferredOf(n) # {} => info[n].src = n - 1)
  BY DEF PlansRight
<1>3. \A n \in 1 .. step : \A r \in DeferredOf(n) : n - 1 \in 1 .. step
  BY <1>1 DEF DeferredOf, Batch
<1>4. ASSUME UNCHANGED <<mode, step>>, SamePlans,
             \A n \in 1 .. step, r \in Req :
               0 <= info'[n].acc[r] /\ info'[n].acc[r] <= info[n].d[r],
             \A n \in 1 .. step :
               Batch(n) # {} /\ (n < step \/ pc' # "prepare") =>
                 /\ \A r \in Req : info'[n].assumed[r] =
                                     IF r \in DeferredOf(n) THEN info[n - 1].d[r] ELSE 0
                 /\ info'[n].part = DeferredOf(n) /\ (DeferredOf(n) # {} => info'[n].src = n - 1)
      PROVE  PlansRight'
  <2>1. /\ \A n \in 1 .. step : Batch(n)' = Batch(n) /\ DeferredOf(n)' = DeferredOf(n)
        /\ \A n \in 1 .. step : info'[n].d = info[n].d
    BY <1>1, <1>4, BatchKept, DeferredKept DEF SamePlans
  <2>2. \A n \in 1 .. step, r \in Req :
          r \in DeferredOf(n) => info'[n - 1].d[r] = info[n - 1].d[r]
    BY <1>3, <2>1
  <2> QED BY <1>2, <1>4, <2>1, <2>2 DEF PlansRight
<1>5. CASE /\ UNCHANGED <<mode, step>> /\ SameSteps /\ (pc' = "prepare" => pc = "prepare")
           /\ pc = "prepare" /\ pc' # "prepare" => Batch(step) = {}
  <2>1. SamePlans
    BY <1>5 DEF SameSteps
  <2>2. \A n \in 1 .. step : Batch(n) # {} /\ (n < step \/ pc' # "prepare") =>
          n < step \/ pc # "prepare"
    BY <1>1, <1>5
  <2> QED BY <1>2, <1>4, <1>5, <2>1, <2>2 DEF SameSteps
<1>6. ASSUME NEW acc \in DraftCounts, RunSample(acc)
      PROVE  PlansRight'
  <2>1. PICK h : h = Now("default")
    OBVIOUS
  <2>2. Runs("default", "sample") /\ SamePlans /\ h \in 1 .. step /\ UNCHANGED <<mode, step, pc>>
    BY <1>6, <2>1, SamplerDoes, HeadRuns
  <2>3. /\ \A r \in Req : 0 <= acc[r] /\ acc[r] <= info[h].d[r]
        /\ info'[h].acc = acc
        /\ \A m \in 1 .. step : /\ m # h => info'[m].acc = info[m].acc
                                /\ info'[m].assumed = info[m].assumed
                                /\ info'[m].part = info[m].part /\ info'[m].src = info[m].src
    <3>1. \A r \in Req : 0 <= acc[r] /\ acc[r] <= info[h].d[r]
      BY <1>6, <2>1, SamplerDoes
    <3>2. info' = [info EXCEPT ![h].acc = acc]
      BY <1>6, <2>1 DEF RunSample
    <3>3. DOMAIN info = 1 .. step /\ info \in Seq(Infos) /\ \A m \in 1 .. step : info[m] \in Infos
      BY Known
    <3> QED BY <2>2, <3>1, <3>2, <3>3 DEF Infos
  <2>4. ASSUME NEW n \in 1 .. step, NEW r \in Req
        PROVE  0 <= info'[n].acc[r] /\ info'[n].acc[r] <= info[n].d[r]
    <3>1. CASE n = h
      BY <2>3, <3>1
    <3>2. CASE n # h
      BY <1>2, <2>3, <3>2
    <3> QED BY <3>1, <3>2
  <2> QED BY <1>2, <1>4, <2>2, <2>3, <2>4
<1>7. CASE Prepare
  <2>1. /\ pc = "prepare" /\ pc' = "launch" /\ UNCHANGED <<mode, step>> /\ SamePlans
        /\ \A n \in 1 .. step : /\ info'[n].acc = info[n].acc
                                /\ n # step => /\ info'[n].assumed = info[n].assumed
                                               /\ info'[n].part = info[n].part
                                               /\ info'[n].src = info[n].src
    BY <1>7, PrepareDoes
  <2>2. /\ \A r \in Req : info'[step].assumed[r] =
             IF r \in Deferred(info[step].batch) THEN worker.drafted[r] ELSE 0
        /\ info'[step].part = IF worker.counts = 0 THEN {}
                              ELSE Deferred(info[step].batch) \cap worker.prevRows
        /\ info'[step].src = worker.counts
    BY <1>7, PrepareDoes
  <2>3. /\ mode.async => /\ worker.rows = Batch(step - 1)
                         /\ \A r \in worker.rows : worker.drafted[r] = info[step - 1].d[r]
        /\ mode.async /\ ~mode.pool /\ Batch(step - 1) # {} =>
             worker.counts = step - 1 /\ worker.prevRows = Batch(step - 1)
    BY <2>1 DEF WorkerRight, Early
  <2>4. info[step].batch = Batch(step) /\ Batch(step) \subseteq Req
    BY <1>1, <2>1, Known DEF Batch
  <2>5. Deferred(info[step].batch) = DeferredOf(step)
    BY <2>3, <2>4 DEF Deferred, DeferredOf
  <2>6. \A r \in DeferredOf(step) :
          /\ mode.async /\ step - 1 \in 1 .. step /\ r \in Batch(step - 1) /\ ~mode.pool
          /\ r \in worker.rows
    BY <1>1, <1>2, <1>3, <2>1, <2>3, <2>4 DEF DeferredOf
  <2>7. DeferredOf(step) # {} =>
          /\ worker.counts = step - 1 /\ worker.counts # 0
          /\ DeferredOf(step) \cap worker.prevRows = DeferredOf(step)
    BY <1>1, <2>1, <2>3, <2>6
  <2>8. /\ \A r \in Req : info'[step].assumed[r] =
                            IF r \in DeferredOf(step) THEN info[step - 1].d[r] ELSE 0
        /\ info'[step].part = DeferredOf(step) /\ (DeferredOf(step) # {} => info'[step].src = step - 1)
    BY <2>2, <2>3, <2>5, <2>6, <2>7
  <2>9. ASSUME NEW n \in 1 .. step, Batch(n) # {}
        PROVE  /\ \A r \in Req : info'[n].assumed[r] =
                                   IF r \in DeferredOf(n) THEN info[n - 1].d[r] ELSE 0
               /\ info'[n].part = DeferredOf(n) /\ (DeferredOf(n) # {} => info'[n].src = n - 1)
    <3>1. CASE n = step
      BY <2>8, <3>1
    <3>2. CASE n < step
      BY <1>2, <2>1, <2>9, <3>2
    <3> QED BY <1>1, <3>1, <3>2
  <2>10. \A n \in 1 .. step, r \in Req : 0 <= info'[n].acc[r] /\ info'[n].acc[r] <= info[n].d[r]
    BY <1>2, <2>1
  <2> QED BY <1>4, <2>1, <2>9, <2>10
<1>8. ASSUME NEW c, c = step + 1, step' = c, mode' = mode, SameSteps, pc = "idle",
             \A n \in 1 .. step' : n = c \/ n \in 1 .. step,
             info'[c].acc = None,
             \A r \in Req : 0 <= info'[c].d[r] /\ (r \notin info'[c].batch \/ mode.pool => info'[c].d[r] = 0),
             info'[c].batch = {} \/ pc' = "prepare"
      PROVE  PlansRight'
  <2>1. c \in 1 .. step' /\ step' \in Nat /\ step' >= step /\ SamePlans /\ c \in Nat
    BY <1>1, <1>8 DEF SameSteps
  <2>2. /\ \A n \in 1 .. step : Batch(n)' = Batch(n) /\ DeferredOf(n)' = DeferredOf(n)
        /\ \A n \in 1 .. step : info'[n].d = info[n].d
    BY <1>1, <2>1, <1>8, BatchKept, DeferredKept DEF SamePlans
  <2>3. Batch(c)' = info'[c].batch
    BY <2>1 DEF Batch
  <2>4. \A n \in 1 .. step, r \in Req :
          r \in DeferredOf(n) => info'[n - 1].d[r] = info[n - 1].d[r]
    BY <1>3, <2>2
  <2>5. ASSUME NEW n \in 1 .. step', NEW r \in Req
        PROVE  /\ 0 <= info'[n].acc[r] /\ info'[n].acc[r] <= info'[n].d[r]
               /\ r \notin Batch(n)' \/ mode'.pool => info'[n].d[r] = 0
    <3>1. CASE n = c
      BY <1>8, <2>3, <3>1 DEF None
    <3>2. CASE n \in 1 .. step
      BY <1>2, <1>8, <2>2, <3>2 DEF SameSteps
    <3> QED BY <1>8, <3>1, <3>2
  <2>6. ASSUME NEW n \in 1 .. step', Batch(n)' # {}, n < step' \/ pc' # "prepare"
        PROVE  /\ \A r \in Req : info'[n].assumed[r] =
                                   IF r \in DeferredOf(n)' THEN info'[n - 1].d[r] ELSE 0
               /\ info'[n].part = DeferredOf(n)' /\ (DeferredOf(n)' # {} => info'[n].src = n - 1)
    <3>1. n \in 1 .. step
      BY <1>1, <1>8, <2>3, <2>6
    <3> QED BY <1>2, <1>8, <2>2, <2>4, <2>6, <3>1 DEF SameSteps
  <2> QED BY <2>5, <2>6 DEF PlansRight
<1>9. ASSUME NEW b \in SUBSET Req, NEW d \in DraftCounts, PlanStep(b, d)
      PROVE  PlansRight'
  <2>1. PICK c : c = step + 1
    OBVIOUS
  <2>2. /\ pc = "idle" /\ pc' = "prepare" /\ step' = c /\ mode' = mode /\ SameSteps
        /\ \A n \in 1 .. step' : n = c \/ n \in 1 .. step
        /\ info'[c].batch = b /\ info'[c].d = d /\ info'[c].acc = None
    BY <1>9, <2>1, PlanDoes
  <2>3. \A r \in Req : d[r] \in Int /\ 0 <= d[r] /\ (d[r] > 0 => r \in b /\ ~mode.pool)
    BY <1>9, StreamsAssumption DEF DraftCounts, PlanStep
  <2> QED BY <1>8, <2>1, <2>2, <2>3
<1>10. CASE DummyRun
  <2>1. PICK c : c = step + 1
    OBVIOUS
  <2>2. /\ pc = "idle" /\ step' = c /\ mode' = mode /\ SameSteps
        /\ \A n \in 1 .. step' : n = c \/ n \in 1 .. step
        /\ info'[c].batch = {} /\ info'[c].d = None /\ info'[c].acc = None
    BY <1>10, <2>1, DummyDoes
  <2> QED BY <1>8, <2>1, <2>2 DEF None
<1> QED BY <1>5, <1>6, <1>7, <1>9, <1>10, Rest

\* The runner's own state follows the steps it prepares, samples and returns.
LEMMA WorkerKept ==
  ASSUME StreamInv, NumbersRight, [Next]_vars
  PROVE  WorkerRight'
<1> USE DEF NumbersRight
<1>1. /\ step \in Nat /\ (pc # "idle" => step \in 1 .. step)
      /\ \A n \in 1 .. step : Batch(n) \subseteq Req
      /\ worker.counts \in Nat /\ worker.tensor \in Nat /\ worker.rows \subseteq Req
  BY Known, Buffers DEF Batch
<1>2. ASSUME UNCHANGED <<mode, step>>, SamePlans
      PROVE  /\ Batch(step)' = Batch(step) /\ Batch(step - 1)' = Batch(step - 1)
             /\ \A r \in Batch(step) : info'[step].d[r] = info[step].d[r]
             /\ \A r \in Batch(step - 1) : info'[step - 1].d[r] = info[step - 1].d[r]
  BY <1>1, <1>2, BatchKept DEF SamePlans, Batch
<1>3. ASSUME UNCHANGED <<mode, step>>, SamePlans,
             (pc' = "prepare") = (pc = "prepare"), (pc' = "idle") = (pc = "idle"),
             (pc' \in Early) = (pc \in Early), (pc' = "propose") = (pc = "propose"),
             pc' = "wait" => pc = "wait" \/ ~mode.async,
             UNCHANGED <<worker.rows, worker.drafted, worker.prevRows, worker.counts, worker.tensor>>
      PROVE  WorkerRight'
  BY <1>2, <1>3 DEF WorkerRight
<1>4. CASE TakeOutput \/ TakeDrafts \/ \E i \in DOMAIN pending : GetOutput(i)
  <2>1. UNCHANGED <<mode, step, pc>> /\ SamePlans
        /\ UNCHANGED <<worker.rows, worker.drafted, worker.prevRows, worker.counts, worker.tensor>>
    <3>1. CASE TakeOutput
      BY <3>1, TakeDoes DEF SameSteps
    <3>2. CASE TakeDrafts
      BY <3>2, TakeDraftsDoes, Buffers DEF SameSteps
    <3>3. CASE \E i \in DOMAIN pending : GetOutput(i)
      BY <3>3, GetDoes DEF SameSteps
    <3> QED BY <1>4, <3>1, <3>2, <3>3
  <2> QED BY <1>3, <2>1
<1>5. CASE DefaultStream \/ DownloadOutput \/ DownloadDrafts \/ DownloadCounts
  <2>1. UNCHANGED <<mode, step, pc, worker>>
    BY <1>5 DEF DefaultStream, DownloadOutput, DownloadDrafts, DownloadCounts, RunUpload,
                RunForward, RunSample, RunDraft, RunClone, RunPooler, DownloadExperts,
                DownloadToList, Runs
  <2>2. SamePlans
    BY <1>5, StreamsWork DEF Works
  <2> QED BY <1>3, <2>1, <2>2
<1>6. CASE LaunchForward \/ CorrectCounts \/ DownloadTokens
  <2>1. CASE LaunchForward
    <3>1. /\ UNCHANGED <<mode, step, worker>> /\ SamePlans
          /\ pc = "launch" /\ pc' \in {"pool", "correct", "sample"}
      BY <2>1, LaunchDoes DEF SameSteps
    <3> QED BY <1>3, <3>1 DEF Early
  <2>2. CASE CorrectCounts
    <3>1. UNCHANGED <<mode, step, worker>> /\ SamePlans /\ pc = "correct" /\ pc' = "sample"
      BY <2>2, CorrectDoes DEF SameSteps
    <3> QED BY <1>3, <3>1 DEF Early
  <2>3. CASE DownloadTokens
    <3>1. /\ UNCHANGED <<mode, step, worker>> /\ SamePlans
          /\ pc = "book" /\ pc' = "wait" /\ ~mode.async
      BY <2>3, DownloadTokensDoes DEF SameSteps
    <3> QED BY <1>3, <3>1 DEF Early
  <2> QED BY <1>6, <2>1, <2>2, <2>3
<1>7. CASE \E wanted : CopyDrafts(wanted)
  <2>1. /\ UNCHANGED <<mode, step>> /\ SamePlans /\ pc = "drafted" /\ pc' = "book"
        /\ UNCHANGED <<worker.rows, worker.drafted, worker.prevRows, worker.counts, worker.tensor>>
    BY <1>7, CopyDraftsDoes DEF SameSteps
  <2> QED BY <1>3, <2>1 DEF Early
<1>8. CASE Prepare
  <2>1. /\ UNCHANGED <<mode, step>> /\ SamePlans /\ pc = "prepare" /\ pc' = "launch"
        /\ UNCHANGED <<worker.prevRows, worker.counts, worker.tensor>>
        /\ worker'.rows = info[step].batch
        /\ \A r \in Req : worker'.drafted[r] = IF r \in info[step].batch THEN info[step].d[r]
                                               ELSE worker.drafted[r]
    BY <1>8, PrepareDoes
  <2>2. info[step].batch = Batch(step)
    BY <1>1, <2>1 DEF Batch
  <2> QED BY <1>1, <1>2, <2>1, <2>2 DEF WorkerRight, Early
<1>9. CASE AnswerEmpty
  <2>1. /\ UNCHANGED <<mode, step>> /\ SamePlans /\ pc = "prepare" /\ pc' = "idle"
        /\ info[step].batch = {} /\ worker' = [worker EXCEPT !.rows = {}]
    BY <1>9, EmptyDoes DEF SameSteps
  <2>2. /\ UNCHANGED <<worker.prevRows, worker.counts, worker.tensor>> /\ worker'.rows = {}
    BY <2>1, Buffers
  <2>3. Batch(step) = {}
    BY <1>1, <2>1 DEF Batch
  <2> QED BY <1>1, <1>2, <2>1, <2>2, <2>3 DEF WorkerRight, Early
<1>10. CASE SampleTokens
  <2>1. /\ UNCHANGED <<mode, step>> /\ SamePlans /\ pc = "sample" /\ pc' = "propose"
        /\ UNCHANGED <<worker.rows, worker.drafted, worker.prevRows>>
        /\ worker'.counts = 0 /\ worker'.tensor = 0
    BY <1>10, SampleDoes DEF SameSteps
  <2> QED BY <1>1, <1>2, <2>1 DEF WorkerRight, Early
<1>11. CASE Propose
  <2>1. /\ UNCHANGED <<mode, step>> /\ SamePlans /\ pc = "propose" /\ pc' = "drafted"
        /\ UNCHANGED <<worker.rows, worker.drafted, worker.prevRows>>
        /\ worker'.counts = CountsRef /\ worker'.tensor = step
    BY <1>11, ProposeDoes DEF SameSteps
  <2> QED BY <1>1, <1>2, <2>1 DEF WorkerRight, Early, CountsRef
<1>12. CASE \E wanted : ZeroDrafts(wanted)
  <2>1. /\ UNCHANGED <<mode, step>> /\ SamePlans /\ pc = "propose" /\ pc' = "book"
        /\ UNCHANGED <<worker.rows, worker.drafted, worker.prevRows, worker.tensor>>
        /\ worker'.counts = CountsRef
    BY <1>12, ZeroDraftsDoes DEF SameSteps
  <2> QED BY <1>1, <1>2, <2>1 DEF WorkerRight, Early, CountsRef
<1>13. CASE ReturnTokens
  <2>1. /\ UNCHANGED <<mode, step, worker>> /\ SamePlans /\ pc = "wait" /\ pc' = "idle"
    BY <1>13, ReturnTokensDoes DEF SameSteps
  <2> QED BY <1>1, <1>2, <2>1 DEF WorkerRight, Early
<1>14. CASE ReturnAsync
  <2>1. /\ UNCHANGED <<mode, step>> /\ SamePlans /\ pc = "book" /\ pc' = "idle"
        /\ UNCHANGED <<worker.rows, worker.drafted, worker.counts, worker.tensor>>
        /\ worker'.prevRows = worker.rows
    BY <1>14, ReturnAsyncDoes DEF SameSteps
  <2> QED BY <1>1, <1>2, <2>1 DEF WorkerRight, Early
<1>15. CASE \E finished : Pool(finished)
  <2>1. /\ UNCHANGED <<mode, step, worker>> /\ SamePlans /\ pc = "pool" /\ pc' = "idle"
    BY <1>15, PoolDoes DEF SameSteps
  <2>2. mode.pool
    BY <2>1 DEF StreamInv, WorkRight, PoolingOnly
  <2> QED BY <1>1, <1>2, <2>1, <2>2 DEF WorkerRight, Early
<1>16. ASSUME NEW b \in SUBSET Req, NEW d \in DraftCounts, PlanStep(b, d)
       PROVE  WorkerRight'
  <2>1. PICK c : c = step + 1
    OBVIOUS
  <2>2. /\ pc = "idle" /\ pc' = "prepare" /\ step' = c /\ UNCHANGED <<mode, worker>> /\ SamePlans
    BY <1>16, <2>1, PlanDoes DEF SameSteps
  <2>3. PICK p : p = step
    OBVIOUS
  <2>4. /\ Batch(p)' = Batch(p) /\ step' - 1 = p /\ p \in Nat
        /\ \A r \in Batch(p) : info'[p].d[r] = info[p].d[r]
    BY <1>1, <2>1, <2>2, <2>3, BatchKept DEF SamePlans, Batch
  <2>5. /\ mode.async => /\ worker.rows = Batch(p)
                         /\ \A r \in worker.rows : worker.drafted[r] = info[p].d[r]
        /\ mode.async /\ ~mode.pool /\ Batch(p) # {} =>
             worker.counts = p /\ worker.prevRows = Batch(p)
        /\ worker.counts <= p /\ worker.tensor <= p /\ (~mode.async => worker.counts = 0)
    BY <2>2, <2>3 DEF WorkerRight, Early
  <2> QED BY <2>2, <2>4, <2>5 DEF WorkerRight, Early
<1>17. CASE DummyRun
  <2>1. PICK c : c = step + 1
    OBVIOUS
  <2>2. /\ pc = "idle" /\ pc' = "idle" /\ step' = c /\ UNCHANGED <<mode, worker>> /\ SamePlans
        /\ pending = <<>> /\ step < MaxSteps /\ info'[c].batch = {}
    BY <1>17, <2>1, DummyDoes DEF SameSteps
  <2>3. Batch(step)' = {}
    BY <1>1, <2>1, <2>2 DEF Batch
  <2>4. mode.async => Batch(step) = {}
    BY <2>2 DEF AnswersRight
  <2>5. /\ mode.async => worker.rows = {}
        /\ worker.counts <= step /\ worker.tensor <= step /\ (~mode.async => worker.counts = 0)
    BY <2>2, <2>4 DEF WorkerRight, Early
  <2>6. mode'.async => worker'.rows = {}
    BY <2>2, <2>5
  <2>7. worker.counts <= c /\ worker.tensor <= c
    BY <1>1, <2>1, <2>5
  <2>8. worker'.counts <= step' /\ worker'.tensor <= step'
    BY <2>2, <2>7
  <2> QED BY <2>2, <2>3, <2>5, <2>6, <2>8 DEF WorkerRight, Early
<1>18. CASE UNCHANGED vars
  <2>1. UNCHANGED <<mode, step, pc, worker>> /\ SamePlans
    BY <1>18 DEF vars, SamePlans
  <2> QED BY <1>3, <2>1
<1> QED
  BY <1>4, <1>5, <1>6, <1>7, <1>8, <1>9, <1>10, <1>11, <1>12, <1>13, <1>14, <1>15, <1>16, <1>17,
     <1>18 DEF Next, Engine, MainThread, OutputThread

-----------------------------------------------------------------------------
(* The counts of computed tokens: the scheduler's, and the true ones.      *)

\* Counts are numbers.
LEMMA Sums ==
  ASSUME StreamInv
  PROVE  \A n \in 1 .. step, r \in Req :
           /\ StartOf(n, r) \in Int /\ EndOf(n, r) \in Int /\ Rejected(n, r) \in Int
           /\ info[n].sent[r] \in Int /\ info[n].d[r] \in Int /\ info[n].acc[r] \in Int
<1>1. \A n \in 1 .. step, r \in Req :
        info[n].sent[r] \in Int /\ info[n].d[r] \in Int /\ info[n].acc[r] \in Int
  BY Known
<1>2. \A n : Batch(n) # {} => n \in 1 .. step
  BY DEF Batch
<1>3. \A n \in 1 .. step, r \in Req : Rejected(n, r) \in Int
  BY <1>1, <1>2 DEF Rejected
<1> QED BY <1>1, <1>3 DEF StartOf, EndOf

\* They stay while the plans stay and what was accepted.
LEMMA SumsKept ==
  ASSUME StreamInv, SamePlans, mode' = mode, step' \in Nat, step' >= step,
         \A n \in 1 .. step : info'[n].acc = info[n].acc
  PROVE  \A n \in 1 .. step, r \in Req :
           StartOf(n, r)' = StartOf(n, r) /\ EndOf(n, r)' = EndOf(n, r)
<1>1. step \in Nat
  BY Known
<1>2. ASSUME NEW n \in 1 .. step, NEW r \in Req
      PROVE  StartOf(n, r)' = StartOf(n, r) /\ EndOf(n, r)' = EndOf(n, r)
  <2>1. Batch(n)' = Batch(n) /\ Batch(n - 1)' = Batch(n - 1)
    BY <1>1, BatchKept
  <2>2. Batch(n - 1) # {} => n - 1 \in 1 .. step
    BY DEF Batch
  <2>3. Rejected(n, r)' = Rejected(n, r)
    BY <2>1, <2>2 DEF Rejected, SamePlans
  <2>4. info'[n].sent = info[n].sent /\ info'[n].acc = info[n].acc
    BY DEF SamePlans
  <2> QED BY <2>1, <2>3, <2>4 DEF StartOf, EndOf
<1> QED BY <1>2

\* The steps that wait for an answer are the last.
LEMMA Recent ==
  ASSUME StreamInv, AnswersRight
  PROVE  /\ \A n : Unanswered(n) => n \in Int /\ n <= step /\ n >= step - 1 /\ (~mode.async => n = step)
         /\ pc = "idle" /\ InFlight < 2 => \A n : Unanswered(n) => n = step
         /\ pc = "idle" /\ InFlight = 0 => \A n : ~Unanswered(n)
         /\ mode.async /\ pc = "idle" /\ step < MaxSteps /\ Batch(step) # {} => Unanswered(step)
         /\ pc # "idle" => Unanswered(step)
<1>1. /\ step \in Nat /\ pending \in Seq(Outs) /\ Len(pending) \in Nat /\ DOMAIN pending = 1 .. Len(pending)
  BY DEF StreamInv, StreamTypes, EngineTypes
<1>2. /\ \A i \in DOMAIN pending :
           pending[i].n = (IF pc = "idle" THEN step ELSE step - 1) - Len(pending) + i
      /\ Len(pending) + (IF pc = "idle" THEN 0 ELSE 1) <= (IF mode.async THEN 2 ELSE 1)
  BY DEF AnswersRight, InFlight
<1>3. \A n : Unanswered(n) => n \in Int /\ n <= step /\ n >= step - 1 /\ (~mode.async => n = step)
  <2>1. ASSUME NEW i \in DOMAIN pending
        PROVE  /\ pending[i].n \in Int /\ pending[i].n <= step /\ pending[i].n >= step - 1
               /\ ~mode.async => pending[i].n = step
    <3>1. CASE pc = "idle" /\ mode.async
      BY <1>1, <1>2, <3>1
    <3>2. CASE pc # "idle" /\ mode.async
      BY <1>1, <1>2, <3>2
    <3>3. CASE ~mode.async
      BY <1>1, <1>2, <3>3
    <3> QED BY <3>1, <3>2, <3>3
  <2> QED BY <1>1, <2>1 DEF Unanswered
<1>4. pc = "idle" /\ InFlight < 2 => \A n : Unanswered(n) => n = step
  BY <1>1, <1>2 DEF Unanswered, InFlight
<1>5. pc = "idle" /\ InFlight = 0 => \A n : ~Unanswered(n)
  BY <1>1 DEF Unanswered, InFlight
<1>6. mode.async /\ pc = "idle" /\ step < MaxSteps /\ Batch(step) # {} => Unanswered(step)
  <2>1. SUFFICES ASSUME mode.async, pc = "idle", step < MaxSteps, Batch(step) # {}
                 PROVE  Unanswered(step)
    OBVIOUS
  <2>2. pending # <<>>
    BY <2>1 DEF AnswersRight
  <2>3. Len(pending) \in DOMAIN pending
    BY <1>1, <2>2
  <2>4. pending[Len(pending)].n = step
    BY <1>1, <1>2, <2>1, <2>3
  <2> QED BY <2>3, <2>4 DEF Unanswered
<1> QED BY <1>3, <1>4, <1>5, <1>6 DEF Unanswered

\* Sending an answer or handing it on leaves the same steps unanswered.
LEMMA UnansweredKept ==
  ASSUME StreamInv, step' = step,
         \/ Works
         \/ pc' = pc /\ pending' = pending
         \/ pc # "idle" /\ pc' = "idle" /\ \E state : Answers(state)
         \/ pc' = pc /\ DOMAIN pending' = DOMAIN pending
            /\ \A i \in DOMAIN pending : pending'[i].n = pending[i].n
  PROVE  \A n : Unanswered(n)' <=> Unanswered(n)
<1>1. CASE Works
  BY <1>1 DEF Works, Unanswered
<1>2. CASE pc' = pc /\ pending' = pending
  BY <1>2 DEF Unanswered
<1>3. CASE pc # "idle" /\ pc' = "idle" /\ \E state : Answers(state)
  <2>1. PICK state : Answers(state)
    BY <1>3, Zenon
  <2>2. PICK k \in Nat : k = Len(pending)
    BY <2>1, Zenon DEF Answers
  <2>3. Len(pending') = k + 1 /\ DOMAIN pending = 1 .. k /\ DOMAIN pending' = 1 .. k + 1
    <3>1. /\ Len(pending') = Len(pending) + 1 /\ DOMAIN pending = 1 .. Len(pending)
          /\ DOMAIN pending' = 1 .. Len(pending')
      BY <2>1, Zenon DEF Answers
    <3> QED BY <2>2, <3>1
  <2>4. \A i \in DOMAIN pending' : i \in DOMAIN pending \/ i = Len(pending')
    BY <2>3
  <2>5. Len(pending') \in DOMAIN pending' /\ DOMAIN pending \subseteq DOMAIN pending'
    BY <2>3
  <2>6. /\ \A i \in DOMAIN pending : pending'[i] = pending[i]
        /\ pending'[Len(pending')].n = step
    BY <2>1, Zenon DEF Answers
  <2> QED BY <1>3, <2>4, <2>5, <2>6 DEF Unanswered
<1>4. CASE pc' = pc /\ DOMAIN pending' = DOMAIN pending
           /\ \A i \in DOMAIN pending : pending'[i].n = pending[i].n
  BY <1>4 DEF Unanswered
<1> QED BY <1>1, <1>2, <1>3, <1>4

\* Nothing is counted by a step that runs or sends no sampler.
LEMMA CountingStays ==
  ASSUME StreamInv, CountingRight, UNCHANGED <<mode, step, sched, truth>>, SamePlans,
         \A n \in 1 .. step : info'[n].acc = info[n].acc,
         \A n : Unanswered(n)' <=> Unanswered(n),
         ToSample' = ToSample,
         (pc' \in Early) = (pc \in Early) \/ Batch(step) = {},
         \A a \in Waiting' : a \in Waiting \/ (/\ a[2] = step
                                               /\ \/ pc' \in Early
                                                  \/ 3 < Stage[a[1]] /\ a[1] # "pooler")
  PROVE  CountingRight'
<1>1. step \in Nat
  BY Known
<1>2. \A n : n <= step => Batch(n)' = Batch(n)
  BY <1>1, BatchKept
<1>3. \A n \in 1 .. step, r \in Req :
        StartOf(n, r)' = StartOf(n, r) /\ EndOf(n, r)' = EndOf(n, r)
  BY <1>1, SumsKept
<1>4. /\ \A n \in 1 .. step : Latest(n)' <=> Latest(n)
      /\ \A m, n \in 1 .. step : Follows(m, n)' <=> Follows(m, n)
  BY <1>1, <1>2 DEF Latest, Follows
<1>5. \A n \in 1 .. step : Batch(n) # {} => (At(n, Early)' <=> At(n, Early))
  BY DEF At
<1>6. ASSUME NEW n \in 1 .. step, Batch(n)' # {}
      PROVE  Id(Sampler, n)' \in Waiting' \/ At(n, Early)' \/ IsSampled(n)'
  <2>1. Batch(n) # {} /\ Sampler' = Sampler
    BY <1>2, <1>6 DEF Sampler
  <2>2. CASE Id(Sampler, n) \in Waiting
    <3>1. Id(Sampler, n) \in ToSample
      BY <2>2, IdIs DEF ToSample, Sampler
    <3> QED BY <2>1, <3>1 DEF ToSample, Id
  <2>3. CASE At(n, Early)
    BY <1>5, <2>1, <2>3
  <2>4. CASE IsSampled(n) /\ ~At(n, Early)
    <3>1. ~(pc' \in Early) \/ n < step
      BY <1>1, <2>1, <2>4 DEF At
    <3> QED BY <1>1, <2>4, <3>1 DEF IsSampled
  <2> QED BY <2>1, <2>2, <2>3, <2>4 DEF CountingRight, SamplesInOrder
<1>7. Chain'
  BY <1>2, <1>3, <1>4 DEF CountingRight, Chain
<1>8. SchedRight'
  <2>1. \A n \in 1 .. step : info'[n].sent = info[n].sent /\ info'[n].d = info[n].d
    BY DEF SamePlans
  <2>2. \A n \in 1 .. step : Batch(n)' = Batch(n)
    BY <1>1, <1>2
  <2> QED BY <1>3, <1>4, <2>1, <2>2 DEF CountingRight, SchedRight
<1>9. TruthRight'
  <2>1. \A n \in 1 .. step : Latest(n) => Batch(n) # {}
    BY DEF Latest
  <2>2. \A a \in ToSample : a[2] \in 1 .. step
    BY Known DEF ToSample
  <2> QED BY <1>3, <1>4, <1>5, <2>1, <2>2 DEF CountingRight, TruthRight
<1> QED BY <1>6, <1>7, <1>8, <1>9 DEF CountingRight, SamplesInOrder

\* What the operations do that no sampling is.
LEMMA CountingQuiet ==
  ASSUME StreamInv, NumbersRight,
         \/ Prepare \/ LaunchForward \/ CorrectCounts \/ Propose \/ DownloadTokens \/ TakeDrafts
         \/ \E wanted : CopyDrafts(wanted) \/ ZeroDrafts(wanted)
         \/ AnswerEmpty \/ ReturnTokens \/ ReturnAsync \/ \E i \in DOMAIN pending : GetOutput(i)
         \/ UNCHANGED vars
  PROVE  CountingRight'
<1> USE DEF NumbersRight
<1>1. step \in Nat /\ (pc # "idle" => step \in 1 .. step)
  BY Known
<1>2. ASSUME NEW k \in DOMAIN Stage, k \notin {"sample", "pooler"},
             Waiting' = Waiting \cup {Id(k, step)}
      PROVE  ToSample' = ToSample
  BY <1>2, IdIs DEF ToSample
<1>3. ASSUME Waiting' = Waiting
      PROVE  ToSample' = ToSample
  BY <1>3 DEF ToSample
<1>4. CASE Prepare
  <2>1. /\ UNCHANGED <<mode, step, sched, truth, pending>> /\ SamePlans
        /\ \A n \in 1 .. step : info'[n].acc = info[n].acc
        /\ Waiting' = Waiting \cup {Id("upload", step)} /\ pc = "prepare" /\ pc' = "launch"
    BY <1>4, PrepareDoes
  <2>2. \A n : Unanswered(n)' <=> Unanswered(n)
    BY <1>4, <2>1, MainWorks, UnansweredKept
  <2> QED BY <1>2, <2>1, <2>2, Stages, IdIs, CountingStays DEF Early
<1>5. CASE LaunchForward
  <2>1. /\ UNCHANGED <<mode, step, sched, truth, pending>> /\ SameSteps
        /\ Waiting' = Waiting \cup {Id("forward", step)} /\ pc = "launch"
        /\ pc' \in {"pool", "correct", "sample"}
    BY <1>5, LaunchDoes
  <2>2. \A n : Unanswered(n)' <=> Unanswered(n)
    BY <1>5, <2>1, MainWorks, UnansweredKept
  <2> QED BY <1>2, <2>1, <2>2, Stages, IdIs, CountingStays DEF Early, SameSteps
<1>6. CASE CorrectCounts \/ TakeDrafts \/ \E wanted : CopyDrafts(wanted) \/ ZeroDrafts(wanted)
  <2>1. /\ UNCHANGED <<mode, step, sched, truth>> /\ SameSteps /\ Waiting' = Waiting
        /\ (pc' \in Early) = (pc \in Early)
    <3>1. CASE CorrectCounts \/ TakeDrafts
      BY <3>1, CorrectDoes, TakeDraftsDoes DEF Early
    <3>2. ASSUME NEW wanted, CopyDrafts(wanted)
          PROVE  /\ UNCHANGED <<mode, step, sched, truth>> /\ SameSteps /\ Waiting' = Waiting
                 /\ (pc' \in Early) = (pc \in Early)
      BY <3>2, CopyDraftsDoes DEF Early
    <3>3. ASSUME NEW wanted, ZeroDrafts(wanted)
          PROVE  /\ UNCHANGED <<mode, step, sched, truth>> /\ SameSteps /\ Waiting' = Waiting
                 /\ (pc' \in Early) = (pc \in Early)
      <4>1. /\ UNCHANGED <<mode, step, sched, truth>> /\ SameSteps /\ Waiting' = Waiting
            /\ pc = "propose" /\ pc' = "book"
        BY <3>3, ZeroDraftsDoes
      <4> QED BY <4>1 DEF Early
    <3> QED BY <1>6, <3>1, <3>2, <3>3
  <2>2. \A n : Unanswered(n)' <=> Unanswered(n)
    BY <1>6, <2>1, MainWorks, UnansweredKept
  <2> QED BY <1>3, <2>1, <2>2, CountingStays DEF SameSteps
<1>7. CASE Propose
  <2>1. /\ UNCHANGED <<mode, step, sched, truth, pending>> /\ SameSteps
        /\ Waiting' = Waiting \cup {Id("draft", step)} /\ pc = "propose" /\ pc' = "drafted"
    BY <1>7, ProposeDoes
  <2>2. \A n : Unanswered(n)' <=> Unanswered(n)
    BY <1>7, <2>1, MainWorks, UnansweredKept
  <2> QED BY <1>2, <2>1, <2>2, Stages, IdIs, CountingStays DEF Early, SameSteps
<1>8. CASE DownloadTokens
  <2>1. /\ UNCHANGED <<mode, step, sched, truth, pending>> /\ SameSteps
        /\ Waiting' = Waiting \cup {Id("experts", step), Id("tokens", step)}
        /\ pc = "book" /\ pc' = "wait"
    BY <1>8, DownloadTokensDoes
  <2>2. \A n : Unanswered(n)' <=> Unanswered(n)
    BY <1>8, <2>1, MainWorks, UnansweredKept
  <2>3. ToSample' = ToSample
    BY <2>1, IdIs DEF ToSample
  <2> QED BY <2>1, <2>2, <2>3, Stages, IdIs, CountingStays DEF Early, SameSteps
<1>9. CASE AnswerEmpty \/ ReturnTokens
  <2>1. /\ UNCHANGED <<mode, step, sched, truth>> /\ SameSteps /\ Waiting' = Waiting
        /\ Answers("got") /\ pc # "idle" /\ pc' = "idle" /\ (pc \in Early => info[step].batch = {})
    BY <1>9, EmptyDoes, ReturnTokensDoes DEF Early
  <2>2. \A n : Unanswered(n)' <=> Unanswered(n)
    BY <2>1, UnansweredKept
  <2>3. (pc' \in Early) = (pc \in Early) \/ Batch(step) = {}
    BY <2>1 DEF Early, Batch
  <2> QED BY <1>3, <2>1, <2>2, <2>3, CountingStays DEF SameSteps
<1>10. CASE ReturnAsync
  <2>1. /\ UNCHANGED <<mode, step, sched, truth>> /\ SameSteps
        /\ Waiting' = Waiting \cup {Id("clone", step)}
        /\ Answers("copying") /\ pc = "book" /\ pc' = "idle"
    BY <1>10, ReturnAsyncDoes
  <2>2. \A n : Unanswered(n)' <=> Unanswered(n)
    BY <2>1, UnansweredKept
  <2> QED BY <1>2, <2>1, <2>2, Stages, IdIs, CountingStays DEF Early, SameSteps
<1>11. CASE \E i \in DOMAIN pending : GetOutput(i)
  <2>1. /\ UNCHANGED <<mode, pc, step, sched, truth>> /\ SameSteps /\ Waiting' = Waiting
        /\ DOMAIN pending' = DOMAIN pending
        /\ \A i \in DOMAIN pending : pending'[i].n = pending[i].n
    BY <1>11, GetDoes
  <2>2. \A n : Unanswered(n)' <=> Unanswered(n)
    BY <2>1, UnansweredKept
  <2> QED BY <1>3, <2>1, <2>2, CountingStays DEF SameSteps
<1>12. CASE UNCHANGED vars
  <2>1. UNCHANGED <<mode, pc, step, sched, pending, truth, info, queue>>
    BY <1>12 DEF vars, engine, gpu, history
  <2>2. \A n : Unanswered(n)' <=> Unanswered(n)
    BY <2>1, UnansweredKept
  <2>3. Waiting' = Waiting
    BY <2>1 DEF Waiting
  <2> QED BY <1>3, <2>1, <2>2, <2>3, CountingStays DEF SamePlans
<1> QED BY <1>4, <1>5, <1>6, <1>7, <1>8, <1>9, <1>10, <1>11, <1>12

\* The same of the streams.
LEMMA CountingQuietStreams ==
  ASSUME StreamInv, NumbersRight,
         \/ RunUpload \/ RunForward \/ RunDraft \/ RunClone \/ DownloadExperts \/ DownloadToList
         \/ DownloadOutput \/ DownloadDrafts \/ DownloadCounts
  PROVE  CountingRight'
<1> USE DEF NumbersRight
<1>1. Works
  BY StreamsWork DEF DefaultStream
<1>2. UNCHANGED <<mode, step>> /\ \A n : Unanswered(n)' <=> Unanswered(n)
  BY <1>1, UnansweredKept DEF Works
<1>3. ASSUME UNCHANGED <<pc, sched, truth>>, SameSteps, Waiting' \subseteq Waiting, ToSample' = ToSample
      PROVE  CountingRight'
  BY <1>2, <1>3, CountingStays DEF SameSteps
<1>4. ASSUME NEW kind, Runs("default", kind), kind \notin {"sample", "pooler"}
      PROVE  UNCHANGED <<pc, sched>> /\ Waiting' \subseteq Waiting /\ ToSample' = ToSample
  <2>1. PICK n : n = Now("default")
    OBVIOUS
  <2>2. UNCHANGED <<pc, sched>> /\ Waiting = Waiting' \cup {Id(kind, n)}
    BY <1>4, <2>1, HeadRuns
  <2> QED BY <1>4, <2>2, IdIs DEF ToSample
<1>5. CASE RunUpload \/ RunForward \/ RunDraft
  <2>1. /\ \E kind : kind \notin {"sample", "pooler"} /\ Runs("default", kind)
        /\ SameSteps /\ truth' = truth
    BY <1>5, UploadDoes, ForwardDoes, DrafterDoes
  <2> QED BY <1>3, <1>4, <2>1
<1>6. CASE RunClone \/ DownloadExperts \/ DownloadToList
  <2>1. /\ \E kind : kind \notin {"sample", "pooler"} /\ Runs("default", kind)
        /\ SameSteps /\ truth' = truth
    BY <1>6, OtherRuns
  <2> QED BY <1>3, <1>4, <2>1
<1>7. CASE DownloadOutput \/ DownloadDrafts \/ DownloadCounts
  <2>1. /\ \E s \in {"output", "draft", "count"} : \E kind : Runs(s, kind)
        /\ info' = info /\ truth' = truth
    BY <1>7 DEF DownloadOutput, DownloadDrafts, DownloadCounts, history
  <2>2. UNCHANGED <<pc, sched>> /\ SameSteps /\ Waiting' = Waiting
    BY <2>1, DownloadDoes
  <2>3. ToSample' = ToSample
    BY <2>2 DEF ToSample
  <2> QED BY <1>3, <2>1, <2>2, <2>3
<1> QED BY <1>5, <1>6, <1>7

\* A step's sampler is sent: it starts from where the last one that waits ends.
LEMMA CountingSent ==
  ASSUME StreamInv, NumbersRight, SampleTokens \/ \E finished : Pool(finished)
  PROVE  CountingRight'
<1> USE DEF NumbersRight
<1>1. step \in Nat /\ (pc # "idle" => step \in 1 .. step)
  BY Known
<1>2. /\ UNCHANGED <<mode, step, sched, truth>> /\ SameSteps
      /\ Waiting' = Waiting \cup {Id(Sampler, step)} /\ pc \in {"sample", "pool"}
      /\ pc' \in {"propose", "idle"}
      /\ \A n : Unanswered(n)' <=> Unanswered(n)
  <2>1. CASE SampleTokens
    <3>1. ~mode.pool
      BY <2>1, SampleDoes DEF StreamInv, WorkRight, PoolingOnly, Sampling
    <3>2. \A n : Unanswered(n)' <=> Unanswered(n)
      BY <2>1, MainWorks, UnansweredKept, SampleDoes
    <3> QED BY <2>1, <3>1, <3>2, SampleDoes DEF Sampler
  <2>2. ASSUME NEW finished, Pool(finished)
        PROVE  /\ UNCHANGED <<mode, step, sched, truth>> /\ SameSteps
               /\ Waiting' = Waiting \cup {Id(Sampler, step)} /\ pc \in {"sample", "pool"}
               /\ pc' \in {"propose", "idle"}
               /\ \A n : Unanswered(n)' <=> Unanswered(n)
    <3>1. mode.pool
      BY <2>2, PoolDoes DEF StreamInv, WorkRight, PoolingOnly
    <3>2. \A n : Unanswered(n)' <=> Unanswered(n)
      BY <2>2, PoolDoes, UnansweredKept
    <3> QED BY <2>2, <3>1, <3>2, PoolDoes DEF Sampler
  <2> QED BY <2>1, <2>2
<1>3. /\ \A n : n <= step => Batch(n)' = Batch(n)
      /\ Sampler' = Sampler /\ Batch(step) # {} /\ step \in 1 .. step
  BY <1>1, <1>2, BatchKept DEF SameSteps, Sampler, StepsReal
<1>4. /\ \A n \in 1 .. step, r \in Req :
           StartOf(n, r)' = StartOf(n, r) /\ EndOf(n, r)' = EndOf(n, r)
      /\ \A n \in 1 .. step : info'[n].sent = info[n].sent /\ info'[n].d = info[n].d
                              /\ info'[n].acc = info[n].acc
  BY <1>1, <1>2, SumsKept DEF SameSteps, SamePlans
<1>5. /\ \A n \in 1 .. step : Latest(n)' <=> Latest(n)
      /\ \A m, n \in 1 .. step : Follows(m, n)' <=> Follows(m, n)
  BY <1>1, <1>2, <1>3 DEF Latest, Follows
<1>6. ToSample' = ToSample \cup {Id(Sampler, step)}
  BY <1>2, IdIs DEF ToSample, Sampler
<1>7. \A a \in ToSample : a[2] \in 1 .. step /\ a[2] < step
  <2>1. Enqueued = 2 /\ Stage["sample"] = 3 /\ Stage["pooler"] = 6
    BY <1>2, Stages DEF Enqueued
  <2> QED BY <1>1, <2>1, Known DEF ToSample
<1>8. SamplesInOrder'
  <2>1. ASSUME NEW n \in 1 .. step, Batch(n) # {}
        PROVE  Id(Sampler, n) \in Waiting' \/ IsSampled(n)'
    <3>1. CASE n = step
      BY <1>2, <3>1
    <3>2. CASE n < step
      <4>1. Id(Sampler, n) \in Waiting \/ IsSampled(n)
        BY <2>1, <3>2 DEF CountingRight, SamplesInOrder, At
      <4>2. IsSampled(n) => IsSampled(n)'
        BY <1>1, <1>2, <3>2, IdIs DEF IsSampled
      <4> QED BY <1>2, <4>1, <4>2
    <3> QED BY <1>1, <3>1, <3>2
  <2> QED BY <1>2, <1>3, <2>1 DEF SamplesInOrder, Id
<1>9. Chain'
  BY <1>2, <1>3, <1>4, <1>5 DEF CountingRight, Chain
<1>10. SchedRight'
  BY <1>2, <1>3, <1>4, <1>5 DEF CountingRight, SchedRight
<1>11. TruthRight'
  <2>1. ASSUME NEW a \in ToSample', \A b \in ToSample' : a[2] <= b[2], NEW r \in Req
        PROVE  truth[r] = StartOf(a[2], r)
    <3>1. CASE ToSample = {}
      <4>1. a[2] = step
        BY <1>6, <2>1, <3>1, IdIs
      <4>2. Latest(step) /\ At(step, Early)
        BY <1>2, <1>3 DEF Latest, At, Early
      <4> QED BY <1>3, <3>1, <4>1, <4>2 DEF CountingRight, TruthRight
    <3>2. CASE ToSample # {}
      <4>1. a \in ToSample
        <5>1. PICK b \in ToSample : TRUE
          BY <3>2
        <5>2. b \in ToSample'
          BY <1>6
        <5>3. a[2] <= b[2] /\ b[2] < step
          BY <1>7, <2>1, <5>2
        <5>4. a # Id(Sampler, step)
          BY <1>1, <1>7, <5>3, IdIs
        <5> QED BY <1>6, <5>4
      <4> QED BY <1>6, <2>1, <4>1 DEF CountingRight, TruthRight
    <3> QED BY <3>1, <3>2
  <2>2. \A a \in ToSample' : a[2] \in 1 .. step
    BY <1>3, <1>6, <1>7, IdIs
  <2>3. ToSample' # {}
    BY <1>6
  <2> QED BY <1>2, <1>4, <2>1, <2>2, <2>3 DEF TruthRight
<1> QED BY <1>2, <1>8, <1>9, <1>10, <1>11 DEF CountingRight

\* The sampler or the pooler runs: its step is the first of those that are to be sampled,
\* and the next one starts where it ends.
LEMMA CountingRuns ==
  ASSUME StreamInv, NumbersRight, NEW h, h = Now("default"),
         Runs("default", Sampler), SamePlans, pending' = pending,
         \A m \in 1 .. step : m # h => info'[m].acc = info[m].acc,
         \A r \in Req : /\ info'[h].acc[r] \in Int
                        /\ truth'[r] = IF r \in Batch(h) THEN truth[r] + 1 + info'[h].acc[r]
                                       ELSE truth[r],
         mode.pool => info'[h].acc = info[h].acc,
         truth' \in Totals
  PROVE  CountingRight'
<1> USE DEF NumbersRight
<1>1. /\ step \in Nat /\ h \in 1 .. step /\ UNCHANGED <<mode, pc, step, sched>>
      /\ Sampler \in {"sample", "pooler"} /\ Sampler' = Sampler
      /\ Id(Sampler, h) \in Waiting /\ Id(Sampler, h) \notin Waiting'
      /\ Waiting = Waiting' \cup {Id(Sampler, h)}
      /\ \A a \in Waiting' : Before(Id(Sampler, h), a)
  BY Known, HeadRuns DEF Sampler
<1>2. /\ \A a \in Waiting' : h < a[2] \/ (h = a[2] /\ Stage[Sampler] < Stage[a[1]])
      /\ \A a \in Waiting' : a[2] \in 1 .. step /\ a = Id(a[1], a[2]) /\ a[1] \in DOMAIN Stage
  BY <1>1, IdIs, Known DEF Before
<1>3. /\ \A a \in Waiting : mode.pool \/ a[1] # "pooler"
      /\ Sampler = IF mode.pool THEN "pooler" ELSE "sample"
  BY DEF StreamInv, WorkRight, PoolingOnly, Sampler
<1>4. IsSampled(h)' /\ \A n : IsSampled(n) => IsSampled(n)'
  <2>1. ASSUME NEW a \in Waiting'
        PROVE  h < a[2] \/ (h = a[2] /\ 3 < Stage[a[1]] /\ a[1] # "pooler")
    <3>1. CASE mode.pool
      BY <1>2, <1>3, <3>1, Stages
    <3>2. CASE ~mode.pool
      BY <1>1, <1>2, <1>3, <3>2, Stages
    <3> QED BY <3>1, <3>2
  <2> QED BY <1>1, <2>1 DEF IsSampled
<1>5. /\ ToSample = ToSample' \cup {Id(Sampler, h)}
      /\ \A a \in ToSample : h <= a[2]
      /\ \A a \in ToSample' : h < a[2]
  <2>1. ToSample = ToSample' \cup {Id(Sampler, h)}
    BY <1>1, IdIs DEF ToSample
  <2>2. ASSUME NEW a \in ToSample'
        PROVE  h < a[2]
    <3>1. a \in Waiting' /\ a[1] \in {"sample", "pooler"}
      BY DEF ToSample
    <3>2. CASE mode.pool
      BY <1>2, <1>3, <3>1, <3>2, Stages
    <3>3. CASE ~mode.pool
      BY <1>1, <1>2, <1>3, <3>1, <3>3, Stages
    <3> QED BY <3>2, <3>3
  <2>3. \A a \in ToSample : h <= a[2]
    BY <1>1, <1>2, <2>1, <2>2, IdIs DEF ToSample
  <2> QED BY <2>1, <2>2, <2>3
<1>6. /\ \A n : n <= step => Batch(n)' = Batch(n)
      /\ \A n \in 1 .. step : info'[n].sent = info[n].sent /\ info'[n].d = info[n].d
      /\ \A n \in 1 .. step : Latest(n)' <=> Latest(n)
      /\ \A m, n \in 1 .. step : Follows(m, n)' <=> Follows(m, n)
      /\ Batch(h) # {}
  <2>1. \A n : n <= step => Batch(n)' = Batch(n)
    BY <1>1, BatchKept
  <2>2. Batch(h) # {}
    BY <1>1, IdIs DEF StepsReal
  <2> QED BY <1>1, <2>1, <2>2 DEF Latest, Follows, SamePlans
<1>7. \A r \in Req : truth[r] = StartOf(h, r)
  <2>1. Id(Sampler, h) \in ToSample /\ Id(Sampler, h)[2] = h
    BY <1>5, IdIs
  <2> QED BY <1>5, <2>1 DEF CountingRight, TruthRight
\* Only the steps that are not answered are still to be sampled.
<1>8. mode.pool \/ Unanswered(h)
  BY <1>1, <1>3, IdIs DEF AnswersRight
<1>9. /\ \A n \in 1 .. step, r \in Req : n # h =>
           EndOf(n, r)' - StartOf(n, r)' = EndOf(n, r) - StartOf(n, r)
      /\ \A r \in Req : EndOf(h, r)' - StartOf(h, r)'
                          = IF r \in Batch(h) THEN 1 + info'[h].acc[r] ELSE 0
      /\ \A n \in 1 .. step, r \in Req :
           /\ StartOf(n, r)' \in Int /\ EndOf(n, r)' \in Int
           /\ n # h + 1 => StartOf(n, r)' = StartOf(n, r)
           /\ n = h + 1 => StartOf(n, r)' = StartOf(n, r) +
                (IF mode.async /\ r \in Batch(h) THEN info'[h].acc[r] - info[h].acc[r] ELSE 0)
  <2>1. ASSUME NEW n \in 1 .. step, NEW r \in Req
        PROVE  /\ StartOf(n, r)' \in Int
               /\ n # h + 1 => StartOf(n, r)' = StartOf(n, r)
               /\ n = h + 1 => StartOf(n, r)' = StartOf(n, r) +
                    (IF mode.async /\ r \in Batch(h) THEN info'[h].acc[r] - info[h].acc[r] ELSE 0)
    <3>1. /\ info'[n].sent[r] = info[n].sent[r] /\ info[n].sent[r] \in Int
          /\ Batch(n - 1)' = Batch(n - 1) /\ (Batch(n - 1) # {} => n - 1 \in 1 .. step)
      BY <1>1, <1>6, Sums DEF Batch
    <3>2. CASE r \in Batch(n - 1) /\ mode.async
      <4>1. PICK m \in 1 .. step : m = n - 1
        BY <3>1, <3>2
      <4>2. /\ info'[m].d[r] = info[m].d[r] /\ info[m].d[r] \in Int /\ info[m].acc[r] \in Int
            /\ m # h => info'[m].acc[r] = info[m].acc[r]
        BY <1>6, Sums
      <4>3. /\ StartOf(n, r) = info[n].sent[r] - (info[m].d[r] - info[m].acc[r])
            /\ StartOf(n, r)' = info[n].sent[r] - (info[m].d[r] - info'[m].acc[r])
        BY <1>1, <3>1, <3>2, <4>1, <4>2 DEF StartOf, Rejected
      <4>4. n = h + 1 <=> m = h
        BY <1>1, <4>1
      <4> QED BY <3>1, <3>2, <4>1, <4>2, <4>3, <4>4
    <3>3. CASE ~ (r \in Batch(n - 1) /\ mode.async)
      <4>1. StartOf(n, r) = info[n].sent[r] /\ StartOf(n, r)' = info[n].sent[r]
        BY <1>1, <3>1, <3>3 DEF StartOf, Rejected
      <4>2. n = h + 1 => ~ (mode.async /\ r \in Batch(h))
        BY <1>1, <3>3
      <4> QED BY <3>1, <4>1, <4>2
    <3> QED BY <3>2, <3>3
  <2>2. ASSUME NEW n \in 1 .. step, NEW r \in Req
        PROVE  /\ EndOf(n, r)' \in Int
               /\ n # h => EndOf(n, r)' - StartOf(n, r)' = EndOf(n, r) - StartOf(n, r)
               /\ n = h => EndOf(n, r)' - StartOf(n, r)'
                             = IF r \in Batch(h) THEN 1 + info'[h].acc[r] ELSE 0
    <3>1. /\ StartOf(n, r) \in Int /\ StartOf(n, r)' \in Int /\ Batch(n)' = Batch(n)
          /\ info[n].acc[r] \in Int /\ info'[n].acc[r] \in Int
          /\ n # h => info'[n].acc[r] = info[n].acc[r]
      BY <1>1, <1>6, <2>1, Sums
    <3> QED BY <3>1 DEF EndOf
  <2> QED BY <1>1, <2>1, <2>2
<1>10. \A r \in Req : truth'[r] = EndOf(h, r)'
  <2>1. ASSUME NEW r \in Req
        PROVE  truth'[r] = EndOf(h, r)'
    <3>1. /\ StartOf(h, r)' = StartOf(h, r) /\ StartOf(h, r) \in Int
          /\ EndOf(h, r)' - StartOf(h, r)' = IF r \in Batch(h) THEN 1 + info'[h].acc[r] ELSE 0
          /\ EndOf(h, r)' \in Int /\ truth[r] = StartOf(h, r) /\ info'[h].acc[r] \in Int
          /\ truth'[r] = IF r \in Batch(h) THEN truth[r] + 1 + info'[h].acc[r] ELSE truth[r]
      BY <1>1, <1>7, <1>9, Sums
    <3> QED BY <3>1
  <2> QED BY <2>1
\* Its end moves by what was accepted, and so does the start of the step after it.
<1>11. ASSUME NEW m \in 1 .. step, NEW n \in 1 .. step, Follows(m, n), NEW r \in Req
       PROVE  StartOf(n, r)' = EndOf(m, r)'
  <2>1. StartOf(n, r) = EndOf(m, r)
    BY <1>11 DEF CountingRight, Chain
  <2>2. m < n /\ (m = h /\ ~mode.pool => n = h + 1 /\ mode.async)
    <3>1. m < n
      BY <1>1, <1>11 DEF Follows
    <3>2. m = h /\ ~mode.pool => n = h + 1 /\ mode.async
      BY <1>1, <1>8, <3>1, Recent
    <3> QED BY <3>1, <3>2
  <2>3. /\ StartOf(n, r) \in Int /\ EndOf(m, r) \in Int /\ StartOf(m, r) \in Int
        /\ StartOf(n, r)' \in Int /\ EndOf(m, r)' \in Int /\ StartOf(m, r)' \in Int
        /\ info[h].acc[r] \in Int /\ info'[h].acc[r] \in Int
    BY <1>1, <1>9, Sums
  <2>4. CASE mode.pool
    <3>1. info'[h].acc[r] = info[h].acc[r]
      BY <2>4
    <3>2. StartOf(n, r)' = StartOf(n, r) /\ StartOf(m, r)' = StartOf(m, r)
      BY <1>9, <2>3, <3>1
    <3>3. EndOf(m, r)' = EndOf(m, r)
      <4>1. /\ EndOf(m, r)' = StartOf(m, r)' + (IF r \in Batch(m) THEN 1 + info'[m].acc[r] ELSE 0)
            /\ EndOf(m, r) = StartOf(m, r) + (IF r \in Batch(m) THEN 1 + info[m].acc[r] ELSE 0)
        BY <1>1, <1>6 DEF EndOf
      <4> QED BY <3>1, <3>2, <4>1
    <3> QED BY <2>1, <3>2, <3>3
  <2>5. CASE m = h /\ ~mode.pool
    <3>1. /\ n = h + 1 /\ mode.async /\ StartOf(m, r)' = StartOf(m, r)
          /\ StartOf(n, r)' = StartOf(n, r) + (IF r \in Batch(h) THEN info'[h].acc[r] - info[h].acc[r] ELSE 0)
      BY <1>1, <1>9, <2>2, <2>5
    <3>2. /\ EndOf(m, r)' = StartOf(m, r)' + (IF r \in Batch(m) THEN 1 + info'[m].acc[r] ELSE 0)
          /\ EndOf(m, r) = StartOf(m, r) + (IF r \in Batch(m) THEN 1 + info[m].acc[r] ELSE 0)
      BY <1>1, <1>6 DEF EndOf
    <3> QED BY <2>1, <2>3, <2>5, <3>1, <3>2
  <2>6. CASE m # h /\ ~mode.pool
    <3>1. n = h + 1 => m >= h
      <4>1. SUFFICES ASSUME n = h + 1, m < h
                     PROVE  FALSE
        BY <1>1
      <4>2. h \in m + 1 .. n - 1
        BY <1>1, <4>1
      <4> QED BY <1>6, <1>11, <4>2 DEF Follows
    <3>2. n # h + 1
      BY <1>1, <2>2, <2>6, <3>1
    <3>3. StartOf(n, r)' = StartOf(n, r)
      BY <1>9, <3>2
    <3>4. m # h + 1
      <4>1. SUFFICES ASSUME m = h + 1
                     PROVE  FALSE
        OBVIOUS
      <4>2. n > h + 1 /\ n <= step
        BY <2>2, <4>1
      <4> QED BY <1>1, <1>8, <2>6, <4>2, Recent
    <3>5. StartOf(m, r)' = StartOf(m, r)
      BY <1>9, <3>4
    <3>6. EndOf(m, r)' - StartOf(m, r)' = EndOf(m, r) - StartOf(m, r)
      BY <1>9, <2>6
    <3> QED BY <2>1, <2>3, <3>3, <3>5, <3>6
  <2> QED BY <2>4, <2>5, <2>6
<1>12. SamplesInOrder'
  <2>1. ASSUME NEW n \in 1 .. step, Batch(n) # {}
        PROVE  Id(Sampler, n) \in Waiting' \/ At(n, Early) \/ IsSampled(n)'
    <3>1. Id(Sampler, n) \in Waiting \/ At(n, Early) \/ IsSampled(n)
      BY <2>1 DEF CountingRight, SamplesInOrder
    <3>2. Id(Sampler, n) \in Waiting => Id(Sampler, n) \in Waiting' \/ n = h
      BY <1>1, IdIs
    <3> QED BY <1>4, <3>1, <3>2
  <2> QED BY <1>1, <1>6, <2>1 DEF SamplesInOrder, At, Id
<1>13. Chain'
  <2>1. \E n \in 1 .. step : Latest(n)
    BY <1>1, <1>6 DEF CountingRight, Chain
  <2> QED BY <1>1, <1>6, <1>11, <2>1 DEF Chain
<1>14. SchedRight'
  <2>1. \A n : Unanswered(n)' <=> Unanswered(n)
    BY <1>1, UnansweredKept
  <2>2. ASSUME NEW n \in 1 .. step, Latest(n), NEW r \in Req
        PROVE  sched[r] = (IF Unanswered(n - 1) THEN info[n].sent[r] ELSE StartOf(n, r)')
                          + (IF r \notin Batch(n) THEN 0
                             ELSE IF Unanswered(n) THEN 1 + info[n].d[r] ELSE 1 + info'[n].acc[r])
    <3>1. sched[r] = (IF Unanswered(n - 1) THEN info[n].sent[r] ELSE StartOf(n, r))
                     + (IF r \notin Batch(n) THEN 0
                        ELSE IF Unanswered(n) THEN 1 + info[n].d[r] ELSE 1 + info[n].acc[r])
      BY <2>2 DEF CountingRight, SchedRight
    <3>2. Unanswered(n) \/ info'[n].acc[r] = info[n].acc[r]
      BY <1>8
    <3>3. Unanswered(n - 1) \/ StartOf(n, r)' = StartOf(n, r)
      <4>1. CASE n = h + 1
        <5>1. n - 1 = h
          BY <1>1, <4>1
        <5>2. CASE mode.pool
          BY <1>9, <4>1, <5>2, Sums
        <5> QED BY <1>8, <5>1, <5>2
      <4>2. CASE n # h + 1
        BY <1>9, <4>2
      <4> QED BY <4>1, <4>2
    <3>4. CASE Unanswered(n)
      BY <3>1, <3>3, <3>4
    <3>5. CASE ~Unanswered(n)
      BY <3>1, <3>2, <3>3, <3>5
    <3> QED BY <3>4, <3>5
  <2> QED BY <1>1, <1>6, <2>1, <2>2 DEF SchedRight
<1>15. TruthRight'
\* The steps between this one and the next to be sampled have no requests.
  <2>1. ASSUME NEW n \in 1 .. step, h < n, Batch(n) # {},
               \A k \in h + 1 .. n - 1 : Id(Sampler, k) \notin Waiting'
        PROVE  Follows(h, n)
    <3>1. ASSUME NEW k \in h + 1 .. n - 1, Batch(k) # {}
          PROVE  FALSE
      <4>1. k \in 1 .. step /\ h < k /\ k < n
        BY <1>1, <2>1
      <4>2. Id(Sampler, k) \notin Waiting
        BY <1>1, <2>1, <3>1, <4>1, IdIs
      <4>3. ~At(k, Early)
        BY <1>1, <4>1 DEF At
      <4>4. ~IsSampled(k)
        BY <1>1, <4>1, IdIs DEF IsSampled
      <4> QED BY <3>1, <4>1, <4>2, <4>3, <4>4 DEF CountingRight, SamplesInOrder
    <3> QED BY <1>1, <1>6, <2>1, <3>1 DEF Follows
  <2>2. ASSUME NEW n \in 1 .. step, Latest(n), ToSample' = {}, NEW r \in Req
        PROVE  truth'[r] = IF At(n, Early) THEN StartOf(n, r)' ELSE EndOf(n, r)'
    <3>1. n >= h /\ Batch(n) # {}
      BY <1>1, <1>6, <2>2 DEF Latest
    <3>2. CASE n = h
      <4>1. ~At(h, Early)
        <5>1. \A a \in Waiting : a[2] < step \/ Stage[a[1]] <= Enqueued
          BY Known
        <5>2. Stage[Sampler] > 2 /\ (pc \in Early => Enqueued <= 2)
          BY <1>1, Stages DEF Enqueued, Early
        <5>3. h < step \/ Stage[Sampler] <= Enqueued
          BY <1>1, <5>1, IdIs
        <5> QED BY <1>1, <5>2, <5>3, Stages DEF At, Enqueued, Early
      <4> QED BY <1>10, <3>2, <4>1
    <3>3. CASE n > h
      <4>1. \A k : Id(Sampler, k) \notin Waiting'
        <5>1. ASSUME NEW k, Id(Sampler, k) \in Waiting'
              PROVE  FALSE
          <6>1. Id(Sampler, k) \in ToSample'
            BY <1>1, <5>1, IdIs DEF ToSample
          <6> QED BY <2>2, <6>1
        <5> QED BY <5>1
      <4>2. Follows(h, n)
        BY <1>1, <2>1, <3>1, <3>3, <4>1
      <4>3. At(n, Early)
        <5>1. Id(Sampler, n) \notin Waiting
          BY <1>1, <3>3, <4>1, IdIs
        <5>2. ~IsSampled(n)
          BY <1>1, <3>3, IdIs DEF IsSampled
        <5> QED BY <3>1, <5>1, <5>2 DEF CountingRight, SamplesInOrder
      <4> QED BY <1>1, <1>10, <1>11, <4>2, <4>3
    <3> QED BY <1>1, <3>1, <3>2, <3>3
  <2>3. ASSUME NEW a \in ToSample', \A b \in ToSample' : a[2] <= b[2], NEW r \in Req
        PROVE  truth'[r] = StartOf(a[2], r)'
    <3>1. PICK n : n = a[2]
      OBVIOUS
    <3>2. n \in 1 .. step /\ h < n /\ a \in Waiting /\ a[1] \in {"sample", "pooler"}
      BY <1>1, <1>2, <1>5, <3>1 DEF ToSample
    <3>3. Batch(n) # {}
      BY <3>1, <3>2 DEF StepsReal
    <3>4. ASSUME NEW k \in h + 1 .. n - 1
          PROVE  Id(Sampler, k) \notin Waiting'
      <4>1. k < n
        BY <1>1, <3>2
      <4>2. Id(Sampler, k) \in Waiting' => Id(Sampler, k) \in ToSample' /\ Id(Sampler, k)[2] = k
        BY <1>1, IdIs DEF ToSample
      <4> QED BY <1>1, <2>3, <3>1, <3>2, <4>1, <4>2
    <3>5. Follows(h, n)
      BY <2>1, <3>2, <3>3, <3>4
    <3> QED BY <1>1, <1>10, <1>11, <3>1, <3>2, <3>5
  <2>4. \A a \in ToSample' : a[2] \in 1 .. step
    BY <1>2 DEF ToSample
  <2> QED BY <1>1, <1>6, <2>2, <2>3, <2>4 DEF TruthRight, At
<1> QED BY <1>12, <1>13, <1>14, <1>15 DEF CountingRight

\* The sampler, and the pooler.
LEMMA CountingSampled ==
  ASSUME StreamInv, NumbersRight
  PROVE  RunPooler \/ (\E acc \in DraftCounts : RunSample(acc)) => CountingRight'
<1> USE DEF NumbersRight
<1>1. PICK h : h = Now("default")
  OBVIOUS
<1>2. \A n \in 1 .. step : Batch(n) = info[n].batch /\ \A r \in Req : info[n].acc[r] \in Int
  BY Known DEF Batch
<1>3. truth \in Totals
  BY DEF CountingRight
<1>4. ASSUME NEW acc \in DraftCounts, RunSample(acc)
      PROVE  CountingRight'
  <2>8. Runs("default", "sample") /\ SamePlans /\ pending' = pending
    BY <1>1, <1>4, SamplerDoes
  <2>10. info'[h].acc = acc
    BY <1>1, <1>4, SamplerDoes
  <2>12. info' = [info EXCEPT ![h].acc = acc]
    BY <1>1, <1>4 DEF RunSample
  <2>11. \A m \in 1 .. step : m # h => info'[m].acc = info[m].acc
    BY <2>12, Known
  <2>9. \A r \in Req : truth'[r] = IF r \in info[h].batch THEN truth[r] + acc[r] + 1 ELSE truth[r]
    BY <1>1, <1>4 DEF RunSample
  <2>1. /\ Runs("default", "sample") /\ SamePlans /\ pending' = pending /\ info'[h].acc = acc
        /\ \A m \in 1 .. step : m # h => info'[m].acc = info[m].acc
        /\ \A r \in Req : truth'[r] = IF r \in info[h].batch THEN truth[r] + acc[r] + 1 ELSE truth[r]
    BY <2>8, <2>9, <2>10, <2>11
  <2>2. h \in 1 .. step /\ Id("sample", h) \in Waiting
    BY <1>1, <2>1, HeadRuns
  <2>3. ~mode.pool
    BY <2>2, IdIs DEF StreamInv, WorkRight, PoolingOnly
  <2>4. \A r \in Req : acc[r] \in Int
    BY StreamsAssumption DEF DraftCounts
  <2>5. truth' \in Totals
    BY <1>3, <1>4, <2>4 DEF RunSample, Totals
  <2>6. \A r \in Req : truth'[r] = IF r \in Batch(h) THEN truth[r] + 1 + acc[r] ELSE truth[r]
    BY <1>2, <1>3, <2>1, <2>2, <2>4 DEF Totals
  <2>7. Sampler = "sample"
    BY <2>3 DEF Sampler
  <2> QED BY <1>1, <2>1, <2>3, <2>4, <2>5, <2>6, <2>7, CountingRuns
<1>5. CASE RunPooler
  <2>1. /\ Runs("default", "pooler") /\ SameSteps /\ pending' = pending /\ info' = info
        /\ \A r \in Req : truth'[r] = IF r \in info[h].batch THEN truth[r] + 1 ELSE truth[r]
    BY <1>1, <1>5, PoolerDoes
  <2>2. h \in 1 .. step /\ Id("pooler", h) \in Waiting
    BY <1>1, <2>1, HeadRuns
  <2>3. mode.pool /\ info[h].acc = None
    BY <2>2, IdIs DEF StreamInv, WorkRight, PoolingOnly
  <2>4. truth' \in Totals
    BY <1>3, <1>5 DEF RunPooler, Totals
  <2>5. \A r \in Req : truth'[r] = IF r \in Batch(h) THEN truth[r] + 1 + info'[h].acc[r] ELSE truth[r]
    BY <1>2, <1>3, <2>1, <2>2, <2>3 DEF Totals, None
  <2>6. Sampler = "pooler"
    BY <2>3 DEF Sampler
  <2>7. \A r \in Req : info'[h].acc[r] \in Int
    BY <1>2, <2>1, <2>2
  <2> QED BY <1>1, <2>1, <2>4, <2>5, <2>6, <2>7, CountingRuns DEF SameSteps
<1> QED BY <1>4, <1>5

\* A new step, with requests or without.
LEMMA PlannedDoes ==
  ASSUME StreamInv, DummyRun \/ \E b \in SUBSET Req, d \in DraftCounts : PlanStep(b, d),
         NEW c, c = step + 1
  PROVE  /\ pc = "idle" /\ step' = c /\ c \in Nat /\ UNCHANGED <<mode, pending, truth>> /\ SameSteps
         /\ \A n \in 1 .. step' : n = c \/ n \in 1 .. step
         /\ Waiting' = Waiting \/ Waiting' = Waiting \cup {Id("upload", c), Id("forward", c)}
<1>1. CASE \E b \in SUBSET Req, d \in DraftCounts : PlanStep(b, d)
  <2>1. PICK b \in SUBSET Req, d \in DraftCounts : PlanStep(b, d)
    BY <1>1
  <2>2. SameSteps /\ Waiting' = Waiting
    BY <2>1, PlanAdds
  <2>3. pc = "idle" /\ step' = step + 1 /\ mode' = mode /\ pending' = pending /\ truth' = truth
    BY <2>1 DEF PlanStep, gpu, history
  <2>4. step \in Nat
    BY Known
  <2> QED BY <2>2, <2>3, <2>4
<1>2. CASE DummyRun
  <2>1. pc = "idle" /\ step' = c /\ c \in Nat /\ SameSteps /\ UNCHANGED <<mode, pending, truth>>
    BY <1>2, DummyDoes
  <2>2. \A n \in 1 .. step' : n = c \/ n \in 1 .. step
    BY <1>2, DummyDoes
  <2>3. Waiting' = Waiting \cup {Id("upload", c), Id("forward", c)}
    BY <1>2, DummyDoes
  <2> QED BY <2>1, <2>2, <2>3
<1> QED BY <1>1, <1>2

\* The engine plans a step, or sends one without requests: where the last step ends, it
\* goes on.
LEMMA CountingPlanned ==
  ASSUME StreamInv, NumbersRight, DummyRun \/ \E b \in SUBSET Req, d \in DraftCounts : PlanStep(b, d)
  PROVE  CountingRight'
<1> USE DEF NumbersRight
<1>1. PICK c : c = step + 1
  OBVIOUS
<1>2. step \in Nat /\ \A a \in Waiting : a[2] \in 1 .. step
  BY Known
<1>3. /\ pc = "idle" /\ step' = c /\ c \in Nat /\ UNCHANGED <<mode, pending, truth>> /\ SameSteps
      /\ \A n \in 1 .. step' : n = c \/ n \in 1 .. step
      /\ ToSample' = ToSample /\ \A a \in Waiting' : a \in Waiting \/ a[2] = c
      /\ \A n \in 1 .. step : Unanswered(n)' <=> Unanswered(n)
      /\ \A n \in 1 .. step : Unanswered(n - 1)' <=> Unanswered(n - 1)
  <2>1. /\ pc = "idle" /\ step' = c /\ c \in Nat /\ UNCHANGED <<mode, pending, truth>> /\ SameSteps
        /\ \A n \in 1 .. step' : n = c \/ n \in 1 .. step
        /\ Waiting' = Waiting \/ Waiting' = Waiting \cup {Id("upload", c), Id("forward", c)}
    BY <1>1, PlannedDoes
  <2>2. ToSample' = ToSample /\ \A a \in Waiting' : a \in Waiting \/ a[2] = c
    BY <2>1, IdIs DEF ToSample
  <2>3. \A n : n # c => (Unanswered(n)' <=> Unanswered(n))
    BY <2>1 DEF Unanswered
  <2> QED BY <1>1, <1>2, <2>1, <2>2, <2>3
<1>4. /\ \A n : n <= step => Batch(n)' = Batch(n)
      /\ \A n \in 1 .. step, r \in Req :
           StartOf(n, r)' = StartOf(n, r) /\ EndOf(n, r)' = EndOf(n, r)
      /\ \A n \in 1 .. step : info'[n].sent = info[n].sent /\ info'[n].d = info[n].d
                              /\ info'[n].acc = info[n].acc
      /\ Sampler' = Sampler /\ SamePlans
  <2>1. SamePlans /\ step' \in Nat /\ step' >= step
    BY <1>1, <1>2, <1>3 DEF SameSteps
  <2> QED BY <1>3, <2>1, BatchKept, SumsKept DEF SameSteps, SamePlans, Sampler
<1>5. \A m, n \in 1 .. step : Follows(m, n)' <=> Follows(m, n)
  BY <1>1, <1>2, <1>3, <1>4 DEF Follows
<1>6. \A n \in 1 .. step : Latest(n)' <=> Latest(n) /\ Batch(c)' = {}
  <2>1. ASSUME NEW n \in 1 .. step
        PROVE  Latest(n)' <=> Latest(n) /\ Batch(c)' = {}
    <3>1. \A k : k \in n + 1 .. step' <=> k \in n + 1 .. step \/ k = c
      BY <1>1, <1>2, <1>3
    <3>2. n \in 1 .. step' /\ Batch(n)' = Batch(n) /\ \A k \in n + 1 .. step : Batch(k)' = Batch(k)
      BY <1>1, <1>2, <1>3, <1>4
    <3> QED BY <3>1, <3>2 DEF Latest
  <2> QED BY <2>1
<1>7. \A n \in 1 .. step : Batch(n) # {} => Id(Sampler, n) \in Waiting' \/ IsSampled(n)'
  <2>1. ASSUME NEW n \in 1 .. step, Batch(n) # {}
        PROVE  Id(Sampler, n) \in Waiting' \/ IsSampled(n)'
    <3>1. Id(Sampler, n) \in Waiting \/ IsSampled(n)
      BY <1>3, <2>1 DEF CountingRight, SamplesInOrder, At, Early
    <3>2. Id(Sampler, n) \in Waiting => Id(Sampler, n) \in ToSample
      BY IdIs DEF ToSample, Sampler
    <3>3. IsSampled(n) => IsSampled(n)'
      BY <1>1, <1>2, <1>3 DEF IsSampled
    <3> QED BY <1>3, <3>1, <3>2, <3>3 DEF ToSample
  <2> QED BY <2>1
<1>8. \A n \in 1 .. step : ~At(n, Early) /\ ~At(n, Early)'
  BY <1>1, <1>2, <1>3 DEF At, Early
<1>9. \A a \in ToSample' : (\A x \in ToSample' : a[2] <= x[2]) => \A r \in Req : truth'[r] = StartOf(a[2], r)'
  <2>1. \A a \in ToSample : a[2] \in 1 .. step
    BY <1>2 DEF ToSample
  <2> QED BY <1>3, <1>4, <2>1 DEF CountingRight, TruthRight
<1>10. truth' \in Totals
  BY <1>3 DEF CountingRight
\* Nothing to do in the step.
<1>11. ASSUME Batch(c)' = {}, sched' = sched
       PROVE  CountingRight'
  <2>1. SamplesInOrder'
    <3>1. ASSUME NEW n \in 1 .. step', Batch(n)' # {}
          PROVE  Id(Sampler, n)' \in Waiting' \/ At(n, Early)' \/ IsSampled(n)'
      <4>1. n \in 1 .. step /\ Batch(n) # {}
        BY <1>2, <1>3, <1>4, <1>11, <3>1
      <4> QED BY <1>4, <1>7, <4>1 DEF Id
    <3> QED BY <3>1 DEF SamplesInOrder
  <2>2. Chain'
    <3>1. ASSUME NEW m \in 1 .. step', NEW n \in 1 .. step', Follows(m, n)', NEW r \in Req
          PROVE  StartOf(n, r)' = EndOf(m, r)'
      <4>1. n # c /\ m # c
        BY <1>11, <3>1 DEF Follows
      <4>2. m \in 1 .. step /\ n \in 1 .. step
        BY <1>3, <4>1
      <4> QED BY <1>4, <1>5, <3>1, <4>2 DEF CountingRight, Chain
    <3>2. \/ \E n \in 1 .. step' : Latest(n)'
          \/ /\ \A n \in 1 .. step' : Batch(n)' = {}
             /\ \A r \in Req : sched'[r] = 0 /\ truth'[r] = 0
      <4>1. CASE \E n \in 1 .. step : Latest(n)
        BY <1>1, <1>2, <1>3, <1>6, <1>11, <4>1
      <4>2. CASE /\ \A n \in 1 .. step : Batch(n) = {}
                 /\ \A r \in Req : sched[r] = 0 /\ truth[r] = 0
        <5>1. \A n \in 1 .. step : Batch(n)' = {}
          BY <1>2, <1>4, <4>2
        <5> QED BY <1>3, <1>11, <4>2, <5>1
      <4> QED BY <4>1, <4>2 DEF CountingRight, Chain
    <3> QED BY <3>1, <3>2 DEF Chain
  <2>3. ASSUME NEW n \in 1 .. step', Latest(n)'
        PROVE  n \in 1 .. step /\ Latest(n) /\ Batch(n)' = Batch(n)
    <3>1. n # c
      BY <1>11, <2>3 DEF Latest
    <3> QED BY <1>2, <1>3, <1>4, <1>6, <2>3, <3>1
  <2>4. SchedRight'
    BY <1>3, <1>4, <1>11, <2>3 DEF CountingRight, SchedRight
  <2>5. TruthRight'
    BY <1>3, <1>4, <1>8, <1>9, <2>3 DEF CountingRight, TruthRight
  <2> QED BY <1>10, <2>1, <2>2, <2>4, <2>5 DEF CountingRight
\* A step with requests.
<1>12. ASSUME NEW b \in SUBSET Req, NEW d \in DraftCounts, PlanStep(b, d), b # {}
       PROVE  CountingRight'
  <2>1. /\ info'[c].batch = b /\ info'[c].sent = sched /\ info'[c].d = d /\ pc' = "prepare"
        /\ \A r \in Req : sched'[r] = IF r \in b THEN sched[r] + 1 + d[r] ELSE sched[r]
        /\ step < MaxSteps /\ c \in 1 .. step'
    BY <1>1, <1>12, PlanDoes
  <2>2. Batch(c)' = b
    BY <2>1 DEF Batch
  <2>15. IF mode.async THEN InFlight < 2 ELSE InFlight = 0
    BY <1>12 DEF PlanStep
  <2>16. \A r \in Req : d[r] \in Int
    BY StreamsAssumption DEF DraftCounts
  <2>3. /\ \A r \in Req : d[r] \in Int /\ sched[r] \in Int
        /\ IF mode.async THEN InFlight < 2 ELSE InFlight = 0
    BY <2>15, <2>16, Known DEF Totals
  <2>4. /\ \A n : Unanswered(n) => n = step /\ mode.async
        /\ mode.async /\ Batch(step) # {} => Unanswered(step)
        /\ Unanswered(c - 1)' <=> Unanswered(step)
        /\ Unanswered(c)'
    <3>1. /\ mode.async \/ \A n : ~Unanswered(n)
          /\ \A n : Unanswered(n) => n = step
          /\ mode.async /\ Batch(step) # {} => Unanswered(step)
      BY <1>3, <2>1, <2>3, Recent
    <3>2. \A n : n # c => (Unanswered(n)' <=> Unanswered(n))
      BY <1>1, <1>3 DEF Unanswered
    <3>3. PICK p : p = step
      OBVIOUS
    <3>4. c - 1 = p /\ p # c /\ c' = c
      BY <1>1, <1>2, <3>3
    <3>5. Unanswered(p)' <=> Unanswered(p)
      BY <3>2, <3>4
    <3>6. Unanswered(c)'
      BY <1>3, <2>1 DEF Unanswered
    <3> QED BY <3>1, <3>3, <3>4, <3>5, <3>6
  <2>5. PICK p : p = step
    OBVIOUS
  <2>6. /\ p = c - 1 /\ p \in Nat /\ p' = p /\ Batch(p)' = Batch(p) /\ c \in Nat /\ c > p
        /\ Batch(p) # {} => p \in 1 .. step
    BY <1>1, <1>2, <1>4, <2>5 DEF Batch
  <2>7. /\ \A r \in Req : Rejected(c, r)' =
             IF mode.async /\ r \in Batch(p) THEN info[p].d[r] - info[p].acc[r] ELSE 0
        /\ \A r \in Req : StartOf(c, r)' = sched[r] - Rejected(c, r)' /\ Rejected(c, r)' \in Int
    <3>1. \A r \in Req : r \in Batch(p) => /\ info'[p].d[r] = info[p].d[r]
                                           /\ info'[p].acc[r] = info[p].acc[r]
                                           /\ info[p].d[r] \in Int /\ info[p].acc[r] \in Int
      BY <1>4, <2>6, Sums
    <3>2. \A r \in Req : Rejected(c, r)' =
            IF mode.async /\ r \in Batch(p) THEN info[p].d[r] - info[p].acc[r] ELSE 0
      BY <1>3, <2>6, <3>1 DEF Rejected
    <3>3. \A r \in Req : StartOf(c, r)' = sched[r] - Rejected(c, r)'
      BY <2>1 DEF StartOf
    <3> QED BY <3>1, <3>2, <3>3
  <2>8. ASSUME NEW m \in 1 .. step, Latest(m), NEW r \in Req
        PROVE  StartOf(c, r)' = EndOf(m, r)
    <3>1. m \in Int /\ m <= p /\ ~Unanswered(m - 1) /\ (m < p => ~Unanswered(m) /\ Batch(p) = {})
      <4>1. m \in Int /\ m <= p
        BY <1>2, <2>5
      <4>2. ~Unanswered(m - 1) /\ (m < p => ~Unanswered(m))
        BY <2>4, <2>5, <4>1
      <4>3. m < p => Batch(p) = {}
        BY <2>5, <2>6, <2>8, <4>1 DEF Latest
      <4> QED BY <4>1, <4>2, <4>3
    <3>2. sched[r] = StartOf(m, r)
                     + (IF r \notin Batch(m) THEN 0
                        ELSE IF Unanswered(m) THEN 1 + info[m].d[r] ELSE 1 + info[m].acc[r])
      BY <2>8, <3>1 DEF CountingRight, SchedRight
    <3>3. /\ StartOf(m, r) \in Int /\ info[m].d[r] \in Int /\ info[m].acc[r] \in Int
          /\ EndOf(m, r) = StartOf(m, r) + (IF r \in Batch(m) THEN 1 + info[m].acc[r] ELSE 0)
      BY Sums DEF EndOf
    <3>4. CASE m < p
      BY <2>7, <3>1, <3>2, <3>3, <3>4
    <3>5. CASE m = p /\ r \notin Batch(m)
      BY <2>7, <3>2, <3>3, <3>5
    <3>6. CASE m = p /\ r \in Batch(m)
      <4>1. Unanswered(m) <=> mode.async
        BY <2>4, <2>5, <3>6
      <4>2. r \in Batch(p) /\ StartOf(c, r)' = sched[r] - Rejected(c, r)'
        BY <2>7, <3>6
      <4>3. CASE mode.async
        <5>1. Rejected(c, r)' = info[m].d[r] - info[m].acc[r]
          BY <2>7, <3>6, <4>2, <4>3
        <5>2. sched[r] = StartOf(m, r) + (1 + info[m].d[r])
          BY <3>2, <3>6, <4>1, <4>3
        <5> QED BY <3>3, <3>6, <4>2, <5>1, <5>2
      <4>4. CASE ~mode.async
        <5>1. Rejected(c, r)' = 0
          BY <2>7, <4>4
        <5>2. sched[r] = StartOf(m, r) + (1 + info[m].acc[r])
          BY <3>2, <3>6, <4>1, <4>4
        <5> QED BY <3>3, <3>6, <4>2, <5>1, <5>2
      <4> QED BY <4>3, <4>4
    <3> QED BY <2>6, <3>1, <3>4, <3>5, <3>6
  <2>9. ASSUME \A n \in 1 .. step : Batch(n) = {}, NEW r \in Req, sched[r] = 0
        PROVE  StartOf(c, r)' = 0
    <3>1. Batch(p) = {}
      BY <2>6, <2>9
    <3> QED BY <2>7, <2>9, <3>1
  <2>10. \A n \in 1 .. step' : (Latest(n)' => n = c) /\ (Batch(n)' # {} => n = c \/ (n \in 1 .. step /\ Batch(n) # {}))
    BY <1>2, <1>3, <1>4, <1>6, <1>12, <2>2
  <2>11. SamplesInOrder'
    <3>1. At(c, Early)'
      BY <1>3, <2>1 DEF At, Early
    <3> QED BY <1>4, <1>7, <2>10, <3>1 DEF SamplesInOrder, Id
  <2>12. Chain'
    <3>1. ASSUME NEW m \in 1 .. step', NEW n \in 1 .. step', Follows(m, n)', NEW r \in Req
          PROVE  StartOf(n, r)' = EndOf(m, r)'
      <4>1. m < n /\ m \in 1 .. step /\ m # c
        BY <1>1, <1>2, <1>3, <3>1 DEF Follows
      <4>2. CASE n = c
        <5>1. Latest(m)
          <6>1. \A k \in m + 1 .. step : k \in m + 1 .. c - 1 /\ Batch(k)' = Batch(k)
            BY <1>1, <1>2, <1>4
          <6>2. \A k \in m + 1 .. c - 1 : Batch(k)' = {}
            BY <3>1, <4>2 DEF Follows
          <6>3. Batch(m) # {}
            BY <1>2, <1>4, <3>1, <4>1 DEF Follows
          <6> QED BY <4>1, <6>1, <6>2, <6>3 DEF Latest
        <5> QED BY <1>4, <2>8, <4>1, <4>2, <5>1
      <4>3. CASE n # c
        BY <1>3, <1>4, <1>5, <3>1, <4>1, <4>3 DEF CountingRight, Chain
      <4> QED BY <4>2, <4>3
    <3>2. Latest(c)'
      <4>1. c + 1 .. step' = {}
        BY <1>3
      <4> QED BY <1>3, <1>12, <2>1, <2>2, <4>1 DEF Latest
    <3> QED BY <2>1, <3>1, <3>2 DEF Chain
  <2>13. SchedRight'
    <3>1. ASSUME NEW r \in Req
          PROVE  sched'[r] = (IF Unanswered(c - 1)' THEN info'[c].sent[r] ELSE StartOf(c, r)')
                   + (IF r \notin Batch(c)' THEN 0
                      ELSE IF Unanswered(c)' THEN 1 + info'[c].d[r] ELSE 1 + info'[c].acc[r])
      <4>1. sched'[r] = sched[r] + (IF r \in b THEN 1 + d[r] ELSE 0)
        BY <2>1, <2>3
      <4>2. Unanswered(step) \/ StartOf(c, r)' = sched[r]
        <5>1. Unanswered(step) \/ ~mode.async \/ Batch(p) = {}
          BY <2>4, <2>5
        <5> QED BY <2>3, <2>7, <5>1
      <4> QED BY <2>1, <2>2, <2>4, <4>1, <4>2
    <3> QED BY <2>10, <3>1 DEF SchedRight
  <2>14. TruthRight'
    <3>1. ASSUME ToSample' = {}, NEW r \in Req
          PROVE  truth'[r] = StartOf(c, r)'
      <4>1. ToSample = {} /\ truth' = truth
        BY <1>3, <3>1
      <4>2. CASE \E m \in 1 .. step : Latest(m)
        <5>1. PICK m \in 1 .. step : Latest(m)
          BY <4>2
        <5>2. truth[r] = EndOf(m, r)
          BY <1>8, <4>1, <5>1 DEF CountingRight, TruthRight
        <5> QED BY <2>8, <4>1, <5>1, <5>2
      <4>3. CASE /\ \A n \in 1 .. step : Batch(n) = {}
                 /\ \A x \in Req : sched[x] = 0 /\ truth[x] = 0
        BY <2>9, <4>1, <4>3
      <4> QED BY <4>2, <4>3 DEF CountingRight, Chain
    <3>2. At(c, Early)'
      BY <1>3, <2>1 DEF At, Early
    <3> QED BY <1>9, <2>10, <3>1, <3>2 DEF TruthRight
  <2> QED BY <1>10, <2>11, <2>12, <2>13, <2>14 DEF CountingRight
<1>15. ASSUME NEW b \in SUBSET Req, NEW d \in DraftCounts, PlanStep(b, d)
       PROVE  /\ info'[c].batch = b /\ c \in 1 .. step'
              /\ \A r \in Req : sched'[r] = IF r \in b THEN sched[r] + 1 + d[r] ELSE sched[r]
  BY <1>1, <1>15, PlanDoes
<1>13. ASSUME NEW b \in SUBSET Req, NEW d \in DraftCounts, PlanStep(b, d), b = {}
       PROVE  CountingRight'
  <2>1. /\ info'[c].batch = {} /\ c \in 1 .. step'
        /\ \A r \in Req : sched'[r] = sched[r]
    <3>1. /\ info'[c].batch = b /\ c \in 1 .. step'
          /\ \A r \in Req : sched'[r] = IF r \in b THEN sched[r] + 1 + d[r] ELSE sched[r]
      BY <1>13, <1>15
    <3> QED BY <1>13, <3>1
  <2>2. sched' = sched
    <3>1. sched \in [Req -> Int] /\ sched' \in [Req -> Int]
      BY <1>13, Known, NextStreams DEF Next, Engine, Totals, StreamInv, StreamTypes, EngineTypes
    <3> QED BY <2>1, <3>1
  <2>3. Batch(c)' = {}
    BY <2>1 DEF Batch
  <2> QED BY <1>11, <2>2, <2>3
<1>14. CASE DummyRun
  <2>1. /\ info'[c].batch = {} /\ c \in 1 .. step' /\ sched' = sched
    BY <1>1, <1>14, DummyDoes
  <2>2. Batch(c)' = {}
    BY <2>1 DEF Batch
  <2> QED BY <1>11, <2>1, <2>2
<1> QED BY <1>12, <1>13, <1>14

\* The engine takes an answer: what it counted too much is taken off again.
LEMMA CountingTaken ==
  ASSUME StreamInv, NumbersRight, TakeOutput
  PROVE  CountingRight'
<1> USE DEF NumbersRight
<1>1. PICK o : o = Head(pending)
  OBVIOUS
<1>2. PICK p : p = o.n
  OBVIOUS
<1>3. /\ 1 \in DOMAIN pending /\ o = pending[1] /\ p \in 1 .. step /\ OutputRight(o)
      /\ \A i \in DOMAIN pending' : i + 1 \in DOMAIN pending /\ pending'[i] = pending[i + 1]
      /\ \A i \in DOMAIN pending : i = 1 \/ i - 1 \in DOMAIN pending'
      /\ Len(pending) \in Nat /\ DOMAIN pending = 1 .. Len(pending)
      /\ DOMAIN pending' = 1 .. Len(pending') /\ Len(pending') = Len(pending) - 1
      /\ UNCHANGED <<mode, pc, step, info, truth>> /\ Waiting' = Waiting /\ SameSteps
      /\ \A r \in Req : sched'[r] = IF r \in info[p].batch
                                    THEN sched[r] - (info[p].d[r] - info[p].acc[r]) ELSE sched[r]
  BY <1>1, <1>2, TakeDoes
<1>4. step \in Nat /\ Batch(p) = info[p].batch
  BY <1>3, Known DEF Batch
<1>5. /\ Unanswered(p) /\ ~Unanswered(p)'
      /\ \A n : n # p => (Unanswered(n)' <=> Unanswered(n))
  <2>1. \A i \in DOMAIN pending' : pending'[i].n # p
    <3>1. \A i \in DOMAIN pending :
            pending[i].n = (IF pc = "idle" THEN step ELSE step - 1) - Len(pending) + i
      BY DEF AnswersRight
    <3> QED BY <1>2, <1>3, <1>4, <3>1
  <2>2. pc # "idle" => p # step
    BY <1>2, <1>3, <1>4 DEF OutputRight
  <2>3. \A i \in DOMAIN pending : i = 1 \/ pending'[i - 1] = pending[i]
    BY <1>3
  <2> QED BY <1>2, <1>3, <2>1, <2>2, <2>3 DEF Unanswered
<1>6. /\ \A n : Batch(n)' = Batch(n) /\ (Latest(n)' <=> Latest(n))
      /\ \A n \in 1 .. step, r \in Req :
           StartOf(n, r)' = StartOf(n, r) /\ EndOf(n, r)' = EndOf(n, r)
      /\ \A m, n \in 1 .. step : Follows(m, n)' <=> Follows(m, n)
      /\ \A n : At(n, Early)' <=> At(n, Early)
      /\ Sampler' = Sampler /\ ToSample' = ToSample
      /\ \A n : IsSampled(n)' <=> IsSampled(n)
  <2>1. \A n : Batch(n)' = Batch(n)
    BY <1>3 DEF Batch
  <2>2. \A n \in 1 .. step, r \in Req :
          StartOf(n, r)' = StartOf(n, r) /\ EndOf(n, r)' = EndOf(n, r)
    BY <1>3, <1>4, SumsKept DEF SameSteps
  <2> QED BY <1>3, <2>1, <2>2 DEF Latest, Follows, At, Sampler, ToSample, IsSampled
<1>7. SamplesInOrder'
  BY <1>3, <1>6 DEF CountingRight, SamplesInOrder, Id
<1>8. Chain'
  <2>1. \/ \E n \in 1 .. step : Latest(n)
        \/ /\ \A n \in 1 .. step : Batch(n) = {}
           /\ \A r \in Req : sched'[r] = 0 /\ truth[r] = 0
    <3>1. CASE /\ \A n \in 1 .. step : Batch(n) = {}
               /\ \A r \in Req : sched[r] = 0 /\ truth[r] = 0
      BY <1>3, <1>4, <3>1
    <3> QED BY <3>1 DEF CountingRight, Chain
  <2> QED BY <1>3, <1>6, <2>1 DEF CountingRight, Chain
<1>9. SchedRight'
  <2>1. ASSUME NEW m \in 1 .. step, Latest(m), NEW r \in Req
        PROVE  sched'[r] = (IF Unanswered(m - 1)' THEN info[m].sent[r] ELSE StartOf(m, r))
                 + (IF r \notin Batch(m) THEN 0
                    ELSE IF Unanswered(m)' THEN 1 + info[m].d[r] ELSE 1 + info[m].acc[r])
    <3>1. sched[r] = (IF Unanswered(m - 1) THEN info[m].sent[r] ELSE StartOf(m, r))
                     + (IF r \notin Batch(m) THEN 0
                        ELSE IF Unanswered(m) THEN 1 + info[m].d[r] ELSE 1 + info[m].acc[r])
      BY <2>1 DEF CountingRight, SchedRight
    <3>2. /\ p \in Nat /\ p <= step /\ p >= step - 1 /\ (~mode.async => p = step)
          /\ m \in Nat /\ m <= step /\ m - 1 \in Int
      BY <1>3, <1>4, <1>5, Recent
    <3>3. /\ sched[r] \in Int /\ StartOf(m, r) \in Int /\ info[m].sent[r] \in Int
          /\ info[m].d[r] \in Int /\ info[m].acc[r] \in Int
          /\ info[p].d[r] \in Int /\ info[p].acc[r] \in Int
      BY <1>3, Sums, Known DEF Totals
    <3>7. (m - 1)' = m - 1 /\ (m - 1 # p => (Unanswered(m - 1)' <=> Unanswered(m - 1)))
      <4>1. PICK k : k = m - 1
        OBVIOUS
      <4>2. k # p => (Unanswered(k)' <=> Unanswered(k))
        BY <1>5
      <4> QED BY <4>1, <4>2
    <3>4. CASE p = m
      <4>1. ~Unanswered(m)' /\ Unanswered(m) /\ (Unanswered(m - 1)' <=> Unanswered(m - 1))
        BY <1>5, <3>2, <3>4, <3>7
      <4>2. sched'[r] = IF r \in Batch(m) THEN sched[r] - (info[m].d[r] - info[m].acc[r]) ELSE sched[r]
        BY <1>3, <1>4, <3>4
      <4> QED BY <3>1, <3>3, <4>1, <4>2
    <3>5. CASE p = m - 1
      <4>1. ~Unanswered(m - 1)' /\ Unanswered(m - 1) /\ (Unanswered(m)' <=> Unanswered(m))
        BY <1>5, <3>2, <3>5
      <4>2. sched'[r] = IF r \in Batch(p) THEN sched[r] - (info[p].d[r] - info[p].acc[r]) ELSE sched[r]
        BY <1>3, <1>4
      <4>3. StartOf(m, r) = info[m].sent[r] - (IF r \in Batch(p) THEN info[p].d[r] - info[p].acc[r] ELSE 0)
        BY <3>2, <3>5 DEF StartOf, Rejected
      <4> QED BY <3>1, <3>3, <4>1, <4>2, <4>3
    <3>6. CASE p > m
      <4>1. (Unanswered(m - 1)' <=> Unanswered(m - 1)) /\ (Unanswered(m)' <=> Unanswered(m))
        BY <1>5, <3>2, <3>6, <3>7
      <4>2. Batch(p) = {}
        BY <2>1, <3>2, <3>6 DEF Latest
      <4>3. sched'[r] = sched[r]
        BY <1>3, <1>4, <4>2
      <4> QED BY <3>1, <4>1, <4>3
    <3> QED BY <1>4, <3>2, <3>4, <3>5, <3>6
  <2> QED BY <1>3, <1>6, <2>1 DEF SchedRight
<1>10. TruthRight'
  <2>1. \A a \in ToSample : a[2] \in 1 .. step
    BY Known DEF ToSample
  <2> QED BY <1>3, <1>6, <2>1 DEF CountingRight, TruthRight
<1> QED BY <1>3, <1>7, <1>8, <1>9, <1>10 DEF CountingRight

\* The counts stay right.
LEMMA CountingKept ==
  ASSUME StreamInv, NumbersRight, [Next]_vars
  PROVE  CountingRight'
<1>1. CASE Engine
  BY <1>1, CountingPlanned, CountingTaken DEF Engine
<1>2. CASE MainThread
  BY <1>2, CountingQuiet, CountingSent DEF MainThread
<1>3. CASE TakeDrafts \/ OutputThread \/ UNCHANGED vars
  BY <1>3, CountingQuiet DEF OutputThread
<1>4. CASE DefaultStream \/ DownloadOutput \/ DownloadDrafts \/ DownloadCounts
  BY <1>4, CountingQuietStreams, CountingSampled DEF DefaultStream
<1> QED BY <1>1, <1>2, <1>3, <1>4 DEF Next

-----------------------------------------------------------------------------
(* The host's own count, and its uploads.                                  *)

\* The configuration stays, and the events.
LEMMA ModeKept ==
  ASSUME StreamInv, NumbersRight, [Next]_vars
  PROVE  ModeRight' /\ mode' = mode /\ DOMAIN events' = DOMAIN events
<1>1. mode' = mode /\ DOMAIN events' = DOMAIN events
  <2>1. CASE Engine
    <3>1. CASE \E b \in SUBSET Req, d \in DraftCounts : PlanStep(b, d)
      BY <3>1, Zenon DEF PlanStep
    <3>2. CASE TakeOutput \/ DummyRun
      BY <3>2 DEF TakeOutput, DummyRun
    <3> QED BY <2>1, <3>1, <3>2 DEF Engine
  <2>2. CASE Prepare \/ AnswerEmpty \/ LaunchForward \/ CorrectCounts \/ SampleTokens
    BY <2>2 DEF Prepare, AnswerEmpty, LaunchForward, CorrectCounts, SampleTokens
  <2>3. CASE Propose \/ DownloadTokens \/ ReturnTokens \/ ReturnAsync
    BY <2>3 DEF Propose, StashCounts, DownloadTokens, ReturnTokens, ReturnAsync
  <2>4. CASE \E wanted : CopyDrafts(wanted) \/ ZeroDrafts(wanted)
    BY <2>4 DEF CopyDrafts, ZeroDrafts
  <2>5. CASE (\E finished : Pool(finished)) \/ TakeDrafts \/ OutputThread \/ UNCHANGED vars
    BY <2>5 DEF Pool, TakeDrafts, OutputThread, GetOutput, vars
  <2>6. CASE DefaultStream \/ DownloadOutput \/ DownloadDrafts \/ DownloadCounts
    BY <2>6 DEF DefaultStream, DownloadOutput, DownloadDrafts, DownloadCounts, RunUpload,
                RunForward, RunSample, RunDraft, RunClone, RunPooler, DownloadExperts,
                DownloadToList, Runs
  <2> QED BY <2>1, <2>2, <2>3, <2>4, <2>5, <2>6 DEF Next, MainThread
<1> QED BY <1>1 DEF NumbersRight, ModeRight

\* Where nothing is to be corrected a step starts from the number it was sent.
LEMMA StartIsSent ==
  ASSUME StreamInv, NumbersRight, NEW n \in 1 .. step, NEW r \in Batch(n), r \notin DeferredOf(n)
  PROVE  StartOf(n, r) = info[n].sent[r] /\ Rejected(n, r) = 0
<1>1. r \in Req /\ info[n].sent[r] \in Int
  BY Known DEF Batch
<1>2. Rejected(n, r) = 0
  <2>1. CASE mode.async /\ r \in Batch(n - 1)
    <3>1. PICK m \in 1 .. step : m = n - 1
      BY <2>1 DEF Batch
    <3>2. ~(info[m].d[r] > 0)
      BY <2>1, <3>1 DEF DeferredOf
    <3>3. 0 <= info[m].acc[r] /\ info[m].acc[r] <= info[m].d[r] /\ info[m].acc[r] \in Int /\ info[m].d[r] \in Int
      BY <1>1, Known DEF NumbersRight, PlansRight
    <3> QED BY <2>1, <3>1, <3>2, <3>3 DEF Rejected
  <2>2. CASE ~(mode.async /\ r \in Batch(n - 1))
    BY <2>2 DEF Rejected
  <2> QED BY <2>1, <2>2
<1> QED BY <1>1, <1>2 DEF StartOf

\* Sampling a step moves the start of the one after it, for requests it corrects.
LEMMA StartsStay ==
  ASSUME StreamInv, NumbersRight, NEW acc \in DraftCounts, RunSample(acc), NEW h, h = Now("default")
  PROVE  \A n \in 1 .. step : \A r \in Batch(n) :
           StartOf(n, r)' = StartOf(n, r) \/ (n = h + 1 /\ r \in DeferredOf(n))
<1>1. /\ Runs("default", "sample") /\ SamePlans /\ h \in 1 .. step /\ step \in Nat
      /\ UNCHANGED <<mode, step>>
  BY SamplerDoes, HeadRuns, Known
<1>2. info' = [info EXCEPT ![h].acc = acc]
  BY DEF RunSample
<1>3. \A m \in 1 .. step : m # h => info'[m].acc = info[m].acc
  BY <1>2, Known
<1>4. info'[h].acc = acc /\ \A r \in Req : 0 <= acc[r] /\ acc[r] <= info[h].d[r] /\ acc[r] \in Int
  <2>1. \A r \in Req : acc[r] \in Int
    BY StreamsAssumption DEF DraftCounts
  <2> QED BY <1>1, <2>1, SamplerDoes
<1>5. ASSUME NEW n \in 1 .. step, NEW r \in Batch(n), ~(n = h + 1 /\ r \in DeferredOf(n))
      PROVE  StartOf(n, r)' = StartOf(n, r)
  <2>1. PICK m : m = n - 1
    OBVIOUS
  <2>2. /\ r \in Req /\ Batch(m)' = Batch(m) /\ info'[n].sent = info[n].sent
        /\ Batch(m) # {} => m \in 1 .. step /\ info'[m].d = info[m].d
    BY <1>1, <2>1, Known, BatchKept DEF Batch, SamePlans
  <2>3. /\ StartOf(n, r)' = info'[n].sent[r] - Rejected(n, r)'
        /\ StartOf(n, r) = info[n].sent[r] - Rejected(n, r)
    BY DEF StartOf
  <2>4. Rejected(n, r)' = Rejected(n, r)
    <3>1. /\ Rejected(n, r) = IF mode.async /\ r \in Batch(m) THEN info[m].d[r] - info[m].acc[r] ELSE 0
          /\ Rejected(n, r)' = IF mode.async /\ r \in Batch(m) THEN info'[m].d[r] - info'[m].acc[r] ELSE 0
      BY <1>1, <2>1, <2>2 DEF Rejected
    <3>2. CASE mode.async /\ r \in Batch(m) /\ m = h
      <4>1. n = h + 1
        BY <1>1, <2>1, <3>2
      <4>2. ~(info[h].d[r] > 0) /\ info[h].d[r] \in Int /\ info[h].acc[r] \in Int
        BY <1>1, <1>5, <2>1, <2>2, <3>2, <4>1, Known DEF DeferredOf
      <4>3. 0 <= info[h].acc[r] /\ info[h].acc[r] <= info[h].d[r]
        BY <1>1, <2>2 DEF NumbersRight, PlansRight
      <4>4. acc[r] = info[h].acc[r]
        BY <1>4, <2>2, <4>2, <4>3
      <4> QED BY <1>4, <2>2, <3>1, <3>2, <4>4
    <3>3. CASE m # h
      BY <1>3, <2>2, <3>1, <3>3
    <3> QED BY <3>1, <3>2, <3>3
  <2> QED BY <2>2, <2>3, <2>4
<1> QED BY <1>5

\* The host corrects its count.
LEMMA Corrected ==
  ASSUME StreamInv, NumbersRight, CorrectCounts
  PROVE  /\ \A r \in Batch(step) : host'.computed[r] = StartOf(step, r)
         /\ \A r \in Req : r \notin DeferredOf(step) => host'.computed[r] = host.computed[r]
         /\ DeferredOf(step) # {} =>
              /\ Id("sample", step - 1) \notin Waiting
              /\ \A a \in Waiting : a[2] >= step \/ 3 < Stage[a[1]]
<1> USE DEF NumbersRight
<1>1. /\ step \in 1 .. step /\ pc = "correct" /\ IsDone("count", events.count)
      /\ \A r \in Req : host'.computed[r] =
           IF info[step].assumed[r] > 0 /\ r \in worker.prevRows
           THEN host.computed[r] - (info[step].assumed[r] - (host.counts[r] - 1))
           ELSE host.computed[r]
      /\ Batch(step) # {} /\ Batch(step) \subseteq Req /\ step \in Nat
  BY CorrectDoes, Known DEF StepsReal, Batch
<1>2. \A r \in Req : info[step].assumed[r] = IF r \in DeferredOf(step) THEN info[step - 1].d[r] ELSE 0
  BY <1>1 DEF PlansRight
<1>3. \A r \in Req : r \notin DeferredOf(step) => host'.computed[r] = host.computed[r]
  BY <1>1, <1>2
<1>4. \A r \in Batch(step) : host.computed[r] = info[step].sent[r]
  BY <1>1 DEF CorrectionRight
<1>5. ASSUME DeferredOf(step) # {}
      PROVE  /\ step - 1 \in 1 .. step /\ mode.async /\ Batch(step - 1) # {}
             /\ Id("sample", step - 1) \notin Waiting
             /\ \A r \in Req : host.counts[r] = info[step - 1].acc[r] + 1
             /\ worker.prevRows = Batch(step - 1)
  <2>1. mode.async /\ Batch(step - 1) # {} /\ step - 1 \in 1 .. step
    BY <1>5 DEF DeferredOf, Batch
  <2>2. ~mode.pool
    BY <1>1 DEF StreamInv, WorkRight, PoolingOnly, Sampling
  <2>3. worker.counts = step - 1 /\ worker.prevRows = Batch(step - 1)
    BY <1>1, <2>1, <2>2 DEF WorkerRight, Early
  <2>4. /\ events.count = Id("count", step - 1)
        /\ \/ Id("count", step - 1) \in IdsOf(queue["count"])
           \/ /\ Id("sample", step - 1) \notin Waiting
              /\ \A r \in Req : host.counts[r] = info[step - 1].acc[r] + 1
    BY <2>1, <2>3 DEF CountCopiesRight
  <2>5. Id("count", step - 1) \notin IdsOf(queue["count"])
    BY <1>1, <2>4 DEF IsDone, IdsOf
  <2> QED BY <2>1, <2>3, <2>4, <2>5
<1>6. ASSUME DeferredOf(step) # {}
      PROVE  \A a \in Waiting : a[2] >= step \/ 3 < Stage[a[1]]
  <2>1. PICK p \in 1 .. step : p = step - 1
    BY <1>5, <1>6
  <2>2. Batch(p) # {} /\ p # step /\ Id("sample", p) \notin Waiting
    BY <1>1, <1>5, <1>6, <2>1
  <2>3. Sampler = "sample"
    BY <1>1 DEF Sampler, StreamInv, WorkRight, PoolingOnly, Sampling
  <2>4. IsSampled(p)
    BY <2>2, <2>3 DEF CountingRight, SamplesInOrder, At
  <2> QED BY <1>1, <2>1, <2>4, Known DEF IsSampled
<1>7. ASSUME NEW r \in Batch(step)
      PROVE  host'.computed[r] = StartOf(step, r)
  <2>1. CASE r \notin DeferredOf(step)
    BY <1>1, <1>3, <1>4, <1>7, <2>1, StartIsSent
  <2>2. CASE r \in DeferredOf(step)
    <3>1. PICK p \in 1 .. step : p = step - 1
      BY <1>5, <2>2
    <3>2. /\ mode.async /\ r \in Batch(p) /\ info[p].d[r] > 0 /\ r \in Req
      BY <1>1, <2>2, <3>1 DEF DeferredOf
    <3>3. /\ host.counts[r] = info[p].acc[r] + 1 /\ r \in worker.prevRows
          /\ info[step].assumed[r] = info[p].d[r]
      BY <1>2, <1>5, <2>2, <3>1, <3>2
    <3>4. info[p].d[r] \in Int /\ info[p].acc[r] \in Int /\ info[step].sent[r] \in Int
      BY <1>1, <3>2, Known
    <3>5. StartOf(step, r) = info[step].sent[r] - (info[p].d[r] - info[p].acc[r])
      BY <3>1, <3>2 DEF StartOf, Rejected
    <3> QED BY <1>1, <1>4, <3>2, <3>3, <3>4, <3>5
  <2> QED BY <2>1, <2>2
<1> QED BY <1>3, <1>5, <1>6, <1>7

\* The host's count is that of the step it prepares.
LEMMA CorrectionKept ==
  ASSUME StreamInv, NumbersRight, [Next]_vars
  PROVE  CorrectionRight'
<1> USE DEF NumbersRight
<1>1. /\ step \in Nat /\ (pc # "idle" => step \in 1 .. step)
      /\ \A n \in 1 .. step : Batch(n) \subseteq Req
  BY Known DEF Batch
<1>2. ASSUME pc' \notin {"launch", "correct", "sample"}
      PROVE  CorrectionRight'
  BY <1>2 DEF CorrectionRight
<1>3. ASSUME UNCHANGED <<mode, step>>, SamePlans
      PROVE  Batch(step)' = Batch(step) /\ (pc # "idle" => info'[step].sent = info[step].sent
                                                          /\ DeferredOf(step)' = DeferredOf(step))
  BY <1>1, <1>3, BatchKept, DeferredKept DEF SamePlans
<1>4. ASSUME UNCHANGED <<mode, step>>, SamePlans, \A n \in 1 .. step : info'[n].acc = info[n].acc
      PROVE  \A r \in Batch(step) : pc # "idle" => StartOf(step, r)' = StartOf(step, r)
  BY <1>1, <1>4, SumsKept
\* Steps that change neither the host's count nor what was accepted.
<1>5. ASSUME UNCHANGED <<mode, pc, step, host.computed>>, SameSteps, Waiting' \subseteq Waiting
      PROVE  CorrectionRight'
  <2>1. SamePlans /\ \A n \in 1 .. step : info'[n].acc = info[n].acc
    BY <1>5 DEF SameSteps
  <2>2. pc # "idle" => /\ Batch(step)' = Batch(step) /\ info'[step].sent = info[step].sent
                       /\ DeferredOf(step)' = DeferredOf(step)
                       /\ \A r \in Batch(step) : StartOf(step, r)' = StartOf(step, r)
    BY <1>3, <1>4, <1>5, <2>1
  <2>3. Id("sample", step - 1)' = Id("sample", step - 1)
    BY <1>5 DEF Id
  <2> QED BY <1>5, <2>2, <2>3 DEF CorrectionRight
<1>6. CASE TakeOutput
  <2>1. UNCHANGED <<mode, pc, step, host>> /\ SameSteps /\ Waiting' = Waiting
    BY <1>6, TakeDoes
  <2> QED BY <1>5, <2>1
<1>7. CASE TakeDrafts
  BY <1>5, <1>7, TakeDraftsDoes
<1>8. CASE \E i \in DOMAIN pending : GetOutput(i)
  BY <1>5, <1>8, GetDoes
<1>9. CASE UNCHANGED vars
  BY <1>5, <1>9 DEF vars, gpu, Waiting, SameSteps, SamePlans
<1>10. CASE RunUpload \/ RunForward \/ RunDraft \/ RunPooler
  <2>1. PICK kind : Runs("default", kind) /\ SameSteps /\ host' = host
    BY <1>10, UploadDoes, ForwardDoes, DrafterDoes, PoolerDoes
  <2>2. UNCHANGED <<mode, pc, step>> /\ Waiting' \subseteq Waiting
    BY <2>1, HeadRuns
  <2> QED BY <1>5, <2>1, <2>2
<1>11. CASE RunClone \/ DownloadExperts \/ DownloadToList
  <2>1. PICK kind : Runs("default", kind) /\ SameSteps /\ host'.computed = host.computed
    BY <1>11, OtherRuns
  <2>2. UNCHANGED <<mode, pc, step>> /\ Waiting' \subseteq Waiting
    BY <2>1, HeadRuns
  <2> QED BY <1>5, <2>1, <2>2
<1>12. CASE DownloadOutput \/ DownloadDrafts \/ DownloadCounts
  <2>1. host'.computed = host.computed /\ info' = info
    BY <1>12, Buffers DEF DownloadOutput, DownloadDrafts, DownloadCounts
  <2>2. \E s \in {"output", "draft", "count"} : \E kind : Runs(s, kind)
    BY <1>12 DEF DownloadOutput, DownloadDrafts, DownloadCounts
  <2>3. UNCHANGED <<mode, pc, step>> /\ SameSteps /\ Waiting' = Waiting
    BY <2>1, <2>2, DownloadDoes
  <2> QED BY <1>5, <2>1, <2>3
<1>13. CASE Prepare
  <2>1. /\ UNCHANGED <<mode, step>> /\ SamePlans /\ pc = "prepare" /\ pc' = "launch"
        /\ \A r \in Req : host'.computed[r] = IF r \in info[step].batch THEN info[step].sent[r]
                                              ELSE host.computed[r]
    BY <1>13, PrepareDoes
  <2>2. info[step].batch = Batch(step)
    BY <1>1, <2>1 DEF Batch
  <2> QED BY <1>1, <1>3, <2>1, <2>2 DEF CorrectionRight
<1>14. CASE LaunchForward
  <2>1. /\ UNCHANGED <<mode, step, host>> /\ SameSteps /\ pc = "launch"
        /\ pc' = (IF mode.pool THEN "pool"
                  ELSE IF info[step].assumed # None THEN "correct" ELSE "sample")
    BY <1>14, LaunchDoes
  <2>2. SamePlans /\ \A n \in 1 .. step : info'[n].acc = info[n].acc
    BY <2>1 DEF SameSteps
  <2>3. /\ Batch(step)' = Batch(step) /\ info'[step].sent = info[step].sent
        /\ DeferredOf(step)' = DeferredOf(step)
        /\ \A r \in Batch(step) : StartOf(step, r)' = StartOf(step, r)
    BY <1>3, <1>4, <2>1, <2>2
  <2>4. \A r \in Batch(step) : host.computed[r] = info[step].sent[r]
    BY <2>1 DEF CorrectionRight
  <2>5. pc' = "sample" => DeferredOf(step) = {}
    <3>1. SUFFICES ASSUME info[step].assumed = None, NEW r \in DeferredOf(step)
                   PROVE  FALSE
      BY <2>1
    <3>2. r \in Req /\ Batch(step) # {} /\ info[step - 1].d[r] > 0
      BY <1>1, <2>1 DEF DeferredOf
    <3>3. info[step].assumed[r] = info[step - 1].d[r]
      BY <1>1, <2>1, <3>2 DEF PlansRight
    <3> QED BY <3>1, <3>2, <3>3 DEF None
  <2>6. pc' = "sample" => \A r \in Batch(step) : StartOf(step, r) = info[step].sent[r]
    BY <1>1, <2>1, <2>5, StartIsSent
  <2> QED BY <2>1, <2>3, <2>4, <2>5, <2>6 DEF CorrectionRight
<1>15. CASE CorrectCounts
  <2>1. /\ UNCHANGED <<mode, step>> /\ SameSteps /\ pc = "correct" /\ pc' = "sample"
        /\ Waiting' = Waiting
    BY <1>15, CorrectDoes
  <2>2. SamePlans /\ \A n \in 1 .. step : info'[n].acc = info[n].acc
    BY <2>1 DEF SameSteps
  <2>3. /\ Batch(step)' = Batch(step) /\ DeferredOf(step)' = DeferredOf(step)
        /\ \A r \in Batch(step) : StartOf(step, r)' = StartOf(step, r)
    BY <1>3, <1>4, <2>1, <2>2
  <2>4. Id("sample", step - 1)' = Id("sample", step - 1)
    BY <2>1 DEF Id
  <2> QED BY <1>15, <2>1, <2>3, <2>4, Corrected DEF CorrectionRight
<1>16. ASSUME NEW acc \in DraftCounts, RunSample(acc)
       PROVE  CorrectionRight'
  <2>1. PICK h : h = Now("default")
    OBVIOUS
  <2>2. /\ Runs("default", "sample") /\ SamePlans /\ host' = host
    BY <1>16, <2>1, SamplerDoes
  <2>3. /\ UNCHANGED <<mode, step, pc>> /\ Waiting' \subseteq Waiting /\ h \in 1 .. step
        /\ Id("sample", h) \in Waiting
    BY <2>1, <2>2, HeadRuns
  <2>4. /\ Batch(step)' = Batch(step) /\ (pc # "idle" => info'[step].sent = info[step].sent
                                                         /\ DeferredOf(step)' = DeferredOf(step))
    BY <1>3, <2>2, <2>3
  <2>5. pc = "sample" => \A r \in Batch(step) : StartOf(step, r)' = StartOf(step, r)
    <3>1. SUFFICES ASSUME pc = "sample", NEW r \in Batch(step)
                   PROVE  StartOf(step, r)' = StartOf(step, r)
      OBVIOUS
    <3>2. r \in DeferredOf(step) => h # step - 1
      BY <2>3, <3>1 DEF CorrectionRight
    <3>3. step = h + 1 => h = step - 1
      BY <1>1, <2>3
    <3>4. PICK n \in 1 .. step : n = step
      BY <1>1, <3>1
    <3>5. \A m \in 1 .. step : \A s \in Batch(m) :
            StartOf(m, s)' = StartOf(m, s) \/ (m = h + 1 /\ s \in DeferredOf(m))
      BY <1>16, <2>1, StartsStay
    <3>6. StartOf(n, r)' = StartOf(n, r) \/ (n = h + 1 /\ r \in DeferredOf(n))
      BY <3>1, <3>4, <3>5
    <3>7. StartOf(step, r)' = StartOf(n, r)'
      BY <2>3, <3>4
    <3> QED BY <3>2, <3>3, <3>4, <3>6, <3>7
  <2>6. Id("sample", step - 1)' = Id("sample", step - 1)
    BY <2>3 DEF Id
  <2> QED BY <2>2, <2>3, <2>4, <2>5, <2>6 DEF CorrectionRight
<1>17. CASE Engine \/ AnswerEmpty \/ SampleTokens \/ Propose
  <2>1. CASE DummyRun \/ \E b \in SUBSET Req, d \in DraftCounts : PlanStep(b, d)
    <3>1. pc' \in {"idle", "prepare"}
      BY <2>1, DummyDoes DEF PlanStep
    <3> QED BY <1>2, <3>1
  <2>2. CASE AnswerEmpty \/ SampleTokens \/ Propose
    <3>1. pc' \in {"idle", "propose", "drafted"}
      BY <2>2 DEF AnswerEmpty, SampleTokens, Propose
    <3> QED BY <1>2, <3>1
  <2> QED BY <1>6, <1>17, <2>1, <2>2 DEF Engine
<1>18. CASE DownloadTokens \/ ReturnTokens \/ ReturnAsync \/ (\E finished : Pool(finished))
            \/ \E wanted : CopyDrafts(wanted) \/ ZeroDrafts(wanted)
  <2>1. pc' \in {"book", "wait", "idle"}
    BY <1>18 DEF DownloadTokens, ReturnTokens, ReturnAsync, Pool, CopyDrafts, ZeroDrafts
  <2> QED BY <1>2, <2>1
<1> QED
  BY <1>7, <1>8, <1>9, <1>10, <1>11, <1>12, <1>13, <1>14, <1>15, <1>16, <1>17, <1>18
     DEF Next, MainThread, OutputThread, DefaultStream

\* Nothing that matters is to be uploaded when the buffers are written.
LEMMA NothingToUpload ==
  ASSUME StreamInv, NumbersRight, InputsFree, pending = <<>> \/ mode.async \/ pc # "idle",
         NEW n \in 1 .. step, Uploading(n)
  PROVE  ~mode.async /\ (n < step \/ pc = "idle" => info[n].dummy /\ Batch(n) = {})
<1> USE DEF NumbersRight
<1>1. step \in Nat
  BY Known
<1>2. ~mode.async
  <2>1. SUFFICES ASSUME mode.async
                 PROVE  FALSE
    OBVIOUS
  <2>2. IsDone("default", events.inputs) /\ events.inputs = Id("upload", n)
    BY <2>1 DEF InputsFree, UploadsRight
  <2> QED BY <2>2 DEF IsDone, Uploading, Waiting, IdsOf
<1>3. ASSUME n < step \/ pc = "idle"
      PROVE  info[n].dummy /\ Batch(n) = {}
  <2>1. ~Unanswered(n)
    <3>1. n # step \/ pc = "idle"
      BY <1>1, <1>3
    <3>2. pending = <<>>
      <4>1. pending \in Seq(Outs) /\ Len(pending) \in Nat
        BY DEF StreamInv, StreamTypes, EngineTypes
      <4>2. InFlight <= 1
        BY <1>2 DEF AnswersRight
      <4>3. pc # "idle" => Len(pending) = 0
        BY <4>1, <4>2 DEF InFlight
      <4> QED BY <1>2, <4>1, <4>3
    <3> QED BY <3>1, <3>2 DEF Unanswered
  <2>2. ~Gone(n)
    BY <1>1, IdIs DEF Uploading, Gone
  <2>3. info[n].dummy
    BY <1>2, <2>1, <2>2 DEF AnswersRight
  <2> QED BY <2>3 DEF StepsReal
<1> QED BY <1>2, <1>3

\* The uploads of the steps there are, and of the last that ran.
UploadWaits(n) ==
  /\ mode.async => events.inputs = Id("upload", n)
  /\ mode.async \/ ~info[n].dummy => host.inputs = n
  /\ dev.slots < n
  /\ \A r \in Batch(n) \ DeferredOf(n) : host.computed[r] = info[n].sent[r]

UploadRan(n) ==
  /\ mode.async \/ ~info[n].dummy => dev.inputs = n
  /\ Batch(n) # {} =>
       /\ Id("sample", n - 1) \notin Waiting
       /\ \A r \in Batch(n) : dev.computed[r] = StartOf(n, r)

\* The uploads, by what the one on its way and the one that ran last have to keep.
LEMMA UploadsAre ==
  ASSUME StreamInv
  PROVE  UploadsRight <=>
           /\ \A n \in 1 .. step : Uploading(n) => UploadWaits(n)
           /\ \A n \in 1 .. step :
                Batch(n) # {} /\ (n < step \/ pc # "prepare") => Uploading(n) \/ n <= dev.slots
           /\ dev.slots <= step /\ (pc = "prepare" => dev.slots < step)
           /\ dev.slots > 0 => UploadRan(dev.slots)
BY DEF UploadsRight, UploadWaits, UploadRan

\* Steps that leave the buffers alone and neither send nor run an upload.
LEMMA UploadsStay ==
  ASSUME StreamInv, NumbersRight, UNCHANGED <<mode, step>>, SameSteps,
         UNCHANGED <<dev.inputs, dev.computed, dev.slots, host.inputs>>,
         mode.async => events'.inputs = events.inputs \/ \A n \in 1 .. step : ~Uploading(n),
         \A n \in 1 .. step : Uploading(n)' <=> Uploading(n),
         \A n \in 1 .. step : Uploading(n) => \A r \in Batch(n) \ DeferredOf(n) :
           host'.computed[r] = host.computed[r],
         \A n : n < step => (Id("sample", n) \in Waiting' => Id("sample", n) \in Waiting),
         pc' = "prepare" => pc = "prepare",
         pc = "prepare" /\ pc' # "prepare" => Batch(step) = {}
  PROVE  UploadsRight'
<1> USE DEF NumbersRight
<1>1. step \in Nat /\ SamePlans /\ \A n \in 1 .. step : info'[n].acc = info[n].acc
  BY Known DEF SameSteps
<1>2. /\ \A n : n <= step => Batch(n)' = Batch(n)
      /\ \A n \in 1 .. step : DeferredOf(n)' = DeferredOf(n) /\ info'[n].sent = info[n].sent
                              /\ info'[n].dummy = info[n].dummy
      /\ \A n \in 1 .. step, r \in Req : StartOf(n, r)' = StartOf(n, r)
  BY <1>1, BatchKept, DeferredKept, SumsKept DEF SamePlans
<1>3. dev.slots \in Nat /\ \A n \in 1 .. step : Batch(n) \subseteq Req
  BY Buffers, Known DEF Batch
<1>4. ASSUME NEW n \in 1 .. step, Uploading(n)'
      PROVE  UploadWaits(n)'
  <2>1. UploadWaits(n) /\ Uploading(n)
    BY <1>4, UploadsAre
  <2>2. \A r \in Batch(n) \ DeferredOf(n) : host'.computed[r] = host.computed[r]
    BY <2>1
  <2> QED BY <1>2, <2>1, <2>2 DEF UploadWaits, Id
<1>5. ASSUME dev.slots > 0
      PROVE  UploadRan(dev.slots)'
  <2>1. PICK n \in 1 .. step : n = dev.slots
    BY <1>1, <1>3, <1>5, UploadsAre
  <2>2. UploadRan(n)
    BY <1>5, <2>1, UploadsAre
  <2>3. PICK m : m = n - 1 /\ m < step
    BY <1>1
  <2>4. Id("sample", m) \in Waiting' => Id("sample", m) \in Waiting
    BY <2>3
  <2>5. UploadRan(n)'
    BY <1>2, <1>3, <2>2, <2>3, <2>4 DEF UploadRan, Id
  <2> QED BY <2>1, <2>5
<1>6. UploadsRight
  OBVIOUS
<1>7. /\ \A n \in 1 .. step : Batch(n)' # {} /\ (n < step \/ pc' # "prepare") =>
                                Uploading(n)' \/ n <= dev.slots
      /\ dev.slots <= step /\ (pc' = "prepare" => dev.slots < step)
  <2>1. \A n \in 1 .. step : n = step => Batch(n) = {} \/ (pc' # "prepare" => pc # "prepare")
    OBVIOUS
  <2> QED BY <1>1, <1>2, <2>1, UploadsAre
<1> QED
  <2>1. UNCHANGED <<step, dev.slots>>
    OBVIOUS
  <2> QED BY <1>4, <1>5, <1>7, <2>1 DEF UploadsRight, UploadWaits, UploadRan

\* Steps of the main thread and the engine that send no upload.
LEMMA UploadsQuiet ==
  ASSUME StreamInv, NumbersRight,
         \/ LaunchForward \/ CorrectCounts \/ Propose \/ DownloadTokens \/ TakeDrafts
         \/ \E wanted : CopyDrafts(wanted) \/ ZeroDrafts(wanted)
         \/ AnswerEmpty \/ ReturnTokens \/ ReturnAsync \/ \E i \in DOMAIN pending : GetOutput(i)
         \/ SampleTokens \/ TakeOutput \/ (\E finished : Pool(finished)) \/ UNCHANGED vars
  PROVE  UploadsRight'
<1> USE DEF NumbersRight
<1>1. step \in Nat
  BY Known
\* Most leave the buffers and the event alone.
<1>2. ASSUME UNCHANGED <<mode, step, dev, host.inputs, host.computed, events.inputs>>, SameSteps,
             Waiting \subseteq Waiting',
             \A a \in Waiting' : a \in Waiting \/ (a[2] = step /\ a[1] # "upload"),
             pc' = "prepare" <=> pc = "prepare"
      PROVE  UploadsRight'
  <2>1. \A n \in 1 .. step : Uploading(n)' <=> Uploading(n)
    <3>1. \A n : Id("upload", n) \in Waiting' <=> Id("upload", n) \in Waiting
      BY <1>2, IdIs
    <3> QED BY <3>1 DEF Uploading, Id
  <2>2. \A n : n < step => (Id("sample", n) \in Waiting' => Id("sample", n) \in Waiting)
    BY <1>1, <1>2, IdIs
  <2> QED BY <1>2, <2>1, <2>2, UploadsStay
<1>3. CASE LaunchForward
  <2>1. pc' # "prepare" /\ pc # "prepare"
    BY <1>3, LaunchDoes
  <2>2. \A a \in Waiting' : a \in Waiting \/ (a[2] = step /\ a[1] # "upload")
    BY <1>3, LaunchDoes, IdIs
  <2> QED BY <1>2, <1>3, <2>1, <2>2, LaunchDoes
<1>4. CASE Propose
  <2>1. events'.inputs = events.inputs
    BY <1>4 DEF Propose, StashCounts, ModeRight
  <2>2. \A a \in Waiting' : a \in Waiting \/ (a[2] = step /\ a[1] # "upload")
    BY <1>4, ProposeDoes, IdIs
  <2> QED BY <1>2, <1>4, <2>1, <2>2, ProposeDoes
<1>5. CASE DownloadTokens
  <2>1. \A a \in Waiting' : a \in Waiting \/ (a[2] = step /\ a[1] # "upload")
    BY <1>5, DownloadTokensDoes, IdIs
  <2> QED BY <1>2, <1>5, <2>1, DownloadTokensDoes
<1>6. CASE SampleTokens
  <2>1. \A a \in Waiting' : a \in Waiting \/ (a[2] = step /\ a[1] # "upload")
    BY <1>6, SampleDoes, IdIs
  <2> QED BY <1>2, <1>6, <2>1, SampleDoes
<1>7. CASE ReturnAsync
  <2>1. \A a \in Waiting' : a \in Waiting \/ (a[2] = step /\ a[1] # "upload")
    BY <1>7, ReturnAsyncDoes, IdIs
  <2> QED BY <1>2, <1>7, <2>1, ReturnAsyncDoes
<1>8. CASE \E finished : Pool(finished)
  <2>1. PICK finished : Pool(finished)
    BY <1>8
  <2>2. \A a \in Waiting' : a \in Waiting \/ (a[2] = step /\ a[1] # "upload")
    BY <2>1, PoolDoes, IdIs
  <2> QED BY <1>2, <2>1, <2>2, PoolDoes
<1>9. CASE \E wanted : CopyDrafts(wanted) \/ ZeroDrafts(wanted)
  <2>1. PICK wanted : CopyDrafts(wanted) \/ ZeroDrafts(wanted)
    BY <1>9
  <2>2. CASE CopyDrafts(wanted)
    BY <1>2, <2>2, CopyDraftsDoes
  <2>3. CASE ZeroDrafts(wanted)
    BY <1>2, <2>3, ZeroDraftsDoes
  <2> QED BY <2>1, <2>2, <2>3
<1>10. CASE TakeDrafts \/ ReturnTokens
  BY <1>2, <1>10, TakeDraftsDoes, ReturnTokensDoes
<1>11. CASE TakeOutput
  <2>1. /\ UNCHANGED <<mode, pc, step, host, events, dev>> /\ SameSteps /\ Waiting' = Waiting
    BY <1>11, TakeDoes
  <2> QED BY <1>2, <2>1
<1>12. CASE \E i \in DOMAIN pending : GetOutput(i)
  BY <1>2, <1>12, GetDoes
<1>13. CASE UNCHANGED vars
  BY <1>2, <1>13 DEF vars, gpu, Waiting, SameSteps, SamePlans
<1>14. CASE AnswerEmpty
  <2>1. /\ pc = "prepare" /\ pc' = "idle" /\ info[step].batch = {} /\ SameSteps /\ InputsFree
        /\ UNCHANGED <<mode, step, host, dev>> /\ Waiting' = Waiting
    BY <1>14, EmptyDoes DEF AnswerEmpty
  <2>2. mode.async => \A n \in 1 .. step : ~Uploading(n)
    BY <2>1, NothingToUpload
  <2>3. \A n \in 1 .. step : Uploading(n)' <=> Uploading(n)
    BY <2>1 DEF Uploading, Id
  <2>4. Batch(step) = {}
    BY <2>1 DEF Batch
  <2> QED BY <2>1, <2>2, <2>3, <2>4, UploadsStay
<1>15. CASE CorrectCounts
  <2>1. /\ UNCHANGED <<mode, step, events, dev, host.inputs>> /\ SameSteps /\ Waiting' = Waiting
        /\ pc = "correct" /\ pc' = "sample"
    BY <1>15, CorrectDoes
  <2>2. \A n \in 1 .. step : Uploading(n)' <=> Uploading(n)
    BY <2>1 DEF Uploading, Id
  <2>3. ASSUME NEW n \in 1 .. step, Uploading(n), NEW r \in Batch(n) \ DeferredOf(n)
        PROVE  host'.computed[r] = host.computed[r]
    <3>1. r \in Req
      BY Known DEF Batch
    <3>2. CASE r \notin DeferredOf(step)
      BY <1>15, <3>1, <3>2, Corrected
    <3>3. CASE r \in DeferredOf(step)
      <4>1. n >= step \/ 3 < Stage["upload"]
        BY <1>15, <2>3, <3>3, Corrected, IdIs DEF Uploading
      <4>2. n = step
        BY <1>1, <4>1, Stages
      <4> QED BY <2>3, <3>3, <4>2
    <3> QED BY <3>2, <3>3
  <2> QED BY <2>1, <2>2, <2>3, UploadsStay
<1> QED
  BY <1>3, <1>4, <1>5, <1>6, <1>7, <1>8, <1>9, <1>10, <1>11, <1>12, <1>13, <1>14, <1>15

\* So does whatever the streams run other than an upload.
LEMMA UploadsQuietStreams ==
  ASSUME StreamInv, NumbersRight,
         \/ RunForward \/ RunDraft \/ RunClone \/ RunPooler \/ DownloadExperts \/ DownloadToList
         \/ DownloadOutput \/ DownloadDrafts \/ DownloadCounts
  PROVE  UploadsRight'
<1> USE DEF NumbersRight
<1>1. step \in Nat
  BY Known
<1>2. ASSUME UNCHANGED <<mode, pc, step, events, dev.inputs, dev.computed, dev.slots>>, SameSteps,
             UNCHANGED <<host.inputs, host.computed>>, Waiting' \subseteq Waiting,
             \A n : Id("upload", n) \in Waiting => Id("upload", n) \in Waiting'
      PROVE  UploadsRight'
  <2>1. \A n \in 1 .. step : Uploading(n)' <=> Uploading(n)
    BY <1>2 DEF Uploading, Id
  <2> QED BY <1>2, <2>1, UploadsStay
<1>3. CASE RunForward \/ RunDraft \/ RunClone \/ RunPooler \/ DownloadExperts \/ DownloadToList
  <2>1. PICK kind \in {"forward", "draft", "clone", "pooler", "experts", "tokens"} :
          /\ Runs("default", kind) /\ SameSteps
          /\ UNCHANGED <<dev.inputs, dev.computed, dev.slots, host.inputs, host.computed>>
    BY <1>3, ForwardDoes, DrafterDoes, PoolerDoes, OtherRuns
  <2>2. /\ UNCHANGED <<mode, pc, step, events>>
        /\ Waiting = Waiting' \cup {Id(kind, Now("default"))}
    BY <2>1, HeadRuns
  <2>3. \A n : Id("upload", n) \in Waiting => Id("upload", n) \in Waiting'
    BY <2>1, <2>2, IdIs
  <2> QED BY <1>2, <2>1, <2>2, <2>3
<1>4. CASE DownloadOutput \/ DownloadDrafts \/ DownloadCounts
  <2>1. \E s \in {"output", "draft", "count"} : \E kind : Runs(s, kind)
    BY <1>4 DEF DownloadOutput, DownloadDrafts, DownloadCounts
  <2>2. UNCHANGED <<info, dev, host.inputs, host.computed>>
    BY <1>4, Buffers DEF DownloadOutput, DownloadDrafts, DownloadCounts
  <2>3. UNCHANGED <<mode, pc, step, events>> /\ Waiting' = Waiting /\ SameSteps
    BY <2>1, <2>2, DownloadDoes
  <2> QED BY <1>2, <2>2, <2>3
<1> QED BY <1>3, <1>4

\* The last step's upload is the next to run of all that are waiting.
LEMMA UploadHead ==
  ASSUME StreamInv, NumbersRight, RunUpload, NEW h, h = Now("default")
  PROVE  /\ h \in 1 .. step /\ step \in Nat /\ Uploading(h) /\ UploadWaits(h)
         /\ h < step \/ pc # "prepare"
         /\ \A n \in 1 .. step : Uploading(n)' <=> Uploading(n) /\ n # h
         /\ \A n \in 1 .. step : Uploading(n) => h <= n
         /\ Id("sample", h - 1) \notin Waiting
<1> USE DEF NumbersRight
<1>1. /\ Runs("default", "upload") /\ h \in 1 .. step /\ step \in Nat /\ Id("upload", h) \in Waiting
      /\ Id("upload", h) \notin Waiting' /\ Waiting = Waiting' \cup {Id("upload", h)}
      /\ \A a \in Waiting' : Before(Id("upload", h), a)
  BY UploadDoes, HeadRuns, Known
<1>2. \A n : Id("upload", n) \in Waiting' <=> Id("upload", n) \in Waiting /\ n # h
  BY <1>1, IdIs
<1>3. \A n \in 1 .. step : Uploading(n)' <=> Uploading(n) /\ n # h
  BY <1>2 DEF Uploading, Id
<1>4. \A a \in Waiting : h <= a[2]
  BY <1>1, IdIs, Known DEF Before
<1>5. h < step \/ pc # "prepare"
  <2>1. h < step \/ 1 <= Enqueued
    BY <1>1, IdIs, Stages, Known
  <2> QED BY <2>1 DEF Enqueued
<1>6. Id("sample", h - 1) \notin Waiting
  BY <1>1, <1>4, IdIs
<1>7. UploadWaits(h)
  BY <1>1, UploadsAre DEF Uploading
<1> QED BY <1>1, <1>3, <1>4, <1>5, <1>6, <1>7, IdIs DEF Uploading

\* The GPU counts on from its own number where the scheduler's is to be corrected.
LEMMA UploadComputes ==
  ASSUME StreamInv, NumbersRight, RunUpload, NEW h, h = Now("default"), NEW r \in Batch(h)
  PROVE  dev'.computed[r] = StartOf(h, r)
<1> USE DEF NumbersRight
<1>1. /\ h \in 1 .. step /\ step \in Nat /\ Uploading(h) /\ UploadWaits(h)
      /\ h < step \/ pc # "prepare"
      /\ \A n \in 1 .. step : Uploading(n) => h <= n
      /\ Id("sample", h - 1) \notin Waiting
  BY UploadHead
<1>2. r \in Req /\ r \in info[h].batch /\ Batch(h) # {}
  BY <1>1, Known DEF Batch
<1>3. info[h].part = DeferredOf(h) /\ (DeferredOf(h) # {} => info[h].src = h - 1)
  BY <1>1, <1>2 DEF PlansRight
<1>4. dev'.computed[r] =
        IF r \in info[h].part THEN dev.computed[r] + Contents(Id("counts", info[h].src), None)[r]
        ELSE host.computed[r]
  BY <1>2, UploadDoes
<1>5. CASE r \notin DeferredOf(h)
  <2>1. host.computed[r] = info[h].sent[r]
    BY <1>1, <1>5 DEF UploadWaits
  <2> QED BY <1>1, <1>3, <1>4, <1>5, <2>1, StartIsSent
<1>6. CASE r \in DeferredOf(h)
  <2>1. PICK m \in 1 .. step : m = h - 1 /\ r \in Batch(m) /\ m < step
    BY <1>1, <1>6 DEF DeferredOf, Batch
  <2>2. CountsAt(m) /\ Id("sample", m) \notin Waiting /\ info[h].src = m
    BY <1>1, <1>3, <1>6, <2>1 DEF TensorsRight
  <2>3. Contents(Id("counts", m), None)[r] = info[m].acc[r] + 1
    BY <1>2, <2>2 DEF CountsAt, Holds, Contents
  <2>4. dev.slots = m
    <3>1. ~Uploading(m)
      BY <1>1, <2>1
    <3>2. m <= dev.slots
      BY <2>1, <3>1, UploadsAre
    <3> QED BY <1>1, <2>1, <3>2, Buffers DEF UploadWaits
  <2>5. dev.computed[r] = StartOf(m, r)
    <3>1. UploadRan(m)
      BY <2>1, <2>4, UploadsAre
    <3> QED BY <2>1, <3>1 DEF UploadRan
  <2>6. StartOf(h, r) = EndOf(m, r)
    <3>1. Follows(m, h)
      BY <1>1, <1>2, <2>1 DEF Follows
    <3> QED BY <1>1, <1>2, <2>1, <3>1 DEF CountingRight, Chain
  <2>7. EndOf(m, r) = StartOf(m, r) + (1 + info[m].acc[r])
    BY <2>1 DEF EndOf
  <2>8. StartOf(m, r) \in Int /\ info[m].acc[r] \in Int
    BY <1>2, <2>1, Sums
  <2> QED BY <1>3, <1>4, <1>6, <2>2, <2>3, <2>5, <2>6, <2>7, <2>8
<1> QED BY <1>5, <1>6

\* An upload is of the inputs its own step wrote.
LEMMA UploadsRan ==
  ASSUME StreamInv, NumbersRight, RunUpload
  PROVE  UploadsRight'
<1> USE DEF NumbersRight
<1>1. PICK h : h = Now("default")
  OBVIOUS
<1>2. /\ h \in 1 .. step /\ step \in Nat /\ Uploading(h) /\ UploadWaits(h)
      /\ h < step \/ pc # "prepare"
      /\ \A n \in 1 .. step : Uploading(n)' <=> Uploading(n) /\ n # h
      /\ \A n \in 1 .. step : Uploading(n) => h <= n
      /\ Id("sample", h - 1) \notin Waiting
  BY <1>1, UploadHead
<1>3. /\ UNCHANGED <<mode, pc, step, events, host>> /\ Waiting' \subseteq Waiting
      /\ SameSteps /\ dev'.inputs = host.inputs /\ dev'.slots = h
  BY <1>1, UploadDoes, HeadRuns
<1>4. SamePlans /\ \A n \in 1 .. step : info'[n].acc = info[n].acc
  BY <1>3 DEF SameSteps
<1>5. /\ \A n : n <= step => Batch(n)' = Batch(n)
      /\ \A n \in 1 .. step : DeferredOf(n)' = DeferredOf(n) /\ info'[n].sent = info[n].sent
                              /\ info'[n].dummy = info[n].dummy
      /\ \A n \in 1 .. step, r \in Req : StartOf(n, r)' = StartOf(n, r)
      /\ \A n \in 1 .. step : Batch(n) \subseteq Req
  BY <1>2, <1>3, <1>4, BatchKept, DeferredKept, SumsKept, Known DEF SamePlans
<1>6. ASSUME NEW n \in 1 .. step, Uploading(n)'
      PROVE  UploadWaits(n)'
  <2>1. UploadWaits(n) /\ h < n
    BY <1>2, <1>6, UploadsAre
  <2> QED BY <1>3, <1>5, <2>1 DEF UploadWaits, Id
<1>7. UploadRan(h)'
  <2>1. \A r \in Batch(h) : dev'.computed[r] = StartOf(h, r)
    BY <1>1, UploadComputes
  <2>2. PICK m : m = h - 1
    OBVIOUS
  <2>3. Id("sample", m) \notin Waiting'
    BY <1>2, <1>3, <2>2
  <2>4. mode.async \/ ~info[h].dummy => host.inputs = h
    BY <1>2 DEF UploadWaits
  <2> QED BY <1>2, <1>3, <1>5, <2>1, <2>2, <2>3, <2>4 DEF UploadRan, Id
<1>8. /\ \A n \in 1 .. step : Batch(n)' # {} /\ (n < step \/ pc' # "prepare") =>
                                Uploading(n)' \/ n <= dev'.slots
      /\ dev'.slots <= step /\ (pc' = "prepare" => dev'.slots < step)
  <2>1. ASSUME NEW n \in 1 .. step, Batch(n) # {}, n < step \/ pc # "prepare"
        PROVE  Uploading(n)' \/ n <= h
    <3>1. Uploading(n) \/ n <= dev.slots
      BY <2>1, UploadsAre
    <3>2. dev.slots \in Nat /\ dev.slots < h
      BY <1>2, Buffers DEF UploadWaits
    <3> QED BY <1>2, <3>1, <3>2
  <2> QED BY <1>2, <1>3, <1>5, <2>1
<1> QED
  <2>1. PICK c : c = h /\ dev'.slots = c /\ step' = step
    BY <1>3
  <2> QED BY <1>6, <1>7, <1>8, <2>1 DEF UploadsRight, UploadWaits, UploadRan

\* Steps that write the buffers: nothing that matters is to be uploaded then.
LEMMA UploadsSent ==
  ASSUME StreamInv, NumbersRight, Prepare \/ DummyRun
  PROVE  UploadsRight'
<1> USE DEF NumbersRight
<1>1. PICK c : c = IF pc = "idle" THEN step + 1 ELSE step
  OBVIOUS
<1>2. /\ step \in Nat /\ step' = c /\ c \in 1 .. step' /\ pc' # "prepare" /\ InputsFree
      /\ UNCHANGED <<mode, dev>> /\ SamePlans /\ \A n \in 1 .. step : info'[n].acc = info[n].acc
      /\ host'.inputs = c /\ events'.inputs = Id("upload", c)
      /\ \A a \in Waiting' : a \in Waiting \/ a \in {Id("upload", c), Id("forward", c)}
      /\ Waiting \subseteq Waiting' /\ Id("upload", c) \in Waiting'
      /\ step' \in Nat /\ step' >= step
  <2>1. CASE Prepare
    <3>1. /\ pc = "prepare" /\ InputsFree /\ step \in 1 .. step
      BY <2>1, Known DEF Prepare
    <3>2. events'.inputs = Id("upload", step)
      BY <2>1, PrepareDoes DEF ModeRight
    <3> QED BY <1>1, <2>1, <3>1, <3>2, PrepareDoes, Known
  <2>2. CASE DummyRun
    <3>1. pc = "idle" /\ InputsFree
      BY <2>2 DEF DummyRun
    <3>2. events'.inputs = Id("upload", c) /\ host'.inputs = c
      BY <1>1, <2>2, <3>1, DummyDoes, Buffers DEF ModeRight
    <3>3. SamePlans /\ \A n \in 1 .. step : info'[n].acc = info[n].acc
      BY <1>1, <2>2, <3>1, DummyDoes DEF SameSteps
    <3> QED BY <1>1, <2>2, <3>1, <3>2, <3>3, DummyDoes, Known
  <2> QED BY <2>1, <2>2
<1>3. ASSUME NEW n \in 1 .. step, Uploading(n), n # c
      PROVE  ~mode.async /\ info[n].dummy /\ Batch(n) = {}
  <2>1. pending = <<>> \/ pc # "idle"
    BY PrepareDoes DEF DummyRun
  <2>2. n < step \/ pc = "idle"
    BY <1>1, <1>2, <1>3
  <2> QED BY <1>2, <1>3, <2>1, <2>2, NothingToUpload
<1>4. /\ \A n : n <= step => Batch(n)' = Batch(n)
      /\ \A n \in 1 .. step : DeferredOf(n)' = DeferredOf(n) /\ info'[n].sent = info[n].sent
                              /\ info'[n].dummy = info[n].dummy
      /\ \A n \in 1 .. step, r \in Req : StartOf(n, r)' = StartOf(n, r)
      /\ \A n \in 1 .. step : Batch(n) \subseteq Req
      /\ \A n \in 1 .. step' : Batch(n)' = info'[n].batch /\ (n = c \/ n \in 1 .. step)
  BY <1>1, <1>2, BatchKept, DeferredKept, SumsKept, Known DEF SamePlans
<1>5. dev.slots \in Nat /\ dev.slots <= step /\ dev.slots < c
  <2>1. dev.slots \in Nat /\ dev.slots <= step /\ (pc = "prepare" => dev.slots < step)
    BY Buffers, UploadsAre
  <2>2. pc # "idle" => pc = "prepare"
    BY PrepareDoes DEF DummyRun
  <2> QED BY <1>1, <1>2, <2>1, <2>2
<1>6. \A n : Id("upload", n) \in Waiting' => Id("upload", n) \in Waiting \/ n = c
  BY <1>2, IdIs
<1>7. ASSUME NEW n \in 1 .. step', Uploading(n)', n # c
      PROVE  UploadWaits(n)'
  <2>1. Uploading(n) /\ n \in 1 .. step
    BY <1>4, <1>6, <1>7 DEF Uploading, Id
  <2>2. ~mode.async /\ info[n].dummy /\ Batch(n) = {} /\ UploadWaits(n)
    BY <1>3, <1>7, <2>1, UploadsAre
  <2> QED BY <1>2, <1>4, <2>1, <2>2 DEF UploadWaits
<1>8. UploadWaits(c)'
  <2>1. \A r \in Batch(c)' : host'.computed[r] = info'[c].sent[r]
    <3>1. CASE Prepare
      <4>1. c = step /\ c \in 1 .. step
        BY <1>1, <1>2, <3>1, PrepareDoes
      <4>2. Batch(c)' = info[c].batch /\ info'[c].sent = info[c].sent /\ info[c].batch \subseteq Req
        BY <1>4, <4>1 DEF Batch
      <4> QED BY <3>1, <4>1, <4>2, PrepareDoes
    <3>2. CASE DummyRun
      <4>1. c = step + 1
        BY <1>1, <3>2 DEF DummyRun
      <4>2. info'[c].batch = {}
        BY <3>2, <4>1, DummyDoes
      <4> QED BY <1>2, <1>4, <4>2
    <3> QED BY <3>1, <3>2
  <2> QED BY <1>2, <1>5, <2>1 DEF UploadWaits, Id
<1>9. ASSUME NEW n \in 1 .. step', Batch(n)' # {}
      PROVE  Uploading(n)' \/ n <= dev.slots
  <2>1. CASE n = c
    BY <1>2, <2>1 DEF Uploading, Id
  <2>2. CASE n # c
    <3>1. n \in 1 .. step /\ Batch(n) # {} /\ (n < step \/ pc # "prepare")
      <4>1. n \in 1 .. step /\ (pc # "idle" => n < step)
        BY <1>1, <1>2, <1>4, <2>2
      <4> QED BY <1>2, <1>4, <1>9, <4>1
    <3>2. Uploading(n) \/ n <= dev.slots
      BY <3>1, UploadsAre
    <3> QED BY <1>2, <3>2 DEF Uploading, Id
  <2> QED BY <2>1, <2>2
<1>10. ASSUME dev.slots > 0
       PROVE  UploadRan(dev.slots)'
  <2>1. PICK n \in 1 .. step : n = dev.slots
    BY <1>2, <1>5, <1>10
  <2>2. UploadRan(n)
    BY <1>10, <2>1, UploadsAre
  <2>3. PICK m : m = n - 1
    OBVIOUS
  <2>4. Id("sample", m) \in Waiting' => Id("sample", m) \in Waiting
    BY <1>2, IdIs
  <2>5. UploadRan(n)'
    BY <1>2, <1>4, <2>2, <2>3, <2>4 DEF UploadRan, Id
  <2> QED BY <1>2, <2>1, <2>5
<1> QED
  <2>1. UNCHANGED dev.slots /\ \A n \in 1 .. step' : Uploading(n)' => UploadWaits(n)'
    BY <1>2, <1>7, <1>8
  <2> QED BY <1>2, <1>5, <1>9, <1>10, <2>1 DEF UploadsRight, UploadWaits, UploadRan

\* A step that is planned uploads nothing yet.
LEMMA UploadsPlanned ==
  ASSUME StreamInv, NumbersRight, NEW b \in SUBSET Req, NEW d \in DraftCounts, PlanStep(b, d)
  PROVE  UploadsRight'
<1> USE DEF NumbersRight
<1>1. PICK c : c = step + 1
  OBVIOUS
<1>2. /\ step \in Nat /\ step' = c /\ pc = "idle" /\ pc' = "prepare"
      /\ UNCHANGED <<mode, host, events, dev>> /\ Waiting' = Waiting
      /\ SamePlans /\ \A n \in 1 .. step : info'[n].acc = info[n].acc
  BY <1>1, PlanDoes, Known DEF SameSteps
<1>3. /\ \A n : n <= step => Batch(n)' = Batch(n)
      /\ \A n \in 1 .. step : DeferredOf(n)' = DeferredOf(n) /\ info'[n].sent = info[n].sent
                              /\ info'[n].dummy = info[n].dummy
      /\ \A n \in 1 .. step, r \in Req : StartOf(n, r)' = StartOf(n, r)
      /\ \A n \in 1 .. step : Batch(n) \subseteq Req
  BY <1>1, <1>2, BatchKept, DeferredKept, SumsKept, Known DEF SamePlans
<1>4. dev.slots \in Nat /\ dev.slots <= step
  BY Buffers, UploadsAre
<1>5. \A n : Uploading(n)' => Uploading(n) /\ n \in 1 .. step
  <2>1. \A n : Id("upload", n) \in Waiting => n \in 1 .. step
    BY Known, IdIs
  <2> QED BY <1>2, <2>1 DEF Uploading, Id
<1>6. ASSUME NEW n \in 1 .. step', Uploading(n)'
      PROVE  UploadWaits(n)'
  <2>1. UploadWaits(n) /\ n \in 1 .. step
    BY <1>5, <1>6, UploadsAre
  <2> QED BY <1>2, <1>3, <2>1 DEF UploadWaits, Id
<1>7. ASSUME NEW n \in 1 .. step', Batch(n)' # {}, n < step'
      PROVE  Uploading(n)' \/ n <= dev.slots
  <2>1. n \in 1 .. step /\ Batch(n) # {}
    BY <1>1, <1>2, <1>3, <1>7
  <2>2. Uploading(n) \/ n <= dev.slots
    BY <1>2, <2>1, UploadsAre
  <2> QED BY <1>2, <2>2 DEF Uploading, Id
<1>8. ASSUME dev.slots > 0
      PROVE  UploadRan(dev.slots)'
  <2>1. PICK n \in 1 .. step : n = dev.slots
    BY <1>2, <1>4, <1>8
  <2>2. UploadRan(n)
    BY <1>8, <2>1, UploadsAre
  <2>3. UploadRan(n)'
    BY <1>2, <1>3, <2>2 DEF UploadRan, Id
  <2> QED BY <1>2, <2>1, <2>3
<1> QED
  <2>1. UNCHANGED dev.slots /\ dev.slots < step' /\ dev.slots <= step' /\ pc' = "prepare"
    BY <1>1, <1>2, <1>4
  <2>2. /\ \A n \in 1 .. step' : Uploading(n)' => UploadWaits(n)'
        /\ \A n \in 1 .. step' : Batch(n)' # {} /\ n < step' => Uploading(n)' \/ n <= dev.slots
    BY <1>6, <1>7
  <2> QED BY <1>8, <2>1, <2>2 DEF UploadsRight, UploadWaits, UploadRan

\* What a sampler accepts moves the start of the step after it, which is not uploaded.
LEMMA UploadsSampled ==
  ASSUME StreamInv, NumbersRight, NEW acc \in DraftCounts, RunSample(acc)
  PROVE  UploadsRight'
<1> USE DEF NumbersRight
<1>1. PICK h : h = Now("default")
  OBVIOUS
<1>2. /\ step \in Nat /\ UNCHANGED <<mode, pc, step, events, host, dev>> /\ SamePlans
      /\ h \in 1 .. step /\ Id("sample", h) \in Waiting /\ Waiting = Waiting' \cup {Id("sample", h)}
  BY <1>1, SamplerDoes, HeadRuns, Known
<1>3. /\ \A n : n <= step => Batch(n)' = Batch(n)
      /\ \A n \in 1 .. step : DeferredOf(n)' = DeferredOf(n) /\ info'[n].sent = info[n].sent
                              /\ info'[n].dummy = info[n].dummy
  BY <1>2, BatchKept, DeferredKept, Known DEF SamePlans
<1>4. \A n \in 1 .. step : Uploading(n)' <=> Uploading(n)
  <2>1. \A n : Id("upload", n) \in Waiting' <=> Id("upload", n) \in Waiting
    BY <1>2, IdIs
  <2> QED BY <2>1 DEF Uploading, Id
<1>5. ASSUME NEW n \in 1 .. step, Uploading(n)'
      PROVE  UploadWaits(n)'
  <2>1. UploadWaits(n)
    BY <1>4, <1>5, UploadsAre
  <2> QED BY <1>2, <1>3, <2>1 DEF UploadWaits, Id
<1>6. ASSUME dev.slots > 0
      PROVE  UploadRan(dev.slots)'
  <2>1. PICK n \in 1 .. step : n = dev.slots
    BY <1>2, <1>6, Buffers, UploadsAre
  <2>2. UploadRan(n)
    BY <1>6, <2>1, UploadsAre
  <2>3. PICK m : m = n - 1
    OBVIOUS
  <2>4. /\ Batch(n) # {} => Id("sample", m) \notin Waiting
        /\ Id("sample", m) \in Waiting' => Id("sample", m) \in Waiting
    BY <1>2, <2>2, <2>3 DEF UploadRan
  <2>5. Batch(n) # {} => n # h + 1
    BY <1>2, <2>3, <2>4
  <2>6. \A r \in Batch(n) : StartOf(n, r)' = StartOf(n, r)
    BY <1>1, <2>5, StartsStay
  <2>7. UploadRan(n)'
    BY <1>2, <1>3, <2>2, <2>3, <2>4, <2>6 DEF UploadRan, Id
  <2> QED BY <1>2, <2>1, <2>7
<1>7. /\ \A n \in 1 .. step : Batch(n)' # {} /\ (n < step \/ pc' # "prepare") =>
                                Uploading(n)' \/ n <= dev.slots
      /\ dev.slots <= step /\ (pc' = "prepare" => dev.slots < step)
  BY <1>2, <1>3, <1>4, UploadsAre
<1> QED
  <2>1. UNCHANGED <<step, dev.slots>>
    BY <1>2
  <2> QED BY <1>5, <1>6, <1>7, <2>1 DEF UploadsRight, UploadWaits, UploadRan

\* The buffers hold the inputs of the step whose upload is to come.
LEMMA UploadsKept ==
  ASSUME StreamInv, NumbersRight, [Next]_vars
  PROVE  UploadsRight'
BY UploadsQuiet, UploadsQuietStreams, UploadsRan, UploadsSent, UploadsPlanned, UploadsSampled
   DEF Next, Engine, MainThread, OutputThread, DefaultStream

-----------------------------------------------------------------------------
(* What a forward pass runs on.                                            *)

\* Whatever happens, what a step was planned with stays.
LEMMA PlansStay ==
  ASSUME StreamInv, NumbersRight, [Next]_vars
  PROVE  SamePlans /\ step' \in Nat /\ step' >= step /\ mode' = mode
<1>1. step \in Nat /\ mode' = mode
  BY Known, ModeKept
<1>2. CASE \E b \in SUBSET Req, d \in DraftCounts : PlanStep(b, d)
  BY <1>1, <1>2, PlanDoes DEF SameSteps
<1>3. CASE DummyRun
  BY <1>1, <1>3, DummyDoes DEF SameSteps
<1>4. CASE Prepare \/ \E acc \in DraftCounts : RunSample(acc)
  <2>1. SamePlans
    BY <1>4, PrepareDoes, SamplerDoes, Zenon
  <2>2. step' = step
    BY <1>4, Zenon DEF Prepare, RunSample, Runs
  <2> QED BY <1>1, <2>1, <2>2
<1>5. CASE UNCHANGED <<mode, step>> /\ SameSteps
  BY <1>1, <1>5 DEF SameSteps
<1> QED BY <1>2, <1>3, <1>4, <1>5, Rest

\* When a forward pass runs, its requests have as many tokens as their uploads say.
LEMMA ForwardRuns ==
  ASSUME StreamInv, NumbersRight, RunForward, NEW h, h = Now("default")
  PROVE  /\ h \in 1 .. step /\ dev.slots = h /\ UploadRan(h)
         /\ \A r \in Batch(h) : truth[r] = StartOf(h, r)
<1> USE DEF NumbersRight
<1>1. /\ h \in 1 .. step /\ step \in Nat /\ Id("forward", h) \in Waiting
      /\ Waiting = Waiting' \cup {Id("forward", h)}
      /\ \A a \in Waiting' : Before(Id("forward", h), a)
  BY ForwardDoes, HeadRuns, Known
<1>2. \A a \in Waiting : h <= a[2] /\ (a[2] = h => 2 <= Stage[a[1]])
  BY <1>1, IdIs, Stages, Known DEF Before
<1>3. dev.slots = h
  <2>1. Id("upload", h) \notin Waiting
    BY <1>2, IdIs, Stages
  <2> QED BY <1>1, <2>1 DEF StreamInv, WorkRight, StepsRight, SlotsOf
<1>4. UploadRan(h)
  BY <1>1, <1>3, UploadsAre
<1>5. ASSUME NEW r \in Batch(h)
      PROVE  truth[r] = StartOf(h, r)
  <2>1. r \in Req /\ Batch(h) # {}
    BY <1>1, Known DEF Batch
  <2>2. ~IsSampled(h)
    BY <1>1, IdIs, Stages DEF IsSampled
  <2>3. CASE Id(Sampler, h) \in Waiting
    <3>1. Id(Sampler, h) \in ToSample /\ Id(Sampler, h)[2] = h
      BY <2>3, IdIs DEF ToSample, Sampler
    <3>2. \A b \in ToSample : h <= b[2]
      BY <1>2 DEF ToSample
    <3> QED BY <2>1, <3>1, <3>2 DEF CountingRight, TruthRight
  <2>4. CASE At(h, Early)
    <3>1. h = step /\ pc \in Early
      BY <2>4 DEF At
    <3>2. Latest(h)
      BY <1>1, <2>1, <3>1 DEF Latest
    <3>3. ToSample = {}
      <4>1. SUFFICES ASSUME NEW a \in ToSample
                     PROVE  FALSE
        OBVIOUS
      <4>2. a \in Waiting /\ 3 <= Stage[a[1]]
        BY <4>1, Stages DEF ToSample
      <4>3. Enqueued <= 2
        BY <3>1 DEF Early, Enqueued
      <4>4. a[2] \in 1 .. step /\ a[2] >= step /\ (a[2] < step \/ Stage[a[1]] <= Enqueued)
        BY <1>2, <3>1, <4>2, Known
      <4>5. Stage[a[1]] \in Nat /\ Enqueued \in Nat
        BY <4>2, Known, Stages DEF Enqueued
      <4> QED BY <1>1, <4>2, <4>3, <4>4, <4>5
    <3> QED BY <1>1, <2>1, <2>4, <3>2, <3>3 DEF CountingRight, TruthRight
  <2> QED BY <1>1, <2>1, <2>2, <2>3, <2>4 DEF CountingRight, SamplesInOrder
<1> QED BY <1>1, <1>3, <1>4, <1>5

\* What the last forward pass ran on was right.
LEMMA RanKept ==
  ASSUME StreamInv, NumbersRight, [Next]_vars
  PROVE  RanRight'
<1> USE DEF NumbersRight
<1>1. SamePlans /\ step' \in Nat /\ step' >= step /\ mode' = mode /\ step \in Nat
  BY PlansStay, Known
<1>2. CASE ran' = ran
  <2>1. PICK n : n = ran.n
    OBVIOUS
  <2>2. n > 0 => n \in 1 .. step /\ info'[n].dummy = info[n].dummy /\ info'[n].batch = info[n].batch
    BY <1>1, <2>1 DEF RanRight, SamePlans
  <2> QED BY <1>1, <1>2, <2>1, <2>2 DEF RanRight, ForwardSeesItsStep
<1>3. CASE RunForward
  <2>1. PICK h : h = Now("default")
    OBVIOUS
  <2>2. /\ h \in 1 .. step /\ UploadRan(h) /\ \A r \in Batch(h) : truth[r] = StartOf(h, r)
        /\ ran' = [n |-> h, inputs |-> dev.inputs, computed |-> dev.computed, truth |-> truth]
    BY <1>3, <2>1, ForwardRuns, ForwardDoes
  <2>3. info'[h].dummy = info[h].dummy /\ info'[h].batch = Batch(h)
    BY <1>1, <2>2 DEF SamePlans, Batch
  <2>4. dev.inputs = h \/ (info[h].dummy /\ ~mode.async)
    BY <2>2, Known, Buffers DEF UploadRan
  <2>5. \A r \in Batch(h) : dev.computed[r] = truth[r]
    BY <2>2 DEF UploadRan
  <2>6. ran'.n = h /\ ran'.inputs = dev.inputs /\ ran'.computed = dev.computed /\ ran'.truth = truth
    BY <2>2
  <2> QED BY <1>1, <2>2, <2>3, <2>4, <2>5, <2>6 DEF RanRight, ForwardSeesItsStep
<1>4. ran' = ran \/ RunForward
  <2>1. CASE Engine
    <3>1. CASE \E b \in SUBSET Req, d \in DraftCounts : PlanStep(b, d)
      BY <3>1, Zenon DEF PlanStep, history
    <3>2. CASE TakeOutput \/ DummyRun
      BY <3>2 DEF TakeOutput, DummyRun, history
    <3> QED BY <2>1, <3>1, <3>2 DEF Engine
  <2>2. CASE Prepare \/ AnswerEmpty \/ LaunchForward \/ CorrectCounts \/ SampleTokens
    BY <2>2 DEF Prepare, AnswerEmpty, LaunchForward, CorrectCounts, SampleTokens, history
  <2>3. CASE Propose \/ DownloadTokens \/ ReturnTokens \/ ReturnAsync
    BY <2>3 DEF Propose, DownloadTokens, ReturnTokens, ReturnAsync, history
  <2>4. CASE \E wanted : CopyDrafts(wanted) \/ ZeroDrafts(wanted)
    BY <2>4 DEF CopyDrafts, ZeroDrafts, history
  <2>5. CASE (\E finished : Pool(finished)) \/ TakeDrafts \/ OutputThread \/ UNCHANGED vars
    BY <2>5 DEF Pool, TakeDrafts, OutputThread, GetOutput, vars, history
  <2>6. CASE DefaultStream \/ DownloadOutput \/ DownloadDrafts \/ DownloadCounts
    BY <2>6 DEF DefaultStream, DownloadOutput, DownloadDrafts, DownloadCounts, RunUpload,
                RunSample, RunDraft, RunClone, RunPooler, DownloadExperts,
                DownloadToList, history
  <2> QED BY <2>1, <2>2, <2>3, <2>4, <2>5, <2>6 DEF Next, MainThread
<1> QED BY <1>2, <1>3, <1>4

-----------------------------------------------------------------------------
(* The tensors of the counts and of the drafts.                            *)

\* Before a call samples, what its upload may need of the step before it is there.
LEMMA CountsReferred ==
  ASSUME StreamInv, NumbersRight, pc = "prepare", DeferredOf(step) # {}
  PROVE  /\ step - 1 \in 1 .. step /\ worker.counts = step - 1
         /\ Id("counts", step - 1) \notin Garbage /\ CountsAt(step - 1)
<1> USE DEF NumbersRight
<1>1. PICK m : m = step - 1
  OBVIOUS
<1>2. step \in Nat /\ m \in 1 .. step /\ Batch(m) # {} /\ mode.async
  BY <1>1, Known DEF DeferredOf, Batch
<1>3. ~mode.pool
  <2>1. PICK r \in Batch(m) : info[m].d[r] > 0
    BY <1>1 DEF DeferredOf
  <2>2. r \in Req
    BY <1>2, Known DEF Batch
  <2> QED BY <1>2, <2>1, <2>2 DEF PlansRight
<1>4. worker.counts = m
  BY <1>1, <1>2, <1>3 DEF WorkerRight, Early
<1>5. Id("counts", m) \notin Garbage /\ CountsAt(m)
  BY <1>2, <1>4 DEF TensorsRight
<1> QED BY <1>1, <1>2, <1>4, <1>5

\* Steps of the main thread and the engine: no memory is given away.
LEMMA TensorsStay ==
  ASSUME StreamInv, NumbersRight, UNCHANGED <<mode, step, mem>>, SameSteps,
         Waiting \subseteq Waiting',
         \A a \in Waiting' : a \in Waiting \/ (a[2] = step /\ a[1] # "upload"),
         \A t : \A n \in 1 .. step : TakenAfter(t, Id("upload", n)) => TakenAfter(t, Id("upload", n))',
         \A t \in Garbage' : \/ t \in Garbage
                             \/ t[1] \notin {"counts", "drafts"}
                             \/ worker'.counts = 0 /\ worker'.tensor = 0 /\ (t[2] < step \/ t[2] = 0),
         worker'.counts \in {0, worker.counts} \/ (pc = "propose" /\ worker'.counts = step),
         \/ worker'.tensor \in {0, worker.tensor}
         \/ pc = "propose" /\ worker'.tensor = step /\ Id("draft", step) \in Waiting',
         pc' = "propose" => pc = "propose" \/ Id("sample", step) \in Waiting'
  PROVE  TensorsRight'
<1> USE DEF NumbersRight
<1>1. /\ step \in Nat /\ SamePlans /\ \A n \in 1 .. step : info'[n].acc = info[n].acc
      /\ pc # "idle" => step \in 1 .. step
  BY Known DEF SameSteps
<1>2. /\ \A n \in 1 .. step : CountsAt(n) => CountsAt(n)'
      /\ \A n : DraftsAt(n) => DraftsAt(n)'
  BY <1>1 DEF CountsAt, DraftsAt, Holds, Id
<1>3. \A n \in 1 .. step : Uploading(n)' => Uploading(n)
  BY IdIs DEF Uploading, Id
<1>4. worker.counts \in Nat /\ worker.tensor \in Nat /\ worker.counts <= step /\ worker.tensor <= step
  BY <1>1, Buffers DEF WorkerRight
<1>5. ASSUME pc = "propose"
      PROVE  Id("counts", step) \notin Garbage /\ Id("drafts", step) \notin Garbage /\ CountsAt(step)
  BY <1>1, <1>5, IdIs DEF TensorsRight
<1>6. \A t \in Garbage' : t[1] \in {"counts", "drafts"} => t[2] < step \/ t[2] = 0
  BY DEF TensorsRight
<1>7. ASSUME pc' = "propose"
      PROVE  CountsAt(step)'
  <2>1. PICK c : c = step
    OBVIOUS
  <2>2. CASE pc = "propose"
    BY <1>1, <1>2, <1>5, <2>1, <2>2
  <2>3. CASE Id("sample", step) \in Waiting'
    <3>1. CountsAt(c)'
      BY <2>1, <2>3 DEF CountsAt, Id
    <3> QED BY <2>1, <3>1
  <2> QED BY <1>7, <2>2, <2>3
<1>8. ASSUME worker'.counts > 0
      PROVE  Id("counts", worker.counts)' \notin Garbage' /\ CountsAt(worker.counts)'
  <2>1. PICK c : c = worker'.counts
    OBVIOUS
  <2>2. c \in 1 .. step /\ Id("counts", c) \notin Garbage /\ CountsAt(c)
    <3>1. CASE c = worker.counts
      BY <1>1, <1>4, <1>8, <2>1, <3>1 DEF TensorsRight
    <3>2. CASE pc = "propose" /\ c = step
      BY <1>1, <1>5, <3>2
    <3> QED BY <1>8, <2>1, <3>1, <3>2
  <2>3. Id("counts", c) \notin Garbage' /\ CountsAt(c)'
    BY <1>2, <1>8, <2>1, <2>2, IdIs
  <2> QED BY <2>1, <2>3 DEF Id
<1>9. ASSUME worker'.tensor > 0
      PROVE  Id("drafts", worker.tensor)' \notin Garbage' /\ DraftsAt(worker.tensor)'
  <2>1. PICK c : c = worker'.tensor
    OBVIOUS
  <2>2. Id("drafts", c) \notin Garbage /\ DraftsAt(c)'
    <3>1. CASE c = worker.tensor
      <4>1. Id("drafts", c) \notin Garbage /\ DraftsAt(c)
        BY <1>1, <1>4, <1>9, <2>1, <3>1 DEF TensorsRight
      <4> QED BY <1>2, <4>1
    <3>2. CASE pc = "propose" /\ c = step /\ Id("draft", step) \in Waiting'
      BY <1>1, <1>5, <3>2 DEF DraftsAt, Id
    <3> QED BY <1>9, <2>1, <3>1, <3>2
  <2>3. Id("drafts", c) \notin Garbage'
    BY <1>9, <2>1, <2>2, IdIs
  <2> QED BY <2>1, <2>2, <2>3 DEF Id
<1>10. ASSUME NEW n \in 1 .. step, Uploading(n)', DeferredOf(n)' # {}
       PROVE  CountsAt(n - 1)' /\ TakenAfter(Id("counts", n - 1), Id("upload", n))'
  <2>1. Uploading(n) /\ DeferredOf(n) # {}
    BY <1>1, <1>3, <1>10, DeferredKept
  <2>2. PICK m \in 1 .. step : m = n - 1
    BY <1>1, <2>1 DEF DeferredOf, Batch
  <2>3. CountsAt(m) /\ TakenAfter(Id("counts", m), Id("upload", n))
    BY <2>1, <2>2 DEF TensorsRight
  <2> QED BY <1>2, <2>2, <2>3 DEF Id
<1> QED BY <1>6, <1>7, <1>8, <1>9, <1>10 DEF TensorsRight

\* All of them, whatever they send.
LEMMA TensorsQuiet ==
  ASSUME StreamInv, NumbersRight,
         \/ LaunchForward \/ CorrectCounts \/ Propose \/ DownloadTokens \/ TakeDrafts
         \/ \E wanted : CopyDrafts(wanted) \/ ZeroDrafts(wanted)
         \/ AnswerEmpty \/ ReturnTokens \/ ReturnAsync \/ \E i \in DOMAIN pending : GetOutput(i)
         \/ SampleTokens \/ TakeOutput \/ (\E finished : Pool(finished)) \/ UNCHANGED vars
         \/ DownloadOutput \/ DownloadDrafts \/ DownloadCounts
  PROVE  TensorsRight'
<1> USE DEF NumbersRight
<1>1. step \in Nat /\ worker.counts \in Nat /\ worker.tensor \in Nat
  BY Known, Buffers
<1>2. \A k \in {"forward", "sample", "draft", "clone", "pooler"}, n \in 1 .. step :
        Before(Id("upload", n), Id(k, step))
  BY <1>1, IdIs, Stages DEF Before
\* Steps that only enqueue, and leave the references to the tensors.
<1>3. ASSUME UNCHANGED <<mode, step, mem, worker.counts, worker.tensor>>, SameSteps,
             Garbage' = Garbage, pc' # "propose" \/ pc' = pc,
             NEW k \in {"forward", "sample", "draft", "clone", "pooler"},
             Waiting' = Waiting \cup {Id(k, step)},
             \A t, a : TakenAfter(t, a) /\ (t \in freed => Before(a, Id(k, step)))
                         => TakenAfter(t, a)'
      PROVE  TensorsRight'
  <2>1. \A a \in Waiting' : a \in Waiting \/ (a[2] = step /\ a[1] # "upload")
    BY <1>3, IdIs
  <2>2. \A t : \A n \in 1 .. step :
          TakenAfter(t, Id("upload", n)) => TakenAfter(t, Id("upload", n))'
    BY <1>2, <1>3 DEF Id
  <2> QED BY <1>3, <2>1, <2>2, TensorsStay
\* Steps that do not even enqueue.
<1>4. ASSUME UNCHANGED <<mode, step, mem, queue["default"]>>, SameSteps, Waiting' = Waiting,
             \A t \in Garbage' : t \in Garbage \/ t[1] \notin {"counts", "drafts"},
             worker'.counts \in {0, worker.counts} \/ (pc = "propose" /\ worker'.counts = step),
             worker'.tensor = worker.tensor,
             pc' = "propose" => pc = "propose"
      PROVE  TensorsRight'
  <2>1. \A t : \A n \in 1 .. step :
          TakenAfter(t, Id("upload", n)) => TakenAfter(t, Id("upload", n))'
    BY <1>4 DEF TakenAfter, Id
  <2> QED BY <1>4, <2>1, TensorsStay
<1>5. CASE LaunchForward
  <2>1. pc' # "propose"
    BY <1>5, LaunchDoes
  <2> QED BY <1>3, <1>5, <2>1, LaunchDoes
<1>6. CASE ReturnAsync
  BY <1>3, <1>6, ReturnAsyncDoes
<1>7. CASE \E finished : Pool(finished)
  BY <1>3, <1>7, PoolDoes
<1>8. CASE SampleTokens
  <2>1. /\ UNCHANGED <<mode, step, mem>> /\ SameSteps /\ Waiting' = Waiting \cup {Id("sample", step)}
        /\ Garbage' = Garbage \cup {Id("counts", worker.counts), Id("drafts", worker.tensor)}
        /\ worker'.counts = 0 /\ worker'.tensor = 0 /\ pc = "sample"
        /\ \A t, a : TakenAfter(t, a) /\ (t \in freed => Before(a, Id("sample", step)))
                       => TakenAfter(t, a)'
    BY <1>8, SampleDoes
  <2>2. \A a \in Waiting' : a \in Waiting \/ (a[2] = step /\ a[1] # "upload")
    BY <2>1, IdIs
  <2>3. \A t : \A n \in 1 .. step :
          TakenAfter(t, Id("upload", n)) => TakenAfter(t, Id("upload", n))'
    BY <1>2, <2>1 DEF Id
  <2>4. worker.counts < step /\ worker.tensor < step
    BY <1>1, <2>1 DEF WorkerRight, Early
  <2>5. \A t \in Garbage' : t \in Garbage \/ t[2] < step \/ t[2] = 0
    BY <2>1, <2>4, IdIs
  <2> QED BY <2>1, <2>2, <2>3, <2>5, TensorsStay
<1>9. CASE Propose
  <2>1. /\ UNCHANGED <<mode, step, mem>> /\ SameSteps /\ Waiting' = Waiting \cup {Id("draft", step)}
        /\ Garbage' = Garbage /\ pc = "propose" /\ pc' = "drafted"
        /\ worker'.counts = CountsRef /\ worker'.tensor = step
        /\ \A t, a : TakenAfter(t, a) /\ (t \in freed => Before(a, Id("draft", step)))
                       => TakenAfter(t, a)'
    BY <1>9, ProposeDoes
  <2>2. \A a \in Waiting' : a \in Waiting \/ (a[2] = step /\ a[1] # "upload")
    BY <2>1, IdIs
  <2>3. \A t : \A n \in 1 .. step :
          TakenAfter(t, Id("upload", n)) => TakenAfter(t, Id("upload", n))'
    BY <1>2, <2>1 DEF Id
  <2>4. worker'.counts = step \/ worker'.counts = 0
    BY <2>1 DEF CountsRef
  <2> QED BY <2>1, <2>2, <2>3, <2>4, TensorsStay
<1>10. CASE DownloadTokens
  <2>1. /\ UNCHANGED <<mode, step, mem, worker>> /\ SameSteps /\ Garbage' = Garbage /\ pc' = "wait"
        /\ Waiting' = Waiting \cup {Id("experts", step), Id("tokens", step)}
        /\ \A t, x : TakenAfter(t, x) => TakenAfter(t, x)'
    BY <1>10, DownloadTokensDoes
  <2>2. \A a \in Waiting' : a \in Waiting \/ (a[2] = step /\ a[1] # "upload")
    BY <2>1, IdIs
  <2>3. \A t : \A n \in 1 .. step :
          TakenAfter(t, Id("upload", n)) => TakenAfter(t, Id("upload", n))'
    BY <2>1 DEF Id
  <2> QED BY <2>1, <2>2, <2>3, TensorsStay
<1>11. CASE \E wanted : CopyDrafts(wanted) \/ ZeroDrafts(wanted)
  <2>1. PICK wanted : CopyDrafts(wanted) \/ ZeroDrafts(wanted)
    BY <1>11
  <2>2. CASE CopyDrafts(wanted)
    BY <1>4, <2>2, CopyDraftsDoes
  <2>3. CASE ZeroDrafts(wanted)
    <3>1. worker'.counts = step \/ worker'.counts = 0
      BY <2>3, ZeroDraftsDoes DEF CountsRef
    <3> QED BY <1>4, <2>3, <3>1, ZeroDraftsDoes
  <2> QED BY <2>1, <2>2, <2>3
<1>12. CASE CorrectCounts \/ ReturnTokens \/ AnswerEmpty
  BY <1>1, <1>4, <1>12, CorrectDoes, ReturnTokensDoes, EmptyDoes, Buffers
<1>13. CASE TakeDrafts
  <2>1. worker'.counts = worker.counts /\ worker'.tensor = worker.tensor
    BY <1>13, TakeDraftsDoes, Buffers
  <2> QED BY <1>4, <1>13, <2>1, TakeDraftsDoes
<1>14. CASE TakeOutput
  <2>1. /\ UNCHANGED <<mode, pc, step, worker, queue, mem>> /\ SameSteps /\ Waiting' = Waiting
        /\ Garbage' = Garbage
    BY <1>14, TakeDoes
  <2> QED BY <1>4, <2>1
<1>15. CASE \E i \in DOMAIN pending : GetOutput(i)
  <2>1. PICK i \in DOMAIN pending : GetOutput(i)
    BY <1>15
  <2>2. \A t \in Garbage' : t \in Garbage \/ t[1] \notin {"counts", "drafts"}
    BY <2>1, GetDoes, IdIs
  <2> QED BY <1>4, <2>1, <2>2, GetDoes
<1>16. CASE UNCHANGED vars
  BY <1>4, <1>16 DEF vars, gpu, Waiting, Garbage, TakenBy, SameSteps, SamePlans
<1>17. CASE DownloadOutput \/ DownloadDrafts \/ DownloadCounts
  <2>1. PICK s \in {"output", "draft", "count"} : \E kind : Runs(s, kind)
    BY <1>17 DEF DownloadOutput, DownloadDrafts, DownloadCounts
  <2>2. UNCHANGED <<info, mem>>
    BY <1>17 DEF DownloadOutput, DownloadDrafts, DownloadCounts
  <2>3. /\ UNCHANGED <<mode, pc, step, worker, queue["default"]>> /\ Waiting' = Waiting /\ SameSteps
        /\ Garbage' = Garbage
    BY <2>1, <2>2, DownloadDoes DEF Streams
  <2> QED BY <1>4, <2>2, <2>3
<1> QED
  BY <1>5, <1>6, <1>7, <1>8, <1>9, <1>10, <1>11, <1>12, <1>13, <1>14, <1>15, <1>16, <1>17

\* A call that is planned, or uploads: what it may need was not given away.
LEMMA TensorsSent ==
  ASSUME StreamInv, NumbersRight,
         Prepare \/ DummyRun \/ \E b \in SUBSET Req, d \in DraftCounts : PlanStep(b, d)
  PROVE  TensorsRight'
<1> USE DEF NumbersRight
<1>1. PICK c : c = IF pc = "idle" THEN step + 1 ELSE step
  OBVIOUS
<1>2. /\ step \in Nat /\ step' = c /\ pc' # "propose" /\ step' >= step /\ pc \in {"idle", "prepare"}
      /\ UNCHANGED <<mode, mem, worker.counts, worker.tensor>> /\ SamePlans
      /\ \A n \in 1 .. step : info'[n].acc = info[n].acc
      /\ \A a \in Waiting' : a \in Waiting \/ a \in {Id("upload", c), Id("forward", c)}
      /\ Waiting \subseteq Waiting' /\ Garbage' = Garbage
      /\ \A t, a : TakenAfter(t, a) /\ (t \in freed => Before(a, Id("upload", c)))
                     => TakenAfter(t, a)'
  <2>1. CASE Prepare
    BY <1>1, <2>1, PrepareDoes, Known
  <2>2. CASE DummyRun
    <3>1. pc = "idle"
      BY <2>2 DEF DummyRun
    <3>2. SamePlans /\ \A n \in 1 .. step : info'[n].acc = info[n].acc
      BY <1>1, <2>2, <3>1, DummyDoes DEF SameSteps
    <3> QED BY <1>1, <2>2, <3>1, <3>2, DummyDoes, Known
  <2>3. CASE \E b \in SUBSET Req, d \in DraftCounts : PlanStep(b, d)
    <3>1. PICK b \in SUBSET Req, d \in DraftCounts : PlanStep(b, d)
      BY <2>3
    <3>2. /\ pc = "idle" /\ pc' = "prepare" /\ step' = step + 1 /\ UNCHANGED <<mode, worker, queue, mem>>
          /\ Waiting' = Waiting /\ Garbage' = Garbage /\ SameSteps
      BY <3>1, PlanDoes
    <3>3. \A t, a : TakenAfter(t, a) => TakenAfter(t, a)'
      BY <3>2 DEF TakenAfter
    <3> QED BY <1>1, <3>2, <3>3, Known DEF SameSteps
  <2> QED BY <2>1, <2>2, <2>3
<1>3. /\ \A n : n <= step => Batch(n)' = Batch(n)
      /\ \A n \in 1 .. step : DeferredOf(n)' = DeferredOf(n)
      /\ c > step => pc = "idle"
  BY <1>1, <1>2, BatchKept, DeferredKept
<1>4. \A n \in 1 .. step : CountsAt(n) => CountsAt(n)'
  BY <1>2 DEF CountsAt, Holds, Id
<1>5. \A n : DraftsAt(n) => DraftsAt(n)'
  BY <1>2 DEF DraftsAt, Holds, Id
<1>6. worker.counts \in Nat /\ worker.tensor \in Nat /\ worker.counts <= step
  BY <1>2, Buffers DEF WorkerRight
<1>7. \A t \in Garbage' : t[1] \in {"counts", "drafts"} => t[2] < step' \/ t[2] = 0
  <2>1. \A t \in Garbage : t[1] \in {"counts", "drafts"} => t[2] < step \/ t[2] = 0
    BY DEF TensorsRight
  <2>2. \A t \in Garbage : t[2] \in Nat
    <3>1. \A i \in DOMAIN queue["default"] : queue["default"][i].takes \subseteq Tensors
      <4>1. PICK q : q = queue["default"]
        OBVIOUS
      <4>2. q \in Seq(Kernels)
        BY <4>1, Buffers
      <4>3. \A i \in DOMAIN q : q[i] \in Kernels
        BY <4>2
      <4> QED BY <4>1, <4>3 DEF Kernels
    <3>2. Garbage \subseteq Tensors
      BY <3>1 DEF Garbage, TakenBy, StreamInv, StreamTypes, DeviceTypes
    <3>3. \A t \in Tensors : t[2] \in Nat
      BY DEF Tensors
    <3> QED BY <3>2, <3>3
  <2>3. step \in Nat /\ step' \in Nat /\ step' >= step /\ Garbage' = Garbage
    BY <1>1, <1>2
  <2> QED BY <2>1, <2>2, <2>3
<1>8. /\ worker'.counts > 0 => Id("counts", worker.counts)' \notin Garbage' /\ CountsAt(worker.counts)'
      /\ worker'.tensor > 0 => Id("drafts", worker.tensor)' \notin Garbage' /\ DraftsAt(worker.tensor)'
  <2>1. PICK k, l : k = worker.counts /\ l = worker.tensor
    OBVIOUS
  <2>2. /\ k > 0 => Id("counts", k) \notin Garbage /\ CountsAt(k)
        /\ l > 0 => Id("drafts", l) \notin Garbage /\ DraftsAt(l)
    BY <2>1 DEF TensorsRight
  <2>3. /\ k > 0 => Id("counts", k) \notin Garbage' /\ CountsAt(k)'
        /\ l > 0 => Id("drafts", l) \notin Garbage' /\ DraftsAt(l)'
    BY <1>2, <1>4, <1>5, <1>6, <2>1, <2>2
  <2> QED BY <1>2, <2>1, <2>3 DEF Id
<1>9. ASSUME NEW n \in 1 .. step', Uploading(n)', DeferredOf(n)' # {}
      PROVE  CountsAt(n - 1)' /\ TakenAfter(Id("counts", n - 1), Id("upload", n))'
  <2>1. CASE c > step /\ n = c
    <3>1. Id("upload", n) \notin Waiting
      BY <1>2, <2>1, IdIs, Known
    <3>2. ~Prepare /\ Waiting' # Waiting
      BY <1>9, <3>1, <1>3, <2>1 DEF Prepare, Uploading, Id
    <3>3. DummyRun
      BY <3>2, PlanDoes
    <3>4. info'[c].batch = {}
      BY <1>1, <2>1, <3>3, <1>3, DummyDoes
    <3>5. Batch(n)' = {}
      BY <1>2, <2>1, <3>4 DEF Batch
    <3> QED BY <1>9, <3>5 DEF DeferredOf
  <2>2. CASE n \in 1 .. step
    <3>1. DeferredOf(n) # {}
      BY <1>3, <1>9, <2>2
    <3>2. PICK m \in 1 .. step : m = n - 1
      BY <1>2, <2>2, <3>1 DEF DeferredOf, Batch
    <3>3. CASE Uploading(n)
      <4>1. CountsAt(m) /\ TakenAfter(Id("counts", m), Id("upload", n))
        BY <2>2, <3>1, <3>2, <3>3 DEF TensorsRight
      <4>2. Id("counts", m) \in freed => Before(Id("upload", n), Id("upload", c))
        <5>1. CASE n < c
          BY <5>1, IdIs DEF Before
        <5>2. CASE n = c
          <6>1. pc = "prepare"
            BY <1>1, <1>2, <2>2, <5>2
          <6>2. Id("upload", n) \notin Waiting
            BY <1>1, <5>2, <6>1, Known, IdIs, Stages DEF Enqueued
          <6> QED BY <3>3, <6>2 DEF Uploading
        <5> QED BY <1>1, <1>2, <2>2, <5>1, <5>2
      <4>3. TakenAfter(Id("counts", m), Id("upload", n))'
        BY <1>2, <4>1, <4>2 DEF Id
      <4> QED BY <1>4, <3>2, <4>1, <4>3 DEF Id
    <3>4. CASE ~Uploading(n)
      <4>1. n = c
        BY <1>2, <1>9, <3>4, IdIs DEF Uploading, Id
      <4>2. pc = "prepare"
        BY <1>1, <1>2, <2>2, <4>1
      <4>3. CountsAt(m) /\ Id("counts", m) \notin Garbage
        <5>1. n = step
          BY <1>1, <4>1, <4>2
        <5> QED BY <3>1, <3>2, <4>2, <5>1, CountsReferred
      <4>4. TakenAfter(Id("counts", m), Id("upload", n))'
        <5>1. TakenAfter(Id("counts", m), Id("upload", n)) /\ Id("counts", m) \notin freed
          BY <4>3 DEF TakenAfter, Garbage, TakenBy
        <5> QED BY <1>2, <5>1 DEF Id
      <4> QED BY <1>4, <3>2, <4>3, <4>4 DEF Id
    <3> QED BY <3>3, <3>4
  <2> QED BY <1>1, <1>2, <1>9, <2>1, <2>2
<1> QED BY <1>2, <1>7, <1>8, <1>9 DEF TensorsRight

\* Counts that are there, or to come, stay so while others' tensors are written.
LEMMA CountsHeld ==
  ASSUME StreamInv, NEW kind, Runs("default", kind), kind # "sample", SameSteps,
         \A t, v : Holds(t, v) /\ t \notin Taken /\ t[1] = "counts" => Holds(t, v)'
  PROVE  \A n \in 1 .. step : CountsAt(n) /\ Id("counts", n) \notin Taken => CountsAt(n)'
<1>1. \A m : Id("sample", m) \in Waiting => Id("sample", m) \in Waiting'
  <2>1. Waiting = Waiting' \cup {Id(kind, Now("default"))}
    BY HeadRuns
  <2> QED BY <2>1, IdIs
<1>2. \A n \in 1 .. step : info'[n].acc = info[n].acc
  BY DEF SameSteps
<1>3. ASSUME NEW n \in 1 .. step, CountsAt(n), Id("counts", n) \notin Taken
      PROVE  CountsAt(n)'
  <2>1. PICK v : v = [r \in Req |-> info[n].acc[r] + 1]
    OBVIOUS
  <2>2. Id("sample", n) \in Waiting \/ Holds(Id("counts", n), v)
    BY <1>3, <2>1 DEF CountsAt
  <2>3. PICK t : t = Id("counts", n) /\ t[1] = "counts"
    BY IdIs
  <2>4. Holds(t, v) => Holds(t, v)'
    BY <1>3, <2>3
  <2> QED BY <1>1, <1>2, <2>1, <2>2, <2>3, <2>4 DEF CountsAt, Id
<1> QED BY <1>3

\* And so do drafts.
LEMMA DraftsHeld ==
  ASSUME StreamInv, NEW kind, Runs("default", kind), kind # "draft",
         \A t, v : Holds(t, v) /\ t \notin Taken /\ t[1] = "drafts" => Holds(t, v)'
  PROVE  \A n \in 1 .. step : DraftsAt(n) /\ Id("drafts", n) \notin Taken => DraftsAt(n)'
<1>1. \A m : Id("draft", m) \in Waiting => Id("draft", m) \in Waiting'
  <2>1. Waiting = Waiting' \cup {Id(kind, Now("default"))}
    BY HeadRuns
  <2> QED BY <2>1, IdIs
<1>2. ASSUME NEW n \in 1 .. step, DraftsAt(n), Id("drafts", n) \notin Taken
      PROVE  DraftsAt(n)'
  <2>1. PICK t : t = Id("drafts", n) /\ t[1] = "drafts"
    BY IdIs
  <2>2. Holds(t, n) => Holds(t, n)'
    BY <1>2, <2>1
  <2> QED BY <1>1, <1>2, <2>1, <2>2 DEF DraftsAt, Id
<1> QED BY <1>2

\* What runs takes no memory that is referred to, nor any that an upload will read.
LEMMA TensorsRun ==
  ASSUME StreamInv, NumbersRight, NEW kind, Runs("default", kind), SamePlans,
         \A n \in 1 .. step : CountsAt(n) /\ Id("counts", n) \notin Taken => CountsAt(n)',
         \A n \in 1 .. step : DraftsAt(n) /\ Id("drafts", n) \notin Taken => DraftsAt(n)'
  PROVE  TensorsRight'
<1> USE DEF NumbersRight
<1>1. PICK h : h = Now("default")
  OBVIOUS
<1>2. /\ h \in 1 .. step /\ step \in Nat /\ kind \in DOMAIN Stage /\ Id(kind, h) \in Waiting
      /\ Waiting = Waiting' \cup {Id(kind, h)}
      /\ \A a \in Waiting' : Before(Id(kind, h), a)
      /\ Garbage' \subseteq Garbage /\ Taken \subseteq Garbage
      /\ \A t, a : TakenAfter(t, a) => TakenAfter(t, a)' /\ (t \in Taken => Before(a, Id(kind, h)))
      /\ UNCHANGED <<mode, pc, step, worker>> /\ (pc # "idle" => step \in 1 .. step)
  BY <1>1, HeadRuns, Known
<1>3. worker.counts \in Nat /\ worker.counts <= step /\ worker.tensor \in Nat /\ worker.tensor <= step
  BY <1>2, Buffers DEF WorkerRight
<1>4. ASSUME pc = "propose"
      PROVE  CountsAt(step)'
  <2>1. PICK n \in 1 .. step : n = step
    BY <1>2, <1>4
  <2>2. CountsAt(n) /\ Id("counts", n) \notin Taken
    BY <1>2, <1>4, <2>1, IdIs DEF TensorsRight
  <2>3. CountsAt(n)'
    BY <2>2
  <2> QED BY <1>2, <2>1, <2>3
<1>5. /\ worker.counts > 0 => Id("counts", worker.counts)' \notin Garbage' /\ CountsAt(worker.counts)'
      /\ worker.tensor > 0 => Id("drafts", worker.tensor)' \notin Garbage' /\ DraftsAt(worker.tensor)'
  <2>1. PICK k, l : k = worker.counts /\ l = worker.tensor
    OBVIOUS
  <2>2. /\ k > 0 => Id("counts", k) \notin Garbage /\ CountsAt(k) /\ k \in 1 .. step
        /\ l > 0 => Id("drafts", l) \notin Garbage /\ DraftsAt(l) /\ l \in 1 .. step
    BY <1>2, <1>3, <2>1 DEF TensorsRight
  <2>3. /\ k > 0 => Id("counts", k) \notin Garbage' /\ CountsAt(k)'
        /\ l > 0 => Id("drafts", l) \notin Garbage' /\ DraftsAt(l)'
    BY <1>2, <2>2
  <2> QED BY <1>2, <2>1, <2>3 DEF Id
<1>6. ASSUME NEW n \in 1 .. step, Uploading(n)', DeferredOf(n)' # {}
      PROVE  CountsAt(n - 1)' /\ TakenAfter(Id("counts", n - 1), Id("upload", n))'
  <2>1. DeferredOf(n) # {}
    BY <1>2, <1>6, DeferredKept
  <2>2. Id("upload", n) \in Waiting' /\ Uploading(n)
    BY <1>2, <1>6 DEF Uploading, Id
  <2>3. PICK m \in 1 .. step : m = n - 1
    BY <1>2, <2>1 DEF DeferredOf, Batch
  <2>4. CountsAt(m) /\ TakenAfter(Id("counts", m), Id("upload", n))
    BY <2>1, <2>2, <2>3 DEF TensorsRight
  <2>5. Id("counts", m) \notin Taken
    <3>1. Before(Id(kind, h), Id("upload", n)) /\ Id(kind, h) \in Ids /\ Id("upload", n) \in Ids
      BY <1>2, <2>2, Known
    <3>2. ~Before(Id("upload", n), Id(kind, h))
      BY <3>1, BeforeOrders
    <3> QED BY <1>2, <2>4, <3>2
  <2>6. CountsAt(m)'
    BY <2>4, <2>5
  <2>7. TakenAfter(Id("counts", m), Id("upload", n))'
    BY <1>2, <2>4 DEF Id
  <2> QED BY <2>3, <2>6, <2>7 DEF Id
<1>7. \A t \in Garbage' : t[1] \in {"counts", "drafts"} => t[2] < step \/ t[2] = 0
  BY <1>2 DEF TensorsRight
<1> QED BY <1>2, <1>4, <1>5, <1>6, <1>7 DEF TensorsRight

\* All the kernels and downloads of the default stream.
LEMMA TensorsRan ==
  ASSUME StreamInv, NumbersRight, DefaultStream
  PROVE  TensorsRight'
<1>1. PICK h : h = Now("default")
  OBVIOUS
<1>2. CASE RunUpload \/ RunForward \/ RunPooler \/ RunClone \/ DownloadExperts \/ DownloadToList
  <2>1. PICK kind \in {"upload", "forward", "pooler", "clone", "experts", "tokens"} :
          /\ Runs("default", kind) /\ SameSteps
          /\ \A t, v : Holds(t, v) /\ t \notin Taken /\ t[1] \in {"counts", "drafts"} => Holds(t, v)'
    <3>1. CASE RunUpload
      BY <1>1, <3>1, UploadDoes
    <3>2. CASE RunForward
      BY <1>1, <3>2, ForwardDoes
    <3>3. CASE RunPooler
      <4>1. \A t : t[1] \in {"counts", "drafts"} => t # Id("tokens", h)
        BY IdIs
      <4> QED BY <1>1, <3>3, <4>1, PoolerDoes
    <3>4. CASE RunClone \/ DownloadExperts \/ DownloadToList
      BY <3>4, OtherRuns
    <3> QED BY <1>2, <3>1, <3>2, <3>3, <3>4
  <2>2. SamePlans
    BY <2>1 DEF SameSteps
  <2> QED BY <2>1, <2>2, CountsHeld, DraftsHeld, TensorsRun
<1>3. CASE RunDraft
  <2>1. /\ Runs("default", "draft") /\ SameSteps /\ Holds(Id("drafts", h), h)'
        /\ \A t, v : Holds(t, v) /\ t \notin Taken /\ t # Id("drafts", h) => Holds(t, v)'
    BY <1>1, <1>3, DrafterDoes
  <2>2. \A t, v : Holds(t, v) /\ t \notin Taken /\ t[1] = "counts" => Holds(t, v)'
    BY <2>1, IdIs
  <2>3. \A n \in 1 .. step : CountsAt(n) /\ Id("counts", n) \notin Taken => CountsAt(n)'
    BY <2>1, <2>2, CountsHeld
  <2>4. ASSUME NEW n \in 1 .. step, DraftsAt(n), Id("drafts", n) \notin Taken
        PROVE  DraftsAt(n)'
    <3>1. CASE n = h
      BY <2>1, <3>1 DEF DraftsAt
    <3>2. CASE n # h
      <4>1. Id("draft", n) \in Waiting => Id("draft", n) \in Waiting'
        BY <1>1, <2>1, <3>2, HeadRuns, IdIs
      <4>2. Holds(Id("drafts", n), n) => Holds(Id("drafts", n), n)'
        <5>1. PICK t : t = Id("drafts", n) /\ t # Id("drafts", h)
          BY <3>2, IdIs
        <5>2. Holds(t, n) => Holds(t, n)'
          BY <2>1, <2>4, <5>1
        <5> QED BY <5>1, <5>2 DEF Id
      <4> QED BY <2>4, <4>1, <4>2 DEF DraftsAt, Id
    <3> QED BY <3>1, <3>2
  <2>5. SamePlans
    BY <2>1 DEF SameSteps
  <2> QED BY <2>1, <2>3, <2>4, <2>5, TensorsRun
<1>4. ASSUME NEW acc \in DraftCounts, RunSample(acc)
      PROVE  TensorsRight'
  <2>1. /\ Runs("default", "sample") /\ SamePlans /\ info'[h].acc = acc
        /\ Holds(Id("counts", h), [r \in Req |-> acc[r] + 1])'
        /\ \A t, v : Holds(t, v) /\ t \notin Taken /\ t \notin {Id("counts", h), Id("tokens", h)}
                       => Holds(t, v)'
        /\ \A m \in 1 .. step : m # h => info'[m].acc = info[m].acc
    BY <1>1, <1>4, SamplerDoes
  <2>2. \A t, v : Holds(t, v) /\ t \notin Taken /\ t[1] = "drafts" => Holds(t, v)'
    BY <2>1, IdIs
  <2>3. \A n \in 1 .. step : DraftsAt(n) /\ Id("drafts", n) \notin Taken => DraftsAt(n)'
    BY <2>1, <2>2, DraftsHeld
  <2>4. ASSUME NEW n \in 1 .. step, CountsAt(n), Id("counts", n) \notin Taken
        PROVE  CountsAt(n)'
    <3>1. CASE n = h
      BY <2>1, <3>1 DEF CountsAt
    <3>2. CASE n # h
      <4>1. Id("sample", n) \in Waiting => Id("sample", n) \in Waiting'
        BY <1>1, <2>1, <3>2, HeadRuns, IdIs
      <4>2. PICK v : v = [r \in Req |-> info[n].acc[r] + 1]
        OBVIOUS
      <4>3. Holds(Id("counts", n), v) => Holds(Id("counts", n), v)'
        <5>1. PICK t : t = Id("counts", n) /\ t \notin {Id("counts", h), Id("tokens", h)}
          BY <3>2, IdIs
        <5>2. Holds(t, v) => Holds(t, v)'
          BY <2>1, <2>4, <5>1
        <5> QED BY <5>1, <5>2 DEF Id
      <4>4. info'[n].acc = info[n].acc
        BY <2>1, <3>2
      <4> QED BY <2>4, <4>1, <4>2, <4>3, <4>4 DEF CountsAt, Id
    <3> QED BY <3>1, <3>2
  <2> QED BY <2>1, <2>3, <2>4, TensorsRun
<1> QED BY <1>2, <1>3, <1>4 DEF DefaultStream

\* The memory of a tensor goes to another only when nothing needs it.
LEMMA TensorsKept ==
  ASSUME StreamInv, NumbersRight, [Next]_vars
  PROVE  TensorsRight'
BY TensorsQuiet, TensorsSent, TensorsRan DEF Next, Engine, MainThread, OutputThread

-----------------------------------------------------------------------------
(* The copies on their way to the host.                                    *)

\* A default stream with nothing to do has no operation to wait for.
LEMMA NoneWaiting ==
  ASSUME StreamInv
  PROVE  /\ Waiting = {} <=> queue["default"] = <<>>
         /\ Waiting = {} => LastOf("default") = NoOp
<1>1. PICK q : q = queue["default"]
  OBVIOUS
<1>2. q \in Seq(Kernels)
  BY <1>1, Buffers
<1>3. IdsOf(q) = {} <=> q = <<>>
  <2>1. q # <<>> => IdsOf(q) # {}
    BY <1>2, TailIs
  <2>2. q = <<>> => IdsOf(q) = {}
    BY DEF IdsOf
  <2> QED BY <2>1, <2>2
<1> QED BY <1>1, <1>3 DEF Waiting, LastOf

\* The last operation of the default stream.
LEMMA LastIs ==
  ASSUME StreamInv, NEW k \in DOMAIN Stage, Id(k, step) \in Waiting,
         \A a \in Waiting : a[2] < step \/ Stage[a[1]] <= Stage[k]
  PROVE  LastOf("default") = Id(k, step)
<1>1. PICK q : q = queue["default"]
  OBVIOUS
<1>2. q \in Seq(Kernels) /\ InOrder(q) /\ Len(q) \in Nat /\ DOMAIN q = 1 .. Len(q)
  BY <1>1, Buffers DEF StreamInv, WorkRight
<1>3. PICK i \in DOMAIN q : q[i].id = Id(k, step)
  BY <1>1 DEF Waiting, IdsOf
<1>4. Len(q) \in DOMAIN q /\ q # <<>> /\ i <= Len(q)
  BY <1>2, <1>3
<1>5. q[Len(q)].id \in Waiting
  BY <1>1, <1>4 DEF Waiting, IdsOf
<1>6. ~Before(Id(k, step), q[Len(q)].id)
  <2>1. PICK a : a = q[Len(q)].id
    OBVIOUS
  <2>2. /\ a \in Waiting /\ a[2] \in Nat /\ a[2] <= step /\ step \in Nat
        /\ Stage[a[1]] \in Nat /\ Stage[k] \in Nat
    BY <1>5, <2>1, Known, Stages
  <2>3. ~Before(Id(k, step), a)
    BY <2>2, IdIs DEF Before
  <2> QED BY <2>1, <2>3
<1>7. i = Len(q)
  <2>1. ~(i < Len(q))
    BY <1>2, <1>3, <1>4, <1>6 DEF InOrder
  <2> QED BY <1>2, <1>3, <1>4, <2>1
<1>8. LastOf("default") = q[Len(q)].id
  BY <1>1, <1>4 DEF LastOf, Last
<1> QED BY <1>3, <1>7, <1>8

\* When the counts are copied it is the sampler, or the GPU has caught up.
LEMMA SamplerLast ==
  ASSUME StreamInv, NumbersRight, pc = "propose"
  PROVE  IF LastOf("default") = NoOp THEN Id("sample", step) \notin Waiting
         ELSE LastOf("default") = Id("sample", step)
<1> USE DEF NumbersRight
<1>1. step \in 1 .. step /\ step \in Nat /\ Batch(step) # {}
  BY Known DEF StepsReal
<1>2. \A a \in Waiting : a[2] < step \/ Stage[a[1]] <= Stage["sample"]
  BY Known, Stages DEF Enqueued
<1>3. Sampler = "sample"
  BY DEF Sampler, StreamInv, WorkRight, PoolingOnly, Sampling
<1>4. CASE Id("sample", step) \in Waiting
  <2>1. LastOf("default") = Id("sample", step)
    BY <1>2, <1>4, LastIs, Stages
  <2>2. Id("sample", step) # NoOp
    BY <1>1, StreamsAssumption DEF Id, Kinds
  <2> QED BY <2>1, <2>2
<1>5. CASE Id("sample", step) \notin Waiting
  <2>1. IsSampled(step)
    BY <1>1, <1>3, <1>5 DEF CountingRight, SamplesInOrder, At, Early
  <2>2. Waiting = {}
    <3>1. SUFFICES ASSUME NEW a \in Waiting
                   PROVE  FALSE
      OBVIOUS
    <3>2. a[2] \in 1 .. step /\ Stage[a[1]] \in Nat /\ (a[2] < step \/ Stage[a[1]] <= 3)
      BY <1>2, Known, Stages
    <3> QED BY <1>1, <2>1, <3>2 DEF IsSampled
  <2> QED BY <1>5, <2>2, NoneWaiting
<1> QED BY <1>4, <1>5

\* And when the drafts are, it is the drafter.
LEMMA DrafterLast ==
  ASSUME StreamInv, NumbersRight, pc = "drafted"
  PROVE  IF LastOf("default") = NoOp THEN Id("draft", step) \notin Waiting
         ELSE LastOf("default") = Id("draft", step)
<1> USE DEF NumbersRight
<1>1. step \in 1 .. step /\ step \in Nat
  BY Known
<1>2. \A a \in Waiting : a[2] < step \/ Stage[a[1]] <= Stage["draft"]
  BY Known, Stages DEF Enqueued
<1>3. CASE Id("draft", step) \in Waiting
  <2>1. LastOf("default") = Id("draft", step)
    BY <1>2, <1>3, LastIs, Stages
  <2>2. Id("draft", step) # NoOp
    BY <1>1, StreamsAssumption DEF Id, Kinds
  <2> QED BY <2>1, <2>2
<1>4. CASE Id("draft", step) \notin Waiting
  BY <1>4, NoneWaiting DEF DraftCopiesRight
<1> QED BY <1>3, <1>4

\* One copy more, of a later step than the others.
LEMMA CopyMore ==
  ASSUME NEW kind, NEW q \in Seq(Copies(kind)), NEW n \in Nat, NEW after \in {NoOp} \cup Ids,
         Increasing(q), \A i \in DOMAIN q : q[i].id[2] < n
  PROVE  LET p == Append(q, Copy(kind, n, after))
         IN  /\ Increasing(p) /\ Id(kind, n) \in IdsOf(p)
             /\ \A i \in DOMAIN p : \/ i \in DOMAIN q /\ p[i] = q[i]
                                    \/ p[i].id = Id(kind, n) /\ p[i].after = after
<1> DEFINE op == Copy(kind, n, after)
           p == Append(q, op)
<1>1. op \in Copies(kind) /\ op.id = Id(kind, n) /\ op.after = after
  BY DEF Copy, Copies, Id
<1>2. /\ IdsOf(p) = IdsOf(q) \cup {op.id}
      /\ DOMAIN p = DOMAIN q \cup {Len(q) + 1}
      /\ p[Len(q) + 1] = op /\ \A i \in DOMAIN q : p[i] = q[i]
  BY <1>1, AppendIs
<1>3. Len(q) \in Nat /\ DOMAIN q = 1 .. Len(q)
  OBVIOUS
<1> HIDE DEF op, p
<1>4. ASSUME NEW i \in DOMAIN p, NEW j \in DOMAIN p, i < j
      PROVE  p[i].id[2] < p[j].id[2]
  <2>1. i \in DOMAIN q /\ p[i] = q[i]
    BY <1>2, <1>3, <1>4
  <2>2. CASE j \in DOMAIN q
    BY <1>2, <1>4, <2>1, <2>2 DEF Increasing
  <2>3. CASE j = Len(q) + 1
    BY <1>1, <1>2, <2>1, <2>3, IdIs
  <2> QED BY <1>2, <2>2, <2>3
<1> QED BY <1>1, <1>2, <1>4 DEF Increasing, p, op

\* One less.
LEMMA CopyLess ==
  ASSUME NEW kind, NEW q \in Seq(Copies(kind)), q # <<>>, Increasing(q)
  PROVE  /\ Increasing(Tail(q))
         /\ \A i \in DOMAIN Tail(q) : i + 1 \in DOMAIN q /\ Tail(q)[i] = q[i + 1]
         /\ IdsOf(q) = IdsOf(Tail(q)) \cup {Head(q).id}
         /\ 1 \in DOMAIN q /\ Head(q) = q[1] /\ Head(q).id = Id(kind, Head(q).id[2])
         /\ \A n : (\A i \in DOMAIN q : q[i].id[2] <= n) /\ Head(q).id[2] = n => Tail(q) = <<>>
<1> DEFINE p == Tail(q)
<1>1. /\ p \in Seq(Copies(kind)) /\ 1 \in DOMAIN q /\ Head(q) = q[1] /\ Head(q) \in Copies(kind)
      /\ \A i \in DOMAIN p : i + 1 \in DOMAIN q /\ p[i] = q[i + 1]
      /\ IdsOf(q) = IdsOf(p) \cup {Head(q).id}
  BY TailIs
<1>2. DOMAIN p \subseteq Nat \ {0}
  BY <1>1
<1> HIDE DEF p
<1>3. Increasing(p)
  <2>1. ASSUME NEW i \in DOMAIN p, NEW j \in DOMAIN p, i < j
        PROVE  p[i].id[2] < p[j].id[2]
    <3>1. i + 1 < j + 1
      BY <1>2, <2>1
    <3> QED BY <1>1, <3>1 DEF Increasing
  <2> QED BY <2>1 DEF Increasing
<1>4. Head(q).id = Id(kind, Head(q).id[2])
  BY <1>1 DEF Copies, Id
<1>5. ASSUME NEW n, \A i \in DOMAIN q : q[i].id[2] <= n, Head(q).id[2] = n
      PROVE  p = <<>>
  <2>1. SUFFICES ASSUME p # <<>>
                 PROVE  FALSE
    OBVIOUS
  <2>2. 1 \in DOMAIN p
    BY <1>1, <2>1
  <2>3. 2 \in DOMAIN q
    BY <1>1, <2>2
  <2>4. q[1].id[2] < q[2].id[2] /\ q[2].id[2] <= n /\ q[1].id[2] = n
    BY <1>1, <1>5, <2>3 DEF Increasing
  <2>5. q[1] \in Copies(kind) /\ q[2] \in Copies(kind)
    BY <1>1, <2>3
  <2>6. q[1].id[2] \in Nat /\ q[2].id[2] \in Nat
    BY <2>5 DEF Copies
  <2> QED BY <2>4, <2>6
<1> QED BY <1>1, <1>3, <1>4, <1>5 DEF p

\* Steps that leave the count stream alone.
LEMMA CountCopiesStay ==
  ASSUME StreamInv, NumbersRight, queue'["count"] = queue["count"], events'.count = events.count,
         host'.counts = host.counts, worker'.counts \in {0, worker.counts},
         step' \in Nat, step' >= step,
         \A n \in 1 .. step : info'[n].acc = info[n].acc \/ Id("sample", n) \in Waiting,
         \A n \in 1 .. step : Id("sample", n) \in Waiting' =>
           \/ Id("sample", n) \in Waiting
           \/ n = step /\ pc = "sample" /\ worker'.counts = 0,
         pc' \in Early \cup {"propose"} => pc \in Early \cup {"propose"} \/ step' = step + 1
  PROVE  CountCopiesRight'
<1> USE DEF NumbersRight
<1>1. step \in Nat /\ worker.counts \in Nat /\ worker.counts <= step
  BY Known, Buffers DEF WorkerRight
<1>2. PICK q : q = queue["count"]
  OBVIOUS
<1>3. /\ Increasing(q)
      /\ \A i \in DOMAIN q :
           /\ q[i].id[2] \in 1 .. step /\ (pc \in Early \cup {"propose"} => q[i].id[2] < step)
           /\ IF q[i].after = NoOp THEN Id("sample", q[i].id[2]) \notin Waiting
              ELSE q[i].after = Id("sample", q[i].id[2])
  BY <1>2 DEF CountCopiesRight, CopiesOf
<1>4. ASSUME NEW i \in DOMAIN q
      PROVE  /\ q[i].id[2] \in 1 .. step' /\ (pc' \in Early \cup {"propose"} => q[i].id[2] < step')
             /\ IF q[i].after = NoOp THEN Id("sample", q[i].id[2]) \notin Waiting'
                ELSE q[i].after = Id("sample", q[i].id[2])
  <2>1. PICK n : n = q[i].id[2]
    OBVIOUS
  <2>2. n \in 1 .. step /\ (pc \in Early \cup {"propose"} => n < step)
    BY <1>3, <2>1
  <2>3. Id("sample", n) \in Waiting' => Id("sample", n) \in Waiting
    BY <1>1, <2>2 DEF Early
  <2> QED BY <1>1, <1>3, <2>1, <2>2, <2>3
<1>5. CopiesOf("count", "sample", Early \cup {"propose"})'
  <2>1. queue'["count"] = q
    BY <1>2
  <2> QED BY <1>3, <1>4, <2>1 DEF CopiesOf, Id, Early
<1>6. ASSUME worker'.counts > 0
      PROVE  /\ events'.count = Id("count", worker'.counts)
             /\ \A i \in DOMAIN queue'["count"] : queue'["count"][i].id[2] <= worker'.counts
             /\ \/ Id("count", worker'.counts) \in IdsOf(queue'["count"])
                \/ /\ queue'["count"] = <<>> /\ Id("sample", worker'.counts) \notin Waiting'
                   /\ \A r \in Req : host'.counts[r] = info'[worker'.counts].acc[r] + 1
  <2>1. PICK n : n = worker'.counts
    OBVIOUS
  <2>2. n = worker.counts /\ n \in 1 .. step
    BY <1>1, <1>6, <2>1
  <2>3. /\ events.count = Id("count", n)
        /\ \A i \in DOMAIN q : q[i].id[2] <= n
        /\ \/ Id("count", n) \in IdsOf(q)
           \/ /\ q = <<>> /\ Id("sample", n) \notin Waiting
              /\ \A r \in Req : host.counts[r] = info[n].acc[r] + 1
    BY <1>2, <2>2 DEF CountCopiesRight
  <2>4. Id("sample", n) \notin Waiting => Id("sample", n) \notin Waiting' /\ info'[n].acc = info[n].acc
    BY <1>6, <2>1, <2>2
  <2> QED BY <1>2, <2>1, <2>3, <2>4
<1> QED BY <1>5, <1>6 DEF CountCopiesRight, Id, IdsOf

\* The counts of this call are to be copied once they are there.
LEMMA CountCopySent ==
  ASSUME StreamInv, NumbersRight, pc = "propose", mode.async, step' = step,
         queue'["count"] = queue["count"] \o CountCopy, events'.count = Id("count", step),
         worker'.counts = step, pc' \in {"drafted", "book"},
         Id("sample", step) \in Waiting' => Id("sample", step) \in Waiting,
         \A n : Id("sample", n) \in Waiting' => Id("sample", n) \in Waiting
  PROVE  CountCopiesRight'
<1> USE DEF NumbersRight
<1>1. PICK q, n, after : q = queue["count"] /\ n = step /\ after = LastOf("default")
  OBVIOUS
<1>2. /\ Increasing(q) /\ q \in Seq(Copies("count")) /\ n \in Nat /\ n \in 1 .. step
      /\ \A i \in DOMAIN q :
           /\ q[i].id[2] \in 1 .. step /\ q[i].id[2] < n
           /\ IF q[i].after = NoOp THEN Id("sample", q[i].id[2]) \notin Waiting
              ELSE q[i].after = Id("sample", q[i].id[2])
  BY <1>1, Buffers, Known DEF CountCopiesRight, CopiesOf
<1>3. IF after = NoOp THEN Id("sample", n) \notin Waiting ELSE after = Id("sample", n)
  BY <1>1, SamplerLast
<1>4. after \in {NoOp} \cup Ids
  BY <1>2, <1>3, IdIs, Stages
<1>5. PICK p : p = Append(q, Copy("count", n, after))
  OBVIOUS
<1>6. queue'["count"] = p
  <2>1. CountCopy = <<Copy("count", n, after)>>
    BY <1>1 DEF CountCopy
  <2>2. q \o <<Copy("count", n, after)>> = Append(q, Copy("count", n, after))
    <3>1. Copy("count", n, after) \in Copies("count")
      BY <1>2, <1>4 DEF Copy, Copies, Id
    <3> QED BY <1>2, <3>1
  <2> QED BY <1>1, <1>5, <2>1, <2>2
<1>7. /\ Increasing(p) /\ Id("count", n) \in IdsOf(p)
      /\ \A i \in DOMAIN p : \/ i \in DOMAIN q /\ p[i] = q[i]
                             \/ p[i].id = Id("count", n) /\ p[i].after = after
  BY <1>2, <1>4, <1>5, CopyMore
<1>8. ASSUME NEW i \in DOMAIN p
      PROVE  /\ p[i].id[2] \in 1 .. step /\ p[i].id[2] <= n
             /\ IF p[i].after = NoOp THEN Id("sample", p[i].id[2]) \notin Waiting'
                ELSE p[i].after = Id("sample", p[i].id[2])
  BY <1>2, <1>3, <1>7, IdIs
<1>9. CopiesOf("count", "sample", Early \cup {"propose"})'
  BY <1>6, <1>7, <1>8 DEF CopiesOf, Id, Early
<1> QED BY <1>1, <1>6, <1>7, <1>8, <1>9 DEF CountCopiesRight, Id, IdsOf

\* They arrive: those of the call they were copied for.
LEMMA CountsArrive ==
  ASSUME StreamInv, NumbersRight, DownloadCounts
  PROVE  CountCopiesRight'
<1> USE DEF NumbersRight
<1>1. PICK q, p, h : q = queue["count"] /\ p = Tail(q) /\ h = Now("count")
  OBVIOUS
<1>2. /\ q # <<>> /\ queue'["count"] = p /\ UNCHANGED <<mode, pc, step, worker, events, info>>
      /\ Head(q).after = NoOp \/ Head(q).after \notin Waiting
      /\ Waiting' = Waiting /\ h = Head(q).id[2]
      /\ host' = [host EXCEPT !.counts = Contents(Id("counts", h), None)]
  <2>1. Runs("count", "count") /\ info' = info
    BY DEF DownloadCounts
  <2>2. host' = [host EXCEPT !.counts = Contents(Id("counts", h), None)]
    BY <1>1 DEF DownloadCounts
  <2> QED BY <1>1, <2>1, <2>2, DownloadDoes DEF Now
<1>3. /\ Increasing(q) /\ q \in Seq(Copies("count"))
      /\ \A i \in DOMAIN q :
           /\ q[i].id[2] \in 1 .. step /\ (pc \in Early \cup {"propose"} => q[i].id[2] < step)
           /\ IF q[i].after = NoOp THEN Id("sample", q[i].id[2]) \notin Waiting
              ELSE q[i].after = Id("sample", q[i].id[2])
  BY <1>1, Buffers DEF CountCopiesRight, CopiesOf
<1>4. /\ Increasing(p)
      /\ \A i \in DOMAIN p : i + 1 \in DOMAIN q /\ p[i] = q[i + 1]
      /\ IdsOf(q) = IdsOf(p) \cup {Head(q).id}
      /\ 1 \in DOMAIN q /\ Head(q) = q[1] /\ Head(q).id = Id("count", h)
      /\ \A n : (\A i \in DOMAIN q : q[i].id[2] <= n) /\ h = n => p = <<>>
  <2>1. /\ Increasing(Tail(q))
        /\ \A i \in DOMAIN Tail(q) : i + 1 \in DOMAIN q /\ Tail(q)[i] = q[i + 1]
        /\ IdsOf(q) = IdsOf(Tail(q)) \cup {Head(q).id}
        /\ 1 \in DOMAIN q /\ Head(q) = q[1] /\ Head(q).id = Id("count", Head(q).id[2])
        /\ \A n : (\A i \in DOMAIN q : q[i].id[2] <= n) /\ Head(q).id[2] = n => Tail(q) = <<>>
    BY <1>2, <1>3, CopyLess
  <2> QED BY <1>1, <1>2, <2>1
<1>5. Id("sample", h) \notin Waiting
  BY <1>2, <1>3, <1>4
<1>6. CopiesOf("count", "sample", Early \cup {"propose"})'
  <2>1. \A i \in DOMAIN p :
           /\ p[i].id[2] \in 1 .. step /\ (pc \in Early \cup {"propose"} => p[i].id[2] < step)
           /\ IF p[i].after = NoOp THEN Id("sample", p[i].id[2]) \notin Waiting
              ELSE p[i].after = Id("sample", p[i].id[2])
    BY <1>3, <1>4
  <2> QED BY <1>2, <1>4, <2>1 DEF CopiesOf, Id, Early
<1>7. ASSUME worker.counts > 0
      PROVE  /\ events.count = Id("count", worker.counts)
             /\ \A i \in DOMAIN p : p[i].id[2] <= worker.counts
             /\ \/ Id("count", worker.counts) \in IdsOf(p)
                \/ /\ p = <<>> /\ Id("sample", worker.counts) \notin Waiting
                   /\ \A r \in Req : host'.counts[r] = info[worker.counts].acc[r] + 1
  <2>1. PICK n : n = worker.counts
    OBVIOUS
  <2>2. /\ events.count = Id("count", n) /\ \A i \in DOMAIN q : q[i].id[2] <= n
        /\ Id("count", n) \in IdsOf(q)
    BY <1>1, <1>2, <1>7, <2>1 DEF CountCopiesRight
  <2>3. \A i \in DOMAIN p : p[i].id[2] <= n
    BY <1>4, <2>2
  <2>4. CASE h = n
    <3>1. p = <<>>
      BY <1>4, <2>2, <2>4
    <3>2. CountsAt(n)
      BY <1>7, <2>1 DEF TensorsRight
    <3>3. Holds(Id("counts", n), [r \in Req |-> info[n].acc[r] + 1])
      BY <1>5, <2>4, <3>2 DEF CountsAt
    <3>4. host'.counts = [r \in Req |-> info[n].acc[r] + 1]
      BY <1>2, <2>4, <3>3, Buffers DEF Contents, Holds
    <3> QED BY <1>5, <2>1, <2>2, <2>4, <3>1, <3>4
  <2>5. CASE h # n
    BY <1>4, <2>1, <2>2, <2>3, <2>5, IdIs
  <2> QED BY <2>4, <2>5
<1> QED BY <1>2, <1>6, <1>7 DEF CountCopiesRight, Id, IdsOf

\* The counts on the host are those of the last call that sampled, or on their way.
LEMMA CountCopiesKept ==
  ASSUME StreamInv, NumbersRight, [Next]_vars
  PROVE  CountCopiesRight'
<1> USE DEF NumbersRight
<1>1. /\ step \in Nat /\ worker.counts \in Nat
      /\ host \in [inputs : Nat, computed : Totals, counts : Totals, drafts : Nat,
                   tokens : Totals, experts : Experts]
      /\ worker \in [rows : SUBSET Req, drafted : Totals, prevRows : SUBSET Req, counts : Nat,
                     tensor : Nat, drafts : [of : Nat, zero : BOOLEAN]]
      /\ DOMAIN events = {"inputs", "count", "draft"}
  BY Known, Buffers DEF ModeRight
\* Steps that leave the stream, the buffer and the reference alone, and send no sampler.
<1>2. ASSUME UNCHANGED <<queue["count"], events.count, host.counts, worker.counts>>,
             \A n \in 1 .. step : info'[n].acc = info[n].acc \/ Id("sample", n) \in Waiting,
             \A n \in 1 .. step : Id("sample", n) \in Waiting' => Id("sample", n) \in Waiting,
             \/ step' = step + 1
             \/ step' = step /\ (pc' \in Early \cup {"propose"} => pc \in Early \cup {"propose"})
      PROVE  CountCopiesRight'
  BY <1>1, <1>2, CountCopiesStay
<1>3. CASE \E b \in SUBSET Req, d \in DraftCounts : PlanStep(b, d)
  <2>1. UNCHANGED <<host, worker, events, queue>> /\ step' = step + 1 /\ Waiting' = Waiting /\ SameSteps
    BY <1>3, PlanDoes
  <2> QED BY <1>2, <2>1 DEF SameSteps
<1>4. CASE DummyRun
  <2>1. PICK c : c = step + 1
    OBVIOUS
  <2>2. /\ step' = step + 1 /\ UNCHANGED <<worker, queue["count"]>> /\ SameSteps
        /\ Waiting' = Waiting \cup {Id("upload", c), Id("forward", c)}
        /\ host' = [host EXCEPT !.inputs = c] /\ events' = [events EXCEPT !.inputs = Id("upload", c)]
    BY <1>4, <2>1, DummyDoes
  <2>3. events'.count = events.count /\ host'.counts = host.counts
    BY <1>1, <2>2
  <2>4. \A n \in 1 .. step : Id("sample", n) \in Waiting' => Id("sample", n) \in Waiting
    BY <2>2, IdIs
  <2> QED BY <1>2, <2>2, <2>3, <2>4 DEF SameSteps
<1>5. CASE Prepare
  <2>1. /\ step' = step /\ UNCHANGED <<worker.counts, queue["count"], host.counts>>
        /\ Waiting' = Waiting \cup {Id("upload", step)} /\ pc = "prepare"
        /\ events' = [events EXCEPT !.inputs = Id("upload", step)]
        /\ \A n \in 1 .. step : info'[n].acc = info[n].acc
    BY <1>5, PrepareDoes
  <2>2. events'.count = events.count
    BY <1>1, <2>1
  <2>3. \A n \in 1 .. step : Id("sample", n) \in Waiting' => Id("sample", n) \in Waiting
    BY <2>1, IdIs
  <2> QED BY <1>2, <2>1, <2>2, <2>3 DEF Early
<1>6. CASE AnswerEmpty
  <2>1. /\ step' = step /\ UNCHANGED <<queue, host>> /\ pc' = "idle" /\ Waiting' = Waiting /\ SameSteps
        /\ worker' = [worker EXCEPT !.rows = {}]
        /\ events' = [events EXCEPT !.inputs = LastOf("default")]
    BY <1>6, EmptyDoes
  <2>2. events'.count = events.count /\ worker'.counts = worker.counts
    BY <1>1, <2>1
  <2> QED BY <1>2, <2>1, <2>2 DEF Early, SameSteps
<1>7. CASE LaunchForward
  <2>1. /\ step' = step /\ UNCHANGED <<worker, queue["count"], host, events>> /\ SameSteps
        /\ Waiting' = Waiting \cup {Id("forward", step)} /\ pc = "launch"
    BY <1>7, LaunchDoes
  <2>2. \A n \in 1 .. step : Id("sample", n) \in Waiting' => Id("sample", n) \in Waiting
    BY <2>1, IdIs
  <2> QED BY <1>2, <2>1, <2>2 DEF Early, SameSteps
<1>8. CASE CorrectCounts
  <2>1. /\ step' = step /\ UNCHANGED <<worker, queue, host.counts, events>> /\ SameSteps
        /\ Waiting' = Waiting /\ pc = "correct"
    BY <1>8, CorrectDoes
  <2> QED BY <1>2, <2>1 DEF Early, SameSteps
<1>9. CASE SampleTokens
  <2>1. /\ step' = step /\ UNCHANGED <<queue["count"], host, events>> /\ SameSteps
        /\ Waiting' = Waiting \cup {Id("sample", step)} /\ pc = "sample" /\ worker'.counts = 0
    BY <1>9, SampleDoes
  <2>2. \A n \in 1 .. step : Id("sample", n) \in Waiting' => Id("sample", n) \in Waiting \/ n = step
    BY <2>1, IdIs
  <2> QED BY <1>1, <2>1, <2>2, CountCopiesStay DEF Early, SameSteps
<1>10. CASE Propose
  <2>1. /\ step' = step /\ pc = "propose" /\ pc' = "drafted" /\ SameSteps /\ host' = host
        /\ queue'["count"] = queue["count"] \o CountCopy /\ StashCounts
        /\ Waiting' = Waiting \cup {Id("draft", step)} /\ worker'.counts = CountsRef
    BY <1>10, ProposeDoes
  <2>2. \A n : Id("sample", n) \in Waiting' => Id("sample", n) \in Waiting
    BY <2>1, IdIs
  <2>3. CASE mode.async
    <3>1. events'.count = Id("count", step) /\ worker'.counts = step
      BY <1>1, <2>1, <2>3 DEF StashCounts, CountsRef
    <3> QED BY <2>1, <2>2, <2>3, <3>1, CountCopySent
  <2>4. CASE ~mode.async
    <3>1. /\ events' = events /\ worker'.counts = 0 /\ queue'["count"] = queue["count"]
          /\ worker.counts = 0
      BY <1>1, <2>1, <2>4, Buffers DEF StashCounts, CountsRef, CountCopy, WorkerRight
    <3> QED BY <1>2, <2>1, <2>2, <3>1 DEF Early, SameSteps
  <2> QED BY <2>3, <2>4
<1>11. ASSUME NEW wanted, ZeroDrafts(wanted)
       PROVE  CountCopiesRight'
  <2>1. /\ step' = step /\ pc = "propose" /\ pc' = "book" /\ SameSteps /\ host'.counts = host.counts
        /\ queue'["count"] = queue["count"] \o CountCopy
        /\ events'.count = IF mode.async THEN Id("count", step) ELSE events.count
        /\ Waiting' = Waiting /\ worker'.counts = CountsRef
    BY <1>1, <1>11, ZeroDraftsDoes
  <2>2. CASE mode.async
    <3>1. events'.count = Id("count", step) /\ worker'.counts = step
      BY <2>1, <2>2 DEF CountsRef
    <3> QED BY <2>1, <2>2, <3>1, CountCopySent
  <2>3. CASE ~mode.async
    <3>1. /\ events'.count = events.count /\ worker'.counts = 0 /\ queue'["count"] = queue["count"]
          /\ worker.counts = 0
      BY <1>1, <2>1, <2>3, Buffers DEF CountsRef, CountCopy, WorkerRight
    <3> QED BY <1>2, <2>1, <3>1 DEF Early, SameSteps
  <2> QED BY <2>2, <2>3
<1>12. ASSUME NEW wanted, CopyDrafts(wanted)
       PROVE  CountCopiesRight'
  BY <1>2, <1>12, CopyDraftsDoes DEF Early, SameSteps
<1>13. CASE DownloadTokens
  <2>1. \A n \in 1 .. step : Id("sample", n) \in Waiting' => Id("sample", n) \in Waiting
    BY <1>13, DownloadTokensDoes, IdIs
  <2> QED BY <1>2, <1>13, <2>1, DownloadTokensDoes DEF Early, SameSteps
<1>14. CASE ReturnTokens
  BY <1>2, <1>14, ReturnTokensDoes DEF Early, SameSteps
<1>15. CASE ReturnAsync
  <2>1. \A n \in 1 .. step : Id("sample", n) \in Waiting' => Id("sample", n) \in Waiting
    BY <1>15, ReturnAsyncDoes, IdIs
  <2> QED BY <1>2, <1>15, <2>1, ReturnAsyncDoes DEF Early, SameSteps
<1>16. CASE \E finished : Pool(finished)
  <2>1. PICK finished : Pool(finished)
    BY <1>16
  <2>2. \A n \in 1 .. step : Id("sample", n) \in Waiting' => Id("sample", n) \in Waiting
    BY <2>1, PoolDoes, IdIs
  <2> QED BY <1>2, <2>1, <2>2, PoolDoes DEF Early, SameSteps
<1>17. CASE TakeDrafts
  <2>1. worker'.counts = worker.counts
    BY <1>1, <1>17, TakeDraftsDoes
  <2> QED BY <1>2, <1>17, <2>1, TakeDraftsDoes DEF SameSteps
<1>18. CASE TakeOutput
  <2>1. UNCHANGED <<pc, step, host, worker, events, queue>> /\ SameSteps /\ Waiting' = Waiting
    BY <1>18, TakeDoes
  <2> QED BY <1>2, <2>1 DEF SameSteps
<1>19. CASE \E i \in DOMAIN pending : GetOutput(i)
  BY <1>2, <1>19, GetDoes DEF SameSteps
<1>20. CASE UNCHANGED vars
  BY <1>2, <1>20 DEF vars, gpu, Waiting
<1>21. CASE DefaultStream
  <2>1. PICK kind : Runs("default", kind)
    BY <1>21 DEF DefaultStream, RunUpload, RunForward, RunSample, RunDraft, RunClone, RunPooler,
                 DownloadExperts, DownloadToList
  <2>2. /\ UNCHANGED <<pc, step, worker, events, queue["count"]>> /\ Waiting' \subseteq Waiting
    BY <2>1, HeadRuns
  <2>3. host'.counts = host.counts
    BY <1>1, <1>21 DEF DefaultStream, RunUpload, RunForward, RunSample, RunDraft, RunClone,
                       RunPooler, DownloadExperts, DownloadToList
  <2>4. \A n \in 1 .. step : info'[n].acc = info[n].acc \/ Id("sample", n) \in Waiting
    <3>1. CASE \E acc \in DraftCounts : RunSample(acc)
      <4>1. PICK acc \in DraftCounts : RunSample(acc)
        BY <3>1
      <4>2. PICK h : h = Now("default")
        OBVIOUS
      <4>3. Runs("default", "sample") /\ \A n \in 1 .. step : n # h => info'[n].acc = info[n].acc
        <5>1. Runs("default", "sample") /\ info' = [info EXCEPT ![h].acc = acc]
          BY <4>1, <4>2 DEF RunSample
        <5> QED BY <5>1, Known
      <4>4. Id("sample", h) \in Waiting
        BY <4>2, <4>3, HeadRuns
      <4> QED BY <4>3, <4>4
    <3>2. CASE ~\E acc \in DraftCounts : RunSample(acc)
      BY <1>21, <3>2 DEF DefaultStream, RunUpload, RunForward, RunDraft, RunClone, RunPooler,
                         DownloadExperts, DownloadToList
    <3> QED BY <3>1, <3>2
  <2> QED BY <1>2, <2>2, <2>3, <2>4
<1>22. CASE DownloadOutput \/ DownloadDrafts
  <2>1. PICK s \in {"output", "draft"} : \E kind : Runs(s, kind)
    BY <1>22 DEF DownloadOutput, DownloadDrafts
  <2>2. info' = info /\ host'.counts = host.counts
    BY <1>1, <1>22 DEF DownloadOutput, DownloadDrafts
  <2>3. UNCHANGED <<pc, step, worker, events, queue["count"]>> /\ Waiting' = Waiting
    BY <2>1, <2>2, DownloadDoes DEF Streams
  <2> QED BY <1>2, <2>2, <2>3
<1> QED
  BY <1>3, <1>4, <1>5, <1>6, <1>7, <1>8, <1>9, <1>10, <1>11, <1>12, <1>13, <1>14, <1>15, <1>16,
     <1>17, <1>18, <1>19, <1>20, <1>21, <1>22, CountsArrive
     DEF Next, Engine, MainThread, OutputThread

\* A read of the drafts that waits for their copy finds them.
LEMMA DraftsReadRight ==
  ASSUME StreamInv, NumbersRight, worker.drafts # NoDrafts, DraftsRead
  PROVE  read'.got = read'.expected /\ queue["draft"] = <<>>
<1> USE DEF NumbersRight
<1>1. CASE worker.drafts.zero
  BY <1>1 DEF DraftCopiesRight, DraftsRead
<1>2. CASE ~worker.drafts.zero
  <2>1. PICK n : n = worker.drafts.of
    OBVIOUS
  <2>2. /\ events.draft = Id("drafts", n)
        /\ Id("drafts", n) \in IdsOf(queue["draft"]) \/ (queue["draft"] = <<>> /\ host.drafts = n)
    BY <1>2, <2>1 DEF DraftCopiesRight
  <2>3. Id("drafts", n) \notin IdsOf(queue["draft"])
    BY <2>2 DEF DraftsRead, IsDone, IdsOf
  <2> QED BY <1>2, <2>1, <2>2, <2>3 DEF DraftsRead
<1> QED BY <1>1, <1>2

\* Copies wait for their drafters, as long as these are of earlier calls.
LEMMA DraftStreamStays ==
  ASSUME StreamInv, NumbersRight, queue'["draft"] = queue["draft"], step' \in Nat, step' >= step,
         \A n \in 1 .. step : Id("draft", n) \in Waiting' =>
           Id("draft", n) \in Waiting \/ (n = step /\ pc = "propose"),
         pc' \in Early \cup {"propose", "drafted"} =>
           pc \in Early \cup {"propose", "drafted"} \/ step' = step + 1
  PROVE  CopiesOf("draft", "draft", Early \cup {"propose", "drafted"})'
<1> USE DEF NumbersRight
<1>1. step \in Nat
  BY Known
<1>2. PICK q : q = queue["draft"]
  OBVIOUS
<1>3. /\ Increasing(q)
      /\ \A i \in DOMAIN q :
           /\ q[i].id[2] \in 1 .. step
           /\ pc \in Early \cup {"propose", "drafted"} => q[i].id[2] < step
           /\ IF q[i].after = NoOp THEN Id("draft", q[i].id[2]) \notin Waiting
              ELSE q[i].after = Id("draft", q[i].id[2])
  BY <1>2 DEF DraftCopiesRight, CopiesOf
<1>4. ASSUME NEW i \in DOMAIN q
      PROVE  /\ q[i].id[2] \in 1 .. step'
             /\ pc' \in Early \cup {"propose", "drafted"} => q[i].id[2] < step'
             /\ IF q[i].after = NoOp THEN Id("draft", q[i].id[2]) \notin Waiting'
                ELSE q[i].after = Id("draft", q[i].id[2])
  <2>1. PICK n : n = q[i].id[2]
    OBVIOUS
  <2>2. n \in 1 .. step /\ (pc \in Early \cup {"propose", "drafted"} => n < step)
    BY <1>3, <2>1
  <2>3. Id("draft", n) \in Waiting' => Id("draft", n) \in Waiting
    BY <1>1, <2>2
  <2> QED BY <1>1, <1>3, <2>1, <2>2, <2>3
<1>5. queue'["draft"] = q
  BY <1>2
<1> QED BY <1>3, <1>4, <1>5 DEF CopiesOf, Id, Early

\* Steps that leave the drafts alone.
LEMMA DraftCopiesStay ==
  ASSUME StreamInv, NumbersRight,
         UNCHANGED <<mode, queue["draft"], events.draft, host.drafts, worker.drafts, worker.tensor, read>>,
         \A n \in 1 .. step : Id("draft", n) \in Waiting' => Id("draft", n) \in Waiting,
         \/ step' = step + 1 /\ pc' \notin {"propose", "drafted"}
         \/ /\ step' = step
            /\ pc' \in Early \cup {"propose", "drafted"} => pc \in Early \cup {"propose", "drafted"}
            /\ pc' \in {"propose", "drafted"} => pc' = pc,
         pc' \notin {"idle", "book", "wait"} =>
           pc \notin {"idle", "book", "wait"} \/ mode.async \/ worker.drafts = NoDrafts,
         pc' = "drafted" => /\ queue["default"] = <<>> => queue'["default"] = <<>>
                            /\ Id("draft", step) \in Waiting =>
                                 Id("draft", step) \in Waiting' \/ queue'["default"] = <<>>
  PROVE  DraftCopiesRight'
<1> USE DEF NumbersRight
<1>1. step \in Nat /\ step' \in Nat /\ step' >= step
  BY Known
<1>2. CopiesOf("draft", "draft", Early \cup {"propose", "drafted"})'
  BY <1>1, DraftStreamStays
<1>3. ASSUME pc' = "drafted"
      PROVE  /\ worker'.tensor = step' /\ TRUE \in mode'.fits
             /\ Id("draft", step') \in Waiting' \/ queue'["default"] = <<>>
  BY <1>1, <1>3 DEF DraftCopiesRight
<1>4. PICK last : last = worker.drafts
  OBVIOUS
<1>5. /\ pc' \in {"propose", "drafted"} => last = NoDrafts
      /\ ~mode.async /\ pc' \notin {"idle", "book", "wait"} => last = NoDrafts
      /\ (~mode.async /\ last = NoDrafts) \/ (mode.async /\ TRUE \notin mode.fits) =>
           queue["draft"] = <<>>
      /\ mode.async /\ TRUE \notin mode.readers => last = NoDrafts
  BY <1>1, <1>4 DEF DraftCopiesRight
<1>6. last # NoDrafts =>
        IF last.zero THEN host.drafts = 0 /\ queue["draft"] = <<>>
        ELSE /\ last.of > 0 /\ worker.tensor = last.of /\ events.draft = Id("drafts", last.of)
             /\ \A i \in DOMAIN queue["draft"] : queue["draft"][i].id[2] <= last.of
             /\ \/ Id("drafts", last.of) \in IdsOf(queue["draft"])
                \/ queue["draft"] = <<>> /\ host.drafts = last.of
  BY <1>4 DEF DraftCopiesRight
<1>7. read'.got = read'.expected
  BY DEF DraftCopiesRight
<1>8. NoDrafts' = NoDrafts
  BY DEF NoDrafts
<1> QED BY <1>2, <1>3, <1>4, <1>5, <1>6, <1>7, <1>8 DEF DraftCopiesRight, Id, IdsOf

\* The sampler resets all that the last call left: none of its drafts is asked for again.
LEMMA DraftsReset ==
  ASSUME StreamInv, NumbersRight, SampleTokens
  PROVE  DraftCopiesRight'
<1> USE DEF NumbersRight
<1>1. /\ pc = "sample" /\ pc' = "propose" /\ UNCHANGED <<mode, step, host, events, queue["draft"]>>
      /\ Waiting' = Waiting \cup {Id("sample", step)} /\ worker'.tensor = 0 /\ worker'.drafts = NoDrafts
      /\ read' = read \/ (worker.drafts # NoDrafts /\ DraftsRead)
      /\ step \in Nat
  BY SampleDoes, Known
<1>2. CopiesOf("draft", "draft", Early \cup {"propose", "drafted"})'
  <2>1. \A n \in 1 .. step : Id("draft", n) \in Waiting' => Id("draft", n) \in Waiting
    BY <1>1, IdIs
  <2> QED BY <1>1, <2>1, DraftStreamStays DEF Early
<1>3. queue["draft"] = <<>> \/ (mode.async /\ TRUE \in mode.fits)
  BY <1>1 DEF DraftCopiesRight
<1>4. read'.got = read'.expected
  BY <1>1, DraftsReadRight DEF DraftCopiesRight
<1>5. NoDrafts' = NoDrafts
  BY DEF NoDrafts
<1> QED BY <1>1, <1>2, <1>3, <1>4, <1>5 DEF DraftCopiesRight

\* The engine takes the drafts, and asks no second time.
LEMMA DraftsTaken ==
  ASSUME StreamInv, NumbersRight, TakeDrafts
  PROVE  DraftCopiesRight'
<1> USE DEF NumbersRight
<1>1. /\ worker.drafts # NoDrafts /\ DraftsRead /\ step \in Nat
      /\ UNCHANGED <<mode, pc, step, host, events, queue>> /\ Waiting' = Waiting
      /\ IF mode.async THEN pc = "sample" /\ worker' = worker
         ELSE pc = "idle" /\ worker' = [worker EXCEPT !.drafts = NoDrafts]
  BY TakeDraftsDoes, Known
<1>2. read'.got = read'.expected /\ queue["draft"] = <<>>
  BY <1>1, DraftsReadRight
<1>3. CopiesOf("draft", "draft", Early \cup {"propose", "drafted"})'
  BY <1>1, DraftStreamStays
<1>4. CASE mode.async
  BY <1>1, <1>2, <1>3, <1>4 DEF DraftCopiesRight, NoDrafts, Id, IdsOf
<1>5. CASE ~mode.async
  <2>1. worker'.drafts = NoDrafts /\ pc = "idle"
    BY <1>1, <1>5, Buffers
  <2>2. NoDrafts' = NoDrafts
    BY DEF NoDrafts
  <2> QED BY <1>1, <1>2, <1>3, <1>5, <2>1, <2>2 DEF DraftCopiesRight
<1> QED BY <1>4, <1>5

\* The drafter is on its way.
LEMMA DraftsProposed ==
  ASSUME StreamInv, NumbersRight, Propose
  PROVE  DraftCopiesRight'
<1> USE DEF NumbersRight
<1>1. /\ pc = "propose" /\ pc' = "drafted" /\ TRUE \in mode.fits /\ step \in Nat
      /\ UNCHANGED <<mode, step, host, read, queue["draft"], worker.drafts>>
      /\ Waiting' = Waiting \cup {Id("draft", step)} /\ worker'.tensor = step
  BY ProposeDoes, Known
<1>2. CopiesOf("draft", "draft", Early \cup {"propose", "drafted"})'
  <2>1. \A n \in 1 .. step : Id("draft", n) \in Waiting' => Id("draft", n) \in Waiting \/ n = step
    BY <1>1, IdIs
  <2> QED BY <1>1, <2>1, DraftStreamStays
<1>3. worker.drafts = NoDrafts /\ read.got = read.expected
  BY <1>1 DEF DraftCopiesRight
<1>4. (~mode.async \/ TRUE \notin mode.fits) => queue["draft"] = <<>>
  BY <1>3 DEF DraftCopiesRight
<1>5. NoDrafts' = NoDrafts /\ Id("draft", step)' \in Waiting'
  BY <1>1 DEF NoDrafts, Id
<1> QED BY <1>1, <1>2, <1>3, <1>4, <1>5 DEF DraftCopiesRight

\* Zeros are written only when no copy is on its way that could overwrite them.
LEMMA DraftsZeroed ==
  ASSUME StreamInv, NumbersRight, NEW wanted \in (IF mode.async THEN mode.readers ELSE {TRUE}),
         ZeroDrafts(wanted)
  PROVE  DraftCopiesRight'
<1> USE DEF NumbersRight
<1>1. /\ pc = "propose" /\ pc' = "book" /\ FALSE \in mode.fits /\ step \in Nat
      /\ UNCHANGED <<mode, step, read, queue["draft"], worker.tensor>> /\ Waiting' = Waiting
      /\ IF wanted THEN worker'.drafts = [of |-> step, zero |-> TRUE] /\ host'.drafts = 0
         ELSE UNCHANGED <<worker.drafts, host.drafts>>
  <2>1. /\ pc = "propose" /\ pc' = "book" /\ FALSE \in mode.fits
        /\ UNCHANGED <<mode, step, read, queue["draft"], worker.tensor>> /\ Waiting' = Waiting
    BY ZeroDraftsDoes
  <2>2. IF wanted THEN worker'.drafts = [of |-> step, zero |-> TRUE] /\ host'.drafts = 0
        ELSE UNCHANGED <<worker.drafts, host.drafts>>
    <3>1. CASE wanted
      BY <3>1, ZeroDraftsDoes
    <3>2. CASE ~wanted
      <4>1. /\ host' = host
            /\ worker' = [worker EXCEPT !.counts = CountsRef, !.drafts = worker.drafts]
        BY <3>2 DEF ZeroDrafts
      <4> QED BY <3>2, <4>1, Buffers
    <3> QED BY <3>1, <3>2
  <2> QED BY <2>1, <2>2, Known
<1>2. CopiesOf("draft", "draft", Early \cup {"propose", "drafted"})'
  BY <1>1, DraftStreamStays
<1>3. worker.drafts = NoDrafts /\ read.got = read.expected
  BY <1>1 DEF DraftCopiesRight
<1>4. (~mode.async \/ TRUE \notin mode.fits) => queue["draft"] = <<>>
  BY <1>3 DEF DraftCopiesRight
<1>5. NoDrafts' = NoDrafts
  BY DEF NoDrafts
<1>6. CASE wanted
  <2>1. queue["draft"] = <<>>
    <3>1. mode.async => TRUE \in mode.readers
      BY <1>6, Buffers DEF Mode
    <3> QED BY <1>1, <1>4, <3>1 DEF ModeRight
  <2>2. /\ worker'.drafts # NoDrafts /\ worker'.drafts.zero /\ host'.drafts = 0
        /\ queue'["draft"] = <<>>
    BY <1>1, <1>6, <2>1 DEF NoDrafts
  <2>3. mode.async => TRUE \in mode.readers
    BY <1>6, Buffers DEF Mode
  <2> QED BY <1>1, <1>2, <1>3, <1>5, <1>6, <2>1, <2>2, <2>3 DEF DraftCopiesRight
<1>7. CASE ~wanted
  BY <1>1, <1>2, <1>3, <1>4, <1>5, <1>7 DEF DraftCopiesRight
<1> QED BY <1>6, <1>7

\* The drafts are to be copied once they are there.
LEMMA DraftCopySent ==
  ASSUME StreamInv, NumbersRight, NEW wanted \in (IF mode.async THEN mode.readers ELSE {TRUE}),
         CopyDrafts(wanted)
  PROVE  DraftCopiesRight'
<1> USE DEF NumbersRight
<1>1. /\ pc = "drafted" /\ pc' = "book" /\ step \in Nat /\ step \in 1 .. step
      /\ UNCHANGED <<mode, step, read, host, worker.tensor>> /\ Waiting' = Waiting
      /\ IF wanted
         THEN /\ queue'["draft"] = Append(queue["draft"], Copy("drafts", step, LastOf("default")))
              /\ events'.draft = Id("drafts", step)
              /\ worker'.drafts = [of |-> step, zero |-> FALSE]
         ELSE UNCHANGED <<queue, events, worker>>
  <2>1. /\ pc = "drafted" /\ pc' = "book"
        /\ UNCHANGED <<mode, step, read, host, worker.tensor>> /\ Waiting' = Waiting
    BY CopyDraftsDoes
  <2>2. IF wanted
        THEN /\ queue'["draft"] = Append(queue["draft"], Copy("drafts", step, LastOf("default")))
             /\ "draft" \in DOMAIN events => events'.draft = Id("drafts", step)
             /\ worker'.drafts = [of |-> step, zero |-> FALSE]
        ELSE UNCHANGED <<queue, events, worker>>
    <3>1. CASE wanted
      BY <3>1, CopyDraftsDoes
    <3>2. CASE ~wanted
      BY <3>2, CopyDraftsDoes
    <3> QED BY <3>1, <3>2
  <2>3. "draft" \in DOMAIN events
    BY DEF ModeRight
  <2> QED BY <2>1, <2>2, <2>3, Known
<1>2. /\ worker.drafts = NoDrafts /\ read.got = read.expected /\ worker.tensor = step
      /\ TRUE \in mode.fits
  BY <1>1 DEF DraftCopiesRight
<1>3. NoDrafts' = NoDrafts
  BY DEF NoDrafts
<1>4. CASE wanted
  <2>1. PICK q, n, after : q = queue["draft"] /\ n = step /\ after = LastOf("default")
    OBVIOUS
  <2>2. /\ Increasing(q) /\ q \in Seq(Copies("drafts")) /\ n \in Nat /\ n \in 1 .. step
        /\ \A i \in DOMAIN q :
             /\ q[i].id[2] \in 1 .. step /\ q[i].id[2] < n
             /\ IF q[i].after = NoOp THEN Id("draft", q[i].id[2]) \notin Waiting
                ELSE q[i].after = Id("draft", q[i].id[2])
    BY <1>1, <2>1, Buffers DEF DraftCopiesRight, CopiesOf
  <2>3. IF after = NoOp THEN Id("draft", n) \notin Waiting ELSE after = Id("draft", n)
    BY <1>1, <2>1, DrafterLast
  <2>4. after \in {NoOp} \cup Ids
    BY <2>2, <2>3, IdIs, Stages
  <2>5. PICK p : p = Append(q, Copy("drafts", n, after)) /\ queue'["draft"] = p
    BY <1>1, <1>4, <2>1
  <2>6. /\ Increasing(p) /\ Id("drafts", n) \in IdsOf(p)
        /\ \A i \in DOMAIN p : \/ i \in DOMAIN q /\ p[i] = q[i]
                               \/ p[i].id = Id("drafts", n) /\ p[i].after = after
    BY <2>2, <2>4, <2>5, CopyMore
  <2>7. ASSUME NEW i \in DOMAIN p
        PROVE  /\ p[i].id[2] \in 1 .. step /\ p[i].id[2] <= n
               /\ IF p[i].after = NoOp THEN Id("draft", p[i].id[2]) \notin Waiting
                  ELSE p[i].after = Id("draft", p[i].id[2])
    BY <2>2, <2>3, <2>6, IdIs
  <2>8. CopiesOf("draft", "draft", Early \cup {"propose", "drafted"})'
    BY <1>1, <2>5, <2>6, <2>7 DEF CopiesOf, Id, Early
  <2>9. /\ worker'.drafts.of = n /\ ~worker'.drafts.zero /\ n > 0 /\ events'.draft = Id("drafts", n)
        /\ worker'.drafts # NoDrafts
    BY <1>1, <1>4, <2>1, <2>2 DEF NoDrafts
  <2>10. mode.async => TRUE \in mode.readers
    BY <1>4, Buffers DEF Mode
  <2> QED
    BY <1>1, <1>2, <1>3, <2>1, <2>5, <2>6, <2>7, <2>8, <2>9, <2>10 DEF DraftCopiesRight, Id, IdsOf
<1>5. CASE ~wanted
  <2>1. CopiesOf("draft", "draft", Early \cup {"propose", "drafted"})'
    BY <1>1, <1>5, DraftStreamStays
  <2>2. (~mode.async \/ TRUE \notin mode.fits) => queue["draft"] = <<>>
    BY <1>2 DEF DraftCopiesRight
  <2> QED BY <1>1, <1>2, <1>3, <1>5, <2>1, <2>2 DEF DraftCopiesRight
<1> QED BY <1>4, <1>5

\* They arrive: those of the call they were copied for.
LEMMA DraftsArrive ==
  ASSUME StreamInv, NumbersRight, DownloadDrafts
  PROVE  DraftCopiesRight'
<1> USE DEF NumbersRight
<1>1. PICK q, p, h : q = queue["draft"] /\ p = Tail(q) /\ h = Now("draft")
  OBVIOUS
<1>2. /\ q # <<>> /\ queue'["draft"] = p /\ queue'["default"] = queue["default"]
      /\ UNCHANGED <<mode, pc, step, worker, events, read>>
      /\ Head(q).after = NoOp \/ Head(q).after \notin Waiting
      /\ Waiting' = Waiting /\ h = Head(q).id[2]
      /\ host' = [host EXCEPT !.drafts = Contents(Id("drafts", h), 0)]
  <2>1. Runs("draft", "drafts") /\ info' = info /\ read' = read
    BY DEF DownloadDrafts, history
  <2>2. host' = [host EXCEPT !.drafts = Contents(Id("drafts", h), 0)]
    BY <1>1 DEF DownloadDrafts
  <2> QED BY <1>1, <2>1, <2>2, DownloadDoes DEF Now, Streams
<1>3. /\ Increasing(q) /\ q \in Seq(Copies("drafts")) /\ step \in Nat
      /\ \A i \in DOMAIN q :
           /\ q[i].id[2] \in 1 .. step
           /\ pc \in Early \cup {"propose", "drafted"} => q[i].id[2] < step
           /\ IF q[i].after = NoOp THEN Id("draft", q[i].id[2]) \notin Waiting
              ELSE q[i].after = Id("draft", q[i].id[2])
  BY <1>1, Buffers, Known DEF DraftCopiesRight, CopiesOf
<1>4. /\ Increasing(p)
      /\ \A i \in DOMAIN p : i + 1 \in DOMAIN q /\ p[i] = q[i + 1]
      /\ IdsOf(q) = IdsOf(p) \cup {Head(q).id}
      /\ 1 \in DOMAIN q /\ Head(q) = q[1] /\ Head(q).id = Id("drafts", h)
      /\ \A n : (\A i \in DOMAIN q : q[i].id[2] <= n) /\ h = n => p = <<>>
  <2>1. /\ Increasing(Tail(q))
        /\ \A i \in DOMAIN Tail(q) : i + 1 \in DOMAIN q /\ Tail(q)[i] = q[i + 1]
        /\ IdsOf(q) = IdsOf(Tail(q)) \cup {Head(q).id}
        /\ 1 \in DOMAIN q /\ Head(q) = q[1] /\ Head(q).id = Id("drafts", Head(q).id[2])
        /\ \A n : (\A i \in DOMAIN q : q[i].id[2] <= n) /\ Head(q).id[2] = n => Tail(q) = <<>>
    BY <1>2, <1>3, CopyLess
  <2> QED BY <1>1, <1>2, <2>1
<1>5. Id("draft", h) \notin Waiting
  BY <1>2, <1>3, <1>4
<1>6. CopiesOf("draft", "draft", Early \cup {"propose", "drafted"})'
  <2>1. \A i \in DOMAIN p :
           /\ p[i].id[2] \in 1 .. step
           /\ pc \in Early \cup {"propose", "drafted"} => p[i].id[2] < step
           /\ IF p[i].after = NoOp THEN Id("draft", p[i].id[2]) \notin Waiting
              ELSE p[i].after = Id("draft", p[i].id[2])
    BY <1>3, <1>4
  <2> QED BY <1>2, <1>4, <2>1 DEF CopiesOf, Id, Early
<1>7. PICK last : last = worker.drafts
  OBVIOUS
<1>8. ASSUME last # NoDrafts
      PROVE  /\ ~last.zero /\ last.of > 0 /\ worker.tensor = last.of /\ events.draft = Id("drafts", last.of)
             /\ \A i \in DOMAIN p : p[i].id[2] <= last.of
             /\ \/ Id("drafts", last.of) \in IdsOf(p)
                \/ p = <<>> /\ host'.drafts = last.of
  <2>1. PICK n : n = last.of
    OBVIOUS
  <2>2. /\ ~last.zero /\ n > 0 /\ worker.tensor = n /\ events.draft = Id("drafts", n)
        /\ \A i \in DOMAIN q : q[i].id[2] <= n
        /\ Id("drafts", n) \in IdsOf(q)
    BY <1>1, <1>2, <1>7, <1>8, <2>1 DEF DraftCopiesRight
  <2>3. \A i \in DOMAIN p : p[i].id[2] <= n
    BY <1>4, <2>2
  <2>4. CASE h = n
    <3>1. p = <<>>
      BY <1>4, <2>2, <2>4
    <3>2. DraftsAt(n)
      BY <2>2 DEF TensorsRight
    <3>3. Holds(Id("drafts", n), n)
      BY <1>5, <2>4, <3>2 DEF DraftsAt
    <3>4. host'.drafts = n
      BY <1>2, <2>4, <3>3, Buffers DEF Contents, Holds
    <3> QED BY <2>1, <2>2, <3>1, <3>4
  <2>5. CASE h # n
    BY <1>4, <2>1, <2>2, <2>3, <2>5, IdIs
  <2> QED BY <2>4, <2>5
<1>9. /\ pc = "drafted" => /\ worker.tensor = step /\ TRUE \in mode.fits
                           /\ Id("draft", step) \in Waiting \/ queue["default"] = <<>>
      /\ pc \in {"propose", "drafted"} => last = NoDrafts
      /\ ~mode.async /\ pc \notin {"idle", "book", "wait"} => last = NoDrafts
      /\ ~((~mode.async /\ last = NoDrafts) \/ (mode.async /\ TRUE \notin mode.fits))
      /\ mode.async /\ TRUE \notin mode.readers => last = NoDrafts
      /\ read.got = read.expected
  BY <1>1, <1>2, <1>7 DEF DraftCopiesRight
<1>10. NoDrafts' = NoDrafts
  BY DEF NoDrafts
<1> QED BY <1>2, <1>6, <1>7, <1>8, <1>9, <1>10 DEF DraftCopiesRight, Id, IdsOf

\* What the default stream runs copies nothing to the host's drafts.
LEMMA DraftsRun ==
  ASSUME StreamInv, NumbersRight, DefaultStream
  PROVE  DraftCopiesRight'
<1> USE DEF NumbersRight
<1>1. PICK kind : Runs("default", kind)
  BY DEF DefaultStream, RunUpload, RunForward, RunSample, RunDraft, RunClone, RunPooler,
         DownloadExperts, DownloadToList
<1>2. PICK h : h = Now("default")
  OBVIOUS
<1>3. /\ UNCHANGED <<mode, pc, step, worker, events, queue["draft"]>> /\ step \in Nat
      /\ Waiting = Waiting' \cup {Id(kind, h)} /\ h \in 1 .. step /\ kind \in DOMAIN Stage
      /\ \A a \in Waiting' : Before(Id(kind, h), a)
  BY <1>1, <1>2, HeadRuns, Known
<1>4. host'.drafts = host.drafts
  BY Buffers DEF DefaultStream, RunUpload, RunForward, RunSample, RunDraft, RunClone, RunPooler,
                 DownloadExperts, DownloadToList
<1>5. read' = read
  BY DEF DefaultStream, RunUpload, RunForward, RunSample, RunDraft, RunClone, RunPooler,
         DownloadExperts, DownloadToList, history
<1>6. queue["default"] # <<>> /\ queue'["default"] = Tail(queue["default"])
  BY <1>1, Buffers DEF Runs, Streams
<1>7. ASSUME pc = "drafted", Id("draft", step) \in Waiting, Id("draft", step) \notin Waiting'
      PROVE  queue'["default"] = <<>>
  <2>1. kind = "draft" /\ h = step
    BY <1>3, <1>7, IdIs
  <2>2. Waiting' = {}
    <3>1. SUFFICES ASSUME NEW a \in Waiting'
                   PROVE  FALSE
      OBVIOUS
    <3>2. a[2] \in 1 .. step /\ (a[2] < step \/ Stage[a[1]] <= 4) /\ Stage[a[1]] \in Nat
      BY <1>3, <1>7, <3>1, Known, Stages DEF Enqueued
    <3>3. Before(Id("draft", step), a)
      BY <1>3, <2>1, <3>1
    <3> QED BY <1>3, <3>2, <3>3, IdIs, Stages DEF Before
  <2>3. PICK p : p = queue'["default"]
    OBVIOUS
  <2>4. PICK q : q = queue["default"]
    OBVIOUS
  <2>5. q \in Seq(Kernels) /\ q # <<>> /\ p = Tail(q)
    BY <1>6, <2>3, <2>4, Buffers
  <2>6. p \in Seq(Kernels)
    BY <2>5
  <2>7. {p[i].id : i \in DOMAIN p} = {}
    BY <2>2, <2>3 DEF Waiting, IdsOf
  <2>8. DOMAIN p = {}
    <3>1. SUFFICES ASSUME NEW i \in DOMAIN p
                   PROVE  FALSE
      OBVIOUS
    <3>2. p[i].id \in {p[j].id : j \in DOMAIN p}
      BY <3>1
    <3> QED BY <2>7, <3>2
  <2>9. p = <<>>
    BY <2>6, <2>8
  <2> QED BY <2>3, <2>9
<1>8. \A n \in 1 .. step : Id("draft", n) \in Waiting' => Id("draft", n) \in Waiting
  BY <1>3
<1> QED BY <1>3, <1>4, <1>5, <1>6, <1>7, <1>8, DraftCopiesStay

\* The drafts on the host are those of the last call that drafted, or on their way.
LEMMA DraftCopiesKept ==
  ASSUME StreamInv, NumbersRight, [Next]_vars
  PROVE  DraftCopiesRight'
<1> USE DEF NumbersRight
<1>1. /\ step \in Nat /\ mode' = mode
      /\ host \in [inputs : Nat, computed : Totals, counts : Totals, drafts : Nat,
                   tokens : Totals, experts : Experts]
      /\ worker \in [rows : SUBSET Req, drafted : Totals, prevRows : SUBSET Req, counts : Nat,
                     tensor : Nat, drafts : [of : Nat, zero : BOOLEAN]]
      /\ DOMAIN events = {"inputs", "count", "draft"}
  BY Known, Buffers, ModeKept DEF ModeRight
\* Steps that leave the stream, the buffer and the tensor alone, and send no drafter.
<1>2. ASSUME UNCHANGED <<queue["draft"], events.draft, host.drafts, worker.drafts, worker.tensor, read>>,
             \A n \in 1 .. step : Id("draft", n) \in Waiting' => Id("draft", n) \in Waiting,
             \/ step' = step + 1 /\ pc' \notin {"propose", "drafted"}
             \/ step' = step /\ (pc' \in Early => pc \in Early) /\ pc' \notin {"propose", "drafted"},
             pc' \notin {"idle", "book", "wait"} =>
               pc \notin {"idle", "book", "wait"} \/ mode.async \/ worker.drafts = NoDrafts
      PROVE  DraftCopiesRight'
  BY <1>1, <1>2, DraftCopiesStay
\* Steps that leave the default stream alone too, wherever the main thread is.
<1>3. ASSUME UNCHANGED <<queue["draft"], events.draft, host.drafts, worker.drafts, worker.tensor, read>>,
             UNCHANGED <<pc, step, queue["default"]>>, Waiting' = Waiting
      PROVE  DraftCopiesRight'
  <2>1. Id("draft", step)' = Id("draft", step)
    BY <1>3 DEF Id
  <2> QED BY <1>1, <1>3, <2>1, DraftCopiesStay
<1>4. CASE \E b \in SUBSET Req, d \in DraftCounts : PlanStep(b, d)
  <2>1. PICK b \in SUBSET Req, d \in DraftCounts : PlanStep(b, d)
    BY <1>4
  <2>2. /\ UNCHANGED <<host, worker, events, queue, read>> /\ step' = step + 1 /\ pc' = "prepare"
        /\ Waiting' = Waiting
    BY <2>1, PlanDoes
  <2>3. mode.async \/ worker.drafts = NoDrafts
    BY <2>1 DEF PlanStep
  <2> QED BY <1>2, <2>2, <2>3
<1>5. CASE DummyRun
  <2>1. PICK c : c = step + 1
    OBVIOUS
  <2>2. /\ step' = step + 1 /\ UNCHANGED <<worker, read, queue["draft"]>> /\ pc' = "idle"
        /\ Waiting' = Waiting \cup {Id("upload", c), Id("forward", c)}
        /\ host' = [host EXCEPT !.inputs = c] /\ events' = [events EXCEPT !.inputs = Id("upload", c)]
    BY <1>5, <2>1, DummyDoes
  <2>3. events'.draft = events.draft /\ host'.drafts = host.drafts
    BY <1>1, <2>2
  <2>4. \A n \in 1 .. step : Id("draft", n) \in Waiting' => Id("draft", n) \in Waiting
    BY <2>2, IdIs
  <2> QED BY <1>2, <2>2, <2>3, <2>4
<1>6. CASE Prepare
  <2>1. /\ step' = step /\ UNCHANGED <<worker.drafts, worker.tensor, queue["draft"], host.drafts, read>>
        /\ Waiting' = Waiting \cup {Id("upload", step)} /\ pc = "prepare" /\ pc' = "launch"
        /\ events' = [events EXCEPT !.inputs = Id("upload", step)]
    BY <1>6, PrepareDoes
  <2>2. events'.draft = events.draft
    BY <1>1, <2>1
  <2>3. \A n \in 1 .. step : Id("draft", n) \in Waiting' => Id("draft", n) \in Waiting
    BY <2>1, IdIs
  <2> QED BY <1>2, <2>1, <2>2, <2>3 DEF Early
<1>7. CASE AnswerEmpty
  <2>1. /\ step' = step /\ UNCHANGED <<queue, host, read>> /\ pc' = "idle" /\ Waiting' = Waiting
        /\ worker' = [worker EXCEPT !.rows = {}]
        /\ events' = [events EXCEPT !.inputs = LastOf("default")]
    BY <1>7, EmptyDoes
  <2>2. events'.draft = events.draft /\ UNCHANGED <<worker.drafts, worker.tensor>>
    BY <1>1, <2>1
  <2> QED BY <1>2, <2>1, <2>2 DEF Early
<1>8. CASE LaunchForward
  <2>1. /\ step' = step /\ UNCHANGED <<worker, queue["draft"], host, events, read>>
        /\ Waiting' = Waiting \cup {Id("forward", step)} /\ pc = "launch"
        /\ pc' \in {"pool", "correct", "sample"}
    BY <1>8, LaunchDoes
  <2>2. \A n \in 1 .. step : Id("draft", n) \in Waiting' => Id("draft", n) \in Waiting
    BY <2>1, IdIs
  <2> QED BY <1>2, <2>1, <2>2 DEF Early
<1>9. CASE CorrectCounts
  <2>1. /\ step' = step /\ UNCHANGED <<worker, queue, host.drafts, events, read>>
        /\ Waiting' = Waiting /\ pc = "correct" /\ pc' = "sample"
    BY <1>9, CorrectDoes
  <2> QED BY <1>2, <2>1 DEF Early
<1>10. CASE DownloadTokens
  <2>1. \A n \in 1 .. step : Id("draft", n) \in Waiting' => Id("draft", n) \in Waiting
    BY <1>10, DownloadTokensDoes, IdIs
  <2> QED BY <1>2, <1>10, <2>1, DownloadTokensDoes DEF Early
<1>11. CASE ReturnTokens
  BY <1>2, <1>11, ReturnTokensDoes DEF Early
<1>12. CASE ReturnAsync
  <2>1. \A n \in 1 .. step : Id("draft", n) \in Waiting' => Id("draft", n) \in Waiting
    BY <1>12, ReturnAsyncDoes, IdIs
  <2> QED BY <1>2, <1>12, <2>1, ReturnAsyncDoes DEF Early
<1>13. CASE \E finished : Pool(finished)
  <2>1. PICK finished : Pool(finished)
    BY <1>13
  <2>2. \A n \in 1 .. step : Id("draft", n) \in Waiting' => Id("draft", n) \in Waiting
    BY <2>1, PoolDoes, IdIs
  <2> QED BY <1>2, <2>1, <2>2, PoolDoes DEF Early
<1>14. CASE TakeOutput
  <2>1. UNCHANGED <<pc, step, host, worker, events, queue, read>> /\ Waiting' = Waiting
    BY <1>14, TakeDoes
  <2> QED BY <1>3, <2>1
<1>15. CASE \E i \in DOMAIN pending : GetOutput(i)
  BY <1>3, <1>15, GetDoes
<1>16. CASE UNCHANGED vars
  BY <1>3, <1>16 DEF vars, gpu, history, Waiting
<1>17. CASE DownloadOutput \/ DownloadCounts
  <2>1. PICK s \in {"output", "count"} : \E kind : Runs(s, kind)
    BY <1>17 DEF DownloadOutput, DownloadCounts
  <2>2. info' = info /\ host'.drafts = host.drafts /\ read' = read
    BY <1>1, <1>17 DEF DownloadOutput, DownloadCounts, history
  <2>3. UNCHANGED <<pc, step, worker, events, queue["draft"], queue["default"]>> /\ Waiting' = Waiting
    BY <2>1, <2>2, DownloadDoes DEF Streams
  <2> QED BY <1>3, <2>2, <2>3
<1>18. CASE \E wanted \in (IF mode.async THEN mode.readers ELSE {TRUE}) :
              CopyDrafts(wanted) \/ ZeroDrafts(wanted)
  BY <1>18, DraftsZeroed, DraftCopySent
<1> QED
  BY <1>4, <1>5, <1>6, <1>7, <1>8, <1>9, <1>10, <1>11, <1>12, <1>13, <1>14, <1>15, <1>16, <1>17,
     <1>18, DraftsRun, DraftsReset, DraftsTaken, DraftsProposed, DraftsArrive
     DEF Next, Engine, MainThread, OutputThread

-----------------------------------------------------------------------------

\* All of it holds before the first call.
LEMMA InitNumbers ==
  ASSUME PoolingIsWaitedFor, DraftsAreWaitedFor, Init
  PROVE  NumbersRight
<1>1. StreamInv
  BY InitStreams
<1>2. /\ pc = "idle" /\ step = 0 /\ info = <<>> /\ pending = <<>> /\ freed = {}
      /\ queue["default"] = <<>> /\ queue["draft"] = <<>> /\ queue["count"] = <<>>
      /\ sched = None /\ truth = None /\ dev.slots = 0 /\ ran.n = 0 /\ read.got = read.expected
      /\ worker.rows = {} /\ worker.prevRows = {} /\ worker.counts = 0 /\ worker.tensor = 0
      /\ worker.drafts = NoDrafts /\ mode \in Modes
  BY DEF Init, Streams
<1>3. 1 .. step = {} /\ DOMAIN pending = {} /\ InFlight = 0 /\ Waiting = {} /\ Garbage = {}
  BY <1>2 DEF InFlight, Waiting, IdsOf, Garbage, TakenBy
<1>4. \A n : Batch(n) = {}
  BY <1>3 DEF Batch
<1>5. ModeRight
  <2>1. DOMAIN events = {"inputs", "count", "draft"}
    BY DEF Init
  <2> QED BY <1>2, <2>1 DEF ModeRight, PoolingIsWaitedFor, DraftsAreWaitedFor
<1>6. AnswersRight
  BY <1>2, <1>3, <1>4 DEF AnswersRight
<1>7. StepsReal /\ PlansRight
  BY <1>2, <1>3 DEF StepsReal, PlansRight
<1>8. WorkerRight
  BY <1>2, <1>4 DEF WorkerRight, Early
<1>9. CountingRight
  <2>1. None \in Totals /\ \A r \in Req : None[r] = 0
    BY DEF None, Totals
  <2>2. SamplesInOrder /\ SchedRight
    BY <1>3 DEF SamplesInOrder, SchedRight
  <2>3. Chain
    BY <1>2, <1>3, <2>1 DEF Chain
  <2>4. TruthRight
    BY <1>3 DEF TruthRight, ToSample
  <2> QED BY <1>2, <2>1, <2>2, <2>3, <2>4 DEF CountingRight
<1>10. CorrectionRight /\ UploadsRight /\ RanRight
  BY <1>2, <1>3 DEF CorrectionRight, UploadsRight, RanRight, ForwardSeesItsStep, Uploading
<1>11. TensorsRight
  BY <1>2, <1>3 DEF TensorsRight
<1>12. \A s, kernel, before : queue[s] = <<>> => CopiesOf(s, kernel, before)
  BY DEF CopiesOf, Increasing
<1>13. CountCopiesRight /\ DraftCopiesRight
  BY <1>2, <1>12 DEF CountCopiesRight, DraftCopiesRight, NoDrafts
<1> QED BY <1>5, <1>6, <1>7, <1>8, <1>9, <1>10, <1>11, <1>13 DEF NumbersRight

\* And whatever the threads and the streams do, it goes on.
LEMMA NextNumbers ==
  ASSUME StreamInv, NumbersRight, [Next]_vars
  PROVE  NumbersRight'
BY ModeKept, AnswersKept, StepsKept, PlansKept, WorkerKept, CountingKept, CorrectionKept,
   UploadsKept, RanKept, TensorsKept, CountCopiesKept, DraftCopiesKept DEF NumbersRight

\* Where the host has its number corrected and no sampler is on its way, it is the one
\* the GPU has.
LEMMA HostHasTheTruth ==
  ASSUME StreamInv, NumbersRight, pc = "sample",
         \A i \in DOMAIN queue["default"] : queue["default"][i].id[1] # "sample"
  PROVE  \A r \in This.batch : host.computed[r] = truth[r]
<1> USE DEF NumbersRight
<1>1. step \in Nat /\ step \in 1 .. step
  BY Known
<1>2. ToSample = {}
  <2>1. \A a \in Waiting : a[1] # "sample"
    BY DEF Waiting, IdsOf
  <2>2. \A a \in Waiting : a[1] # "pooler"
    BY DEF StreamInv, WorkRight, PoolingOnly, Sampling
  <2> QED BY <2>1, <2>2 DEF ToSample
<1>3. Batch(step) # {} /\ Batch(step) = This.batch
  BY <1>1 DEF StepsReal, Batch, This
<1>4. Latest(step) /\ At(step, Early)
  BY <1>1, <1>3 DEF Latest, At, Early
<1>5. \A r \in This.batch : r \in Req
  BY <1>1, Known DEF This
<1>6. \A r \in Req : truth[r] = StartOf(step, r)
  BY <1>1, <1>2, <1>4 DEF CountingRight, TruthRight
<1> QED BY <1>3, <1>5, <1>6 DEF CorrectionRight

\* All that the host's, the scheduler's and the GPU's numbers keep to, beside what
\* StreamInv has of the streams: where each count and each draft is, from the kernel
\* that computes it to the buffer it is read from, in the configurations that wait for
\* the copies they read.
THEOREM NumbersAreRight ==
  ASSUME PoolingIsWaitedFor, DraftsAreWaitedFor
  PROVE  Spec => []NumbersRight
<1>1. Init => NumbersRight
  BY InitNumbers
<1>2. StreamInv /\ NumbersRight /\ [Next]_vars => NumbersRight'
  BY NextNumbers
<1> QED BY <1>1, <1>2, StreamsRight, PTL DEF Spec

\* Each forward pass runs on the inputs of its own step and on as many computed tokens
\* as there are (_prepare_inputs, _update_states), though the host counts drafts it does
\* not know to be accepted and the pinned buffers are written while earlier steps run.
THEOREM ForwardPassesRight ==
  ASSUME PoolingIsWaitedFor, DraftsAreWaitedFor
  PROVE  Spec => []ForwardSeesItsStep
<1>1. NumbersRight => ForwardSeesItsStep
  BY DEF NumbersRight, RanRight
<1> QED BY <1>1, NumbersAreRight, PTL

\* The host reads the drafts of the call it means (_get_draft_token_ids_cpu) and, once it
\* has corrected them, the numbers of computed tokens the GPU goes by.
THEOREM HostReadsRight ==
  ASSUME PoolingIsWaitedFor, DraftsAreWaitedFor
  PROVE  Spec => []HostReadsOwnStep
<1>1. StreamInv /\ NumbersRight => HostReadsOwnStep
  BY HostHasTheTruth DEF NumbersRight, DraftCopiesRight, HostReadsOwnStep
<1> QED BY <1>1, NumbersAreRight, StreamsRight, PTL

===============================================================================
