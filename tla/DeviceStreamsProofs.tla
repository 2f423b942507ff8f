------------------------- MODULE DeviceStreamsProofs --------------------------
(***************************************************************************)
(* Theorems of DeviceStreams, for any requests, drafts and number of calls,*)
(* in every configuration, however far the host runs ahead of the GPU.     *)
(***************************************************************************)
EXTENDS DeviceStreams, TLAPS, SequenceTheorems

-----------------------------------------------------------------------------
(* The inductive invariant.                                                *)

Stage ==
  [upload |-> 1, forward |-> 2, sample |-> 3, draft |-> 4, experts |-> 5, tokens |-> 6,
   clone |-> 6, pooler |-> 6]

Ids == (DOMAIN Stage) \X Nat
Tensors == {"counts", "drafts", "tokens", "clones"} \X Nat
Totals == [Req -> Int]
Experts == [routing : Nat, slots : Nat]

Infos ==
  [batch : SUBSET Req, sent : Totals, d : Totals, assumed : Totals, part : SUBSET Req,
   src : Nat, acc : Totals, dummy : BOOLEAN]

Outs ==
  [n : Nat, state : {"none", "copying", "got"}, reqs : SUBSET Req, tokens : Totals,
   experts : Experts]

Kernels == [id : Ids, after : {NoOp}, takes : SUBSET Tensors]
Copies(kind) == [id : {kind} \X Nat, after : {NoOp} \cup Ids, takes : {{}}]

Sampling == {"correct", "sample", "propose", "drafted", "book", "wait"}

EngineTypes ==
  /\ mode \in Mode
  /\ pc \in {"idle", "prepare", "launch", "pool"} \cup Sampling
  /\ step \in Nat /\ (pc # "idle" => step > 0)
  /\ info \in Seq(Infos) /\ Len(info) = step
  /\ sched \in Totals /\ pending \in Seq(Outs) /\ taken \in Outs

HostTypes ==
  /\ host \in [inputs : Nat, computed : Totals, counts : Totals, drafts : Nat,
               tokens : Totals, experts : Experts]
  /\ worker \in [rows : SUBSET Req, drafted : Totals, prevRows : SUBSET Req, counts : Nat,
                 tensor : Nat, drafts : [of : Nat, zero : BOOLEAN]]

QueueTypes ==
  /\ DOMAIN queue = Streams
  /\ queue["default"] \in Seq(Kernels)
  /\ queue["output"] \in Seq(Copies("output"))
  /\ queue["draft"] \in Seq(Copies("drafts"))
  /\ queue["count"] \in Seq(Copies("count"))

DeviceTypes ==
  /\ dev \in [inputs : Nat, computed : Totals, experts : Nat, slots : Nat]
  /\ DOMAIN mem \subseteq Tensors
  /\ \A t \in DOMAIN mem : /\ t[1] \in {"counts", "tokens"} => mem[t] \in Totals
                           /\ t[1] = "drafts" => mem[t] \in Nat
                           /\ t[1] = "clones" => mem[t] \in Experts
  /\ freed \subseteq Tensors

StreamTypes == EngineTypes /\ HostTypes /\ QueueTypes /\ DeviceTypes

Before(a, b) == a[2] < b[2] \/ (a[2] = b[2] /\ Stage[a[1]] < Stage[b[1]])

IdsOf(q) == {q[i].id : i \in DOMAIN q}
TakenBy(q) == UNION {q[i].takes : i \in DOMAIN q}
InOrder(q) == \A i, j \in DOMAIN q : i < j => Before(q[i].id, q[j].id)

\* What the default stream has still to do, and what the output stream has.
Waiting == IdsOf(queue["default"])
Downloads == IdsOf(queue["output"])

\* How far the main thread has enqueued the call in progress.
Enqueued ==
  CASE pc = "prepare" -> 0 [] pc = "launch" -> 1 [] pc \in {"pool", "correct", "sample"} -> 2
    [] pc = "propose" -> 3 [] pc \in {"drafted", "book"} -> 4 [] OTHER -> 6

NothingAhead ==
  \A a \in Waiting : 0 < a[2] /\ (a[2] < step \/ (a[2] = step /\ Stage[a[1]] <= Enqueued))

\* The operations of step n up to a stage are done.
Past(n, s) == \A a \in Waiting : n < a[2] \/ (n = a[2] /\ s < Stage[a[1]])
Gone(n) == \A a \in Waiting : n < a[2]

At(n, stages) == n = step /\ pc \in stages

Garbage == freed \cup TakenBy(queue["default"])

SlotsOf(n) ==
  Id("forward", n) \in Waiting \/ At(n, {"launch"}) =>
    Id("upload", n) \in Waiting \/ (dev.slots = n /\ Past(n, 1))

ExpertsOf(n) ==
  Id("clone", n) \in Waiting \/ Id("experts", n) \in Waiting \/ At(n, Sampling \ {"wait"}) =>
    Id("forward", n) \in Waiting \/ (dev.experts = n /\ dev.slots = n /\ Past(n, 2))

Own(n) == [routing |-> n, slots |-> n]
Holds(t, value) == t \in DOMAIN mem /\ mem[t] = value

TokensOf(n) ==
  (\/ Id("clone", n) \in Waiting \/ Id("tokens", n) \in Waiting
   \/ Id("output", n) \in Downloads /\ ~mode.pool
   \/ At(n, {"propose", "drafted", "book"})) =>
    Id("sample", n) \in Waiting \/ (Holds(Id("tokens", n), info[n].acc) /\ Past(n, 3))

ClonesOf(n) ==
  Id("output", n) \in Downloads /\ ~mode.pool =>
    Id("clone", n) \in Waiting \/ Holds(Id("clones", n), Own(n))

\* A download waits for the last operation of its step.
AfterLast ==
  \A i \in DOMAIN queue["output"] :
    LET op == queue["output"][i]
    IN  /\ op.id[2] \in 1 .. step /\ (pc # "idle" => op.id[2] < step)
        /\ op.after \in {Id("clone", op.id[2]), Id("pooler", op.id[2])}
        /\ op.after \in Waiting \/ Gone(op.id[2])

\* A tensor is freed once its output has arrived.
FreedLate ==
  \A t \in Garbage : t[1] \in {"tokens", "clones"} =>
    /\ t[2] <= step /\ (pc # "idle" => t[2] < step)
    /\ Gone(t[2]) /\ Id("output", t[2]) \notin Downloads

OnHost ==
  pc = "wait" =>
    /\ Id("tokens", step) \in Waiting \/ (host.tokens = info[step].acc /\ Gone(step))
    /\ Id("experts", step) \in Waiting \/ (host.experts = Own(step) /\ Past(step, 5))

PoolingOnly ==
  IF mode.pool
  THEN /\ \A a \in Waiting : a[1] \in {"upload", "forward", "pooler"}
       /\ pc \notin Sampling
       /\ \A n \in 1 .. step : info[n].acc = None
       /\ \A t \in DOMAIN mem : t[1] = "tokens" => mem[t] = None
  ELSE /\ \A a \in Waiting : a[1] # "pooler"
       /\ pc # "pool"

RowsOfStep == pc \notin {"idle", "prepare"} => worker.rows = info[step].batch

\* An output as it should be.
Complete(o) ==
  o.reqs # {} => o.tokens = info[o.n].acc /\ (~mode.pool => o.experts = Own(o.n))

OutputRight(o) ==
  /\ o.n \in 1 .. step /\ (pc # "idle" => o.n < step)
  /\ o.reqs = info[o.n].batch
  /\ o.state = "got" => Complete(o) /\ Id("sample", o.n) \notin Waiting
  /\ o.state = "copying" => Id("output", o.n) \in Downloads \/ (Complete(o) /\ Gone(o.n))

StepsRight == \A n \in 1 .. step : SlotsOf(n) /\ ExpertsOf(n) /\ TokensOf(n) /\ ClonesOf(n)

TakenRight == taken.n > 0 => OutputRight(taken) /\ taken.state = "got"

PendingRight == \A i \in DOMAIN pending : OutputRight(pending[i]) /\ pending[i].state # "none"

\* What concerns the operations and their tensors, without the outputs.
WorkRight ==
  /\ InOrder(queue["default"]) /\ NothingAhead /\ StepsRight
  /\ AfterLast /\ FreedLate /\ OnHost /\ PoolingOnly /\ RowsOfStep

StreamInv == StreamTypes /\ WorkRight /\ TakenRight /\ PendingRight

-----------------------------------------------------------------------------
(* Operations and queues.                                                  *)

\* The stages, one by one.
LEMMA Stages ==
  /\ DOMAIN Stage = {"upload", "forward", "sample", "draft", "experts", "tokens", "clone", "pooler"}
  /\ Stage["upload"] = 1 /\ Stage["forward"] = 2 /\ Stage["sample"] = 3 /\ Stage["draft"] = 4
  /\ Stage["experts"] = 5 /\ Stage["tokens"] = 6 /\ Stage["clone"] = 6 /\ Stage["pooler"] = 6
<1>1. DOMAIN Stage = {"upload", "forward", "sample", "draft", "experts", "tokens", "clone", "pooler"}
  BY DEF Stage
<1>2. /\ Stage["upload"] = 1 /\ Stage["forward"] = 2 /\ Stage["sample"] = 3 /\ Stage["draft"] = 4
      /\ Stage["experts"] = 5 /\ Stage["tokens"] = 6 /\ Stage["clone"] = 6 /\ Stage["pooler"] = 6
  BY DEF Stage
<1> QED BY <1>1, <1>2

\* An identifier is its kind and its step.
LEMMA IdIs ==
  /\ \A k, n : Id(k, n)[1] = k /\ Id(k, n)[2] = n
  /\ \A k, l, m, n : Id(k, m) = Id(l, n) => k = l /\ m = n
  /\ \A a \in Ids : a = Id(a[1], a[2]) /\ a[1] \in DOMAIN Stage /\ a[2] \in Nat
  /\ \A k \in DOMAIN Stage, n \in Nat : Id(k, n) \in Ids
<1> DEFINE kinds == DOMAIN Stage
<1> HIDE DEF kinds
<1> SUFFICES
      /\ \A k, n : Id(k, n)[1] = k /\ Id(k, n)[2] = n
      /\ \A k, l, m, n : Id(k, m) = Id(l, n) => k = l /\ m = n
      /\ \A a \in kinds \X Nat : a = Id(a[1], a[2]) /\ a[1] \in kinds /\ a[2] \in Nat
      /\ \A k \in kinds, n \in Nat : Id(k, n) \in kinds \X Nat
  BY DEF Ids, kinds
<1> QED BY DEF Id

\* Before is a strict order.
LEMMA BeforeOrders ==
  /\ \A a \in Ids : ~ Before(a, a)
  /\ \A a, b \in Ids : ~ (Before(a, b) /\ Before(b, a))
<1>1. \A a \in Ids : a[2] \in Nat /\ Stage[a[1]] \in Nat
  BY Stages, IdIs
<1> HIDE DEF Stage, Ids
<1> QED BY <1>1 DEF Before

\* What waits on the default stream is named by an Id.
LEMMA IdsIn ==
  ASSUME NEW q \in Seq(Kernels)
  PROVE  IdsOf(q) \subseteq Ids
<1>1. \A i \in DOMAIN q : q[i] \in Kernels
  BY ElementOfSeq
<1> QED BY <1>1 DEF IdsOf, Kernels

\* An operation at the end of a queue.
LEMMA AppendIs ==
  ASSUME NEW S, NEW q \in Seq(S), NEW op \in S
  PROVE  LET p == Append(q, op)
         IN  /\ p \in Seq(S)
             /\ IdsOf(p) = IdsOf(q) \cup {op.id}
             /\ TakenBy(p) = TakenBy(q) \cup op.takes
             /\ InOrder(q) /\ (\A a \in IdsOf(q) : Before(a, op.id)) => InOrder(p)
             /\ DOMAIN p = DOMAIN q \cup {Len(q) + 1}
             /\ p[Len(q) + 1] = op /\ \A i \in DOMAIN q : p[i] = q[i]
<1> DEFINE p == Append(q, op)
<1>1. /\ p \in Seq(S) /\ Len(q) \in Nat
      /\ DOMAIN q = 1 .. Len(q) /\ DOMAIN p = 1 .. Len(q) + 1
      /\ p[Len(q) + 1] = op /\ \A i \in 1 .. Len(q) : p[i] = q[i]
  BY AppendProperties
<1>2. DOMAIN p = DOMAIN q \cup {Len(q) + 1} /\ DOMAIN q \subseteq DOMAIN p
      /\ \A i \in DOMAIN q : p[i] = q[i] /\ i < Len(q) + 1
  BY <1>1
<1> HIDE DEF p
<1>4. IdsOf(p) = IdsOf(q) \cup {op.id}
  BY <1>1, <1>2 DEF IdsOf
<1>5. ASSUME InOrder(q), \A a \in IdsOf(q) : Before(a, op.id) PROVE InOrder(p)
  <2> SUFFICES ASSUME NEW i \in DOMAIN p, NEW j \in DOMAIN p, i < j
               PROVE  Before(p[i].id, p[j].id)
    BY DEF InOrder
  <2>1. i \in DOMAIN q
    BY <1>1, <1>2
  <2>2. CASE j \in DOMAIN q
    BY <1>2, <1>5, <2>1, <2>2 DEF InOrder
  <2>3. CASE j = Len(q) + 1
    <3>1. q[i].id \in IdsOf(q)
      BY <2>1 DEF IdsOf
    <3> QED BY <1>1, <1>2, <1>5, <2>1, <2>3, <3>1
  <2> QED BY <1>2, <2>2, <2>3
<1>6. TakenBy(p) = TakenBy(q) \cup op.takes
  BY <1>1, <1>2 DEF TakenBy
<1> QED BY <1>1, <1>2, <1>4, <1>5, <1>6 DEF p

\* The first operation of a queue leaves.
LEMMA TailIs ==
  ASSUME NEW S, NEW q \in Seq(S), q # <<>>
  PROVE  LET p == Tail(q)
             h == Head(q)
         IN  /\ p \in Seq(S) /\ h \in S /\ 1 \in DOMAIN q /\ h = q[1]
             /\ \A i \in DOMAIN p : i + 1 \in DOMAIN q /\ p[i] = q[i + 1]
             /\ h.id \in IdsOf(q) /\ IdsOf(q) = IdsOf(p) \cup {h.id}
             /\ h.takes \subseteq TakenBy(q) /\ TakenBy(p) \subseteq TakenBy(q)
             /\ InOrder(q) => InOrder(p) /\ \A a \in IdsOf(p) : Before(h.id, a)
<1> DEFINE p == Tail(q)
           h == Head(q)
<1>1. /\ Len(q) \in Nat /\ Len(q) >= 1 /\ DOMAIN q = 1 .. Len(q) /\ h = q[1] /\ h \in S
      /\ p \in Seq(S) /\ DOMAIN p = 1 .. Len(q) - 1
      /\ \A i \in 1 .. Len(q) - 1 : p[i] = q[i + 1]
  BY HeadTailProperties, EmptySeq
<1>2. 1 \in DOMAIN q /\ \A i \in DOMAIN p : i + 1 \in DOMAIN q /\ p[i] = q[i + 1] /\ 1 < i + 1
  BY <1>1
<1>3. \A i \in DOMAIN q : i = 1 \/ (i - 1 \in DOMAIN p /\ p[i - 1] = q[i])
  BY <1>1
<1> HIDE DEF p, h
<1>4. h.id \in IdsOf(q)
  BY <1>1, <1>2 DEF IdsOf
<1>5. IdsOf(q) = IdsOf(p) \cup {h.id}
  <2>1. IdsOf(p) \subseteq IdsOf(q)
    BY <1>2 DEF IdsOf
  <2>2. IdsOf(q) \subseteq IdsOf(p) \cup {h.id}
    BY <1>1, <1>3 DEF IdsOf
  <2> QED BY <1>4, <2>1, <2>2
<1>6. h.takes \subseteq TakenBy(q) /\ TakenBy(p) \subseteq TakenBy(q)
  <2>1. h.takes \subseteq TakenBy(q)
    BY <1>1, <1>2 DEF TakenBy
  <2>2. TakenBy(p) \subseteq TakenBy(q)
    BY <1>2 DEF TakenBy
  <2> QED BY <2>1, <2>2
<1>7. InOrder(q) => \A a \in IdsOf(p) : Before(h.id, a)
  BY <1>1, <1>2 DEF InOrder, IdsOf
<1>8. InOrder(q) => InOrder(p)
  <2> SUFFICES ASSUME InOrder(q), NEW i \in DOMAIN p, NEW j \in DOMAIN p, i < j
               PROVE  Before(p[i].id, p[j].id)
    BY DEF InOrder
  <2>1. i + 1 < j + 1
    BY <1>1
  <2> QED BY <1>2, <2>1 DEF InOrder
<1> QED BY <1>1, <1>2, <1>4, <1>5, <1>6, <1>7, <1>8 DEF p, h

-----------------------------------------------------------------------------
(* Types.                                                                  *)

\* The records the model starts with.
LEMMA Empties ==
  /\ None \in Totals /\ LostExperts \in Experts /\ NoStep \in Infos /\ Nothing \in Outs
  /\ NoDrafts \in [of : Nat, zero : BOOLEAN]
<1>1. None \in Totals
  BY DEF None, Totals
<1>2. LostExperts \in Experts
  BY DEF LostExperts, Experts
<1> QED BY <1>1, <1>2 DEF NoStep, Infos, Nothing, Outs, NoDrafts

\* A planned step, or an answer taken, keeps the engine's types.
LEMMA EngineActionTypes ==
  ASSUME StreamInv, Engine
  PROVE  EngineTypes' /\ HostTypes'
<1> USE Empties DEF StreamInv, StreamTypes
<1>1. ASSUME NEW b \in SUBSET Req, NEW d \in DraftCounts, PlanStep(b, d)
      PROVE  EngineTypes' /\ HostTypes'
  <2>1. d \in Totals
    BY StreamsAssumption DEF DraftCounts, Totals
  <2>2. [NoStep EXCEPT !.batch = b, !.sent = sched, !.d = d] \in Infos
    BY <2>1 DEF EngineTypes, Infos
  <2>3. info' \in Seq(Infos) /\ Len(info') = step'
    BY <1>1, <2>2, AppendProperties DEF PlanStep, EngineTypes
  <2>4. sched' \in Totals
    BY <1>1, <2>1 DEF PlanStep, EngineTypes, Totals
  <2> QED BY <1>1, <2>3, <2>4 DEF PlanStep, EngineTypes, HostTypes
<1>2. ASSUME TakeOutput PROVE EngineTypes' /\ HostTypes'
  <2>1. /\ pending # <<>> /\ Head(pending) \in Outs /\ Tail(pending) \in Seq(Outs)
        /\ 1 \in DOMAIN pending /\ Head(pending) = pending[1]
    BY <1>2, TailIs DEF TakeOutput, EngineTypes
  <2>2. Head(pending).n \in 1 .. step
    BY <2>1 DEF PendingRight, OutputRight
  <2>3. info[Head(pending).n] \in Infos
    BY <2>2, ElementOfSeq DEF EngineTypes
  <2>4. info[Head(pending).n].d \in Totals /\ Head(pending).tokens \in Totals
    BY <2>1, <2>3 DEF Infos, Outs
  <2>5. sched' \in Totals
    BY <1>2, <2>4 DEF TakeOutput, EngineTypes, Totals
  <2> QED BY <1>2, <2>1, <2>5 DEF TakeOutput, EngineTypes, HostTypes
<1>3. ASSUME DummyRun PROVE EngineTypes' /\ HostTypes'
  <2>1. [NoStep EXCEPT !.dummy = TRUE] \in Infos
    BY DEF Infos
  <2>2. info' \in Seq(Infos) /\ Len(info') = step'
    BY <1>3, <2>1, AppendProperties DEF DummyRun, EngineTypes
  <2>3. step' \in Nat /\ host' = [host EXCEPT !.inputs = step'] /\ worker' = worker
    BY <1>3 DEF DummyRun, EngineTypes
  <2>4. HostTypes'
    BY <2>3 DEF HostTypes
  <2> QED BY <1>3, <2>2, <2>4 DEF DummyRun, EngineTypes, engine
<1> QED BY <1>1, <1>2, <1>3 DEF Engine

\* What the main thread does keeps the engine's types and the host's.
LEMMA MainThreadTypes ==
  ASSUME StreamInv, MainThread
  PROVE  EngineTypes' /\ HostTypes'
<1> USE Empties DEF StreamInv, StreamTypes
<1>t. /\ pc # "idle" => step \in DOMAIN info /\ This \in Infos /\ step \in Nat \ {0}
      /\ \A o \in Outs : Append(pending, o) \in Seq(Outs)
  <2>1. DOMAIN info = 1 .. step
    BY DEF EngineTypes
  <2>2. \A i \in DOMAIN info : info[i] \in Infos
    BY ElementOfSeq DEF EngineTypes
  <2>3. \A o \in Outs : Append(pending, o) \in Seq(Outs)
    BY AppendProperties DEF EngineTypes
  <2> QED BY <2>1, <2>2, <2>3 DEF EngineTypes, This
<1>p. ASSUME Prepare PROVE EngineTypes' /\ HostTypes'
  <2>1. /\ This.sent \in Totals /\ This.d \in Totals /\ This.batch \in SUBSET Req
        /\ step \in DOMAIN info
    BY <1>p, <1>t DEF Prepare, Infos
  <2>2. /\ worker.drafted \in Totals /\ host.computed \in Totals /\ worker.counts \in Nat
    BY DEF HostTypes
  <2>3. [r \in Req |-> IF r \in Deferred(This.batch) THEN worker.drafted[r] ELSE 0] \in Totals
    BY <2>2 DEF Totals
  <2>4. (IF worker.counts = 0 THEN {} ELSE Deferred(This.batch) \cap worker.prevRows)
          \in SUBSET Req
    BY <2>1 DEF Deferred
  <2>5. PICK assumed \in Totals, part \in SUBSET Req :
          info' = [info EXCEPT ![step].assumed = assumed, ![step].part = part,
                               ![step].src = worker.counts]
    BY <1>p, <2>3, <2>4 DEF Prepare
  <2>6. PICK new \in Infos : info' = [info EXCEPT ![step] = new]
    <3> DEFINE new == [This EXCEPT !.assumed = assumed, !.part = part, !.src = worker.counts]
    <3>1. new \in Infos
      BY <1>p, <1>t, <2>2 DEF Prepare, Infos
    <3>2. info' = [info EXCEPT ![step] = new]
      BY <2>1, <2>5 DEF This
    <3> QED BY <3>1, <3>2
  <2>7. info' \in Seq(Infos) /\ Len(info') = Len(info)
    BY <2>1, <2>6, ExceptSeq DEF EngineTypes
  <2>8. EngineTypes'
    BY <1>p, <1>t, <2>7 DEF Prepare, EngineTypes, Sampling, engine
  <2>9. [r \in Req |-> IF r \in This.batch THEN This.sent[r] ELSE host.computed[r]] \in Totals
    BY <2>1, <2>2 DEF Totals
  <2>10. [r \in Req |-> IF r \in This.batch THEN This.d[r] ELSE worker.drafted[r]] \in Totals
    BY <2>1, <2>2 DEF Totals
  <2>11. PICK computed \in Totals, drafted \in Totals :
           /\ host' = [host EXCEPT !.inputs = step, !.computed = computed]
           /\ worker' = [worker EXCEPT !.rows = This.batch, !.drafted = drafted]
    BY <1>p, <2>9, <2>10 DEF Prepare
  <2>12. HostTypes'
    BY <2>1, <2>11 DEF HostTypes, EngineTypes
  <2> QED BY <2>8, <2>12
<1>e. ASSUME AnswerEmpty PROVE EngineTypes' /\ HostTypes'
  <2>1. [Nothing EXCEPT !.n = step, !.state = "got"] \in Outs
    BY DEF Outs, EngineTypes
  <2>2. pending' \in Seq(Outs)
    BY <1>e, <1>t, <2>1 DEF AnswerEmpty
  <2> QED BY <1>e, <2>2 DEF AnswerEmpty, EngineTypes, HostTypes
<1>l. ASSUME LaunchForward PROVE EngineTypes' /\ HostTypes'
  BY <1>l, <1>t DEF LaunchForward, EngineTypes, HostTypes, Sampling, engine
<1>c. ASSUME CorrectCounts PROVE EngineTypes' /\ HostTypes'
  <2>1. This.assumed \in Totals /\ host.computed \in Totals /\ host.counts \in Totals
    BY <1>c, <1>t DEF CorrectCounts, Infos, HostTypes
  <2>2. PICK computed \in Totals : host' = [host EXCEPT !.computed = computed]
    <3> DEFINE computed ==
          [r \in Req |-> IF This.assumed[r] > 0 /\ r \in worker.prevRows
                         THEN host.computed[r] - (This.assumed[r] - (host.counts[r] - 1))
                         ELSE host.computed[r]]
    <3>1. computed \in Totals
      BY <2>1 DEF Totals
    <3>2. host' = [host EXCEPT !.computed = computed]
      BY <1>c DEF CorrectCounts
    <3> QED BY <3>1, <3>2
  <2>3. HostTypes'
    BY <1>c, <2>2 DEF CorrectCounts, HostTypes
  <2> QED BY <1>c, <1>t, <2>3 DEF CorrectCounts, EngineTypes, Sampling, engine
<1>s. ASSUME SampleTokens PROVE EngineTypes' /\ HostTypes'
  BY <1>s, <1>t DEF SampleTokens, EngineTypes, HostTypes, Sampling, engine
<1>d. ASSUME Propose PROVE EngineTypes' /\ HostTypes'
  BY <1>d, <1>t DEF Propose, EngineTypes, HostTypes, Sampling, engine, CountsRef
<1>y. ASSUME NEW wanted, CopyDrafts(wanted) PROVE EngineTypes' /\ HostTypes'
  <2>1. /\ UNCHANGED <<mode, step, info, engine, host>> /\ pc = "drafted" /\ pc' = "book"
        /\ worker' = worker \/ worker' = [worker EXCEPT !.drafts = [of |-> step, zero |-> FALSE]]
    BY <1>y DEF CopyDrafts
  <2>2. EngineTypes'
    BY <2>1 DEF EngineTypes, Sampling, engine
  <2>3. [of |-> step, zero |-> FALSE] \in [of : Nat, zero : BOOLEAN]
    BY DEF EngineTypes
  <2>4. CASE worker' = worker
    BY <2>1, <2>2, <2>4 DEF HostTypes
  <2>5. CASE worker' = [worker EXCEPT !.drafts = [of |-> step, zero |-> FALSE]]
    BY <2>1, <2>2, <2>3, <2>5 DEF HostTypes
  <2> QED BY <2>1, <2>2, <2>4, <2>5
<1>z. ASSUME NEW wanted, ZeroDrafts(wanted) PROVE EngineTypes' /\ HostTypes'
  BY <1>z, <1>t DEF ZeroDrafts, EngineTypes, HostTypes, Sampling, engine, CountsRef
<1>b. ASSUME DownloadTokens PROVE EngineTypes' /\ HostTypes'
  BY <1>b, <1>t DEF DownloadTokens, EngineTypes, HostTypes, Sampling, engine
<1>r. ASSUME ReturnTokens PROVE EngineTypes' /\ HostTypes'
  <2>1. [n |-> step, state |-> "got", reqs |-> worker.rows, tokens |-> host.tokens,
         experts |-> host.experts] \in Outs
    BY DEF Outs, EngineTypes, HostTypes
  <2>2. pending' \in Seq(Outs)
    BY <1>r, <1>t, <2>1 DEF ReturnTokens
  <2> QED BY <1>r, <2>2 DEF ReturnTokens, EngineTypes, HostTypes
<1>a. ASSUME ReturnAsync PROVE EngineTypes' /\ HostTypes'
  <2>1. [Nothing EXCEPT !.n = step, !.state = "copying", !.reqs = worker.rows] \in Outs
    BY DEF Outs, EngineTypes, HostTypes
  <2>2. pending' \in Seq(Outs)
    BY <1>a, <1>t, <2>1 DEF ReturnAsync
  <2> QED BY <1>a, <2>2 DEF ReturnAsync, EngineTypes, HostTypes
<1>o. ASSUME NEW finished, Pool(finished) PROVE EngineTypes' /\ HostTypes'
  <2>1. [Nothing EXCEPT !.n = step, !.reqs = worker.rows,
                        !.state = IF finished THEN "copying" ELSE "got"] \in Outs
    BY DEF Outs, EngineTypes, HostTypes
  <2>2. pending' \in Seq(Outs)
    BY <1>o, <1>t, <2>1 DEF Pool
  <2> QED BY <1>o, <2>2 DEF Pool, EngineTypes, HostTypes
<1> QED BY <1>p, <1>e, <1>l, <1>c, <1>s, <1>d, <1>y, <1>z, <1>b, <1>r, <1>a, <1>o DEF MainThread

\* What the main thread and the engine enqueue has the types of the streams.
LEMMA EnqueuedTypes ==
  ASSUME StreamInv, Engine \/ MainThread
  PROVE  QueueTypes' /\ DeviceTypes'
<1> USE DEF StreamInv, StreamTypes
<1>t. /\ step \in Nat /\ freed \in SUBSET Tensors /\ worker.counts \in Nat /\ worker.tensor \in Nat
      /\ \A op \in Kernels : Append(queue["default"], op) \in Seq(Kernels)
      /\ \A op \in Copies("output") : Append(queue["output"], op) \in Seq(Copies("output"))
      /\ \A op \in Copies("drafts") : Append(queue["draft"], op) \in Seq(Copies("drafts"))
      /\ \A op \in Copies("count") : Append(queue["count"], op) \in Seq(Copies("count"))
  <2>1. /\ \A op \in Kernels : Append(queue["default"], op) \in Seq(Kernels)
        /\ \A op \in Copies("output") : Append(queue["output"], op) \in Seq(Copies("output"))
        /\ \A op \in Copies("drafts") : Append(queue["draft"], op) \in Seq(Copies("drafts"))
        /\ \A op \in Copies("count") : Append(queue["count"], op) \in Seq(Copies("count"))
    BY AppendProperties DEF QueueTypes
  <2> QED BY <2>1 DEF EngineTypes, DeviceTypes, HostTypes
<1>k. ASSUME NEW k \in DOMAIN Stage, NEW n \in Nat, NEW garbage \in SUBSET Tensors
      PROVE  Kernel(k, n, garbage) \in Kernels /\ Copy(k, n, NoOp) \in Kernels
  BY IdIs DEF Kernel, Copy, Kernels
<1>o. ASSUME NEW kind, NEW n \in Nat, NEW after \in {NoOp} \cup Ids
      PROVE  Copy(kind, n, after) \in Copies(kind)
  BY DEF Copy, Copies, Id
<1>l. LastOf("default") \in {NoOp} \cup Ids
  <2>1. CASE queue["default"] = <<>>
    BY <2>1 DEF LastOf
  <2>2. CASE queue["default"] # <<>>
    <3> DEFINE q == queue["default"]
    <3>1. q \in Seq(Kernels) /\ Len(q) \in Nat \ {0} /\ DOMAIN q = 1 .. Len(q)
      BY <2>2, EmptySeq, LenProperties DEF QueueTypes
    <3>2. q[Len(q)] \in Kernels
      BY <3>1, ElementOfSeq
    <3> QED BY <2>2, <3>2 DEF LastOf, Last, Kernels
  <2> QED BY <2>1, <2>2
<1>s. /\ {"upload", "forward", "sample", "draft", "experts", "tokens", "clone", "pooler"} = DOMAIN Stage
      /\ \A n \in Nat : Id("clone", n) \in Ids /\ Id("pooler", n) \in Ids
  BY Stages, IdIs
<1> DEFINE Own1(k) == queue' = [queue EXCEPT !["default"] = Append(@, Kernel(k, step, freed))]
<1>1. ASSUME NEW k \in DOMAIN Stage, Own1(k) PROVE QueueTypes'
  BY <1>1, <1>k, <1>t DEF QueueTypes, Streams
<1>2. ASSUME freed' = {}, UNCHANGED <<dev, mem>> PROVE DeviceTypes'
  BY <1>2 DEF DeviceTypes
<1>3. ASSUME UNCHANGED <<queue, dev, mem, freed>> PROVE QueueTypes' /\ DeviceTypes'
  BY <1>3 DEF QueueTypes, DeviceTypes
<1>4. ASSUME UNCHANGED <<dev, mem, freed>> PROVE DeviceTypes'
  BY <1>4 DEF DeviceTypes
<1>5. CountCopy = <<>> \/ \E op \in Copies("count") : CountCopy = <<op>>
  BY <1>l, <1>o, <1>t DEF CountCopy
<1>6. queue["count"] \o CountCopy \in Seq(Copies("count"))
  <2>1. <<>> \in Seq(Copies("count")) /\ \A op \in Copies("count") : <<op>> \in Seq(Copies("count"))
    OBVIOUS
  <2>2. CountCopy \in Seq(Copies("count"))
    BY <1>5, <2>1
  <2> QED BY <2>2, ConcatProperties DEF QueueTypes
<1>10. ASSUME NEW b, NEW d, PlanStep(b, d) PROVE QueueTypes' /\ DeviceTypes'
  BY <1>10, <1>3 DEF PlanStep, gpu
<1>11. ASSUME TakeOutput PROVE QueueTypes' /\ DeviceTypes'
  BY <1>11, <1>3 DEF TakeOutput, gpu
<1>12. ASSUME DummyRun PROVE QueueTypes' /\ DeviceTypes'
  <2>1. step' \in Nat
    BY <1>12, <1>t DEF DummyRun
  <2>2. PICK k1 \in Kernels, k2 \in Kernels :
          queue' = [queue EXCEPT !["default"] = @ \o <<k1, k2>>]
    BY <1>12, <1>k, <1>s, <1>t, <2>1 DEF DummyRun
  <2>3. queue["default"] \o <<k1, k2>> \in Seq(Kernels)
    <3>1. <<k1, k2>> \in Seq(Kernels)
      OBVIOUS
    <3> QED BY <3>1, ConcatProperties DEF QueueTypes
  <2>4. QueueTypes'
    BY <2>2, <2>3 DEF QueueTypes, Streams
  <2> QED BY <1>12, <1>2, <2>4 DEF DummyRun
<1>13. ASSUME Prepare PROVE QueueTypes' /\ DeviceTypes'
  BY <1>13, <1>1, <1>2, <1>s DEF Prepare, Enqueue
<1>14. ASSUME AnswerEmpty PROVE QueueTypes' /\ DeviceTypes'
  BY <1>14, <1>3 DEF AnswerEmpty, gpu
<1>15. ASSUME LaunchForward PROVE QueueTypes' /\ DeviceTypes'
  BY <1>15, <1>1, <1>2, <1>s DEF LaunchForward, Enqueue
<1>16. ASSUME CorrectCounts PROVE QueueTypes' /\ DeviceTypes'
  BY <1>16, <1>3 DEF CorrectCounts, gpu
<1>17. ASSUME SampleTokens PROVE QueueTypes' /\ DeviceTypes'
  <2>1. QueueTypes'
    BY <1>17, <1>1, <1>s DEF SampleTokens, Enqueue
  <2>2. Id("counts", worker.counts) \in Tensors /\ Id("drafts", worker.tensor) \in Tensors
    BY <1>t DEF Id, Tensors
  <2> QED BY <1>17, <2>1, <2>2 DEF SampleTokens, DeviceTypes
<1>18. ASSUME Propose PROVE QueueTypes' /\ DeviceTypes'
  <2>1. PICK op \in Kernels :
          queue' = [queue EXCEPT !["count"] = @ \o CountCopy, !["default"] = Append(@, op)]
    BY <1>18, <1>k, <1>s, <1>t DEF Propose
  <2>2. QueueTypes'
    BY <2>1, <1>6, <1>t DEF QueueTypes, Streams
  <2> QED BY <1>18, <1>2, <2>2 DEF Propose
<1>19. ASSUME NEW wanted, CopyDrafts(wanted) PROVE QueueTypes' /\ DeviceTypes'
  <2>1. Copy("drafts", step, LastOf("default")) \in Copies("drafts")
    BY <1>l, <1>o, <1>t
  <2>2. \/ UNCHANGED queue
        \/ queue' = [queue EXCEPT !["draft"] = Append(@, Copy("drafts", step, LastOf("default")))]
    BY <1>19 DEF CopyDrafts, Enqueue
  <2>3. QueueTypes'
    BY <2>1, <2>2, <1>t DEF QueueTypes, Streams
  <2> QED BY <1>19, <1>4, <2>3 DEF CopyDrafts
<1>20. ASSUME NEW wanted, ZeroDrafts(wanted) PROVE QueueTypes' /\ DeviceTypes'
  <2>1. QueueTypes'
    BY <1>20, <1>6 DEF ZeroDrafts, QueueTypes, Streams
  <2> QED BY <1>20, <1>4, <2>1 DEF ZeroDrafts
<1>21. ASSUME DownloadTokens PROVE QueueTypes' /\ DeviceTypes'
  <2>2. PICK k1 \in Kernels, k2 \in Kernels :
          queue' = [queue EXCEPT !["default"] = @ \o <<k1, k2>>]
    BY <1>21, <1>k, <1>s, <1>t DEF DownloadTokens
  <2>3. queue["default"] \o <<k1, k2>> \in Seq(Kernels)
    <3>1. <<k1, k2>> \in Seq(Kernels)
      OBVIOUS
    <3> QED BY <3>1, ConcatProperties DEF QueueTypes
  <2>4. QueueTypes'
    BY <2>2, <2>3 DEF QueueTypes, Streams
  <2> QED BY <1>21, <1>4, <2>4 DEF DownloadTokens
<1>22. ASSUME ReturnTokens PROVE QueueTypes' /\ DeviceTypes'
  BY <1>22, <1>3 DEF ReturnTokens, gpu
<1>23. ASSUME ReturnAsync PROVE QueueTypes' /\ DeviceTypes'
  <2>1. PICK op \in Kernels, co \in Copies("output") :
          queue' = [queue EXCEPT !["default"] = Append(@, op), !["output"] = Append(@, co)]
    BY <1>23, <1>k, <1>o, <1>s, <1>t DEF ReturnAsync
  <2>2. QueueTypes'
    BY <2>1, <1>t DEF QueueTypes, Streams
  <2> QED BY <1>23, <1>2, <2>2 DEF ReturnAsync
<1>24. ASSUME NEW finished, Pool(finished) PROVE QueueTypes' /\ DeviceTypes'
  <2>1. PICK op \in Kernels, co \in Copies("output") :
          queue' = [queue EXCEPT !["default"] = Append(@, op),
                                 !["output"] = IF finished THEN Append(@, co) ELSE @]
    BY <1>24, <1>k, <1>o, <1>s, <1>t DEF Pool
  <2>2. QueueTypes'
    BY <2>1, <1>t DEF QueueTypes, Streams
  <2> QED BY <1>24, <1>2, <2>2 DEF Pool
<1> QED BY <1>10, <1>11, <1>12, <1>13, <1>14, <1>15, <1>16, <1>17, <1>18, <1>19, <1>20, <1>21,
           <1>22, <1>23, <1>24 DEF Engine, MainThread

-----------------------------------------------------------------------------
(* The streams at work.                                                    *)

\* The operation at the head of the default stream runs: no other of an earlier stage
\* is left, and what memory it takes was garbage.
LEMMA DefaultRuns ==
  ASSUME StreamInv, NEW kind, Runs("default", kind)
  PROVE  LET n == Now("default")
             id == Id(kind, n)
         IN  /\ id \in Waiting /\ n \in 1 .. step /\ kind \in DOMAIN Stage
             /\ id \notin Waiting' /\ Waiting = Waiting' \cup {id} /\ Waiting' \subseteq Ids
             /\ \A a \in Waiting' : Before(id, a)
             /\ InOrder(queue["default"])' /\ QueueTypes' /\ Downloads' = Downloads
             /\ queue'["output"] = queue["output"]
             /\ Garbage' \subseteq Garbage /\ Taken \subseteq Garbage /\ Taken \subseteq Tensors
<1> DEFINE q == queue["default"]
           h == Head(q)
<1>1. /\ q \in Seq(Kernels) /\ q # <<>> /\ DOMAIN queue = Streams
      /\ queue' = [queue EXCEPT !["default"] = Tail(q)] /\ freed' = freed
      /\ h.id[1] = kind /\ InOrder(q) /\ step \in Nat
  BY DEF StreamInv, WorkRight, StreamTypes, QueueTypes, EngineTypes, Runs
<1>2. /\ queue'["default"] = Tail(q) /\ UNCHANGED <<queue["output"], queue["draft"], queue["count"]>>
  BY <1>1 DEF Streams
<1>3. /\ Tail(q) \in Seq(Kernels) /\ h \in Kernels /\ h.id \in IdsOf(q)
      /\ IdsOf(q) = IdsOf(Tail(q)) \cup {h.id}
      /\ h.takes \subseteq TakenBy(q) /\ TakenBy(Tail(q)) \subseteq TakenBy(q)
      /\ InOrder(Tail(q)) /\ \A a \in IdsOf(Tail(q)) : Before(h.id, a)
  BY <1>1, TailIs
<1>4. IdsOf(q) \subseteq Ids
  BY <1>1, IdsIn
<1>5. h.id = Id(kind, Now("default")) /\ kind \in DOMAIN Stage /\ Now("default") \in Nat
  BY <1>1, <1>3, <1>4, IdIs DEF Now
<1>6. Now("default") \in 1 .. step
  BY <1>1, <1>3, <1>5, IdIs DEF StreamInv, WorkRight, NothingAhead, Waiting
<1>7. h.id \notin IdsOf(Tail(q))
  BY <1>3, <1>4, BeforeOrders
<1>8. Waiting = IdsOf(q) /\ Waiting' = IdsOf(Tail(q)) /\ Downloads' = Downloads
  BY <1>2 DEF Waiting, Downloads
<1>9. Garbage' \subseteq Garbage /\ Taken \subseteq Garbage
  BY <1>1, <1>2, <1>3 DEF Garbage, Taken
<1>10. Taken \subseteq Tensors
  BY <1>3 DEF Kernels, Taken
<1>11. InOrder(queue["default"])'
  BY <1>2, <1>3 DEF InOrder
<1>12. QueueTypes'
  BY <1>1, <1>2, <1>3 DEF StreamInv, StreamTypes, QueueTypes
<1> QED BY <1>2, <1>3, <1>4, <1>5, <1>6, <1>7, <1>8, <1>9, <1>10, <1>11, <1>12

\* The tensors left once an operation took its memory.
LEMMA KeptIs ==
  /\ DOMAIN Kept = (DOMAIN mem) \ Taken /\ \A t \in DOMAIN Kept : Kept[t] = mem[t]
  /\ \A x, v : Holding(x, v) = With(Kept, x, v)
BY DEF Kept, Restrict, Holding

\* The tensors keep their types, whatever one operation writes.
LEMMA MemoryTypes ==
  ASSUME StreamInv,
         NEW m, DOMAIN m \subseteq Tensors,
         \A t \in DOMAIN m : /\ t[1] \in {"counts", "tokens"} => m[t] \in Totals
                             /\ t[1] = "drafts" => m[t] \in Nat
                             /\ t[1] = "clones" => m[t] \in Experts,
         mem' = m, dev' \in [inputs : Nat, computed : Totals, experts : Nat, slots : Nat],
         freed' \in SUBSET Tensors
  PROVE  DeviceTypes'
BY DEF DeviceTypes

\* What the default stream does keeps the types.
LEMMA DefaultStreamTypes ==
  ASSUME StreamInv, DefaultStream
  PROVE  EngineTypes' /\ HostTypes' /\ DeviceTypes'
<1> DEFINE Right(m) ==
             \A t \in DOMAIN m : /\ t[1] \in {"counts", "tokens"} => m[t] \in Totals
                                 /\ t[1] = "drafts" => m[t] \in Nat
                                 /\ t[1] = "clones" => m[t] \in Experts
           n == Now("default")
<1>d. /\ dev \in [inputs : Nat, computed : Totals, experts : Nat, slots : Nat]
      /\ freed \in SUBSET Tensors /\ DOMAIN mem \subseteq Tensors /\ Right(mem)
      /\ EngineTypes /\ HostTypes
  BY DEF StreamInv, StreamTypes, DeviceTypes
<1>k. DOMAIN Kept \subseteq Tensors /\ Right(Kept)
  BY <1>d, KeptIs
<1>v. ASSUME NEW k \in {"counts", "drafts", "tokens", "clones"}, NEW i \in Nat, NEW v,
             k \in {"counts", "tokens"} => v \in Totals,
             k = "drafts" => v \in Nat,
             k = "clones" => v \in Experts,
             NEW m, DOMAIN m \subseteq Tensors, Right(m)
      PROVE  DOMAIN With(m, Id(k, i), v) \subseteq Tensors /\ Right(With(m, Id(k, i), v))
  <2>1. Id(k, i) \in Tensors /\ Id(k, i)[1] = k
    BY IdIs DEF Id, Tensors
  <2> DEFINE w == With(m, Id(k, i), v)
  <2>2. /\ DOMAIN w = (DOMAIN m) \cup {Id(k, i)} /\ w[Id(k, i)] = v
        /\ \A t \in DOMAIN m : t # Id(k, i) => w[t] = m[t]
    BY DEF With
  <2> HIDE DEF w
  <2>3. ASSUME NEW t \in DOMAIN w PROVE /\ t[1] \in {"counts", "tokens"} => w[t] \in Totals
                                        /\ t[1] = "drafts" => w[t] \in Nat
                                        /\ t[1] = "clones" => w[t] \in Experts
    <3>1. CASE t = Id(k, i)
      BY <1>v, <2>1, <2>2, <3>1
    <3>2. CASE t # Id(k, i)
      BY <1>v, <2>2, <3>2
    <3> QED BY <3>1, <3>2
  <2>4. DOMAIN w \subseteq Tensors
    BY <1>v, <2>1, <2>2
  <2> QED BY <2>3, <2>4 DEF w
<1>m. \A m : DOMAIN m \subseteq Tensors /\ Right(m) /\ mem' = m /\ freed' = freed
             /\ dev' \in [inputs : Nat, computed : Totals, experts : Nat, slots : Nat]
               => DeviceTypes'
  BY <1>d, MemoryTypes
<1> HIDE DEF Right
<1>c. ASSUME NEW k \in {"counts", "tokens"}, NEW i
      PROVE  Contents(Id(k, i), None) \in Totals
  BY <1>d, Empties, IdIs DEF Contents, Right
<1>r. ASSUME NEW kind, Runs("default", kind)
      PROVE  /\ n \in 1 .. step /\ n \in DOMAIN info /\ info[n] \in Infos
             /\ UNCHANGED <<mode, pc, step, sched, taken, worker, freed>>
  <2>1. n \in 1 .. step
    BY <1>r, DefaultRuns
  <2>2. n \in DOMAIN info /\ info[n] \in Infos
    BY <1>d, <2>1, ElementOfSeq DEF EngineTypes
  <2> QED BY <1>r, <2>1, <2>2 DEF Runs
<1>e. ASSUME UNCHANGED <<mode, pc, step, sched, taken, info, pending>> PROVE EngineTypes'
  BY <1>d, <1>e DEF EngineTypes
<1>h. ASSUME UNCHANGED <<host, worker>> PROVE HostTypes'
  BY <1>d, <1>h DEF HostTypes
<1>1. ASSUME RunUpload PROVE EngineTypes' /\ HostTypes' /\ DeviceTypes'
  <2>1. n \in Nat /\ host.inputs \in Nat /\ host.computed \in Totals /\ dev.computed \in Totals
    BY <1>d, <1>r, <1>1 DEF RunUpload, HostTypes, EngineTypes
  <2>2. PICK valid \in Totals :
          dev' = [dev EXCEPT !.inputs = host.inputs, !.slots = n, !.experts = 0,
                    !.computed = [r \in Req |->
                      IF r \in info[n].part THEN @[r] + valid[r]
                      ELSE IF r \in info[n].batch THEN host.computed[r] ELSE @[r]]]
    BY <1>1, <1>c DEF RunUpload
  <2>3. [r \in Req |-> IF r \in info[n].part THEN dev.computed[r] + valid[r]
                       ELSE IF r \in info[n].batch THEN host.computed[r] ELSE dev.computed[r]]
          \in Totals
    BY <2>1 DEF Totals
  <2>4. PICK computed \in Totals :
          dev' = [dev EXCEPT !.inputs = host.inputs, !.slots = n, !.experts = 0,
                    !.computed = computed]
    BY <2>2, <2>3
  <2>5. dev' \in [inputs : Nat, computed : Totals, experts : Nat, slots : Nat]
    BY <1>d, <2>1, <2>4
  <2> QED BY <1>1, <1>e, <1>h, <1>k, <1>m, <1>r, <2>5 DEF RunUpload
<1>2. ASSUME RunForward PROVE EngineTypes' /\ HostTypes' /\ DeviceTypes'
  <2>1. n \in Nat /\ dev' = [dev EXCEPT !.experts = n]
    BY <1>r, <1>d, <1>2 DEF RunForward, EngineTypes
  <2>2. dev' \in [inputs : Nat, computed : Totals, experts : Nat, slots : Nat]
    BY <1>d, <2>1
  <2> QED BY <1>2, <1>e, <1>h, <1>k, <1>m, <1>r, <2>2 DEF RunForward
<1>3. ASSUME NEW acc \in DraftCounts, RunSample(acc) PROVE EngineTypes' /\ HostTypes' /\ DeviceTypes'
  <2>1. acc \in Totals /\ [r \in Req |-> acc[r] + 1] \in Totals
    BY StreamsAssumption DEF DraftCounts, Totals
  <2>2. n \in DOMAIN info /\ info[n] \in Infos /\ n \in Nat
        /\ UNCHANGED <<mode, pc, step, sched, taken, worker, freed, host, dev, pending>>
    BY <1>r, <1>d, <1>3 DEF RunSample, EngineTypes
  <2>3. info' = [info EXCEPT ![n] = [info[n] EXCEPT !.acc = acc]]
    BY <1>3 DEF RunSample
  <2>4. [info[n] EXCEPT !.acc = acc] \in Infos
    BY <2>1, <2>2 DEF Infos
  <2>5. info' \in Seq(Infos) /\ Len(info') = Len(info)
    BY <1>d, <2>2, <2>3, <2>4, ExceptSeq DEF EngineTypes
  <2>6. EngineTypes'
    BY <1>d, <2>2, <2>5 DEF EngineTypes
  <2>7. PICK m1 : /\ m1 = With(Kept, Id("counts", n), [r \in Req |-> acc[r] + 1])
                  /\ DOMAIN m1 \subseteq Tensors /\ Right(m1)
    BY <1>k, <1>v, <2>1, <2>2
  <2>8. mem' = With(m1, Id("tokens", n), acc)
    BY <1>3, <2>7, KeptIs DEF RunSample
  <2>9. DOMAIN mem' \subseteq Tensors /\ Right(mem')
    BY <1>v, <2>1, <2>2, <2>7, <2>8
  <2>10. DeviceTypes'
    BY <1>d, <1>m, <2>2, <2>9
  <2> QED BY <1>h, <2>2, <2>6, <2>10
<1>4. ASSUME RunDraft PROVE EngineTypes' /\ HostTypes' /\ DeviceTypes'
  <2>1. n \in Nat /\ mem' = With(Kept, Id("drafts", n), n)
    BY <1>r, <1>d, <1>4, KeptIs DEF RunDraft, EngineTypes
  <2>2. DOMAIN mem' \subseteq Tensors /\ Right(mem')
    BY <1>k, <1>v, <2>1
  <2> QED BY <1>d, <1>4, <1>e, <1>h, <1>m, <1>r, <2>2 DEF RunDraft
<1>5. ASSUME RunClone PROVE EngineTypes' /\ HostTypes' /\ DeviceTypes'
  <2>1. n \in Nat
        /\ mem' = With(Kept, Id("clones", n), [routing |-> dev.experts, slots |-> dev.slots])
    BY <1>r, <1>d, <1>5, KeptIs DEF RunClone, EngineTypes
  <2>2. [routing |-> dev.experts, slots |-> dev.slots] \in Experts
    BY <1>d DEF Experts
  <2>3. DOMAIN mem' \subseteq Tensors /\ Right(mem')
    BY <1>k, <1>v, <2>1, <2>2
  <2> QED BY <1>d, <1>5, <1>e, <1>h, <1>m, <1>r, <2>3 DEF RunClone
<1>6. ASSUME RunPooler PROVE EngineTypes' /\ HostTypes' /\ DeviceTypes'
  <2>1. n \in Nat /\ mem' = With(Kept, Id("tokens", n), None)
    BY <1>r, <1>d, <1>6, KeptIs DEF RunPooler, EngineTypes
  <2>2. DOMAIN mem' \subseteq Tensors /\ Right(mem')
    BY <1>k, <1>v, <2>1, Empties
  <2> QED BY <1>d, <1>6, <1>e, <1>h, <1>m, <1>r, <2>2 DEF RunPooler
<1>7. ASSUME DownloadExperts PROVE EngineTypes' /\ HostTypes' /\ DeviceTypes'
  <2>1. [routing |-> dev.experts, slots |-> dev.slots] \in Experts
    BY <1>d DEF Experts
  <2>2. host' = [host EXCEPT !.experts = [routing |-> dev.experts, slots |-> dev.slots]]
        /\ worker' = worker
    BY <1>7, <1>r DEF DownloadExperts
  <2>3. HostTypes'
    BY <1>d, <2>1, <2>2 DEF HostTypes
  <2> QED BY <1>d, <1>7, <1>e, <1>m, <1>r, <2>3 DEF DownloadExperts
<1>8. ASSUME DownloadToList PROVE EngineTypes' /\ HostTypes' /\ DeviceTypes'
  <2>1. Contents(Id("tokens", n), None) \in Totals
    BY <1>c
  <2>2. host' = [host EXCEPT !.tokens = Contents(Id("tokens", n), None)] /\ worker' = worker
    BY <1>8, <1>r DEF DownloadToList
  <2>3. HostTypes'
    BY <1>d, <2>1, <2>2 DEF HostTypes
  <2> QED BY <1>d, <1>8, <1>e, <1>m, <1>r, <2>3 DEF DownloadToList
<1> QED BY <1>1, <1>2, <1>3, <1>4, <1>5, <1>6, <1>7, <1>8 DEF DefaultStream

\* The other threads and streams keep the types.
LEMMA OtherTypes ==
  ASSUME StreamInv,
         TakeDrafts \/ OutputThread \/ DownloadOutput \/ DownloadDrafts \/ DownloadCounts
  PROVE  EngineTypes' /\ HostTypes' /\ QueueTypes' /\ DeviceTypes'
<1>t. EngineTypes /\ HostTypes /\ QueueTypes /\ DeviceTypes
  BY DEF StreamInv, StreamTypes
<1>c. /\ \A t : Contents(t, None) \in Totals \/ t[1] \notin {"counts", "tokens"}
      /\ \A t : Contents(t, 0) \in Nat \/ t[1] # "drafts"
      /\ \A t : Contents(t, LostExperts) \in Experts \/ t[1] # "clones"
  BY <1>t, Empties DEF Contents, DeviceTypes
<1>q. ASSUME NEW s \in {"output", "draft", "count"}, NEW kind, Runs(s, kind)
      PROVE  /\ QueueTypes' /\ Now(s) \in Nat
             /\ UNCHANGED <<mode, pc, step, sched, taken, worker, freed>>
  <2> DEFINE T == CASE s = "output" -> Copies("output") [] s = "draft" -> Copies("drafts")
                    [] s = "count" -> Copies("count")
  <2>1. queue[s] \in Seq(T) /\ queue[s] # <<>> /\ queue' = [queue EXCEPT ![s] = Tail(queue[s])]
    BY <1>t, <1>q DEF QueueTypes, Runs
  <2>2. Tail(queue[s]) \in Seq(T) /\ Head(queue[s]) \in T
    <3> HIDE DEF T
    <3> QED BY <2>1, TailIs
  <2>3. Now(s) \in Nat
    BY <2>2 DEF Copies, Now
  <2>4. QueueTypes'
    BY <1>t, <2>1, <2>2 DEF QueueTypes, Streams
  <2> QED BY <1>q, <2>3, <2>4 DEF Runs
<1>1. ASSUME TakeDrafts PROVE EngineTypes' /\ HostTypes' /\ QueueTypes' /\ DeviceTypes'
  <2>1. /\ UNCHANGED <<mode, pc, step, info, engine, host, gpu>>
        /\ worker' = worker \/ worker' = [worker EXCEPT !.drafts = NoDrafts]
    BY <1>1 DEF TakeDrafts
  <2>2. HostTypes'
    BY <1>t, <2>1, Empties DEF HostTypes
  <2> QED BY <1>t, <2>1, <2>2 DEF EngineTypes, QueueTypes, DeviceTypes, engine, gpu
<1>2. ASSUME NEW i \in DOMAIN pending, GetOutput(i)
      PROVE  EngineTypes' /\ HostTypes' /\ QueueTypes' /\ DeviceTypes'
  <2>1. pending[i] \in Outs
    BY <1>t, ElementOfSeq DEF EngineTypes
  <2>2. [pending[i] EXCEPT !.state = "got"] \in Outs
    BY <2>1 DEF Outs
  <2>3. pending' = [pending EXCEPT ![i] = [pending[i] EXCEPT !.state = "got"]]
    BY <1>2 DEF GetOutput
  <2>4. pending' \in Seq(Outs)
    BY <1>t, <2>2, <2>3, ExceptSeq DEF EngineTypes
  <2>5. {Id("tokens", pending[i].n), Id("clones", pending[i].n)} \subseteq Tensors
    BY <2>1 DEF Outs, Tensors, Id
  <2> QED BY <1>t, <1>2, <2>4, <2>5
          DEF GetOutput, EngineTypes, HostTypes, QueueTypes, DeviceTypes
<1>3. ASSUME DownloadOutput PROVE EngineTypes' /\ HostTypes' /\ QueueTypes' /\ DeviceTypes'
  <2> DEFINE n == Now("output")
  <2>1. /\ QueueTypes' /\ UNCHANGED <<mode, pc, step, sched, taken, worker, freed>>
        /\ UNCHANGED <<info, host, dev, mem>>
    BY <1>3, <1>q DEF DownloadOutput
  <2>2. Contents(Id("tokens", n), None) \in Totals /\ Contents(Id("clones", n), LostExperts) \in Experts
    BY <1>c, IdIs
  <2>3. PICK tokens \in Totals, experts \in Experts :
          pending' = [i \in DOMAIN pending |->
            IF pending[i].n = n THEN [pending[i] EXCEPT !.tokens = tokens, !.experts = experts]
            ELSE pending[i]]
    BY <1>3, <2>2 DEF DownloadOutput
  <2>4. \A i \in DOMAIN pending : pending[i] \in Outs
    BY <1>t, ElementOfSeq DEF EngineTypes
  <2>5. \A i \in DOMAIN pending : pending'[i] \in Outs
    <3> TAKE i \in DOMAIN pending
    <3>1. [pending[i] EXCEPT !.tokens = tokens, !.experts = experts] \in Outs
      BY <2>3, <2>4 DEF Outs
    <3> QED BY <2>3, <2>4, <3>1
  <2>6. pending \in Seq(Outs) /\ DOMAIN pending = 1 .. Len(pending) /\ Len(pending) \in Nat
    BY <1>t DEF EngineTypes
  <2>7. pending' \in [1 .. Len(pending) -> Outs]
    BY <2>3, <2>5, <2>6
  <2>8. pending' \in Seq(Outs)
    BY <2>6, <2>7
  <2> QED BY <1>t, <2>1, <2>8 DEF EngineTypes, HostTypes, DeviceTypes
<1>4. ASSUME DownloadDrafts PROVE EngineTypes' /\ HostTypes' /\ QueueTypes' /\ DeviceTypes'
  <2>1. /\ QueueTypes' /\ UNCHANGED <<mode, pc, step, sched, taken, worker, freed>>
        /\ UNCHANGED <<info, pending, dev, mem>>
        /\ host' = [host EXCEPT !.drafts = Contents(Id("drafts", Now("draft")), 0)]
    BY <1>4, <1>q DEF DownloadDrafts
  <2>2. Contents(Id("drafts", Now("draft")), 0) \in Nat
    BY <1>c, IdIs
  <2>3. HostTypes'
    BY <1>t, <2>1, <2>2 DEF HostTypes
  <2> QED BY <1>t, <2>1, <2>3 DEF EngineTypes, DeviceTypes
<1>5. ASSUME DownloadCounts PROVE EngineTypes' /\ HostTypes' /\ QueueTypes' /\ DeviceTypes'
  <2>1. /\ QueueTypes' /\ UNCHANGED <<mode, pc, step, sched, taken, worker, freed>>
        /\ UNCHANGED <<info, pending, dev, mem>>
        /\ host' = [host EXCEPT !.counts = Contents(Id("counts", Now("count")), None)]
    BY <1>5, <1>q DEF DownloadCounts
  <2>2. Contents(Id("counts", Now("count")), None) \in Totals
    BY <1>c, IdIs
  <2>3. HostTypes'
    BY <1>t, <2>1, <2>2 DEF HostTypes
  <2> QED BY <1>t, <2>1, <2>3 DEF EngineTypes, DeviceTypes
<1> QED BY <1>1, <1>2, <1>3, <1>4, <1>5 DEF OutputThread

\* Every step keeps the types.
LEMMA TypesHold ==
  ASSUME StreamInv, [Next]_vars
  PROVE  StreamTypes'
<1>1. CASE Engine
  BY <1>1, EngineActionTypes, EnqueuedTypes DEF StreamTypes
<1>2. CASE MainThread
  BY <1>2, MainThreadTypes, EnqueuedTypes DEF StreamTypes
<1>3. CASE TakeDrafts \/ OutputThread \/ DownloadOutput \/ DownloadDrafts \/ DownloadCounts
  BY <1>3, OtherTypes DEF StreamTypes
<1>4. CASE DefaultStream
  <2>1. \E kind : Runs("default", kind)
    BY <1>4 DEF DefaultStream, RunUpload, RunForward, RunSample, RunDraft, RunClone, RunPooler,
                DownloadExperts, DownloadToList
  <2>2. QueueTypes'
    BY <2>1, DefaultRuns
  <2> QED BY <1>4, <2>2, DefaultStreamTypes DEF StreamTypes
<1>5. CASE UNCHANGED vars
  BY <1>5 DEF StreamInv, StreamTypes, EngineTypes, HostTypes, QueueTypes, DeviceTypes, vars,
              engine, gpu
<1> QED BY <1>1, <1>2, <1>3, <1>4, <1>5 DEF Next

-----------------------------------------------------------------------------
(* Steps that enqueue nothing on the default stream and run nothing of it. *)

\* The main thread goes on, with nothing for the default stream to do.
GoesOn ==
  \/ pc' = pc \/ pc' = "idle"
  \/ pc = "correct" /\ pc' = "sample"
  \/ pc \in {"propose", "drafted"} /\ pc' = "book"

\* The types in use below.
LEMMA Typed ==
  ASSUME StreamInv
  PROVE  /\ step \in Nat /\ Waiting \subseteq Ids
         /\ \A i \in DOMAIN pending : pending[i] \in Outs
  BY IdsIn, ElementOfSeq DEF StreamInv, StreamTypes, QueueTypes, EngineTypes, Waiting

\* An output stays right while nothing of its step changes.
LEMMA OutputStays ==
  ASSUME StreamInv, NEW o, OutputRight(o), mode' = mode, step' >= step, step' \in Nat,
         pc' # "idle" => o.n < step',
         Id("sample", o.n) \in Waiting' => Id("sample", o.n) \in Waiting,
         Gone(o.n) => Gone(o.n)',
         Id("output", o.n) \in Downloads => Id("output", o.n) \in Downloads',
         info'[o.n].acc = info[o.n].acc, info'[o.n].batch = info[o.n].batch
  PROVE  OutputRight(o)'
<1>1. step \in Nat
  BY Typed
<1>2. o.n \in 1 .. step'
  BY <1>1 DEF OutputRight
<1>3. Complete(o) => Complete(o)'
  BY DEF Complete
<1> QED BY <1>2, <1>3 DEF OutputRight

\* Such a step leaves the operations and their tensors as they were.
LEMMA QuietStep ==
  ASSUME StreamInv, GoesOn,
         UNCHANGED <<mode, step, queue["default"], dev, mem>>, Downloads' \subseteq Downloads,
         queue'["output"] = queue["output"] \/ AfterLast', freed' = freed \/ FreedLate',
         host'.tokens = host.tokens, host'.experts = host.experts,
         \A n \in 1 .. step : info'[n].acc = info[n].acc /\ info'[n].batch = info[n].batch,
         pc' # "idle" => worker'.rows = worker.rows
  PROVE  /\ WorkRight'
         /\ \A o \in Outs :
              OutputRight(o) /\ (Id("output", o.n) \in Downloads => Id("output", o.n) \in Downloads')
                => OutputRight(o)'
<1>1. Waiting' = Waiting
  BY DEF Waiting
<1>2. /\ pc' # "idle" => pc # "idle"
      /\ pc' = "launch" => pc = "launch"
      /\ pc' = "wait" => pc = "wait"
      /\ pc' \in Sampling \ {"wait"} => pc \in Sampling \ {"wait"}
      /\ pc' \in {"propose", "drafted", "book"} => pc \in {"propose", "drafted", "book"}
      /\ pc' = "pool" => pc = "pool"
      /\ pc' = "prepare" => pc = "prepare"
      /\ pc' \notin {"idle", "prepare"} => pc \notin {"idle", "prepare"}
  BY DEF GoesOn, Sampling
<1>3. Enqueued \in Nat /\ Enqueued' \in Nat /\ Enqueued <= Enqueued'
  BY DEF GoesOn, Enqueued
<1>4. step \in Nat /\ Waiting \subseteq Ids
  BY Typed
<1>5. WorkRight
  BY DEF StreamInv
<1>6. InOrder(queue["default"])'
  BY <1>5 DEF WorkRight
<1>7. NothingAhead'
  <2> SUFFICES ASSUME NEW a \in Waiting
               PROVE  0 < a[2] /\ (a[2] < step \/ (a[2] = step /\ Stage[a[1]] <= Enqueued'))
    BY <1>1 DEF NothingAhead
  <2>1. Stage[a[1]] \in Nat
    BY <1>4, IdIs, Stages
  <2> QED BY <1>3, <1>5, <2>1 DEF WorkRight, NothingAhead
<1>8. /\ \A n, s : Past(n, s)' <=> Past(n, s)
      /\ \A n : Gone(n)' <=> Gone(n)
      /\ \A t, v : Holds(t, v)' <=> Holds(t, v)
  BY <1>1 DEF Past, Gone, Holds
<1>9. StepsRight'
  <2> SUFFICES ASSUME NEW n \in 1 .. step
               PROVE  SlotsOf(n)' /\ ExpertsOf(n)' /\ TokensOf(n)' /\ ClonesOf(n)'
    BY DEF StepsRight
  <2>1. SlotsOf(n) /\ ExpertsOf(n) /\ TokensOf(n) /\ ClonesOf(n)
    BY <1>5 DEF WorkRight, StepsRight
  <2>2. SlotsOf(n)'
    BY <1>1, <1>2, <1>8, <2>1 DEF SlotsOf, At
  <2>3. ExpertsOf(n)'
    BY <1>1, <1>2, <1>8, <2>1 DEF ExpertsOf, At
  <2>4. TokensOf(n)'
    BY <1>1, <1>2, <1>8, <2>1 DEF TokensOf, At, Holds
  <2>5. ClonesOf(n)'
    BY <1>1, <1>2, <1>8, <2>1 DEF ClonesOf, Holds, Own
  <2> QED BY <2>2, <2>3, <2>4, <2>5
<1>10. AfterLast'
  <2>1. CASE queue'["output"] = queue["output"]
    BY <1>1, <1>2, <1>5, <1>8, <2>1 DEF WorkRight, AfterLast
  <2> QED BY <2>1
<1>11. FreedLate'
  <2>1. CASE freed' = freed
    <3>1. Garbage' = Garbage
      BY <2>1 DEF Garbage
    <3> QED BY <1>1, <1>2, <1>5, <1>8, <3>1 DEF WorkRight, FreedLate
  <2> QED BY <2>1
<1>12. OnHost'
  <2>1. CASE pc' = "wait"
    <3>1. step \in 1 .. step
      BY <1>2, <1>4, <2>1 DEF StreamInv, StreamTypes, EngineTypes
    <3> QED BY <1>1, <1>2, <1>5, <1>8, <2>1, <3>1 DEF WorkRight, OnHost, Own
  <2> QED BY <2>1 DEF OnHost
<1>13. PoolingOnly'
  BY <1>1, <1>2, <1>5 DEF WorkRight, PoolingOnly, Sampling
<1>14. RowsOfStep'
  <2>1. pc' \notin {"idle", "prepare"} => step \in 1 .. step
    BY <1>2, <1>4 DEF StreamInv, StreamTypes, EngineTypes
  <2> QED BY <1>2, <1>5, <2>1 DEF WorkRight, RowsOfStep
<1>15. ASSUME NEW o \in Outs, OutputRight(o),
              Id("output", o.n) \in Downloads => Id("output", o.n) \in Downloads'
       PROVE  OutputRight(o)'
  <2>1. o.n \in 1 .. step
    BY <1>15 DEF OutputRight
  <2>2. pc' # "idle" => o.n < step'
    BY <1>2, <1>15 DEF OutputRight
  <2> QED BY <1>1, <1>4, <1>8, <1>15, <2>1, <2>2, OutputStays
<1> QED BY <1>6, <1>7, <1>9, <1>10, <1>11, <1>12, <1>13, <1>14, <1>15 DEF WorkRight

\* In particular where nothing is freed and no output copied.
LEMMA StillStep ==
  ASSUME StreamInv, GoesOn,
         UNCHANGED <<mode, step, queue["default"], queue["output"], dev, mem, freed>>,
         host'.tokens = host.tokens, host'.experts = host.experts,
         \A n \in 1 .. step : info'[n].acc = info[n].acc /\ info'[n].batch = info[n].batch,
         pc' # "idle" => worker'.rows = worker.rows
  PROVE  WorkRight' /\ \A o \in Outs : OutputRight(o) => OutputRight(o)'
<1>1. Downloads' = Downloads
  BY DEF Downloads
<1>2. /\ WorkRight'
      /\ \A o \in Outs :
           OutputRight(o) /\ (Id("output", o.n) \in Downloads => Id("output", o.n) \in Downloads')
             => OutputRight(o)'
  <2>1. Downloads' \subseteq Downloads
    BY <1>1
  <2> QED BY <2>1, QuietStep
<1> QED BY <1>1, <1>2

\* The outputs stay right where each of them does.
LEMMA OutputsKept ==
  ASSUME StreamInv, \A o \in Outs : OutputRight(o) => OutputRight(o)', UNCHANGED <<taken, pending>>
  PROVE  PendingRight' /\ TakenRight'
<1>1. taken \in Outs /\ \A i \in DOMAIN pending : pending[i] \in Outs
  BY Typed DEF StreamInv, StreamTypes, EngineTypes
<1>2. PendingRight'
  <2> SUFFICES ASSUME NEW i \in DOMAIN pending
               PROVE  OutputRight(pending[i])' /\ pending[i].state # "none"
    BY DEF PendingRight
  <2> DEFINE o == pending[i]
  <2>1. OutputRight(o) /\ o \in Outs /\ o.state # "none"
    BY <1>1 DEF StreamInv, PendingRight
  <2>2. PICK p : p = pending[i]
    OBVIOUS
  <2>3. OutputRight(p)'
    BY <2>1, <2>2
  <2> QED BY <2>1, <2>2, <2>3 DEF OutputRight, Complete, Own, Gone
<1>3. TakenRight'
  <2> SUFFICES ASSUME taken.n > 0 PROVE OutputRight(taken)' /\ taken.state = "got"
    BY DEF TakenRight
  <2>1. OutputRight(taken) /\ taken.state = "got"
    BY DEF StreamInv, TakenRight
  <2>2. PICK p : p = taken
    OBVIOUS
  <2>3. OutputRight(p)'
    BY <1>1, <2>1, <2>2
  <2> QED BY <2>1, <2>2, <2>3 DEF OutputRight, Complete, Own, Gone
<1> QED BY <1>2, <1>3

\* And where one more is sent that is right.
LEMMA OutputSent ==
  ASSUME StreamInv, \A o \in Outs : OutputRight(o) => OutputRight(o)', taken' = taken,
         NEW new \in Outs, pending' = Append(pending, new), OutputRight(new)', new.state # "none"
  PROVE  PendingRight' /\ TakenRight'
<1>1. /\ pending \in Seq(Outs) /\ taken \in Outs
      /\ \A i \in DOMAIN pending : pending[i] \in Outs
  BY Typed DEF StreamInv, StreamTypes, EngineTypes
<1>2. /\ DOMAIN pending' = (DOMAIN pending) \cup {Len(pending) + 1}
      /\ pending'[Len(pending) + 1] = new /\ \A i \in DOMAIN pending : pending'[i] = pending[i]
  BY <1>1, AppendProperties
<1>3. PendingRight'
  <2> SUFFICES ASSUME NEW i \in DOMAIN pending'
               PROVE  OutputRight(pending[i])' /\ pending'[i].state # "none"
    BY DEF PendingRight
  <2>1. PICK p : p = pending'[i]
    OBVIOUS
  <2>2. OutputRight(p)' /\ p.state # "none"
    <3>1. CASE i \in DOMAIN pending
      BY <1>1, <1>2, <2>1, <3>1 DEF StreamInv, PendingRight
    <3>2. CASE i = Len(pending) + 1
      BY <1>2, <2>1, <3>2
    <3> QED BY <1>2, <3>1, <3>2
  <2> QED BY <2>1, <2>2 DEF OutputRight, Complete, Own, Gone
<1>4. TakenRight'
  <2> SUFFICES ASSUME taken.n > 0 PROVE OutputRight(taken)' /\ taken.state = "got"
    BY DEF TakenRight
  <2>1. OutputRight(taken) /\ taken.state = "got"
    BY DEF StreamInv, TakenRight
  <2>2. PICK p : p = taken
    OBVIOUS
  <2>3. OutputRight(p)'
    BY <1>1, <2>1, <2>2
  <2> QED BY <2>1, <2>2, <2>3 DEF OutputRight, Complete, Own, Gone
<1> QED BY <1>3, <1>4

\* The engine takes an output, the host reads drafts and counts.
LEMMA QuietKeeps ==
  ASSUME StreamInv, StreamTypes',
         \/ TakeOutput \/ CorrectCounts \/ TakeDrafts \/ DownloadDrafts \/ DownloadCounts
         \/ \E wanted \in BOOLEAN : CopyDrafts(wanted) \/ ZeroDrafts(wanted)
  PROVE  StreamInv'
<1>t. /\ DOMAIN queue = Streams
      /\ host \in [inputs : Nat, computed : Totals, counts : Totals, drafts : Nat,
                   tokens : Totals, experts : Experts]
      /\ worker \in [rows : SUBSET Req, drafted : Totals, prevRows : SUBSET Req, counts : Nat,
                     tensor : Nat, drafts : [of : Nat, zero : BOOLEAN]]
  BY DEF StreamInv, StreamTypes, QueueTypes, HostTypes
<1> DEFINE Quiet ==
      /\ UNCHANGED <<mode, step, queue["default"], queue["output"], dev, mem, freed, info>>
      /\ host'.tokens = host.tokens /\ host'.experts = host.experts
      /\ GoesOn /\ worker'.rows = worker.rows
<1>1. ASSUME TakeOutput PROVE StreamInv'
  <2>1. Quiet
    BY <1>1 DEF TakeOutput, gpu, GoesOn
  <2>2. WorkRight' /\ \A o \in Outs : OutputRight(o) => OutputRight(o)'
    BY <2>1, StillStep
  <2>3. /\ pending \in Seq(Outs) /\ pending # <<>> /\ Head(pending).state = "got"
        /\ taken' = Head(pending) /\ pending' = Tail(pending)
    BY <1>1 DEF TakeOutput, StreamInv, StreamTypes, EngineTypes
  <2>4. /\ Head(pending) \in Outs /\ 1 \in DOMAIN pending /\ Head(pending) = pending[1]
        /\ \A i \in DOMAIN pending' : i + 1 \in DOMAIN pending /\ pending'[i] = pending[i + 1]
    BY <2>3, TailIs
  <2>5. \A i \in DOMAIN pending : OutputRight(pending[i]) /\ pending[i].state # "none"
    BY DEF StreamInv, PendingRight
  <2>6. TakenRight'
    <3>1. PICK p : p = Head(pending)
      OBVIOUS
    <3>2. OutputRight(p)' /\ p.state = "got"
      BY <2>2, <2>3, <2>4, <2>5, <3>1
    <3> QED BY <2>3, <3>1, <3>2 DEF TakenRight, OutputRight, Complete, Own, Gone
  <2>7. PendingRight'
    <3> SUFFICES ASSUME NEW i \in DOMAIN pending'
                 PROVE  OutputRight(pending[i])' /\ pending'[i].state # "none"
      BY DEF PendingRight
    <3>1. PICK p : p = pending'[i]
      OBVIOUS
    <3>2. p \in Outs /\ OutputRight(p) /\ p.state # "none"
      BY <2>4, <2>5, <3>1, Typed
    <3>3. OutputRight(p)'
      BY <2>2, <3>2
    <3> QED BY <3>1, <3>2, <3>3 DEF OutputRight, Complete, Own, Gone
  <2> QED BY <2>2, <2>6, <2>7 DEF StreamInv
<1>q. ASSUME Quiet, UNCHANGED <<taken, pending>> PROVE StreamInv'
  <2>1. WorkRight' /\ \A o \in Outs : OutputRight(o) => OutputRight(o)'
    BY <1>q, StillStep
  <2> QED BY <1>q, <2>1, OutputsKept DEF StreamInv
<1>2. ASSUME CorrectCounts PROVE Quiet /\ UNCHANGED <<taken, pending>>
  BY <1>2, <1>t DEF CorrectCounts, gpu, engine, GoesOn
<1>3. ASSUME TakeDrafts PROVE Quiet /\ UNCHANGED <<taken, pending>>
  BY <1>3, <1>t DEF TakeDrafts, gpu, engine, GoesOn
<1>r. ASSUME NEW s \in {"draft", "count"}, NEW kind, Runs(s, kind)
      PROVE  UNCHANGED <<mode, pc, step, worker, taken, freed, queue["default"], queue["output"]>>
  BY <1>r, <1>t DEF Runs, Streams
<1>4. ASSUME DownloadDrafts PROVE Quiet /\ UNCHANGED <<taken, pending>>
  BY <1>4, <1>t, <1>r DEF DownloadDrafts, GoesOn
<1>5. ASSUME DownloadCounts PROVE Quiet /\ UNCHANGED <<taken, pending>>
  BY <1>5, <1>t, <1>r DEF DownloadCounts, GoesOn
<1>6. ASSUME NEW wanted, CopyDrafts(wanted) PROVE Quiet /\ UNCHANGED <<taken, pending>>
  BY <1>6, <1>t DEF CopyDrafts, Enqueue, engine, GoesOn, Streams
<1>7. ASSUME NEW wanted, ZeroDrafts(wanted) PROVE Quiet /\ UNCHANGED <<taken, pending>>
  BY <1>7, <1>t DEF ZeroDrafts, engine, GoesOn, Streams
<1> QED BY <1>1, <1>q, <1>2, <1>3, <1>4, <1>5, <1>6, <1>7

\* The main thread answers: an empty step at once, a synchronous one when the last of
\* its downloads is done.
LEMMA AnswersKeep ==
  ASSUME StreamInv, StreamTypes', AnswerEmpty \/ ReturnTokens
  PROVE  StreamInv'
<1> DEFINE new == [Nothing EXCEPT !.n = step, !.state = "got"]
           out == [n |-> step, state |-> "got", reqs |-> worker.rows, tokens |-> host.tokens,
                   experts |-> host.experts]
<1>t. /\ step \in Nat /\ (pc # "idle" => step \in 1 .. step)
      /\ worker.rows \in SUBSET Req /\ host.tokens \in Totals /\ host.experts \in Experts
  BY DEF StreamInv, StreamTypes, EngineTypes, HostTypes
<1>1. /\ WorkRight' /\ \A o \in Outs : OutputRight(o) => OutputRight(o)'
      /\ UNCHANGED <<mode, step, info, queue, taken>> /\ pc' = "idle"
  <2>1. /\ UNCHANGED <<mode, step, info, queue, dev, mem, freed, host, taken>>
        /\ pc' = "idle" /\ GoesOn
    BY DEF AnswerEmpty, ReturnTokens, gpu, GoesOn
  <2> QED BY <2>1, StillStep
<1>2. Waiting' = Waiting
  BY <1>1 DEF Waiting
<1>3. WorkRight
  BY DEF StreamInv
<1>4. CASE AnswerEmpty
  <2>1. pc = "prepare" /\ info[step].batch = {} /\ pending' = Append(pending, new)
    BY <1>4 DEF AnswerEmpty, This
  <2>2. new \in Outs /\ new.n = step /\ new.reqs = {} /\ new.state = "got"
    BY <1>t, Empties DEF Outs, Nothing
  <2>3. Id("sample", step) \notin Waiting
    <3>1. Enqueued = 0
      BY <2>1 DEF Enqueued
    <3> QED BY <1>3, <1>t, <3>1, IdIs, Stages DEF WorkRight, NothingAhead
  <2> HIDE DEF new
  <2>4. PICK p : p = new
    OBVIOUS
  <2>5. OutputRight(p)'
    BY <1>t, <1>1, <1>2, <2>1, <2>2, <2>3, <2>4 DEF OutputRight, Complete
  <2>6. PendingRight' /\ TakenRight'
    BY <1>1, <2>1, <2>2, <2>4, <2>5, OutputSent
  <2> QED BY <1>1, <2>6 DEF StreamInv
<1>5. CASE ReturnTokens
  <2>1. /\ pc = "wait" /\ pending' = Append(pending, out)
        /\ IsDone("default", Id("tokens", step))
    BY <1>5 DEF ReturnTokens
  <2>2. Id("tokens", step) \notin Waiting
    BY <2>1 DEF IsDone, Waiting, IdsOf
  <2>3. host.tokens = info[step].acc /\ Gone(step)
    BY <1>3, <2>1, <2>2 DEF WorkRight, OnHost
  <2>4. \A k : Id(k, step) \notin Waiting
    BY <1>t, <2>3, IdIs DEF Gone
  <2>5. host.experts = Own(step)
    BY <1>3, <2>1, <2>4 DEF WorkRight, OnHost
  <2>6. worker.rows = info[step].batch
    BY <1>3, <2>1 DEF WorkRight, RowsOfStep
  <2>7. /\ out \in Outs /\ out.n = step /\ out.reqs = info[step].batch /\ out.state = "got"
        /\ out.tokens = info[step].acc /\ out.experts = Own(step)
    BY <1>t, <2>3, <2>5, <2>6 DEF Outs
  <2> HIDE DEF out
  <2>8. PICK p : p = out
    OBVIOUS
  <2>9. OutputRight(p)'
    BY <1>t, <1>1, <1>2, <2>1, <2>4, <2>7, <2>8 DEF OutputRight, Complete, Own
  <2>10. PendingRight' /\ TakenRight'
    BY <1>1, <2>1, <2>7, <2>8, <2>9, OutputSent
  <2> QED BY <1>1, <2>10 DEF StreamInv
<1> QED BY <1>4, <1>5

\* The output thread hands an output on when its copy is there, and drops its tensors.
LEMMA GetOutputKeeps ==
  ASSUME StreamInv, StreamTypes', NEW i \in DOMAIN pending, GetOutput(i)
  PROVE  StreamInv'
<1>1. PICK o : o = pending[i]
  OBVIOUS
<1>2. /\ o \in Outs /\ OutputRight(o) /\ o.state = "copying" /\ IsDone("output", Id("output", o.n))
      /\ pending' = [pending EXCEPT ![i] = [o EXCEPT !.state = "got"]]
      /\ freed' = freed \cup {Id("tokens", o.n), Id("clones", o.n)}
      /\ UNCHANGED <<mode, pc, step, info, taken, host, worker, queue, dev, mem>>
  BY <1>1, Typed DEF GetOutput, StreamInv, PendingRight
<1>3. Id("output", o.n) \notin Downloads
  BY <1>2 DEF IsDone, Downloads, IdsOf
<1>4. o.n \in 1 .. step /\ (pc # "idle" => o.n < step) /\ Complete(o) /\ Gone(o.n)
  BY <1>2, <1>3 DEF OutputRight
<1>5. Waiting' = Waiting /\ Downloads' = Downloads
      /\ Garbage' = Garbage \cup {Id("tokens", o.n), Id("clones", o.n)}
  BY <1>2 DEF Waiting, Downloads, Garbage
<1>6. FreedLate'
  <2> SUFFICES ASSUME NEW t \in Garbage', t[1] \in {"tokens", "clones"}
               PROVE  /\ t[2] <= step /\ (pc # "idle" => t[2] < step)
                      /\ Gone(t[2]) /\ Id("output", t[2]) \notin Downloads
    BY <1>2, <1>5 DEF FreedLate, Gone
  <2>1. CASE t \in Garbage
    BY <2>1 DEF StreamInv, WorkRight, FreedLate
  <2>2. CASE t[2] = o.n
    BY <1>3, <1>4, <2>2, Typed
  <2> QED BY <1>5, <2>1, <2>2, IdIs
<1>7. WorkRight' /\ \A x \in Outs : OutputRight(x) => OutputRight(x)'
  <2>1. Downloads' \subseteq Downloads /\ GoesOn
    BY <1>2, <1>5 DEF GoesOn
  <2>2. /\ WorkRight'
        /\ \A x \in Outs :
             OutputRight(x) /\ (Id("output", x.n) \in Downloads => Id("output", x.n) \in Downloads')
               => OutputRight(x)'
    BY <1>2, <1>6, <2>1, QuietStep
  <2> QED BY <1>5, <2>2
<1>8. PICK p : p = [o EXCEPT !.state = "got"]
  OBVIOUS
<1>9. /\ p \in Outs /\ p.n = o.n /\ p.reqs = o.reqs /\ p.tokens = o.tokens
      /\ p.experts = o.experts /\ p.state = "got"
  BY <1>2, <1>8 DEF Outs
<1>10. OutputRight(p)'
  <2>1. \A k : Id(k, o.n) \notin Waiting
    BY <1>4, IdIs, Typed DEF Gone
  <2>2. o.reqs = info[o.n].batch
    BY <1>2 DEF OutputRight
  <2> QED BY <1>2, <1>4, <1>5, <1>9, <2>1, <2>2 DEF OutputRight, Complete, Own
<1>11. PendingRight'
  <2> SUFFICES ASSUME NEW j \in DOMAIN pending
               PROVE  OutputRight(pending[j])' /\ pending'[j].state # "none"
    BY <1>2 DEF PendingRight
  <2>1. PICK x : x = pending'[j]
    OBVIOUS
  <2>2. OutputRight(x)' /\ x.state # "none"
    <3>1. CASE j = i
      BY <1>2, <1>8, <1>9, <1>10, <2>1, <3>1
    <3>2. CASE j # i
      BY <1>2, <1>7, <2>1, <3>2, Typed DEF StreamInv, PendingRight
    <3> QED BY <3>1, <3>2
  <2> QED BY <2>1, <2>2 DEF OutputRight, Complete, Own, Gone
<1>12. TakenRight'
  <2>1. taken \in Outs
    BY DEF StreamInv, StreamTypes, EngineTypes
  <2>2. PICK x : x = taken
    OBVIOUS
  <2>3. taken.n > 0 => OutputRight(x)' /\ x.state = "got"
    BY <1>7, <2>1, <2>2 DEF StreamInv, TakenRight
  <2> QED BY <1>2, <2>2, <2>3 DEF TakenRight, OutputRight, Complete, Own, Gone
<1> QED BY <1>7, <1>11, <1>12 DEF StreamInv

\* The output stream copies an output: its step is over, and its tensors still hold
\* what that step left in them.
LEMMA DownloadOutputKeeps ==
  ASSUME StreamInv, StreamTypes', DownloadOutput
  PROVE  StreamInv'
<1> DEFINE q == queue["output"]
           h == Head(q)
<1>1. /\ q \in Seq(Copies("output")) /\ q # <<>> /\ DOMAIN queue = Streams
      /\ queue' = [queue EXCEPT !["output"] = Tail(q)]
      /\ h.after = NoOp \/ IsDone("default", h.after)
      /\ UNCHANGED <<mode, pc, step, taken, worker, freed, info, host, dev, mem>>
  BY DEF StreamInv, StreamTypes, QueueTypes, DownloadOutput, Runs
<1>2. queue'["output"] = Tail(q) /\ queue'["default"] = queue["default"]
  BY <1>1 DEF Streams
<1>3. /\ h \in Copies("output") /\ 1 \in DOMAIN q /\ h = q[1]
      /\ \A i \in DOMAIN Tail(q) : i + 1 \in DOMAIN q /\ Tail(q)[i] = q[i + 1]
      /\ h.id \in IdsOf(q) /\ IdsOf(q) = IdsOf(Tail(q)) \cup {h.id}
  BY <1>1, TailIs
<1>4. PICK n \in Nat : h.id = Id("output", n) /\ n = Now("output")
  BY <1>3 DEF Copies, Id, Now
<1>5. Waiting' = Waiting /\ Downloads = IdsOf(q) /\ Downloads' = IdsOf(Tail(q))
  BY <1>2 DEF Waiting, Downloads
<1>6. AfterLast
  BY DEF StreamInv, WorkRight
<1>7. n \in 1 .. step /\ Gone(n)
  <2>1. /\ n \in 1 .. step /\ h.after \in {Id("clone", n), Id("pooler", n)}
        /\ h.after \in Waiting \/ Gone(n)
    BY <1>3, <1>4, <1>6, IdIs DEF AfterLast
  <2>2. h.after # NoOp
    BY <2>1, <1>4, StreamsAssumption DEF Id, Kinds
  <2>3. h.after \notin Waiting
    BY <1>1, <2>2 DEF IsDone, Waiting, IdsOf
  <2> QED BY <2>1, <2>3
<1>8. AfterLast'
  BY <1>1, <1>2, <1>3, <1>5, <1>6 DEF AfterLast, Gone
<1>9. /\ WorkRight'
      /\ \A x \in Outs :
           OutputRight(x) /\ (Id("output", x.n) \in Downloads => Id("output", x.n) \in Downloads')
             => OutputRight(x)'
  <2>1. Downloads' \subseteq Downloads /\ GoesOn
    BY <1>1, <1>3, <1>5 DEF GoesOn
  <2> QED BY <1>1, <1>2, <1>8, <2>1, QuietStep
<1>10. \A k : Id(k, n) \notin Waiting
  BY <1>7, IdIs, Typed DEF Gone
<1>11. PICK tokens, experts :
         /\ tokens = Contents(Id("tokens", n), None)
         /\ experts = Contents(Id("clones", n), LostExperts)
         /\ pending' = [i \in DOMAIN pending |->
              IF pending[i].n = n
              THEN [pending[i] EXCEPT !.tokens = tokens, !.experts = experts]
              ELSE pending[i]]
  <2>1. pending' = [i \in DOMAIN pending |->
          IF pending[i].n = n
          THEN [pending[i] EXCEPT !.tokens = Contents(Id("tokens", n), None),
                                  !.experts = Contents(Id("clones", n), LostExperts)]
          ELSE pending[i]]
    BY <1>4 DEF DownloadOutput
  <2> QED BY <2>1
<1>12. tokens = info[n].acc /\ (~mode.pool => experts = Own(n))
  <2>1. CASE ~mode.pool
    <3>1. TokensOf(n) /\ ClonesOf(n)
      BY <1>7 DEF StreamInv, WorkRight, StepsRight
    <3>2. Id("output", n) \in Downloads
      BY <1>3, <1>4, <1>5
    <3>3. Holds(Id("tokens", n), info[n].acc) /\ Holds(Id("clones", n), Own(n))
      BY <1>10, <2>1, <3>1, <3>2 DEF TokensOf, ClonesOf
    <3> QED BY <1>11, <3>3 DEF Holds, Contents
  <2>2. CASE mode.pool
    <3>1. info[n].acc = None /\ \A t \in DOMAIN mem : t[1] = "tokens" => mem[t] = None
      BY <1>7, <2>2 DEF StreamInv, WorkRight, PoolingOnly
    <3> QED BY <1>11, <2>2, <3>1, IdIs DEF Contents
  <2> QED BY <2>1, <2>2
<1>13. PendingRight'
  <2> SUFFICES ASSUME NEW i \in DOMAIN pending
               PROVE  OutputRight(pending[i])' /\ pending'[i].state # "none"
    BY <1>11 DEF PendingRight
  <2>1. PICK o : o = pending[i]
    OBVIOUS
  <2>2. o \in Outs /\ OutputRight(o) /\ o.state # "none"
    BY <2>1, Typed DEF StreamInv, PendingRight
  <2>3. PICK p : p = pending'[i]
    OBVIOUS
  <2>4. OutputRight(p)' /\ p.state # "none"
    <3>1. CASE o.n = n
      <4>1. /\ p.n = o.n /\ p.state = o.state /\ p.reqs = o.reqs /\ p.tokens = tokens
            /\ p.experts = experts
        BY <1>11, <2>1, <2>2, <2>3, <3>1 DEF Outs
      <4>2. Complete(p)' /\ Gone(n)'
        BY <1>1, <1>5, <1>7, <1>12, <3>1, <4>1 DEF Complete, Gone, Own
      <4> QED BY <1>1, <1>5, <1>7, <1>10, <2>2, <3>1, <4>1, <4>2 DEF OutputRight
    <3>2. CASE o.n # n
      <4>1. p = o
        BY <1>11, <2>1, <2>3, <3>2
      <4>2. Id("output", o.n) # h.id
        BY <1>4, <3>2, IdIs
      <4> QED BY <1>3, <1>5, <1>9, <2>2, <4>1, <4>2
    <3> QED BY <3>1, <3>2
  <2> QED BY <2>3, <2>4 DEF OutputRight, Complete, Own, Gone
<1>14. TakenRight'
  <2>1. taken \in Outs
    BY DEF StreamInv, StreamTypes, EngineTypes
  <2>2. PICK x : x = taken
    OBVIOUS
  <2>3. ASSUME taken.n > 0 PROVE OutputRight(x)' /\ x.state = "got"
    <3>1. OutputRight(x) /\ x.state = "got"
      BY <2>2, <2>3 DEF StreamInv, TakenRight
    <3> QED BY <1>1, <1>5, <3>1 DEF OutputRight, Complete, Own, Gone
  <2> QED BY <1>1, <2>2, <2>3 DEF TakenRight, OutputRight, Complete, Own, Gone
<1> QED BY <1>9, <1>13, <1>14 DEF StreamInv

-----------------------------------------------------------------------------
(* Steps that enqueue on the default stream.                               *)

\* Operations of the call in progress go behind all there is.
LEMMA EnqueueStep ==
  ASSUME StreamInv, step' = (IF pc = "idle" THEN step + 1 ELSE step),
         NEW New \in SUBSET Ids, Waiting' = Waiting \cup New,
         \A a \in New : a[2] = step' /\ Stage[a[1]] <= Enqueued',
         pc # "idle" => Enqueued <= Enqueued',
         \A t \in Garbage' : t[1] \in {"tokens", "clones"} => t \in Garbage,
         Downloads \subseteq Downloads', Downloads' \subseteq Downloads \cup {Id("output", step')},
         UNCHANGED <<mode, dev, mem>>,
         \A n \in 1 .. step : info'[n].acc = info[n].acc /\ info'[n].batch = info[n].batch
  PROVE  /\ NothingAhead' /\ FreedLate'
         /\ \A n \in 1 .. step' : n < step' =>
              SlotsOf(n)' /\ ExpertsOf(n)' /\ TokensOf(n)' /\ ClonesOf(n)'
         /\ \A n, s : Past(n, s) /\ (\A a \in New : n < step' \/ (n = step' /\ s < Stage[a[1]]))
                        => Past(n, s)'
         /\ \A n : Gone(n) /\ n < step' => Gone(n)'
         /\ \A o \in Outs : OutputRight(o) => OutputRight(o)'
<1>1. step \in Nat /\ Waiting \subseteq Ids
  BY Typed
<1>2. step' \in Nat /\ step' >= step /\ (pc = "idle" => step < step') /\ (pc # "idle" => step' = step)
  BY <1>1
<1>3. WorkRight
  BY DEF StreamInv
<1>4. \A a \in Ids : Stage[a[1]] \in 1 .. 6
  BY IdIs, Stages
<1>5. Enqueued \in Nat /\ Enqueued' \in Nat
  BY DEF Enqueued
<1>6. NothingAhead'
  <2> SUFFICES ASSUME NEW a \in Waiting'
               PROVE  0 < a[2] /\ (a[2] < step' \/ (a[2] = step' /\ Stage[a[1]] <= Enqueued'))
    BY DEF NothingAhead
  <2>1. CASE a \in New
    BY <1>1, <1>2, <2>1 DEF StreamInv, StreamTypes, EngineTypes
  <2>2. CASE a \in Waiting
    <3>1. 0 < a[2] /\ (a[2] < step \/ (a[2] = step /\ Stage[a[1]] <= Enqueued))
      BY <1>3, <2>2 DEF WorkRight, NothingAhead
    <3>2. a[2] \in Nat /\ Stage[a[1]] \in 1 .. 6
      BY <1>1, <1>4, <2>2, IdIs
    <3> QED BY <1>1, <1>2, <1>5, <3>1, <3>2
  <2> QED BY <2>1, <2>2
<1>7. \A n, s : Past(n, s) /\ (\A a \in New : n < step' \/ (n = step' /\ s < Stage[a[1]]))
                  => Past(n, s)'
  BY DEF Past
<1>8. \A n : Gone(n) /\ n < step' => Gone(n)'
  BY DEF Gone
<1>9. \A n, s : Past(n, s) /\ n < step' => Past(n, s)'
  BY <1>7
<1>10. \A k, n : n < step' /\ n \in Nat => (Id(k, n) \in Waiting' <=> Id(k, n) \in Waiting)
  BY <1>2, IdIs
<1>11. \A n : n < step' /\ n \in Nat => (Id("output", n) \in Downloads' <=> Id("output", n) \in Downloads)
  BY <1>2, IdIs
<1>12. \A n, S : n < step' /\ n \in Nat /\ "idle" \notin S => ~At(n, S) /\ ~At(n, S)'
  BY <1>2 DEF At
<1>13. ASSUME NEW n \in 1 .. step', n < step'
       PROVE  SlotsOf(n)' /\ ExpertsOf(n)' /\ TokensOf(n)' /\ ClonesOf(n)'
  <2>1. n \in 1 .. step /\ n \in Nat
    BY <1>1, <1>2, <1>13
  <2>2. SlotsOf(n) /\ ExpertsOf(n) /\ TokensOf(n) /\ ClonesOf(n)
    BY <1>3, <2>1 DEF WorkRight, StepsRight
  <2>3. /\ ~At(n, {"launch"}) /\ ~At(n, {"launch"})'
        /\ ~At(n, Sampling \ {"wait"}) /\ ~At(n, Sampling \ {"wait"})'
        /\ ~At(n, {"propose", "drafted", "book"}) /\ ~At(n, {"propose", "drafted", "book"})'
    <3>1. "idle" \notin Sampling
      BY DEF Sampling
    <3> QED BY <1>2, <1>13, <2>1, <3>1 DEF At
  <2>4. /\ \A k : Id(k, n) \in Waiting' <=> Id(k, n) \in Waiting
        /\ Id("output", n) \in Downloads' <=> Id("output", n) \in Downloads
        /\ \A s : Past(n, s) => Past(n, s)'
        /\ \A t, v : Holds(t, v)' <=> Holds(t, v)
    BY <1>9, <1>10, <1>11, <1>13, <2>1 DEF Holds
  <2>5. SlotsOf(n)'
    BY <2>2, <2>3, <2>4 DEF SlotsOf
  <2>6. ExpertsOf(n)'
    BY <2>2, <2>3, <2>4 DEF ExpertsOf
  <2>7. TokensOf(n)'
    <3>1. info'[n].acc = info[n].acc
      BY <2>1
    <3> QED BY <2>2, <2>3, <2>4, <3>1 DEF TokensOf, Holds
  <2>8. ClonesOf(n)'
    BY <2>2, <2>4 DEF ClonesOf, Holds, Own
  <2> QED BY <2>5, <2>6, <2>7, <2>8
<1>14. FreedLate'
  <2> SUFFICES ASSUME NEW t \in Garbage', t[1] \in {"tokens", "clones"}
               PROVE  /\ t[2] <= step' /\ t[2] < step'
                      /\ Gone(t[2])' /\ Id("output", t[2]) \notin Downloads'
    BY DEF FreedLate
  <2>1. /\ t[2] <= step /\ (pc # "idle" => t[2] < step)
        /\ Gone(t[2]) /\ Id("output", t[2]) \notin Downloads
    BY <1>3 DEF WorkRight, FreedLate
  <2>2. t[2] \in Nat
    <3>1. t \in Garbage /\ freed \subseteq Tensors /\ queue["default"] \in Seq(Kernels)
      BY DEF StreamInv, StreamTypes, DeviceTypes, QueueTypes
    <3>2. TakenBy(queue["default"]) \subseteq Tensors
      <4>1. \A i \in DOMAIN queue["default"] : queue["default"][i].takes \subseteq Tensors
        <5>1. \A i \in DOMAIN queue["default"] : queue["default"][i] \in Kernels
          BY <3>1, ElementOfSeq
        <5> QED BY <5>1 DEF Kernels
      <4> QED BY <4>1 DEF TakenBy
    <3>3. t \in Tensors
      BY <3>1, <3>2 DEF Garbage
    <3> QED BY <3>3 DEF Tensors
  <2>3. t[2] < step'
    BY <1>1, <1>2, <2>1, <2>2
  <2>4. Gone(t[2])'
    BY <1>8, <2>1, <2>3
  <2>5. Id("output", t[2]) \notin Downloads'
    BY <1>11, <2>1, <2>2, <2>3
  <2>6. t[2] <= step'
    BY <1>2, <2>2, <2>3
  <2> QED BY <2>3, <2>4, <2>5, <2>6
<1>15. ASSUME NEW o \in Outs, OutputRight(o) PROVE OutputRight(o)'
  <2>1. o.n \in 1 .. step /\ o.n \in Nat /\ o.n < step'
    BY <1>1, <1>2, <1>15 DEF OutputRight
  <2> QED BY <1>2, <1>8, <1>10, <1>15, <2>1, OutputStays
<1> QED BY <1>6, <1>7, <1>8, <1>13, <1>14, <1>15

\* The downloads still wait for the last operation of their step.
LEMMA DownloadsWait ==
  ASSUME StreamInv, step' \in Nat, step' = (IF pc = "idle" THEN step + 1 ELSE step),
         Waiting \subseteq Waiting', \A n : Gone(n) /\ n < step' => Gone(n)'
  PROVE  /\ queue'["output"] = queue["output"] => AfterLast'
         /\ \A op \in Copies("output") :
              (/\ queue'["output"] = Append(queue["output"], op) /\ op.id = Id("output", step')
               /\ op.after \in Waiting' \cap {Id("clone", step'), Id("pooler", step')}
               /\ step' > 0 /\ pc' = "idle")
              => AfterLast'
<1>1. step \in Nat /\ queue["output"] \in Seq(Copies("output"))
  BY DEF StreamInv, StreamTypes, EngineTypes, QueueTypes
<1>2. ASSUME NEW i \in DOMAIN queue["output"], NEW op, op = queue["output"][i]
      PROVE  /\ op.id[2] \in 1 .. step' /\ op.id[2] < step'
             /\ op.after \in {Id("clone", op.id[2]), Id("pooler", op.id[2])}
             /\ op.after \in Waiting' \/ Gone(op.id[2])'
  <2>1. /\ op.id[2] \in 1 .. step /\ (pc # "idle" => op.id[2] < step)
        /\ op.after \in {Id("clone", op.id[2]), Id("pooler", op.id[2])}
        /\ op.after \in Waiting \/ Gone(op.id[2])
    BY <1>2 DEF StreamInv, WorkRight, AfterLast
  <2>2. op.id[2] \in 1 .. step' /\ op.id[2] < step'
    BY <1>1, <2>1
  <2> QED BY <2>1, <2>2
<1>3. ASSUME queue'["output"] = queue["output"] PROVE AfterLast'
  <2> SUFFICES ASSUME NEW i \in DOMAIN queue["output"], NEW op, op = queue["output"][i]
               PROVE  /\ op.id[2] \in 1 .. step' /\ op.id[2] < step'
                      /\ op.after \in {Id("clone", op.id[2]), Id("pooler", op.id[2])}
                      /\ op.after \in Waiting' \/ Gone(op.id[2])'
    BY <1>3 DEF AfterLast, Gone
  <2> QED BY <1>2
<1>4. ASSUME NEW op \in Copies("output"), queue'["output"] = Append(queue["output"], op),
             op.id = Id("output", step'), step' > 0, pc' = "idle",
             op.after \in Waiting' \cap {Id("clone", step'), Id("pooler", step')}
      PROVE  AfterLast'
  <2> DEFINE q == queue["output"]
  <2>1. PICK p : p = Append(q, op)
    OBVIOUS
  <2>2. DOMAIN p = (DOMAIN q) \cup {Len(q) + 1} /\ p[Len(q) + 1] = op
        /\ \A i \in DOMAIN q : p[i] = q[i]
    BY <1>1, <2>1, AppendProperties
  <2>3. op.id[2] = step'
    BY <1>4, IdIs
  <2> SUFFICES ASSUME NEW i \in DOMAIN p, NEW o, o = p[i]
               PROVE  /\ o.id[2] \in 1 .. step'
                      /\ o.after \in {Id("clone", o.id[2]), Id("pooler", o.id[2])}
                      /\ o.after \in Waiting' \/ Gone(o.id[2])'
    BY <1>4, <2>1 DEF AfterLast, Gone
  <2>4. CASE i \in DOMAIN q
    BY <1>2, <2>2, <2>4
  <2>5. CASE i = Len(q) + 1
    BY <1>4, <2>2, <2>3, <2>5
  <2> QED BY <2>2, <2>4, <2>5
<1> QED BY <1>3, <1>4

\* One operation of the step in progress, behind all there is.
LEMMA OneMore ==
  ASSUME StreamInv, pc # "idle", NEW k \in DOMAIN Stage, NEW op \in Kernels,
         op.id = Id(k, step), Enqueued < Stage[k],
         queue'["default"] = Append(queue["default"], op)
  PROVE  /\ Waiting' = Waiting \cup {Id(k, step)} /\ Id(k, step) \in Ids
         /\ InOrder(queue["default"])'
         /\ TakenBy(queue["default"])' = TakenBy(queue["default"]) \cup op.takes
<1>1. step \in Nat /\ queue["default"] \in Seq(Kernels) /\ Waiting \subseteq Ids
  BY Typed DEF StreamInv, StreamTypes, QueueTypes
<1>2. Id(k, step) \in Ids
  BY <1>1, IdIs
<1>3. Enqueued \in Nat /\ Stage[k] \in 1 .. 6 /\ \A a \in Ids : Stage[a[1]] \in 1 .. 6
  BY IdIs, Stages DEF Enqueued
<1>4. \A a \in Waiting : Before(a, op.id)
  <2> SUFFICES ASSUME NEW a \in Waiting PROVE Before(a, op.id)
    OBVIOUS
  <2>1. a[2] < step \/ (a[2] = step /\ Stage[a[1]] <= Enqueued)
    BY DEF StreamInv, WorkRight, NothingAhead
  <2>2. Stage[a[1]] \in 1 .. 6
    BY <1>1, <1>3
  <2> QED BY <1>3, <2>1, <2>2, IdIs DEF Before
<1>5. InOrder(queue["default"])
  BY DEF StreamInv, WorkRight
<1>6. LET p == Append(queue["default"], op)
      IN  /\ IdsOf(p) = IdsOf(queue["default"]) \cup {op.id}
          /\ TakenBy(p) = TakenBy(queue["default"]) \cup op.takes
          /\ InOrder(queue["default"]) /\ (\A a \in IdsOf(queue["default"]) : Before(a, op.id))
               => InOrder(p)
  BY <1>1, AppendIs
<1>7. InOrder(Append(queue["default"], op))
  BY <1>4, <1>5, <1>6 DEF Waiting
<1>8. Waiting' = Waiting \cup {Id(k, step)}
  BY <1>6 DEF Waiting
<1>9. InOrder(queue["default"])'
  BY <1>7 DEF InOrder
<1>10. TakenBy(queue["default"])' = TakenBy(queue["default"]) \cup op.takes
  BY <1>6 DEF TakenBy
<1> QED BY <1>2, <1>8, <1>9, <1>10

\* Nothing of what is still to be enqueued is there.
LEMMA NotYet ==
  ASSUME StreamInv, pc # "idle"
  PROVE  /\ \A k \in DOMAIN Stage : Enqueued < Stage[k] => Id(k, step) \notin Waiting
         /\ Id("output", step) \notin Downloads
         /\ step \in 1 .. step /\ step \in Nat
<1>1. step \in Nat /\ step > 0
  BY DEF StreamInv, StreamTypes, EngineTypes
<1>2. ASSUME NEW k \in DOMAIN Stage, Enqueued < Stage[k], Id(k, step) \in Waiting PROVE FALSE
  <2>1. Stage[k] <= Enqueued
    BY <1>1, <1>2, IdIs DEF StreamInv, WorkRight, NothingAhead
  <2>2. Enqueued \in Nat /\ Stage[k] \in 1 .. 6
    BY Stages DEF Enqueued
  <2> QED BY <1>2, <2>1, <2>2
<1>3. ASSUME Id("output", step) \in Downloads PROVE FALSE
  <2>1. PICK i \in DOMAIN queue["output"] : queue["output"][i].id = Id("output", step)
    BY <1>3 DEF Downloads, IdsOf
  <2>2. queue["output"][i].id[2] < step
    BY <2>1 DEF StreamInv, WorkRight, AfterLast
  <2> QED BY <1>1, <2>1, <2>2, IdIs
<1> QED BY <1>1, <1>2, <1>3

\* The main thread enqueues a kernel and, for an output, the copy that waits for it.
MainEnqueues(k) ==
  /\ pc # "idle" /\ pc' # "wait"
  /\ \E op \in Kernels : /\ op.id = Id(k, step) /\ op.takes = freed
                         /\ queue'["default"] = Append(queue["default"], op)
  /\ Enqueued < Stage[k] /\ Stage[k] <= Enqueued'
  /\ \A t \in freed' : t[1] \notin {"tokens", "clones"}
  /\ \/ queue'["output"] = queue["output"]
     \/ \E op \in Copies("output") :
          /\ queue'["output"] = Append(queue["output"], op) /\ op.id = Id("output", step)
          /\ op.after = Id(k, step) /\ k \in {"clone", "pooler"} /\ pc' = "idle"
  /\ UNCHANGED <<mode, step, dev, mem>>
  /\ \A n \in 1 .. step : info'[n].acc = info[n].acc /\ info'[n].batch = info[n].batch
  /\ IF mode.pool THEN k \in {"upload", "forward", "pooler"} /\ pc' \notin Sampling
     ELSE k # "pooler" /\ pc' # "pool"

\* What is left to show of such a step is that its own tensors are right.
LEMMA MainEnqueuesStep ==
  ASSUME StreamInv, NEW k \in DOMAIN Stage, MainEnqueues(k),
         NEW c, c = step, RowsOfStep'
  PROVE  /\ Waiting' = Waiting \cup {Id(k, c)} /\ Downloads' \subseteq Downloads \cup {Id("output", c)}
         /\ queue'["output"] = queue["output"] => Downloads' = Downloads
         /\ \A s : Past(c, s) /\ s < Stage[k] => Past(c, s)'
         /\ SlotsOf(c)' /\ ExpertsOf(c)' /\ TokensOf(c)' /\ ClonesOf(c)' => WorkRight'
         /\ \A o \in Outs : OutputRight(o) => OutputRight(o)'
<1>1. PICK op \in Kernels : /\ op.id = Id(k, step) /\ op.takes = freed
                            /\ queue'["default"] = Append(queue["default"], op)
  BY DEF MainEnqueues
<1>2. /\ Waiting' = Waiting \cup {Id(k, step)} /\ Id(k, step) \in Ids
      /\ InOrder(queue["default"])'
      /\ TakenBy(queue["default"])' = TakenBy(queue["default"]) \cup freed
  BY <1>1, OneMore DEF MainEnqueues
<1>3. \A t \in Garbage' : t[1] \in {"tokens", "clones"} => t \in Garbage
  BY <1>2 DEF Garbage, MainEnqueues
<1>4. /\ Downloads \subseteq Downloads' /\ Downloads' \subseteq Downloads \cup {Id("output", step)}
      /\ queue'["output"] = queue["output"] => Downloads' = Downloads
  <2>1. CASE queue'["output"] = queue["output"]
    BY <2>1 DEF Downloads
  <2>2. CASE \E o \in Copies("output") :
               queue'["output"] = Append(queue["output"], o) /\ o.id = Id("output", step)
    <3>1. PICK o \in Copies("output") :
            queue'["output"] = Append(queue["output"], o) /\ o.id = Id("output", step)
      BY <2>2
    <3>2. queue["output"] \in Seq(Copies("output"))
      BY DEF StreamInv, StreamTypes, QueueTypes
    <3>3. IdsOf(Append(queue["output"], o)) = IdsOf(queue["output"]) \cup {o.id}
      BY <3>1, <3>2, AppendIs
    <3>4. Downloads' = Downloads \cup {Id("output", step)}
      BY <3>1, <3>3 DEF Downloads
    <3>5. queue'["output"] # queue["output"]
      BY <3>4, NotYet DEF Downloads, MainEnqueues
    <3> QED BY <3>4, <3>5
  <2> QED BY <2>1, <2>2 DEF MainEnqueues
<1>5. \A a \in {Id(k, step)} : a[2] = step /\ Stage[a[1]] <= Enqueued'
  BY IdIs DEF MainEnqueues
<1>6. Enqueued \in Nat /\ Enqueued' \in Nat /\ Stage[k] \in 1 .. 6 /\ Enqueued <= Enqueued'
  <2>1. Enqueued \in Nat /\ Enqueued' \in Nat /\ Stage[k] \in 1 .. 6
    BY Stages DEF Enqueued
  <2> QED BY <2>1 DEF MainEnqueues
<1>7. step' = (IF pc = "idle" THEN step + 1 ELSE step) /\ step' = step
  BY DEF MainEnqueues
<1>8. /\ NothingAhead' /\ FreedLate'
      /\ \A n \in 1 .. step' : n < step' =>
           SlotsOf(n)' /\ ExpertsOf(n)' /\ TokensOf(n)' /\ ClonesOf(n)'
      /\ \A n, s : Past(n, s) /\ (\A a \in {Id(k, step)} : n < step' \/ (n = step' /\ s < Stage[a[1]]))
                     => Past(n, s)'
      /\ \A n : Gone(n) /\ n < step' => Gone(n)'
      /\ \A o \in Outs : OutputRight(o) => OutputRight(o)'
  <2> DEFINE New == {Id(k, step)}
  <2>1. New \in SUBSET Ids /\ Waiting' = Waiting \cup New
    BY <1>2
  <2>2. \A a \in New : a[2] = step' /\ Stage[a[1]] <= Enqueued'
    BY <1>5, <1>7
  <2> HIDE DEF New
  <2>3. /\ NothingAhead' /\ FreedLate'
        /\ \A n \in 1 .. step' : n < step' =>
             SlotsOf(n)' /\ ExpertsOf(n)' /\ TokensOf(n)' /\ ClonesOf(n)'
        /\ \A n, s : Past(n, s) /\ (\A a \in New : n < step' \/ (n = step' /\ s < Stage[a[1]]))
                       => Past(n, s)'
        /\ \A n : Gone(n) /\ n < step' => Gone(n)'
        /\ \A o \in Outs : OutputRight(o) => OutputRight(o)'
    BY <1>3, <1>4, <1>6, <1>7, <2>1, <2>2, EnqueueStep DEF MainEnqueues
  <2> QED BY <2>3 DEF New
<1>9. \A s : Past(c, s) /\ s < Stage[k] => Past(c, s)'
  BY <1>7, <1>8, IdIs
<1>10. step' \in Nat /\ step' > 0
  BY <1>7, NotYet DEF MainEnqueues
<1>11. AfterLast'
  <2>1. Waiting \subseteq Waiting' /\ Id(k, step) \in Waiting'
    BY <1>2
  <2> QED BY <1>7, <1>8, <1>10, <2>1, DownloadsWait DEF MainEnqueues
<1>12. PoolingOnly'
  <2>1. PoolingOnly
    BY DEF StreamInv, WorkRight
  <2> QED BY <1>2, <2>1, IdIs DEF MainEnqueues, PoolingOnly
<1>13. OnHost'
  BY DEF MainEnqueues, OnHost
<1>14. ASSUME SlotsOf(c)' /\ ExpertsOf(c)' /\ TokensOf(c)' /\ ClonesOf(c)' PROVE WorkRight'
  <2>1. StepsRight'
    <3> SUFFICES ASSUME NEW n \in 1 .. step'
                 PROVE  SlotsOf(n)' /\ ExpertsOf(n)' /\ TokensOf(n)' /\ ClonesOf(n)'
      BY DEF StepsRight
    <3>1. n < step' \/ n = c
      BY <1>7, <1>10
    <3> QED BY <1>8, <1>14, <3>1
  <2> QED BY <1>2, <1>8, <1>11, <1>12, <1>13, <2>1 DEF WorkRight
<1> QED BY <1>2, <1>4, <1>8, <1>9, <1>14

\* The kernels of the main thread, one after another.
LEMMA KernelsKeep ==
  ASSUME StreamInv, StreamTypes',
         Prepare \/ LaunchForward \/ SampleTokens \/ Propose
  PROVE  StreamInv'
<1>t. /\ DOMAIN queue = Streams /\ step \in Nat /\ freed \in SUBSET Tensors
      /\ (pc # "idle" => step \in DOMAIN info) /\ step \in Nat
      /\ info \in Seq(Infos) /\ Len(info) = step /\ DOMAIN info = 1 .. step
      /\ worker \in [rows : SUBSET Req, drafted : Totals, prevRows : SUBSET Req, counts : Nat,
                     tensor : Nat, drafts : [of : Nat, zero : BOOLEAN]]
  <2>1. info \in Seq(Infos) /\ Len(info) = step /\ DOMAIN info = 1 .. step
    BY DEF StreamInv, StreamTypes, EngineTypes
  <2>2. /\ DOMAIN queue = Streams /\ step \in Nat /\ freed \in SUBSET Tensors
        /\ (pc # "idle" => step > 0)
        /\ worker \in [rows : SUBSET Req, drafted : Totals, prevRows : SUBSET Req, counts : Nat,
                       tensor : Nat, drafts : [of : Nat, zero : BOOLEAN]]
    BY DEF StreamInv, StreamTypes, QueueTypes, EngineTypes, DeviceTypes, HostTypes
  <2>3. pc # "idle" => step \in DOMAIN info
    BY <2>1, <2>2
  <2> QED BY <2>1, <2>2, <2>3
<1>k. ASSUME NEW k \in DOMAIN Stage, pc # "idle"
      PROVE  /\ Kernel(k, step, freed) \in Kernels /\ Kernel(k, step, freed).id = Id(k, step)
             /\ Kernel(k, step, freed).takes = freed
  BY <1>t, <1>k, IdIs DEF Kernel, Kernels
<1>s. /\ {"upload", "forward", "sample", "draft"} \subseteq DOMAIN Stage
      /\ Stage["upload"] = 1 /\ Stage["forward"] = 2 /\ Stage["sample"] = 3 /\ Stage["draft"] = 4
  BY Stages
<1>p. PoolingOnly /\ RowsOfStep
  BY DEF StreamInv, WorkRight
<1>c. PICK c : c = step
  OBVIOUS
<1>n. ASSUME pc # "idle"
      PROVE  /\ \A k \in DOMAIN Stage : Enqueued < Stage[k] => Id(k, c) \notin Waiting
             /\ Id("output", c) \notin Downloads
             /\ SlotsOf(c) /\ ExpertsOf(c) /\ TokensOf(c) /\ ClonesOf(c)
  BY <1>c, <1>n, NotYet DEF StreamInv, WorkRight, StepsRight
<1>m. ASSUME NEW k \in DOMAIN Stage, MainEnqueues(k), UNCHANGED <<taken, pending>>, RowsOfStep',
             SlotsOf(c)' /\ ExpertsOf(c)' /\ TokensOf(c)' /\ ClonesOf(c)'
      PROVE  StreamInv'
  <2>1. WorkRight' /\ \A o \in Outs : OutputRight(o) => OutputRight(o)'
    BY <1>c, <1>m, MainEnqueuesStep
  <2> QED BY <1>m, <2>1, OutputsKept DEF StreamInv
<1>1. ASSUME Prepare PROVE StreamInv'
  <2>1. /\ \A n \in 1 .. step : info'[n].acc = info[n].acc /\ info'[n].batch = info[n].batch
        /\ worker'.rows = info'[step].batch
    <3>1. PICK assumed, part :
            info' = [info EXCEPT ![step].assumed = assumed, ![step].part = part,
                                 ![step].src = worker.counts]
      BY <1>1 DEF Prepare
    <3>2. step \in DOMAIN info /\ info[step] \in Infos
      BY <1>1, <1>t, ElementOfSeq DEF Prepare
    <3>3. /\ info'[step] = [info[step] EXCEPT !.assumed = assumed, !.part = part,
                                              !.src = worker.counts]
          /\ \A n \in DOMAIN info : n # step => info'[n] = info[n]
      BY <3>1, <3>2
    <3>4. info'[step].acc = info[step].acc /\ info'[step].batch = info[step].batch
      BY <3>2, <3>3 DEF Infos
    <3>5. worker'.rows = info[step].batch
      BY <1>1, <1>t DEF Prepare, This
    <3> QED BY <1>t, <3>3, <3>4, <3>5
  <2>2. Enqueued = 0 /\ Enqueued' = 1 /\ pc = "prepare" /\ pc' = "launch"
    BY <1>1 DEF Prepare, Enqueued
  <2>3. UNCHANGED <<mode, step, dev, mem, taken, pending>> /\ freed' = {}
        /\ queue' = [queue EXCEPT !["default"] = Append(@, Kernel("upload", step, freed))]
    BY <1>1 DEF Prepare, Enqueue, engine
  <2>4. MainEnqueues("upload")
    <3>1. /\ queue'["default"] = Append(queue["default"], Kernel("upload", step, freed))
          /\ queue'["output"] = queue["output"]
      BY <1>t, <2>3 DEF Streams
    <3> QED BY <1>k, <1>s, <1>p, <2>1, <2>2, <2>3, <3>1 DEF MainEnqueues, Sampling
  <2>5. RowsOfStep'
    BY <2>1, <2>3 DEF RowsOfStep
  <2>6. /\ Waiting' = Waiting \cup {Id("upload", c)} /\ Downloads' = Downloads
        /\ \A s : Past(c, s) /\ s < 1 => Past(c, s)'
    <3>1. queue'["output"] = queue["output"]
      BY <1>t, <2>3 DEF Streams
    <3> QED BY <1>c, <1>s, <2>4, <2>5, <3>1, MainEnqueuesStep
  <2>7. /\ \A k \in DOMAIN Stage : Id(k, c) \notin Waiting
        /\ Id("output", c) \notin Downloads
    <3>1. \A k \in DOMAIN Stage : 0 < Stage[k]
      BY Stages
    <3> QED BY <1>n, <2>2, <3>1
  <2>8. /\ Id("clone", c) \notin Waiting' /\ Id("experts", c) \notin Waiting'
        /\ Id("tokens", c) \notin Waiting' /\ Id("output", c) \notin Downloads'
        /\ Id("upload", c) \in Waiting'
    BY <2>6, <2>7, IdIs, Stages
  <2>9. SlotsOf(c)' /\ ExpertsOf(c)' /\ TokensOf(c)' /\ ClonesOf(c)'
    BY <2>2, <2>8 DEF SlotsOf, ExpertsOf, TokensOf, ClonesOf, At, Sampling
  <2> QED BY <1>m, <1>s, <2>3, <2>4, <2>5, <2>9
<1>2. ASSUME LaunchForward PROVE StreamInv'
  <2>1. \A n \in 1 .. step : info'[n].acc = info[n].acc /\ info'[n].batch = info[n].batch
    BY <1>2 DEF LaunchForward
  <2>2. /\ Enqueued = 1 /\ Enqueued' = 2 /\ pc = "launch"
        /\ pc' \in {"pool", "correct", "sample"} /\ (pc' = "pool" <=> mode.pool)
    BY <1>2 DEF LaunchForward, Enqueued
  <2>3. UNCHANGED <<mode, step, dev, mem, taken, pending, info, worker>> /\ freed' = {}
        /\ queue' = [queue EXCEPT !["default"] = Append(@, Kernel("forward", step, freed))]
    BY <1>2 DEF LaunchForward, Enqueue, engine
  <2>o. /\ queue'["default"] = Append(queue["default"], Kernel("forward", step, freed))
        /\ queue'["output"] = queue["output"]
    BY <1>t, <2>3 DEF Streams
  <2>4. MainEnqueues("forward")
    BY <1>k, <1>s, <1>p, <2>1, <2>2, <2>3, <2>o DEF MainEnqueues, Sampling
  <2>5. RowsOfStep'
    BY <1>p, <2>2, <2>3 DEF RowsOfStep
  <2>6. /\ Waiting' = Waiting \cup {Id("forward", c)} /\ Downloads' = Downloads
        /\ \A s : Past(c, s) /\ s < 2 => Past(c, s)'
    BY <1>c, <1>s, <2>4, <2>5, <2>o, MainEnqueuesStep
  <2>7. /\ Id("clone", c) \notin Waiting' /\ Id("experts", c) \notin Waiting'
        /\ Id("tokens", c) \notin Waiting' /\ Id("output", c) \notin Downloads'
        /\ Id("forward", c) \in Waiting'
    BY <1>n, <2>2, <2>6, IdIs, Stages
  <2>8. SlotsOf(c)'
    BY <1>c, <1>n, <2>2, <2>3, <2>6 DEF SlotsOf, At
  <2>9. ExpertsOf(c)' /\ TokensOf(c)' /\ ClonesOf(c)'
    BY <2>2, <2>7 DEF ExpertsOf, TokensOf, ClonesOf, At
  <2> QED BY <1>m, <1>s, <2>3, <2>4, <2>5, <2>8, <2>9
<1>3. ASSUME SampleTokens PROVE StreamInv'
  <2>1. \A n \in 1 .. step : info'[n].acc = info[n].acc /\ info'[n].batch = info[n].batch
    BY <1>3 DEF SampleTokens
  <2>2. /\ Enqueued = 2 /\ Enqueued' = 3 /\ pc = "sample" /\ pc' = "propose"
    BY <1>3 DEF SampleTokens, Enqueued
  <2>3. UNCHANGED <<mode, step, dev, mem, taken, pending, info>> /\ worker'.rows = worker.rows
        /\ freed' = {Id("counts", worker.counts), Id("drafts", worker.tensor)}
        /\ queue' = [queue EXCEPT !["default"] = Append(@, Kernel("sample", step, freed))]
    BY <1>3, <1>t DEF SampleTokens, Enqueue, engine
  <2>o. /\ queue'["default"] = Append(queue["default"], Kernel("sample", step, freed))
        /\ queue'["output"] = queue["output"]
    BY <1>t, <2>3 DEF Streams
  <2>f. \A t \in freed' : t[1] \notin {"tokens", "clones"}
    BY <2>3, IdIs
  <2>4. MainEnqueues("sample")
    BY <1>k, <1>s, <1>p, <2>1, <2>2, <2>3, <2>o, <2>f DEF MainEnqueues, PoolingOnly, Sampling
  <2>5. RowsOfStep'
    BY <1>p, <2>2, <2>3 DEF RowsOfStep
  <2>6. /\ Waiting' = Waiting \cup {Id("sample", c)} /\ Downloads' = Downloads
        /\ \A s : Past(c, s) /\ s < 3 => Past(c, s)'
    BY <1>c, <1>s, <2>4, <2>5, <2>o, MainEnqueuesStep
  <2>7. /\ Id("sample", c) \in Waiting' /\ Id("output", c) \notin Downloads'
        /\ Id("forward", c) \in Waiting' <=> Id("forward", c) \in Waiting
        /\ Id("upload", c) \in Waiting' <=> Id("upload", c) \in Waiting
    BY <1>n, <2>2, <2>6, IdIs
  <2>8. SlotsOf(c)'
    BY <1>c, <1>n, <2>2, <2>3, <2>6, <2>7 DEF SlotsOf, At
  <2>9. ExpertsOf(c)'
    BY <1>c, <1>n, <2>2, <2>3, <2>6, <2>7 DEF ExpertsOf, At, Sampling
  <2>10. TokensOf(c)' /\ ClonesOf(c)'
    BY <2>7 DEF TokensOf, ClonesOf
  <2> QED BY <1>m, <1>s, <2>3, <2>4, <2>5, <2>8, <2>9, <2>10
<1>4. ASSUME Propose PROVE StreamInv'
  <2>1. \A n \in 1 .. step : info'[n].acc = info[n].acc /\ info'[n].batch = info[n].batch
    BY <1>4 DEF Propose
  <2>2. /\ Enqueued = 3 /\ Enqueued' = 4 /\ pc = "propose" /\ pc' = "drafted"
    BY <1>4 DEF Propose, Enqueued
  <2>3. UNCHANGED <<mode, step, dev, mem, taken, pending, info>> /\ worker'.rows = worker.rows
        /\ freed' = {}
    BY <1>4, <1>t DEF Propose, engine
  <2>o. /\ queue'["default"] = Append(queue["default"], Kernel("draft", step, freed))
        /\ queue'["output"] = queue["output"]
    BY <1>4, <1>t DEF Propose, Streams
  <2>4. MainEnqueues("draft")
    <3>1. ~mode.pool
      BY <1>p, <2>2 DEF PoolingOnly, Sampling
    <3>2. "draft" \in DOMAIN Stage /\ Stage["draft"] = 4
      BY <1>s
    <3>3. PICK op \in Kernels : op = Kernel("draft", step, freed) /\ op.id = Id("draft", step)
                               /\ op.takes = freed
      BY <1>k, <2>2, <3>2
    <3> QED BY <2>1, <2>2, <2>3, <2>o, <3>1, <3>2, <3>3 DEF MainEnqueues
  <2>5. RowsOfStep'
    BY <1>p, <2>2, <2>3 DEF RowsOfStep
  <2>6. /\ Waiting' = Waiting \cup {Id("draft", c)} /\ Downloads' = Downloads
        /\ \A s : Past(c, s) /\ s < 4 => Past(c, s)'
    BY <1>c, <1>s, <2>4, <2>5, <2>o, MainEnqueuesStep
  <2>7. /\ Id("output", c) \notin Downloads'
        /\ \A k \in {"upload", "forward", "sample"} : Id(k, c) \in Waiting' <=> Id(k, c) \in Waiting
    BY <1>n, <2>2, <2>6, IdIs
  <2>8. SlotsOf(c)'
    BY <1>c, <1>n, <2>2, <2>3, <2>6, <2>7 DEF SlotsOf, At
  <2>9. ExpertsOf(c)'
    BY <1>c, <1>n, <2>2, <2>3, <2>6, <2>7 DEF ExpertsOf, At, Sampling
  <2>10. TokensOf(c)'
    BY <1>c, <1>n, <2>2, <2>3, <2>6, <2>7 DEF TokensOf, At, Holds
  <2>11. ClonesOf(c)'
    BY <2>7 DEF ClonesOf
  <2> QED BY <1>m, <1>s, <2>3, <2>4, <2>5, <2>8, <2>9, <2>10, <2>11
<1> QED BY <1>1, <1>2, <1>3, <1>4

\* An output is sent ahead of its own data: its copy and what it needs are on their way.
LEMMA AsyncOutputsKeep ==
  ASSUME StreamInv, StreamTypes', ReturnAsync \/ \E finished \in BOOLEAN : Pool(finished)
  PROVE  StreamInv'
<1>t. /\ DOMAIN queue = Streams /\ step \in Nat /\ freed \in SUBSET Tensors
      /\ worker.rows \in SUBSET Req /\ queue["output"] \in Seq(Copies("output"))
  BY DEF StreamInv, StreamTypes, QueueTypes, EngineTypes, DeviceTypes, HostTypes
<1>s. /\ {"clone", "pooler"} \subseteq DOMAIN Stage
      /\ Stage["clone"] = 6 /\ Stage["pooler"] = 6
  BY Stages
<1>k. ASSUME NEW k \in {"clone", "pooler"}
      PROVE  \E op \in Kernels : /\ op = Kernel(k, step, freed)
                                 /\ op.id = Id(k, step) /\ op.takes = freed
  <2>1. pc # "idle" /\ step > 0
    BY DEF ReturnAsync, Pool, StreamInv, StreamTypes, EngineTypes
  <2>2. Id(k, step) \in Ids
    BY <1>t, <1>s, IdIs
  <2>3. /\ Kernel(k, step, freed) \in Kernels /\ Kernel(k, step, freed).id = Id(k, step)
        /\ Kernel(k, step, freed).takes = freed
    BY <1>t, <2>2 DEF Kernel, Kernels
  <2> QED BY <2>3
<1>o. ASSUME NEW k \in {"clone", "pooler"}
      PROVE  \E co \in Copies("output") : /\ co = Copy("output", step, Id(k, step))
                                          /\ co.id = Id("output", step) /\ co.after = Id(k, step)
  <2>1. pc # "idle" /\ step > 0
    BY DEF ReturnAsync, Pool, StreamInv, StreamTypes, EngineTypes
  <2>2. Id(k, step) \in Ids
    BY <1>t, <1>s, IdIs
  <2>3. Id("output", step) \in {"output"} \X Nat
    BY <1>t DEF Id
  <2>4. LET co == Copy("output", step, Id(k, step))
        IN  co \in Copies("output") /\ co.id = Id("output", step) /\ co.after = Id(k, step)
    BY <2>2, <2>3 DEF Copy, Copies
  <2> QED BY <2>4
<1>p. PoolingOnly /\ RowsOfStep
  BY DEF StreamInv, WorkRight
<1>c. PICK c : c = step
  OBVIOUS
<1>i. /\ pc # "idle" /\ pc' = "idle" /\ freed' = {}
      /\ UNCHANGED <<mode, step, info, dev, mem, taken>> /\ RowsOfStep'
  BY DEF ReturnAsync, Pool, RowsOfStep
<1>n. /\ \A k \in DOMAIN Stage : Enqueued < Stage[k] => Id(k, c) \notin Waiting
      /\ Id("output", c) \notin Downloads /\ c \in 1 .. step
      /\ SlotsOf(c) /\ ExpertsOf(c) /\ TokensOf(c) /\ ClonesOf(c)
  BY <1>c, <1>i, NotYet DEF StreamInv, WorkRight, StepsRight
<1>e. Enqueued' = 6
  BY <1>i DEF Enqueued
<1>1. CASE ReturnAsync
  <2>1. /\ pc = "book" /\ Enqueued = 4 /\ ~mode.pool
        /\ worker.rows = info[step].batch
    BY <1>1, <1>p DEF ReturnAsync, Enqueued, PoolingOnly, RowsOfStep, Sampling
  <2>2. PICK op \in Kernels : /\ op = Kernel("clone", step, freed)
                              /\ op.id = Id("clone", step) /\ op.takes = freed
    BY <1>k
  <2>3. PICK co \in Copies("output") :
          /\ co = Copy("output", step, Id("clone", step))
          /\ co.id = Id("output", step) /\ co.after = Id("clone", step)
    BY <1>o
  <2>4. /\ queue'["default"] = Append(queue["default"], op)
        /\ queue'["output"] = Append(queue["output"], co)
    BY <1>1, <1>t, <2>2, <2>3 DEF ReturnAsync, Streams
  <2>5. MainEnqueues("clone")
    BY <1>i, <1>e, <1>s, <2>1, <2>2, <2>3, <2>4 DEF MainEnqueues
  <2>6. /\ Waiting' = Waiting \cup {Id("clone", c)}
        /\ \A s : Past(c, s) /\ s < 6 => Past(c, s)'
        /\ SlotsOf(c)' /\ ExpertsOf(c)' /\ TokensOf(c)' /\ ClonesOf(c)' => WorkRight'
        /\ \A o \in Outs : OutputRight(o) => OutputRight(o)'
    BY <1>c, <1>i, <1>s, <2>5, MainEnqueuesStep
  <2>7. /\ Id("clone", c) \in Waiting'
        /\ \A k \in {"upload", "forward", "sample"} : Id(k, c) \in Waiting' <=> Id(k, c) \in Waiting
    BY <2>6, IdIs
  <2>8. SlotsOf(c)'
    BY <1>c, <1>i, <1>n, <2>6, <2>7 DEF SlotsOf, At
  <2>9. ExpertsOf(c)'
    BY <1>c, <1>i, <1>n, <2>1, <2>6, <2>7 DEF ExpertsOf, At, Sampling
  <2>10. TokensOf(c)'
    BY <1>c, <1>i, <1>n, <2>1, <2>6, <2>7 DEF TokensOf, At, Holds
  <2>11. ClonesOf(c)'
    BY <2>7 DEF ClonesOf
  <2>12. Id("output", c) \in Downloads'
    <3>1. IdsOf(Append(queue["output"], co)) = IdsOf(queue["output"]) \cup {co.id}
      BY <1>t, AppendIs
    <3> QED BY <1>c, <2>3, <2>4, <3>1 DEF Downloads
  <2>13. PICK out \in Outs : /\ out.n = c /\ out.state = "copying" /\ out.reqs = worker.rows
                             /\ pending' = Append(pending, out)
    <3> DEFINE out == [Nothing EXCEPT !.n = step, !.state = "copying", !.reqs = worker.rows]
    <3>1. out \in Outs /\ out.n = step /\ out.state = "copying" /\ out.reqs = worker.rows
      BY <1>t, Empties DEF Outs
    <3>2. pending' = Append(pending, out)
      BY <1>1 DEF ReturnAsync
    <3> HIDE DEF out
    <3> QED BY <1>c, <3>1, <3>2
  <2>14. OutputRight(out)'
    BY <1>c, <1>i, <1>n, <2>1, <2>12, <2>13 DEF OutputRight
  <2>15. PendingRight' /\ TakenRight'
    BY <1>i, <2>6, <2>13, <2>14, OutputSent
  <2> QED BY <2>6, <2>8, <2>9, <2>10, <2>11, <2>15 DEF StreamInv
<1>2. ASSUME NEW finished \in BOOLEAN, Pool(finished) PROVE StreamInv'
  <2>1. /\ pc = "pool" /\ Enqueued = 2 /\ mode.pool
        /\ worker.rows = info[step].batch
    BY <1>2, <1>p DEF Pool, Enqueued, PoolingOnly, RowsOfStep
  <2>2. PICK op \in Kernels : /\ op = Kernel("pooler", step, freed)
                              /\ op.id = Id("pooler", step) /\ op.takes = freed
    BY <1>k
  <2>3. PICK co \in Copies("output") :
          /\ co = Copy("output", step, Id("pooler", step))
          /\ co.id = Id("output", step) /\ co.after = Id("pooler", step)
    BY <1>o
  <2>4. /\ queue'["default"] = Append(queue["default"], op)
        /\ queue'["output"] = IF finished THEN Append(queue["output"], co) ELSE queue["output"]
    BY <1>2, <1>t, <2>2, <2>3 DEF Pool, Streams
  <2>5. MainEnqueues("pooler")
    <3>1. pc' \notin Sampling
      BY <1>i DEF Sampling
    <3> QED BY <1>i, <1>e, <1>s, <2>1, <2>2, <2>3, <2>4, <3>1 DEF MainEnqueues
  <2>6. /\ Waiting' = Waiting \cup {Id("pooler", c)}
        /\ \A s : Past(c, s) /\ s < 6 => Past(c, s)'
        /\ SlotsOf(c)' /\ ExpertsOf(c)' /\ TokensOf(c)' /\ ClonesOf(c)' => WorkRight'
        /\ \A o \in Outs : OutputRight(o) => OutputRight(o)'
    BY <1>c, <1>i, <1>s, <2>5, MainEnqueuesStep
  <2>7. /\ \A k \in {"upload", "forward"} : Id(k, c) \in Waiting' <=> Id(k, c) \in Waiting
        /\ \A k \in {"clone", "experts", "tokens", "sample"} : Id(k, c) \notin Waiting'
    <3>1. \A k \in {"clone", "experts", "tokens", "sample"} : Id(k, c) \notin Waiting
      BY <1>n, <2>1, Stages
    <3> QED BY <2>6, <3>1, IdIs
  <2>8. SlotsOf(c)'
    BY <1>c, <1>i, <1>n, <2>6, <2>7 DEF SlotsOf, At
  <2>9. ExpertsOf(c)' /\ TokensOf(c)' /\ ClonesOf(c)'
    BY <1>i, <2>1, <2>7 DEF ExpertsOf, TokensOf, ClonesOf, At, Sampling
  <2>12. finished => Id("output", c) \in Downloads'
    <3>1. IdsOf(Append(queue["output"], co)) = IdsOf(queue["output"]) \cup {co.id}
      BY <1>t, AppendIs
    <3> QED BY <1>c, <2>3, <2>4, <3>1 DEF Downloads
  <2>13. PICK out \in Outs : /\ out.n = c /\ out.reqs = worker.rows /\ out.tokens = None
                             /\ out.state = IF finished THEN "copying" ELSE "got"
                             /\ pending' = Append(pending, out)
    <3> DEFINE out == [Nothing EXCEPT !.n = step, !.reqs = worker.rows,
                                      !.state = IF finished THEN "copying" ELSE "got"]
    <3>1. out \in Outs /\ out.n = step /\ out.reqs = worker.rows
          /\ out.state = IF finished THEN "copying" ELSE "got"
      BY <1>t, Empties DEF Outs
    <3>2. out.tokens = None
      BY DEF Nothing
    <3>3. pending' = Append(pending, out)
      BY <1>2 DEF Pool
    <3> HIDE DEF out
    <3> QED BY <1>c, <3>1, <3>2, <3>3
  <2>14. OutputRight(out)'
    <3>1. info[c].acc = None
      BY <1>n, <1>p, <2>1 DEF PoolingOnly
    <3>2. Complete(out)'
      BY <1>i, <2>1, <2>13, <3>1 DEF Complete
    <3> QED BY <1>c, <1>i, <1>n, <2>1, <2>7, <2>12, <2>13, <3>2 DEF OutputRight
  <2>15. PendingRight' /\ TakenRight'
    <3>1. out.state # "none"
      BY <2>13
    <3> QED BY <1>i, <2>6, <2>13, <2>14, <3>1, OutputSent
  <2> QED BY <2>6, <2>8, <2>9, <2>15 DEF StreamInv
<1> QED BY <1>1, <1>2

\* Two operations at the end of a queue.
LEMMA TwoMore ==
  ASSUME NEW q \in Seq(Kernels), NEW a \in Kernels, NEW b \in Kernels, InOrder(q),
         \A x \in IdsOf(q) : Before(x, a.id) /\ Before(x, b.id), Before(a.id, b.id)
  PROVE  LET p == q \o <<a, b>>
         IN  /\ IdsOf(p) = IdsOf(q) \cup {a.id, b.id} /\ InOrder(p)
             /\ TakenBy(p) = TakenBy(q) \cup a.takes \cup b.takes
<1> DEFINE m == Append(q, a)
           p == Append(m, b)
<1>1. q \o <<a, b>> = p
  BY AppendProperties, ConcatProperties
<1>2. /\ m \in Seq(Kernels) /\ IdsOf(m) = IdsOf(q) \cup {a.id} /\ InOrder(m)
      /\ TakenBy(m) = TakenBy(q) \cup a.takes
  BY AppendIs
<1>3. \A x \in IdsOf(m) : Before(x, b.id)
  BY <1>2
<1> HIDE DEF m
<1>4. /\ IdsOf(p) = IdsOf(m) \cup {b.id} /\ InOrder(p)
      /\ TakenBy(p) = TakenBy(m) \cup b.takes
  BY <1>2, <1>3, AppendIs
<1> QED BY <1>1, <1>2, <1>4

\* Without asynchronous scheduling, the downloads go behind the kernels.
LEMMA DownloadTokensKeeps ==
  ASSUME StreamInv, StreamTypes', DownloadTokens
  PROVE  StreamInv'
<1>c. PICK c : c = step
  OBVIOUS
<1> DEFINE a == Copy("experts", c, NoOp)
           b == Copy("tokens", c, NoOp)
           New == {Id("experts", c), Id("tokens", c)}
           q == queue["default"]
<1>1. /\ pc = "book" /\ pc' = "wait" /\ Enqueued = 4 /\ Enqueued' = 6
      /\ UNCHANGED <<mode, step, info, host, worker, dev, mem, freed, taken, pending>>
      /\ queue' = [queue EXCEPT !["default"] = q \o <<a, b>>]
  BY <1>c DEF DownloadTokens, Enqueued, engine
<1>2. /\ c \in Nat /\ c > 0 /\ DOMAIN queue = Streams /\ q \in Seq(Kernels)
      /\ Waiting \subseteq Ids /\ step' \in Nat
  BY <1>c, <1>1, Typed DEF StreamInv, StreamTypes, QueueTypes, EngineTypes
<1>3. queue'["default"] = q \o <<a, b>> /\ queue'["output"] = queue["output"]
  BY <1>1, <1>2 DEF Streams
<1>4. /\ Id("experts", c) \in Ids /\ Id("tokens", c) \in Ids
      /\ Stage["experts"] = 5 /\ Stage["tokens"] = 6
  BY <1>2, IdIs, Stages
<1>5. /\ a \in Kernels /\ a.id = Id("experts", c) /\ a.takes = {}
      /\ b \in Kernels /\ b.id = Id("tokens", c) /\ b.takes = {}
  BY <1>4 DEF Copy, Kernels
<1> HIDE DEF a, b
<1>6. Before(a.id, b.id)
  BY <1>2, <1>4, <1>5, IdIs DEF Before
<1>7. \A x \in IdsOf(q) : Before(x, a.id) /\ Before(x, b.id)
  <2> SUFFICES ASSUME NEW x \in Waiting PROVE Before(x, a.id) /\ Before(x, b.id)
    BY DEF Waiting
  <2>1. x[2] < c \/ (x[2] = c /\ Stage[x[1]] <= 4)
    BY <1>c, <1>1 DEF StreamInv, WorkRight, NothingAhead
  <2>2. Stage[x[1]] \in 1 .. 6
    BY <1>2, IdIs, Stages
  <2> QED BY <1>4, <1>5, <2>1, <2>2, IdIs DEF Before
<1>8. /\ IdsOf(q \o <<a, b>>) = IdsOf(q) \cup {a.id, b.id} /\ InOrder(q \o <<a, b>>)
      /\ TakenBy(q \o <<a, b>>) = TakenBy(q) \cup a.takes \cup b.takes
  <2>1. InOrder(q)
    BY DEF StreamInv, WorkRight
  <2>2. q \in Seq(Kernels) /\ a \in Kernels /\ b \in Kernels
    BY <1>2, <1>5
  <2> QED BY <1>6, <1>7, <2>1, <2>2, TwoMore
<1>9. Waiting' = Waiting \cup New /\ Garbage' = Garbage /\ Downloads' = Downloads
  BY <1>1, <1>3, <1>5, <1>8 DEF Waiting, Garbage, Downloads
<1>10. InOrder(queue["default"])'
  BY <1>3, <1>8 DEF InOrder
<1>11. /\ NothingAhead' /\ FreedLate'
       /\ \A n \in 1 .. step' : n < step' =>
            SlotsOf(n)' /\ ExpertsOf(n)' /\ TokensOf(n)' /\ ClonesOf(n)'
       /\ \A n, s : Past(n, s) /\ (\A x \in New : n < step' \/ (n = step' /\ s < Stage[x[1]]))
                      => Past(n, s)'
       /\ \A n : Gone(n) /\ n < step' => Gone(n)'
       /\ \A o \in Outs : OutputRight(o) => OutputRight(o)'
  <2>1. New \in SUBSET Ids
    BY <1>4
  <2>2. \A x \in New : x[2] = step' /\ Stage[x[1]] <= Enqueued'
    BY <1>c, <1>1, <1>4, IdIs
  <2>3. step' = (IF pc = "idle" THEN step + 1 ELSE step) /\ Enqueued <= Enqueued'
    BY <1>1
  <2> HIDE DEF New
  <2> QED BY <1>1, <1>9, <2>1, <2>2, <2>3, EnqueueStep
<1>12. \A s : Past(c, s) /\ s < 5 /\ s < 6 => Past(c, s)'
  BY <1>c, <1>1, <1>4, <1>11, IdIs
<1>n. /\ Id("output", c) \notin Downloads /\ c \in 1 .. step
      /\ SlotsOf(c) /\ ExpertsOf(c) /\ TokensOf(c) /\ ClonesOf(c)
  BY <1>c, <1>1, NotYet DEF StreamInv, WorkRight, StepsRight
<1>13. /\ Id("experts", c) \in Waiting' /\ Id("tokens", c) \in Waiting'
       /\ \A k \in {"upload", "forward", "sample"} : Id(k, c) \in Waiting' <=> Id(k, c) \in Waiting
  BY <1>9, IdIs
<1>14. SlotsOf(c)'
  BY <1>c, <1>1, <1>n, <1>12, <1>13 DEF SlotsOf, At
<1>15. ExpertsOf(c)'
  BY <1>c, <1>1, <1>n, <1>12, <1>13 DEF ExpertsOf, At, Sampling
<1>16. TokensOf(c)'
  BY <1>c, <1>1, <1>n, <1>12, <1>13 DEF TokensOf, At, Holds
<1>17. ClonesOf(c)'
  BY <1>9, <1>n DEF ClonesOf
<1>18. StepsRight'
  <2> SUFFICES ASSUME NEW n \in 1 .. step'
               PROVE  SlotsOf(n)' /\ ExpertsOf(n)' /\ TokensOf(n)' /\ ClonesOf(n)'
    BY DEF StepsRight
  <2>1. n < step' \/ n = c
    BY <1>c, <1>1, <1>2
  <2> QED BY <1>11, <1>14, <1>15, <1>16, <1>17, <2>1
<1>19. AfterLast'
  BY <1>1, <1>2, <1>3, <1>9, <1>11, DownloadsWait
<1>20. OnHost'
  BY <1>c, <1>1, <1>13 DEF OnHost
<1>21. PoolingOnly' /\ RowsOfStep'
  <2>1. PoolingOnly /\ RowsOfStep
    BY DEF StreamInv, WorkRight
  <2>2. ~mode.pool
    BY <1>1, <2>1 DEF PoolingOnly, Sampling
  <2> QED BY <1>1, <1>9, <2>1, <2>2, IdIs DEF PoolingOnly, RowsOfStep
<1>22. PendingRight' /\ TakenRight'
  BY <1>1, <1>11, OutputsKept
<1> QED BY <1>10, <1>11, <1>18, <1>19, <1>20, <1>21, <1>22 DEF StreamInv, WorkRight

\* The engine plans a step, or sends a dummy run when there is nothing to plan.
LEMMA NewStepKeeps ==
  ASSUME StreamInv, StreamTypes', DummyRun \/ \E b, d : PlanStep(b, d)
  PROVE  StreamInv'
<1>c. PICK c : c = step + 1
  OBVIOUS
<1> DEFINE a == Kernel("upload", c, freed)
           b == Kernel("forward", c, {})
           q == queue["default"]
<1>1. /\ pc = "idle" /\ step' = c /\ pc' \in {"idle", "prepare"}
      /\ UNCHANGED <<mode, dev, mem, taken, pending>>
      /\ \E new : new.acc = None /\ info' = Append(info, new)
  <2>1. /\ [NoStep EXCEPT !.dummy = TRUE].acc = None
        /\ \A x, d : [NoStep EXCEPT !.batch = x, !.sent = sched, !.d = d].acc = None
    BY DEF NoStep
  <2>2. ASSUME DummyRun
        PROVE  /\ pc = "idle" /\ step' = c /\ pc' \in {"idle", "prepare"}
               /\ UNCHANGED <<mode, dev, mem, taken, pending>>
               /\ info' = Append(info, [NoStep EXCEPT !.dummy = TRUE])
    BY <1>c, <2>2 DEF DummyRun, engine
  <2>3. ASSUME NEW x, NEW d, PlanStep(x, d)
        PROVE  /\ pc = "idle" /\ step' = c /\ pc' \in {"idle", "prepare"}
               /\ UNCHANGED <<mode, dev, mem, taken, pending>>
               /\ info' = Append(info, [NoStep EXCEPT !.batch = x, !.sent = sched, !.d = d])
    BY <1>c, <2>3 DEF PlanStep, gpu
  <2> QED BY <2>1, <2>2, <2>3
<1>2. /\ c \in Nat /\ step \in Nat /\ c > 0 /\ DOMAIN queue = Streams /\ q \in Seq(Kernels)
      /\ Waiting \subseteq Ids /\ freed \in SUBSET Tensors
      /\ info \in Seq(Infos) /\ Len(info) = step
  <2>1. step \in Nat /\ Waiting \subseteq Ids
    BY Typed
  <2>2. DOMAIN queue = Streams /\ q \in Seq(Kernels)
    BY DEF StreamInv, StreamTypes, QueueTypes
  <2>3. freed \in SUBSET Tensors
    BY DEF StreamInv, StreamTypes, DeviceTypes
  <2>4. info \in Seq(Infos) /\ Len(info) = step
    BY DEF StreamInv, StreamTypes, EngineTypes
  <2> QED BY <1>c, <2>1, <2>2, <2>3, <2>4
<1>3. info'[c].acc = None /\ \A n \in 1 .. step : info'[n] = info[n]
  BY <1>c, <1>1, <1>2, AppendProperties
<1>4. \A x \in Waiting : x[2] < c
  BY <1>c, <1>2, IdIs DEF StreamInv, WorkRight, NothingAhead
<1>5. Id("output", c) \notin Downloads
  <2> SUFFICES ASSUME NEW i \in DOMAIN queue["output"], queue["output"][i].id = Id("output", c)
               PROVE  FALSE
    BY DEF Downloads, IdsOf
  <2>1. queue["output"][i].id[2] \in 1 .. step
    BY DEF StreamInv, WorkRight, AfterLast
  <2> QED BY <1>c, <1>2, <2>1, IdIs
<1>6. queue'["output"] = queue["output"] /\ Downloads' = Downloads
  BY <1>2 DEF DummyRun, PlanStep, gpu, Streams, Downloads
<1>7. PICK New \in SUBSET {Id("upload", c), Id("forward", c)} :
        /\ New = {} \/ Id("upload", c) \in New
        /\ Waiting' = Waiting \cup New /\ Garbage' = Garbage /\ InOrder(queue["default"])'
  <2>0. InOrder(q)
    BY DEF StreamInv, WorkRight
  <2>1. CASE \E x, d : PlanStep(x, d)
    <3>1. UNCHANGED <<queue, freed>>
      BY <2>1 DEF PlanStep, gpu
    <3>2. Waiting' = Waiting \cup {} /\ Garbage' = Garbage /\ InOrder(queue["default"])'
      BY <2>0, <3>1 DEF Waiting, Garbage, InOrder
    <3> QED BY <3>2
  <2>2. CASE DummyRun
    <3>1. queue' = [queue EXCEPT !["default"] = q \o <<a, b>>] /\ freed' = {}
      BY <1>c, <2>2 DEF DummyRun
    <3>2. queue'["default"] = q \o <<a, b>>
      BY <1>2, <3>1 DEF Streams
    <3>3. /\ Id("upload", c) \in Ids /\ Id("forward", c) \in Ids
          /\ Stage["upload"] = 1 /\ Stage["forward"] = 2
      BY <1>2, IdIs, Stages
    <3>4. /\ a \in Kernels /\ a.id = Id("upload", c) /\ a.takes = freed
          /\ b \in Kernels /\ b.id = Id("forward", c) /\ b.takes = {}
      BY <1>2, <3>3 DEF Kernel, Kernels
    <3> HIDE DEF a, b
    <3>5. Before(a.id, b.id) /\ \A x \in IdsOf(q) : Before(x, a.id) /\ Before(x, b.id)
      BY <1>2, <1>4, <3>3, <3>4, IdIs DEF Before, Waiting
    <3>6. /\ IdsOf(q \o <<a, b>>) = IdsOf(q) \cup {a.id, b.id} /\ InOrder(q \o <<a, b>>)
          /\ TakenBy(q \o <<a, b>>) = TakenBy(q) \cup a.takes \cup b.takes
      BY <1>2, <2>0, <3>4, <3>5, TwoMore
    <3>7. Waiting' = Waiting \cup {Id("upload", c), Id("forward", c)}
      BY <3>2, <3>4, <3>6 DEF Waiting
    <3>8. Garbage' = Garbage
      BY <3>1, <3>2, <3>4, <3>6 DEF Garbage
    <3>9. InOrder(queue["default"])'
      BY <3>2, <3>6 DEF InOrder
    <3> QED BY <3>7, <3>8, <3>9
  <2> QED BY <2>1, <2>2
<1>e. Enqueued' = 6 \/ (New = {} /\ Enqueued' = 0)
  <2>1. CASE pc' = "idle"
    BY <2>1 DEF Enqueued
  <2>2. CASE pc' # "idle"
    <3>1. \E x, d : PlanStep(x, d)
      BY <2>2, <1>1 DEF DummyRun
    <3>2. Waiting' = Waiting /\ pc' = "prepare"
      BY <3>1 DEF PlanStep, gpu, Waiting
    <3>3. \A x \in New : x \in Waiting /\ x[2] = c
      BY <1>7, <3>2, IdIs
    <3>4. New = {}
      BY <1>2, <1>4, <3>3
    <3> QED BY <3>2, <3>4 DEF Enqueued
  <2> QED BY <2>1, <2>2
<1>11. /\ NothingAhead' /\ FreedLate'
       /\ \A n \in 1 .. step' : n < step' =>
            SlotsOf(n)' /\ ExpertsOf(n)' /\ TokensOf(n)' /\ ClonesOf(n)'
       /\ \A n, s : Past(n, s) /\ (\A x \in New : n < step' \/ (n = step' /\ s < Stage[x[1]]))
                      => Past(n, s)'
       /\ \A n : Gone(n) /\ n < step' => Gone(n)'
       /\ \A o \in Outs : OutputRight(o) => OutputRight(o)'
  <2>1. New \in SUBSET Ids /\ \A x \in New : x[2] = step' /\ Stage[x[1]] <= Enqueued'
    <3>1. New \in SUBSET Ids /\ \A x \in New : x[2] = c
      <4>1. Id("upload", c) \in Ids /\ Id("forward", c) \in Ids
        BY <1>2, IdIs, Stages
      <4>2. Id("upload", c)[2] = c /\ Id("forward", c)[2] = c
        BY IdIs
      <4> QED BY <1>7, <4>1, <4>2
    <3>2. \A x \in New : Stage[x[1]] \in 1 .. 6
      BY <3>1, IdIs, Stages
    <3> QED BY <1>1, <1>e, <3>1, <3>2
  <2>2. step' = (IF pc = "idle" THEN step + 1 ELSE step)
    BY <1>c, <1>1
  <2>3. \A n \in 1 .. step : info'[n].acc = info[n].acc /\ info'[n].batch = info[n].batch
    BY <1>3
  <2> QED BY <1>1, <1>6, <1>7, <2>1, <2>2, <2>3, EnqueueStep
<1>12. /\ \A k \in {"clone", "experts", "tokens"} : Id(k, c) \notin Waiting'
       /\ Id("forward", c) \in Waiting' => Id("upload", c) \in Waiting'
       /\ Id("output", c) \notin Downloads'
  <2>1. \A k : Id(k, c) \notin Waiting
    BY <1>2, <1>4, IdIs
  <2> QED BY <1>5, <1>6, <1>7, <2>1, IdIs
<1>13. SlotsOf(c)' /\ ExpertsOf(c)' /\ TokensOf(c)' /\ ClonesOf(c)'
  BY <1>1, <1>12 DEF SlotsOf, ExpertsOf, TokensOf, ClonesOf, At, Sampling
<1>14. StepsRight'
  <2> SUFFICES ASSUME NEW n \in 1 .. step'
               PROVE  SlotsOf(n)' /\ ExpertsOf(n)' /\ TokensOf(n)' /\ ClonesOf(n)'
    BY DEF StepsRight
  <2>1. n < step' \/ n = c
    BY <1>1, <1>2
  <2> QED BY <1>11, <1>13, <2>1
<1>15. AfterLast'
  <2>1. step' \in Nat /\ step' = (IF pc = "idle" THEN step + 1 ELSE step)
        /\ Waiting \subseteq Waiting'
    BY <1>c, <1>1, <1>2, <1>7
  <2> QED BY <1>6, <1>11, <2>1, DownloadsWait
<1>16. OnHost' /\ RowsOfStep'
  BY <1>1 DEF OnHost, RowsOfStep
<1>17. PoolingOnly'
  <2>1. PoolingOnly
    BY DEF StreamInv, WorkRight
  <2>2. \A n \in 1 .. step' : n \in 1 .. step \/ n = c
    BY <1>c, <1>1, <1>2
  <2>3. \A x \in New : x[1] \in {"upload", "forward"}
    BY <1>7, IdIs
  <2>4. pc' \notin Sampling /\ pc' # "pool"
    BY <1>1 DEF Sampling
  <2> QED BY <1>1, <1>3, <1>7, <2>1, <2>2, <2>3, <2>4 DEF PoolingOnly
<1>18. PendingRight' /\ TakenRight'
  BY <1>1, <1>11, OutputsKept
<1> QED BY <1>7, <1>11, <1>14, <1>15, <1>16, <1>17, <1>18 DEF StreamInv, WorkRight

-----------------------------------------------------------------------------
(* The default stream runs its operations.                                 *)

\* What holds whatever the operation: nothing is enqueued, and all that is left belongs
\* to the same step or a later one.
LEMMA RunStep ==
  ASSUME StreamInv, NEW kind, Runs("default", kind), NEW n, n = Now("default"),
         \A m \in 1 .. step : info'[m].batch = info[m].batch
  PROVE  /\ InOrder(queue["default"])' /\ NothingAhead' /\ AfterLast' /\ FreedLate' /\ RowsOfStep'
         /\ \A m, s : Past(m, s) => Past(m, s)'
         /\ \A m : Gone(m) => Gone(m)'
         /\ Past(n, Stage[kind])' /\ n \in 1 .. step
         /\ \A k, m : m \in Nat /\ Id(k, m) \in Waiting' => n <= m
         /\ Waiting = Waiting' \cup {Id(kind, n)} /\ Id(kind, n) \notin Waiting'
         /\ Downloads' = Downloads /\ UNCHANGED <<mode, pc, step, taken>>
<1>1. /\ Id(kind, n) \in Waiting /\ n \in 1 .. step /\ kind \in DOMAIN Stage
      /\ Id(kind, n) \notin Waiting' /\ Waiting = Waiting' \cup {Id(kind, n)} /\ Waiting' \subseteq Ids
      /\ \A a \in Waiting' : Before(Id(kind, n), a)
      /\ InOrder(queue["default"])' /\ Downloads' = Downloads
      /\ queue'["output"] = queue["output"] /\ Garbage' \subseteq Garbage
  BY DefaultRuns
<1>2. UNCHANGED <<mode, pc, step, taken, worker>>
  BY DEF Runs
<1>3. WorkRight /\ step \in Nat
  BY Typed DEF StreamInv
<1>4. \A m, s : Past(m, s) => Past(m, s)'
  BY <1>1 DEF Past
<1>5. \A m : Gone(m) => Gone(m)'
  BY <1>1 DEF Gone
<1>6. NothingAhead'
  <2>1. Enqueued' = Enqueued
    BY <1>2 DEF Enqueued
  <2> QED BY <1>1, <1>2, <1>3, <2>1 DEF WorkRight, NothingAhead
<1>7. Past(n, Stage[kind])'
  BY <1>1, IdIs DEF Past, Before
<1>8. \A k, m : m \in Nat /\ Id(k, m) \in Waiting' => n <= m
  BY <1>1, <1>3, IdIs DEF Before
<1>9. FreedLate'
  BY <1>1, <1>2, <1>3, <1>5 DEF WorkRight, FreedLate
<1>10. AfterLast'
  <2> SUFFICES ASSUME NEW i \in DOMAIN queue["output"], NEW op, op = queue["output"][i]
               PROVE  /\ op.id[2] \in 1 .. step /\ (pc # "idle" => op.id[2] < step)
                      /\ op.after \in {Id("clone", op.id[2]), Id("pooler", op.id[2])}
                      /\ op.after \in Waiting' \/ Gone(op.id[2])'
    BY <1>1, <1>2 DEF AfterLast, Gone
  <2>1. /\ op.id[2] \in 1 .. step /\ (pc # "idle" => op.id[2] < step)
        /\ op.after \in {Id("clone", op.id[2]), Id("pooler", op.id[2])}
        /\ op.after \in Waiting \/ Gone(op.id[2])
    BY <1>3 DEF WorkRight, AfterLast
  <2>2. ASSUME op.after = Id(kind, n) PROVE Gone(op.id[2])'
    <3>1. kind \in {"clone", "pooler"} /\ op.id[2] = n
      BY <2>1, <2>2, IdIs
    <3>2. Stage[kind] = 6 /\ \A a \in Waiting' : Stage[a[1]] \in 1 .. 6
      BY <1>1, <3>1, IdIs, Stages
    <3>3. Gone(n)'
      BY <1>7, <3>2 DEF Past, Gone
    <3> QED BY <3>1, <3>3
  <2>3. ASSUME op.after \in Waiting, op.after # Id(kind, n) PROVE op.after \in Waiting'
    BY <1>1, <2>3
  <2>4. ASSUME Gone(op.id[2]) PROVE Gone(op.id[2])'
    BY <1>5, <2>4
  <2> QED BY <2>1, <2>2, <2>3, <2>4
<1>11. RowsOfStep'
  <2>1. pc # "idle" => step \in 1 .. step
    BY DEF StreamInv, StreamTypes, EngineTypes
  <2> QED BY <1>2, <1>3, <2>1 DEF WorkRight, RowsOfStep
<1> QED BY <1>1, <1>2, <1>4, <1>5, <1>6, <1>7, <1>8, <1>9, <1>10, <1>11

\* A tensor whose memory is taken belongs to a step that is over.
LEMMA TakenIsOver ==
  ASSUME StreamInv, NEW kind, Runs("default", kind), NEW m \in 1 .. step,
         Id("tokens", m) \in Taken \/ Id("clones", m) \in Taken
  PROVE  /\ \A k : Id(k, m) \notin Waiting'
         /\ Id("output", m) \notin Downloads'
         /\ m = step => pc = "idle"
<1>1. Taken \subseteq Garbage /\ Downloads' = Downloads /\ Waiting' \subseteq Waiting
  BY DefaultRuns
<1>2. /\ m <= step /\ (pc # "idle" => m < step)
      /\ Gone(m) /\ Id("output", m) \notin Downloads
  BY <1>1, IdIs DEF StreamInv, WorkRight, FreedLate
<1>3. \A k : Id(k, m) \notin Waiting
  BY <1>2, IdIs, Typed DEF Gone
<1> QED BY <1>1, <1>2, <1>3, Typed

\* The tokens of a step stay what they are until the step's output is there.
LEMMA TokensStay ==
  ASSUME StreamInv, NEW kind, Runs("default", kind), NEW m \in 1 .. step,
         info'[m].acc = info[m].acc, Id(kind, Now("default")) # Id("sample", m),
         \A m1 \in 1 .. step : info'[m1].batch = info[m1].batch,
         Id("tokens", m) \in (DOMAIN mem) \ Taken =>
           Id("tokens", m) \in DOMAIN mem' /\ mem'[Id("tokens", m)] = mem[Id("tokens", m)]
  PROVE  TokensOf(m)'
<1>1. PICK n : n = Now("default")
  OBVIOUS
<1>2. /\ Past(m, 3) => Past(m, 3)'
      /\ Waiting = Waiting' \cup {Id(kind, n)} /\ Downloads' = Downloads
      /\ UNCHANGED <<mode, pc, step>>
  BY <1>1, RunStep
<1>3. TokensOf(m)
  BY DEF StreamInv, WorkRight, StepsRight
<1>4. CASE Id("tokens", m) \in Taken
  BY <1>2, <1>4, TakenIsOver DEF TokensOf, At
<1>5. CASE Id("tokens", m) \notin Taken
  <2>1. Holds(Id("tokens", m), info[m].acc) => Holds(Id("tokens", m), info[m].acc)'
    BY <1>5 DEF Holds
  <2> QED BY <1>1, <1>2, <1>3, <2>1 DEF TokensOf, At
<1> QED BY <1>4, <1>5

\* And so do the clones of its routing data.
LEMMA ClonesStay ==
  ASSUME StreamInv, NEW kind, Runs("default", kind), NEW m \in 1 .. step,
         Id(kind, Now("default")) # Id("clone", m),
         \A m1 \in 1 .. step : info'[m1].batch = info[m1].batch,
         Id("clones", m) \in (DOMAIN mem) \ Taken =>
           Id("clones", m) \in DOMAIN mem' /\ mem'[Id("clones", m)] = mem[Id("clones", m)]
  PROVE  ClonesOf(m)'
<1>1. PICK n : n = Now("default")
  OBVIOUS
<1>2. /\ Waiting = Waiting' \cup {Id(kind, n)} /\ Downloads' = Downloads
      /\ UNCHANGED <<mode, pc, step>>
  BY <1>1, RunStep
<1>3. ClonesOf(m)
  BY DEF StreamInv, WorkRight, StepsRight
<1>4. CASE Id("clones", m) \in Taken
  BY <1>4, TakenIsOver DEF ClonesOf
<1>5. CASE Id("clones", m) \notin Taken
  <2>1. Holds(Id("clones", m), Own(m)) => Holds(Id("clones", m), Own(m))'
    BY <1>5 DEF Holds, Own
  <2> QED BY <1>1, <1>2, <1>3, <2>1 DEF ClonesOf
<1> QED BY <1>4, <1>5

\* The routing data and slots on the GPU stay what they are until the next step's.
LEMMA DeviceStays ==
  ASSUME StreamInv, NEW kind, Runs("default", kind), NEW m \in 1 .. step,
         \A m1 \in 1 .. step : info'[m1].batch = info[m1].batch,
         dev'.slots = dev.slots, dev'.experts = dev.experts
  PROVE  /\ Id(kind, Now("default")) # Id("upload", m) => SlotsOf(m)'
         /\ Id(kind, Now("default")) # Id("forward", m) => ExpertsOf(m)'
<1>1. PICK n : n = Now("default")
  OBVIOUS
<1>2. /\ \A s : Past(m, s) => Past(m, s)'
      /\ Waiting = Waiting' \cup {Id(kind, n)}
      /\ UNCHANGED <<mode, pc, step>>
  BY <1>1, RunStep
<1>3. SlotsOf(m) /\ ExpertsOf(m)
  BY DEF StreamInv, WorkRight, StepsRight
<1> QED BY <1>1, <1>2, <1>3 DEF SlotsOf, ExpertsOf, At

\* The outputs stay right, for what the operation leaves of its step's tokens.
LEMMA OutputsStay ==
  ASSUME StreamInv, NEW kind, Runs("default", kind), pending' = pending,
         \A m \in 1 .. step : /\ info'[m].batch = info[m].batch
                              /\ info'[m].acc = info[m].acc \/ Id("sample", m) \in Waiting
  PROVE  PendingRight' /\ TakenRight'
<1>1. PICK n : n = Now("default")
  OBVIOUS
<1>2. /\ Waiting = Waiting' \cup {Id(kind, n)} /\ Downloads' = Downloads
      /\ UNCHANGED <<mode, pc, step, taken>> /\ \A m : Gone(m) => Gone(m)'
  BY <1>1, RunStep
<1>3. ASSUME NEW o \in Outs, OutputRight(o) PROVE OutputRight(o)'
  <2>1. o.n \in 1 .. step /\ step \in Nat /\ (pc # "idle" => o.n < step)
    BY <1>3, Typed DEF OutputRight
  <2>2. CASE info'[o.n].acc = info[o.n].acc
    BY <1>2, <1>3, <2>1, <2>2, OutputStays
  <2>3. CASE Id("sample", o.n) \in Waiting
    <3>1. ~Gone(o.n)
      BY <2>1, <2>3, IdIs DEF Gone
    <3> QED BY <1>2, <1>3, <2>1, <2>3, <3>1 DEF OutputRight
  <2> QED BY <2>1, <2>2, <2>3
<1> QED BY <1>2, <1>3, OutputsKept

\* An upload or a forward pass: what the step before it left on the GPU was cloned.
LEMMA UploadKeeps ==
  ASSUME StreamInv, StreamTypes', RunUpload \/ RunForward
  PROVE  StreamInv'
<1>1. PICK n : n = Now("default")
  OBVIOUS
<1>2. PICK kind \in {"upload", "forward"} :
        /\ Runs("default", kind) /\ UNCHANGED <<info, pending, host>> /\ mem' = Kept
        /\ kind = "upload" => dev'.slots = n
        /\ kind = "forward" => dev'.slots = dev.slots /\ dev'.experts = n
  <2>1. dev \in [inputs : Nat, computed : Totals, experts : Nat, slots : Nat]
    BY DEF StreamInv, StreamTypes, DeviceTypes
  <2>2. CASE RunUpload
    <3>1. dev'.slots = n
      BY <1>1, <2>1, <2>2 DEF RunUpload
    <3> QED BY <2>2, <3>1 DEF RunUpload, history
  <2>3. CASE RunForward
    <3>1. dev'.slots = dev.slots /\ dev'.experts = n
      BY <1>1, <2>1, <2>3 DEF RunForward
    <3> QED BY <2>3, <3>1 DEF RunForward
  <2> QED BY <2>2, <2>3
<1>3. /\ InOrder(queue["default"])' /\ NothingAhead' /\ AfterLast' /\ FreedLate' /\ RowsOfStep'
      /\ \A m, s : Past(m, s) => Past(m, s)'
      /\ \A m : Gone(m) => Gone(m)'
      /\ Past(n, Stage[kind])' /\ n \in 1 .. step
      /\ \A k, m : m \in Nat /\ Id(k, m) \in Waiting' => n <= m
      /\ Waiting = Waiting' \cup {Id(kind, n)} /\ Id(kind, n) \notin Waiting'
      /\ Downloads' = Downloads /\ UNCHANGED <<mode, pc, step, taken>>
  BY <1>1, <1>2, RunStep
<1>4. Stage["upload"] = 1 /\ Stage["forward"] = 2 /\ step \in Nat
  BY Stages, Typed
<1>5. ASSUME NEW m \in 1 .. step
      PROVE  SlotsOf(m)' /\ ExpertsOf(m)' /\ TokensOf(m)' /\ ClonesOf(m)'
  <2>1. SlotsOf(m) /\ ExpertsOf(m)
    BY DEF StreamInv, WorkRight, StepsRight
  <2>2. TokensOf(m)'
    <3>1. Id(kind, Now("default")) # Id("sample", m)
      BY <1>2, IdIs
    <3>2. Id("tokens", m) \in (DOMAIN mem) \ Taken =>
            Id("tokens", m) \in DOMAIN mem' /\ mem'[Id("tokens", m)] = mem[Id("tokens", m)]
      BY <1>2, KeptIs
    <3> QED BY <1>2, <3>1, <3>2, TokensStay
  <2>3. ClonesOf(m)'
    <3>1. Id(kind, Now("default")) # Id("clone", m)
      BY <1>2, IdIs
    <3>2. Id("clones", m) \in (DOMAIN mem) \ Taken =>
            Id("clones", m) \in DOMAIN mem' /\ mem'[Id("clones", m)] = mem[Id("clones", m)]
      BY <1>2, KeptIs
    <3> QED BY <1>2, <3>1, <3>2, ClonesStay
  <2>4. \A S : At(m, S) => n <= m
    BY <1>3, <1>4 DEF At
  <2>5. SlotsOf(m)'
    <3> SUFFICES ASSUME Id("forward", m) \in Waiting' \/ At(m, {"launch"}),
                        Id("upload", m) \notin Waiting'
                 PROVE  dev'.slots = m /\ Past(m, 1)'
      BY <1>3 DEF SlotsOf, At
    <3>1. n <= m
      BY <1>3, <2>4
    <3>2. CASE kind = "upload" /\ n = m
      BY <1>2, <1>3, <1>4, <3>2
    <3>3. CASE ~(kind = "upload" /\ n = m)
      <4>1. Id("upload", m) \notin Waiting
        BY <1>3, <3>3, IdIs
      <4>2. dev.slots = m /\ Past(m, 1)
        BY <1>3, <2>1, <4>1 DEF SlotsOf
      <4>3. kind = "forward"
        <5>1. ASSUME kind = "upload" PROVE FALSE
          <6>1. Id("upload", n) \in Waiting
            BY <1>3, <5>1
          <6>2. m < n
            BY <1>3, <1>4, <3>3, <4>2, <5>1, <6>1, IdIs DEF Past
          <6> QED BY <1>3, <1>4, <3>1, <6>2
        <5> QED BY <5>1
      <4> QED BY <1>2, <1>3, <4>2, <4>3
    <3> QED BY <3>2, <3>3
  <2>6. ExpertsOf(m)'
    <3> SUFFICES ASSUME \/ Id("clone", m) \in Waiting' \/ Id("experts", m) \in Waiting'
                        \/ At(m, Sampling \ {"wait"}),
                        Id("forward", m) \notin Waiting'
                 PROVE  dev'.experts = m /\ dev'.slots = m /\ Past(m, 2)'
      BY <1>3 DEF ExpertsOf, At
    <3>1. n <= m
      BY <1>3, <2>4
    <3>2. CASE kind = "forward" /\ n = m
      <4>1. Id("upload", m) \notin Waiting
        <5>1. ASSUME Id("upload", m) \in Waiting PROVE FALSE
          <6>1. Id("upload", m) \in Waiting'
            BY <1>3, <3>2, <5>1, IdIs
          <6> QED BY <1>3, <1>4, <3>2, <6>1, IdIs DEF Past
        <5> QED BY <5>1
      <4>2. Id("forward", m) \in Waiting
        BY <1>3, <3>2
      <4>3. dev.slots = m
        BY <2>1, <4>1, <4>2 DEF SlotsOf
      <4> QED BY <1>2, <1>3, <1>4, <3>2, <4>3
    <3>3. CASE ~(kind = "forward" /\ n = m)
      <4>1. Id("forward", m) \notin Waiting
        BY <1>3, <3>3, IdIs
      <4>2. Past(m, 2)
        BY <1>3, <2>1, <4>1 DEF ExpertsOf
      <4>3. Id(kind, n) \in Waiting
        BY <1>3
      <4>4. m < n
        BY <1>2, <1>3, <1>4, <3>3, <4>2, <4>3, IdIs DEF Past
      <4> QED BY <1>3, <1>4, <3>1, <4>4
    <3> QED BY <3>2, <3>3
  <2> QED BY <2>2, <2>3, <2>5, <2>6
<1>6. StepsRight'
  BY <1>3, <1>5 DEF StepsRight
<1>7. OnHost'
  <2>1. \A k, m : k \notin {"upload", "forward"} => (Id(k, m) \in Waiting' <=> Id(k, m) \in Waiting)
    BY <1>2, <1>3, IdIs
  <2> QED BY <1>2, <1>3, <2>1 DEF StreamInv, WorkRight, OnHost, Own
<1>8. PoolingOnly'
  BY <1>2, <1>3, KeptIs DEF StreamInv, WorkRight, PoolingOnly
<1>9. PendingRight' /\ TakenRight'
  BY <1>2, OutputsStay
<1> QED BY <1>3, <1>6, <1>7, <1>8, <1>9 DEF StreamInv, WorkRight

\* The routing data and tokens on the host stay right while nothing is copied there.
LEMMA HostStays ==
  ASSUME StreamInv, NEW kind, Runs("default", kind), kind \notin {"experts", "tokens"},
         host' = host,
         \A m \in 1 .. step : /\ info'[m].batch = info[m].batch
                              /\ info'[m].acc = info[m].acc \/ Id("sample", m) \in Waiting
  PROVE  OnHost'
<1>1. PICK n : n = Now("default")
  OBVIOUS
<1>2. /\ \A m, s : Past(m, s) => Past(m, s)'
      /\ \A m : Gone(m) => Gone(m)'
      /\ Waiting = Waiting' \cup {Id(kind, n)} /\ UNCHANGED <<mode, pc, step>>
  BY <1>1, RunStep
<1> SUFFICES ASSUME pc = "wait"
             PROVE  /\ Id("tokens", step) \in Waiting' \/ (host.tokens = info'[step].acc /\ Gone(step)')
                    /\ Id("experts", step) \in Waiting' \/ (host.experts = Own(step) /\ Past(step, 5)')
  BY <1>2 DEF OnHost, Gone, Past, Own
<1>3. /\ Id("tokens", step) \in Waiting \/ (host.tokens = info[step].acc /\ Gone(step))
      /\ Id("experts", step) \in Waiting \/ (host.experts = Own(step) /\ Past(step, 5))
  BY DEF StreamInv, WorkRight, OnHost
<1>4. Id("tokens", step) # Id(kind, n) /\ Id("experts", step) # Id(kind, n)
  BY IdIs
<1>5. step \in 1 .. step
  BY DEF StreamInv, StreamTypes, EngineTypes
<1>6. Gone(step) => Id("sample", step) \notin Waiting
  BY <1>5, IdIs DEF Gone
<1> QED BY <1>2, <1>3, <1>4, <1>5, <1>6

\* What is left to show of an operation that leaves the device's buffers alone.
LEMMA OthersKeep ==
  ASSUME StreamInv, StreamTypes', NEW kind, Runs("default", kind),
         kind \notin {"upload", "forward"}, pending' = pending, dev' = dev,
         \A m \in 1 .. step : /\ info'[m].batch = info[m].batch
                              /\ info'[m].acc = info[m].acc \/ Id("sample", m) \in Waiting,
         \A m \in 1 .. step : TokensOf(m)' /\ ClonesOf(m)',
         OnHost', PoolingOnly'
  PROVE  StreamInv'
<1>1. /\ InOrder(queue["default"])' /\ NothingAhead' /\ AfterLast' /\ FreedLate' /\ RowsOfStep'
      /\ step' = step
  BY RunStep
<1>2. ASSUME NEW m \in 1 .. step PROVE SlotsOf(m)' /\ ExpertsOf(m)'
  <2>1. Id(kind, Now("default")) # Id("upload", m) /\ Id(kind, Now("default")) # Id("forward", m)
    BY IdIs
  <2> QED BY <2>1, DeviceStays
<1>3. StepsRight'
  BY <1>1, <1>2 DEF StepsRight
<1>4. PendingRight' /\ TakenRight'
  BY OutputsStay
<1> QED BY <1>1, <1>3, <1>4 DEF StreamInv, WorkRight

\* Drafts are a tensor of their own.
LEMMA DraftKeeps ==
  ASSUME StreamInv, StreamTypes', RunDraft
  PROVE  StreamInv'
<1>1. PICK n : n = Now("default")
  OBVIOUS
<1>2. /\ Runs("default", "draft") /\ UNCHANGED <<info, pending, host, dev>>
      /\ mem' = With(Kept, Id("drafts", n), n)
  BY <1>1, KeptIs DEF RunDraft
<1>3. \A k, m : k # "drafts" =>
        /\ Id(k, m) \in DOMAIN mem' <=> Id(k, m) \in (DOMAIN mem) \ Taken
        /\ Id(k, m) \in DOMAIN mem' => mem'[Id(k, m)] = mem[Id(k, m)]
  <2>1. \A k, m : k # "drafts" => Id(k, m) # Id("drafts", n)
    BY IdIs
  <2> QED BY <1>2, <2>1, KeptIs DEF With
<1>4. ASSUME NEW m \in 1 .. step PROVE TokensOf(m)' /\ ClonesOf(m)'
  <2>1. Id("draft", Now("default")) # Id("sample", m) /\ Id("draft", Now("default")) # Id("clone", m)
    BY IdIs
  <2>2. TokensOf(m)'
    BY <1>2, <1>3, <2>1, TokensStay
  <2>3. ClonesOf(m)'
    BY <1>2, <1>3, <2>1, ClonesStay
  <2> QED BY <2>2, <2>3
<1>5. OnHost'
  BY <1>2, HostStays
<1>6. PoolingOnly'
  <2>1. /\ Waiting = Waiting' \cup {Id("draft", n)} /\ UNCHANGED <<mode, pc, step>>
    BY <1>1, <1>2, RunStep
  <2>2. Id("draft", n)[1] = "draft"
    BY IdIs
  <2>3. PoolingOnly
    BY DEF StreamInv, WorkRight
  <2>4. ~mode.pool
    BY <2>1, <2>2, <2>3 DEF PoolingOnly
  <2> QED BY <2>1, <2>3, <2>4 DEF PoolingOnly
<1> QED BY <1>2, <1>4, <1>5, <1>6, OthersKeep

\* The sampler writes the tokens of its step, and with them what it accepted.
LEMMA SampleKeeps ==
  ASSUME StreamInv, StreamTypes', NEW acc \in DraftCounts, RunSample(acc)
  PROVE  StreamInv'
<1>1. PICK n : n = Now("default")
  OBVIOUS
<1>2. /\ Runs("default", "sample") /\ UNCHANGED <<pending, host, dev>>
      /\ mem' = With(With(Kept, Id("counts", n), [r \in Req |-> acc[r] + 1]), Id("tokens", n), acc)
      /\ info' = [info EXCEPT ![n].acc = acc]
  BY <1>1, KeptIs DEF RunSample
<1>3. /\ \A m, s : Past(m, s) => Past(m, s)'
      /\ Past(n, Stage["sample"])' /\ n \in 1 .. step
      /\ Waiting = Waiting' \cup {Id("sample", n)} /\ Id("sample", n) \notin Waiting'
      /\ UNCHANGED <<mode, pc, step>>
  <2>1. /\ n \in 1 .. step
    BY <1>1, <1>2, DefaultRuns
  <2>2. DOMAIN info = 1 .. step /\ \A m \in 1 .. step : info[m] \in Infos
    BY DEF StreamInv, StreamTypes, EngineTypes
  <2>3. \A m \in 1 .. step : info'[m].batch = info[m].batch
    BY <1>2, <2>1, <2>2 DEF Infos
  <2> QED BY <1>1, <1>2, <2>3, RunStep
<1>4. /\ \A m \in 1 .. step : /\ info'[m].batch = info[m].batch
                              /\ m # n => info'[m].acc = info[m].acc
      /\ info'[n].acc = acc
  <2>1. DOMAIN info = 1 .. step /\ \A m \in 1 .. step : info[m] \in Infos
    BY DEF StreamInv, StreamTypes, EngineTypes
  <2> QED BY <1>2, <1>3, <2>1 DEF Infos
<1>5. \A m \in 1 .. step : info'[m].acc = info[m].acc \/ Id("sample", m) \in Waiting
  BY <1>3, <1>4
<1>6. /\ Id("tokens", n) \in DOMAIN mem' /\ mem'[Id("tokens", n)] = acc
      /\ \A k, m : k # "counts" /\ (k # "tokens" \/ m # n) =>
           /\ Id(k, m) \in DOMAIN mem' <=> Id(k, m) \in (DOMAIN mem) \ Taken
           /\ Id(k, m) \in DOMAIN mem' => mem'[Id(k, m)] = mem[Id(k, m)]
  <2>1. \A k, m : /\ k # "counts" => Id(k, m) # Id("counts", n)
                  /\ k # "tokens" \/ m # n => Id(k, m) # Id("tokens", n)
    BY IdIs
  <2>2. \A t : t # Id("counts", n) /\ t # Id("tokens", n) =>
          /\ t \in DOMAIN mem' <=> t \in DOMAIN Kept
          /\ t \in DOMAIN mem' => mem'[t] = Kept[t]
    BY <1>2 DEF With
  <2>3. Id("tokens", n) \in DOMAIN mem' /\ mem'[Id("tokens", n)] = acc
    BY <1>2 DEF With
  <2> QED BY <2>1, <2>2, <2>3, KeptIs
<1>7. ASSUME NEW m \in 1 .. step PROVE TokensOf(m)'
  <2>1. CASE m = n
    <3>1. Holds(Id("tokens", m), info[m].acc)' /\ Past(m, 3)'
      BY <1>3, <1>4, <1>6, <2>1, Stages DEF Holds
    <3> QED BY <3>1 DEF TokensOf
  <2>2. CASE m # n
    <3>1. Id("sample", Now("default")) # Id("sample", m)
      BY <1>1, <2>2, IdIs
    <3> QED BY <1>2, <1>4, <1>6, <2>2, <3>1, TokensStay
  <2> QED BY <2>1, <2>2
<1>8. ASSUME NEW m \in 1 .. step PROVE ClonesOf(m)'
  <2>1. Id("sample", Now("default")) # Id("clone", m)
    BY IdIs
  <2> QED BY <1>2, <1>4, <1>6, <2>1, ClonesStay
<1>9. OnHost'
  BY <1>2, <1>4, <1>5, HostStays
<1>10. PoolingOnly'
  <2>1. Id("sample", n)[1] = "sample"
    BY IdIs
  <2>2. PoolingOnly
    BY DEF StreamInv, WorkRight
  <2>3. ~mode.pool
    BY <1>3, <2>1, <2>2 DEF PoolingOnly
  <2> QED BY <1>3, <2>2, <2>3 DEF PoolingOnly
<1> QED BY <1>2, <1>4, <1>5, <1>7, <1>8, <1>9, <1>10, OthersKeep

\* The pooler writes the only tokens there are without sampling.
LEMMA PoolerKeeps ==
  ASSUME StreamInv, StreamTypes', RunPooler
  PROVE  StreamInv'
<1>1. PICK n : n = Now("default")
  OBVIOUS
<1>2. /\ Runs("default", "pooler") /\ UNCHANGED <<info, pending, host, dev>>
      /\ mem' = With(Kept, Id("tokens", n), None)
  BY <1>1, KeptIs DEF RunPooler
<1>3. /\ Waiting = Waiting' \cup {Id("pooler", n)} /\ Downloads' = Downloads
      /\ UNCHANGED <<mode, pc, step>>
  BY <1>1, <1>2, RunStep
<1>4. PoolingOnly
  BY DEF StreamInv, WorkRight
<1>5. mode.pool
  BY <1>3, <1>4, IdIs DEF PoolingOnly
<1>6. /\ Id("tokens", n) \in DOMAIN mem' /\ mem'[Id("tokens", n)] = None
      /\ \A t : t # Id("tokens", n) =>
           /\ t \in DOMAIN mem' <=> t \in (DOMAIN mem) \ Taken
           /\ t \in DOMAIN mem' => mem'[t] = mem[t]
  BY <1>2, KeptIs DEF With
<1>7. ASSUME NEW m \in 1 .. step PROVE TokensOf(m)' /\ ClonesOf(m)'
  <2>1. \A k \in {"clone", "tokens"} : Id(k, m) \notin Waiting'
    BY <1>3, <1>4, <1>5, IdIs DEF PoolingOnly
  <2>2. pc \notin Sampling /\ ~ At(m, {"propose", "drafted", "book"})'
    BY <1>3, <1>4, <1>5 DEF PoolingOnly, Sampling, At
  <2>3. TokensOf(m)'
    BY <1>3, <1>5, <2>1, <2>2 DEF TokensOf
  <2>4. ClonesOf(m)'
    BY <1>3, <1>5 DEF ClonesOf
  <2> QED BY <2>3, <2>4
<1>8. OnHost'
  BY <1>2, HostStays
<1>9. PoolingOnly'
  <2>1. \A t \in DOMAIN mem' : t[1] = "tokens" => mem'[t] = None
    BY <1>4, <1>5, <1>6 DEF PoolingOnly
  <2> QED BY <1>2, <1>3, <1>4, <1>5, <2>1 DEF PoolingOnly, None
<1> QED BY <1>2, <1>7, <1>8, <1>9, OthersKeep

\* The clones are taken of what the step's own forward pass left.
LEMMA CloneKeeps ==
  ASSUME StreamInv, StreamTypes', RunClone
  PROVE  StreamInv'
<1>1. PICK n : n = Now("default")
  OBVIOUS
<1>2. /\ Runs("default", "clone") /\ UNCHANGED <<info, pending, host, dev>>
      /\ mem' = With(Kept, Id("clones", n), [routing |-> dev.experts, slots |-> dev.slots])
  BY <1>1, KeptIs DEF RunClone
<1>3. /\ Waiting = Waiting' \cup {Id("clone", n)} /\ Past(n, Stage["clone"])' /\ n \in 1 .. step
      /\ UNCHANGED <<mode, pc, step>>
  BY <1>1, <1>2, RunStep
<1>4. /\ Id("clones", n) \in DOMAIN mem'
      /\ mem'[Id("clones", n)] = [routing |-> dev.experts, slots |-> dev.slots]
      /\ \A t : t # Id("clones", n) =>
           /\ t \in DOMAIN mem' <=> t \in (DOMAIN mem) \ Taken
           /\ t \in DOMAIN mem' => mem'[t] = mem[t]
  BY <1>2, KeptIs DEF With
<1>5. dev.experts = n /\ dev.slots = n
  <2>1. ExpertsOf(n)
    BY <1>3 DEF StreamInv, WorkRight, StepsRight
  <2>2. Id("forward", n) \notin Waiting'
    BY <1>3, IdIs, Stages DEF Past
  <2>3. Id("forward", n) \notin Waiting
    BY <1>3, <2>2, IdIs
  <2> QED BY <1>3, <2>1, <2>3 DEF ExpertsOf
<1>6. ASSUME NEW m \in 1 .. step PROVE TokensOf(m)'
  <2>1. Id("clone", Now("default")) # Id("sample", m) /\ Id("tokens", m) # Id("clones", n)
    BY IdIs
  <2> QED BY <1>2, <1>4, <2>1, TokensStay
<1>7. ASSUME NEW m \in 1 .. step PROVE ClonesOf(m)'
  <2>1. CASE m = n
    <3>1. Holds(Id("clones", m), Own(m))'
      BY <1>4, <1>5, <2>1 DEF Holds, Own
    <3> QED BY <3>1 DEF ClonesOf
  <2>2. CASE m # n
    <3>1. Id("clone", Now("default")) # Id("clone", m) /\ Id("clones", m) # Id("clones", n)
      BY <1>1, <2>2, IdIs
    <3> QED BY <1>2, <1>4, <3>1, ClonesStay
  <2> QED BY <2>1, <2>2
<1>8. OnHost'
  BY <1>2, HostStays
<1>9. PoolingOnly'
  <2>1. PoolingOnly
    BY DEF StreamInv, WorkRight
  <2>2. ~mode.pool
    BY <1>3, <2>1, IdIs DEF PoolingOnly
  <2> QED BY <1>3, <2>1, <2>2 DEF PoolingOnly
<1> QED BY <1>2, <1>6, <1>7, <1>8, <1>9, OthersKeep

\* The host waits for the copies of its own step, and nothing left of an earlier one can
\* come in between.
LEMMA DownloadsKeep ==
  ASSUME StreamInv, StreamTypes', DownloadExperts \/ DownloadToList
  PROVE  StreamInv'
<1>1. PICK n : n = Now("default")
  OBVIOUS
<1>t. /\ host \in [inputs : Nat, computed : Totals, counts : Totals, drafts : Nat,
                   tokens : Totals, experts : Experts]
      /\ step \in Nat
  BY Typed DEF StreamInv, StreamTypes, HostTypes
<1>2. PICK kind \in {"experts", "tokens"} :
        /\ Runs("default", kind) /\ UNCHANGED <<info, pending, dev, mem>>
        /\ kind = "experts" =>
             host'.experts = [routing |-> dev.experts, slots |-> dev.slots] /\ host'.tokens = host.tokens
        /\ kind = "tokens" =>
             host'.tokens = Contents(Id("tokens", n), None) /\ host'.experts = host.experts
  <2>1. CASE DownloadExperts
    BY <1>t, <2>1 DEF DownloadExperts
  <2>2. CASE DownloadToList
    BY <1>1, <1>t, <2>2 DEF DownloadToList
  <2> QED BY <2>1, <2>2
<1>3. /\ \A m, s : Past(m, s) => Past(m, s)'
      /\ \A m : Gone(m) => Gone(m)'
      /\ Past(n, Stage[kind])' /\ n \in 1 .. step
      /\ Waiting = Waiting' \cup {Id(kind, n)} /\ Id(kind, n) \notin Waiting'
      /\ UNCHANGED <<mode, pc, step>>
  BY <1>1, <1>2, RunStep
<1>4. /\ Stage["forward"] = 2 /\ Stage["sample"] = 3 /\ Stage["experts"] = 5 /\ Stage["tokens"] = 6
      /\ \A a \in Waiting' : Stage[a[1]] \in 1 .. 6
  BY <1>3, IdIs, Stages, Typed
<1>5. ASSUME NEW m \in 1 .. step PROVE TokensOf(m)' /\ ClonesOf(m)'
  <2>1. Id(kind, Now("default")) # Id("sample", m) /\ Id(kind, Now("default")) # Id("clone", m)
    BY <1>2, IdIs
  <2>2. TokensOf(m)'
    BY <1>2, <2>1, TokensStay
  <2>3. ClonesOf(m)'
    BY <1>2, <2>1, ClonesStay
  <2> QED BY <2>2, <2>3
<1>6. OnHost'
  <2> SUFFICES ASSUME pc = "wait"
               PROVE  /\ Id("tokens", step) \in Waiting' \/ (host'.tokens = info[step].acc /\ Gone(step)')
                      /\ Id("experts", step) \in Waiting' \/ (host'.experts = Own(step) /\ Past(step, 5)')
    BY <1>2, <1>3 DEF OnHost, Gone, Past, Own
  <2>1. /\ Id("tokens", step) \in Waiting \/ (host.tokens = info[step].acc /\ Gone(step))
        /\ Id("experts", step) \in Waiting \/ (host.experts = Own(step) /\ Past(step, 5))
    BY DEF StreamInv, WorkRight, OnHost
  <2>2. step \in 1 .. step
    BY DEF StreamInv, StreamTypes, EngineTypes
  <2>3. ExpertsOf(step) /\ TokensOf(step)
    BY <2>2 DEF StreamInv, WorkRight, StepsRight
  <2>4. n <= step /\ ~ Gone(step)
    BY <1>3, <1>t, IdIs DEF Gone
  <2>5. CASE kind = "experts"
    <3>1. Id("tokens", step) \in Waiting' \/ (host'.tokens = info[step].acc /\ Gone(step)')
      BY <1>2, <1>3, <2>1, <2>5, IdIs
    <3>2. CASE n = step
      <4>1. Id("forward", step) \notin Waiting
        BY <1>3, <1>4, <1>t, <2>5, <3>2, IdIs DEF Past
      <4>2. dev.experts = step /\ dev.slots = step
        BY <1>3, <2>3, <2>5, <3>2, <4>1 DEF ExpertsOf
      <4> QED BY <1>2, <1>3, <1>4, <2>5, <3>1, <3>2, <4>2 DEF Own
    <3>3. CASE n # step
      <4>1. ~ Past(step, 5)
        BY <1>3, <1>4, <1>t, <2>4, <2>5, <3>3, IdIs DEF Past
      <4>2. Id("experts", step) \in Waiting'
        BY <1>3, <2>1, <3>3, <4>1, IdIs
      <4> QED BY <3>1, <4>2
    <3> QED BY <3>2, <3>3
  <2>6. CASE kind = "tokens"
    <3>1. Id("experts", step) \in Waiting' \/ (host'.experts = Own(step) /\ Past(step, 5)')
      BY <1>2, <1>3, <2>1, <2>6, IdIs
    <3>2. CASE n = step
      <4>1. Id("sample", step) \notin Waiting
        BY <1>3, <1>4, <1>t, <2>6, <3>2, IdIs DEF Past
      <4>2. Holds(Id("tokens", step), info[step].acc)
        BY <1>3, <2>3, <2>6, <3>2, <4>1 DEF TokensOf
      <4>3. Gone(step)'
        BY <1>3, <1>4, <2>6, <3>2 DEF Past, Gone
      <4> QED BY <1>2, <2>6, <3>1, <3>2, <4>2, <4>3 DEF Holds, Contents
    <3>3. CASE n # step
      <4>1. Id("tokens", step) \in Waiting'
        BY <1>3, <2>1, <2>4, <3>3, IdIs
      <4> QED BY <3>1, <4>1
    <3> QED BY <3>2, <3>3
  <2> QED BY <2>5, <2>6
<1>7. PoolingOnly'
  BY <1>2, <1>3 DEF StreamInv, WorkRight, PoolingOnly
<1> QED BY <1>2, <1>5, <1>6, <1>7, OthersKeep

-----------------------------------------------------------------------------
(* The theorems.                                                           *)

\* The worker starts with nothing enqueued and nothing sent.
LEMMA InitStreams == Init => StreamInv
<1> SUFFICES ASSUME Init PROVE StreamInv
  OBVIOUS
<1>1. /\ None \in Totals /\ LostExperts \in Experts /\ Nothing \in Outs
      /\ NoDrafts \in [of : Nat, zero : BOOLEAN]
  BY Empties
<1>2. /\ pc = "idle" /\ step = 0 /\ info = <<>> /\ pending = <<>> /\ taken = Nothing
      /\ freed = {} /\ DOMAIN queue = Streams /\ \A s \in Streams : queue[s] = <<>>
      /\ mem = <<>>
  BY DEF Init
<1>3. DOMAIN mem = {}
  BY <1>2
<1>4. StreamTypes
  <2>1. EngineTypes
    BY <1>1, <1>2, StreamsAssumption DEF Init, EngineTypes
  <2>2. HostTypes
    BY <1>1 DEF Init, HostTypes
  <2>3. QueueTypes
    <3>1. /\ queue["default"] = <<>> /\ queue["output"] = <<>>
          /\ queue["draft"] = <<>> /\ queue["count"] = <<>>
      BY <1>2 DEF Streams
    <3>2. \A S : <<>> \in Seq(S)
      OBVIOUS
    <3> QED BY <1>2, <3>1, <3>2 DEF QueueTypes
  <2>4. DeviceTypes
    BY <1>1, <1>2, <1>3 DEF Init, DeviceTypes
  <2> QED BY <2>1, <2>2, <2>3, <2>4 DEF StreamTypes
<1>5. /\ Waiting = {} /\ DOMAIN queue["default"] = {} /\ DOMAIN queue["output"] = {}
      /\ Garbage = {}
  BY <1>2 DEF Waiting, IdsOf, Streams, Garbage, TakenBy
<1>6. WorkRight
  <2>1. InOrder(queue["default"]) /\ NothingAhead /\ StepsRight /\ AfterLast /\ FreedLate
    BY <1>2, <1>5 DEF InOrder, NothingAhead, StepsRight, AfterLast, FreedLate
  <2>2. OnHost /\ PoolingOnly /\ RowsOfStep
    BY <1>2, <1>3, <1>5 DEF OnHost, PoolingOnly, RowsOfStep, Sampling
  <2> QED BY <2>1, <2>2 DEF WorkRight
<1>7. PendingRight /\ TakenRight
  BY <1>2 DEF PendingRight, TakenRight, Nothing
<1> QED BY <1>4, <1>6, <1>7 DEF StreamInv

\* And so it goes on, whatever the threads and the streams do.
LEMMA NextStreams ==
  ASSUME StreamInv, [Next]_vars
  PROVE  StreamInv'
<1>1. StreamTypes'
  BY TypesHold
<1>2. CASE Engine
  BY <1>1, <1>2, NewStepKeeps, QuietKeeps DEF Engine
<1>3. CASE MainThread
  <2>1. mode.readers \subseteq BOOLEAN /\ mode.finishes \subseteq BOOLEAN
    BY DEF StreamInv, StreamTypes, EngineTypes, Mode
  <2>2. CASE Prepare \/ LaunchForward \/ SampleTokens \/ Propose
    BY <1>1, <2>2, KernelsKeep
  <2>3. CASE AnswerEmpty \/ ReturnTokens
    BY <1>1, <2>3, AnswersKeep
  <2>4. CASE CorrectCounts
    BY <1>1, <2>4, QuietKeeps
  <2>5. CASE \E wanted \in (IF mode.async THEN mode.readers ELSE {TRUE}) :
               CopyDrafts(wanted) \/ ZeroDrafts(wanted)
    <3>1. \E wanted \in BOOLEAN : CopyDrafts(wanted) \/ ZeroDrafts(wanted)
      BY <2>1, <2>5
    <3> QED BY <1>1, <3>1, QuietKeeps
  <2>6. CASE DownloadTokens
    BY <1>1, <2>6, DownloadTokensKeeps
  <2>7. CASE ReturnAsync \/ \E finished \in mode.finishes : Pool(finished)
    <3>1. ReturnAsync \/ \E finished \in BOOLEAN : Pool(finished)
      BY <2>1, <2>7
    <3> QED BY <1>1, <3>1, AsyncOutputsKeep
  <2> QED BY <1>3, <2>2, <2>3, <2>4, <2>5, <2>6, <2>7 DEF MainThread
<1>4. CASE TakeDrafts \/ DownloadDrafts \/ DownloadCounts
  BY <1>1, <1>4, QuietKeeps
<1>5. CASE OutputThread
  BY <1>1, <1>5, GetOutputKeeps DEF OutputThread
<1>6. CASE DefaultStream
  BY <1>1, <1>6, UploadKeeps, SampleKeeps, DraftKeeps, CloneKeeps, PoolerKeeps, DownloadsKeep
  DEF DefaultStream
<1>7. CASE DownloadOutput
  BY <1>1, <1>7, DownloadOutputKeeps
<1>8. CASE UNCHANGED vars
  <2>1. /\ UNCHANGED <<mode, pc, step, queue, dev, mem, freed, host, info, worker, taken, pending>>
    BY <1>8 DEF vars, engine, gpu
  <2>2. WorkRight' /\ \A o \in Outs : OutputRight(o) => OutputRight(o)'
    BY <2>1, StillStep DEF GoesOn
  <2>3. PendingRight' /\ TakenRight'
    BY <2>1, <2>2, OutputsKept
  <2> QED BY <1>1, <2>2, <2>3 DEF StreamInv
<1> QED BY <1>2, <1>3, <1>4, <1>5, <1>6, <1>7, <1>8 DEF Next

\* All that the streams, the events and the references to tensors keep true: the types,
\* and for each step where its tokens, its routing data and its slots are, from the
\* kernel that writes them to the output that carries them.
THEOREM StreamsRight == Spec => []StreamInv
<1>1. Init => StreamInv
  BY InitStreams
<1>2. StreamInv /\ [Next]_vars => StreamInv'
  BY NextStreams
<1> QED BY <1>1, <1>2, PTL DEF Spec

\* The engine takes the tokens, the routing data and the slots of the step it takes the
\* output of (AsyncGPUModelRunnerOutput, _bookkeeping_sync, _pool), however far the host
\* is ahead and whatever tensors got each other's memory.
THEOREM OutputsRight == Spec => []OutputsOfOwnStep
<1>1. StreamInv => OutputsOfOwnStep
  BY DEF StreamInv, TakenRight, OutputRight, Complete, Own, OutputsOfOwnStep
<1> QED BY <1>1, StreamsRight, PTL

===============================================================================
