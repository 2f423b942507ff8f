------------------------ MODULE InputSessionsProofs -------------------------
(***************************************************************************)
(* Inputs in pieces, for every number of requests and sessions, every list *)
(* of chunks, pool, budget and size of the encoder cache: what the worker  *)
(* has written is the KV of the request's tokens, and the embedding of     *)
(* each placeholder a step computes is there when it is gathered.          *)
(*                                                                         *)
(* One assumption: there are no drafts, or no session. With both, a        *)
(* session that stops inside accepted drafts goes on behind its own        *)
(* tokens, which the run inputs_drafts shows.                              *)
(***************************************************************************)
EXTENDS InputSessions, TLAPS, FiniteSetTheorems, SequenceTheorems

-----------------------------------------------------------------------------
(* The inductive invariant.                                                *)

Statuses ==
  {"ABSENT", "GONE", "WAITING", "RUNNING", "PREEMPTED", "WAITING_FOR_STREAMING_REQ"}

Token == Nat \X Nat
Feature == [start : Nat, hash : Hash]

Request ==
  [status : Statuses, toks : Seq(Token), outs : Nat, computed : Nat, spec : Nat,
   feats : Seq(Feature), queue : Seq(Nat), alloc : Int]

EncoderCache ==
  [cached : SUBSET Hash, refs : [Hash -> SUBSET Req], freeable : Seq(Hash), freed : SUBSET Hash]

Planning ==
  [idx : Nat \ {0}, budget : Int, encBudget : Int, preempted : BOOLEAN, stepSkipped : Seq(Req),
   n : [Req -> Nat], drafts : [Req -> Nat], inputs : [Req -> Seq(Nat)], order : Seq(Req),
   new : SUBSET Req]

Needing == [n : Nat, inputs : Seq(Nat), budget : Int]

Stepping ==
  [n : [Req -> Nat], drafts : [Req -> Nat], inputs : [Req -> Seq(Nat)], order : Seq(Req),
   new : SUBSET Req, freed : SUBSET Hash]

TypeOK ==
  /\ sent \in [Req -> Nat]
  /\ req \in [Req -> Request]
  /\ waiting \in Seq(Req) /\ skipped \in Seq(Req) /\ running \in Seq(Req)
  /\ enc \in EncoderCache
  /\ pc \in {"idle", "running", "waiting", "commit", "worker", "gather", "update"}
  /\ plan \in Planning
  /\ need \in Needing
  /\ step \in Stepping
  /\ gpu \in SUBSET Hash
  /\ wfeats \in [Req -> Seq(Feature)]
  /\ kv \in [Req -> Seq(Token)]

InSchedule == pc \in {"running", "waiting", "commit"}
InWorker == pc \in {"worker", "gather"}

\* The requests of a queue are there once, in that queue only, and with its status.
Queues ==
  /\ IsInjective(running) /\ IsInjective(waiting) /\ IsInjective(skipped)
  /\ IsInjective(plan.stepSkipped)
  /\ Range(waiting) \cap Range(skipped) = {}
  /\ Range(waiting) \cap Range(plan.stepSkipped) = {}
  /\ Range(skipped) \cap Range(plan.stepSkipped) = {}
  /\ \A r \in Range(running) : req[r].status = "RUNNING"
  /\ \A r \in Range(waiting) : req[r].status \in {"WAITING", "PREEMPTED"}
  /\ \A r \in Range(skipped) \cup Range(plan.stepSkipped) :
       req[r].status \in {"WAITING", "PREEMPTED", "WAITING_FOR_STREAMING_REQ"}

\* A plan, or the step it becomes: for which requests it has tokens, drafts and inputs.
Consistent(p) ==
  /\ IsInjective(p.order)
  /\ \A r \in Req : r \in Range(p.order) <=> p.n[r] > 0
  /\ \A r \in Req : r \notin Range(p.order) => p.inputs[r] = <<>> /\ p.drafts[r] = 0
  /\ \A r \in Req : p.drafts[r] <= NumDrafts

Plans ==
  /\ ~ InSchedule => plan = NoPlan
  /\ Consistent(plan) /\ Range(plan.order) \subseteq Range(running)
  /\ pc = "running" =>
       /\ plan.new = {} /\ plan.stepSkipped = <<>>
       /\ \A r \in Range(plan.order) : \E i \in 1 .. Len(running) : i < plan.idx /\ running[i] = r
  /\ need # NoNeed => InRunningLoop /\ need.n > 0

Steps ==
  /\ pc \notin {"worker", "gather", "update"} => step = NoStep
  /\ InWorker => Consistent(step)
  /\ IsInjective(step.order) /\ Range(step.order) \subseteq Range(running)
  /\ \A r \in Req : step.drafts[r] <= NumDrafts

\* The tokens of r that the step in flight has yet to account for.
Pending(r) == IF r \in Range(step.order) THEN step.n[r] ELSE 0
Behind(r) == req[r].computed - Pending(r)

Numbers(r) ==
  /\ Behind(r) \in 0 .. NumTokens(r) - 1
  /\ req[r].spec <= NumDrafts
  /\ r \in Range(plan.order) =>
       plan.drafts[r] = Positive(req[r].computed + plan.n[r] - NumTokens(r))
  /\ r \in Range(step.order) => step.drafts[r] = Positive(req[r].computed - NumTokens(r))

\* The KV of the tokens that are accounted for, and in the end of all that are computed:
\* those behind the request's tokens are drafts, taken as accepted.
KvOK(r) ==
  /\ \A i \in 1 .. Behind(r) : i \in DOMAIN kv[r] /\ kv[r][i] = req[r].toks[i]
  /\ pc = "update" /\ r \in Range(step.order) =>
       \A i \in 1 .. req[r].computed :
         /\ i \in DOMAIN kv[r]
         /\ kv[r][i] = IF i <= NumTokens(r) THEN req[r].toks[i] ELSE Out

\* The inputs of a request are in the order of their placeholders, which do not overlap.
InOrder(feats) ==
  \A i, j \in 1 .. Len(feats) : i < j => EndOf(feats[i]) <= feats[j].start

EndBy(feats, n) == \A i \in 1 .. Len(feats) : EndOf(feats[i]) <= n

InPlaceholder(f, p) == f.start <= p /\ p < EndOf(f)

Embedded(feats, p) ==
  {<<f.hash, p - f.start>> : f \in {g \in Range(feats) : InPlaceholder(g, p)}}

\* The embedding that a token t of r stands for.
WantedBy(r, t) ==
  LET c == Chunks[r][t[1]]
  IN  IF t # Out /\ c.hash # NoHash /\ t[2] - c.offset \in 0 .. Embeds[c.hash] - 1
      THEN {<<c.hash, t[2] - c.offset>>} ELSE {}

\* Of a request q of r: its inputs are where its tokens want them.
InputsPlaced(r, q) ==
  /\ InOrder(q.feats)
  /\ EndBy(q.feats, Len(q.toks))
  /\ \A p \in 0 .. Len(q.toks) - 1 : Embedded(q.feats, p) = WantedBy(r, q.toks[p + 1])
  /\ \A i \in 1 .. Len(q.queue) : q.queue[i] \in 0 .. Len(Chunks[r])

\* The worker has the inputs of a request that is scheduled, or is about to get them.
InputsKnown(r) ==
  /\ req[r].status \in {"RUNNING", "PREEMPTED"}
  /\ r \notin plan.new
  /\ ~ (pc = "worker" /\ r \in step.new)
  => wfeats[r] = req[r].feats

RequestOK(r) ==
  /\ Numbers(r) /\ KvOK(r)
  /\ InputsPlaced(r, req[r]) /\ InputsKnown(r)
  /\ req[r].status = "WAITING_FOR_STREAMING_REQ" => EndBy(req[r].feats, req[r].computed)

Requests ==
  /\ \A r \in Req : req[r].status = "ABSENT" => sent[r] = 0
  /\ \A r \in Live : RequestOK(r)

CacheOK(e) ==
  /\ IsFiniteSet(e.cached)
  /\ EmbedsOf(e.cached) <= CacheSize
  /\ IsInjective(e.freeable)
  /\ Range(e.freeable) = {h \in e.cached : e.refs[h] = {}}
  /\ \A h \in Hash : e.refs[h] # {} => h \in e.cached

\* The hashes of these inputs.
HashesAt(feats, inputs) == {feats[i].hash : i \in Range(inputs)}
HashesOf(inputs) == UNION {HashesAt(req[r].feats, inputs[r]) : r \in Req}

\* The worker's cache g, less what is freed, with what it is to encode.
Follows(g, freed, hashes, cached) == (g \ freed) \cup hashes = cached

\* The worker's cache is the scheduler's, but for what the next step brings about.
GpuFollows ==
  /\ pc = "worker" => Follows(gpu, step.freed, HashesOf(step.inputs), enc.cached)
  /\ pc # "worker" => Follows(gpu, enc.freed, HashesOf(plan.inputs), enc.cached)
  /\ ~ InSchedule => enc.freed = {}

\* Someone refers to each of these.
InUse(e, hashes) == \A h \in hashes : h \in Hash /\ e.refs[h] # {}

\* The inputs among n tokens from c on.
Touched(feats, c, n) ==
  {i \in 1 .. Len(feats) : EndOf(feats[i]) > c /\ feats[i].start < c + n}

\* What a plan schedules of r, from c on, r refers to.
Held(e, r, feats, c, n, inputs) ==
  /\ \A i \in Touched(feats, c, n) : r \in e.refs[feats[i].hash]
  /\ \A i \in Range(inputs) : i \in 1 .. Len(feats) /\ r \in e.refs[feats[i].hash]

InputsHeld ==
  /\ \A r \in Range(plan.order) :
       Held(enc, r, req[r].feats, req[r].computed, plan.n[r], plan.inputs[r])
  /\ InWorker =>
       \A r \in Range(step.order) :
         Held(enc, r, req[r].feats, Behind(r), step.n[r], step.inputs[r])

\* What the running request at hand needs, it refers to or there is room for.
NeedFits(e, r, q) ==
  /\ need.n <= Len(q.toks) + q.spec - q.computed
  /\ \A i \in Range(need.inputs) : i \in 1 .. Len(q.feats)
  /\ IsFiniteSet(HashesAt(q.feats, need.inputs))
  /\ EmbedsOf(e.cached \cup HashesAt(q.feats, need.inputs)) <= CacheSize
  /\ \A i \in Touched(q.feats, q.computed, need.n) :
       r \in e.refs[q.feats[i].hash] \/ q.feats[i].hash \in HashesAt(q.feats, need.inputs)

NeedHeld == need # NoNeed => NeedFits(enc, running[plan.idx], req[running[plan.idx]])

IInv ==
  /\ TypeOK /\ Queues /\ Plans /\ Steps /\ Requests
  /\ CacheOK(enc) /\ GpuFollows /\ InputsHeld /\ NeedHeld

-----------------------------------------------------------------------------
(* Numbers and totals.                                                     *)

\* A set of natural numbers has a least one.
LEMMA LeastNumber ==
  ASSUME NEW T \in SUBSET Nat, T # {}
  PROVE  \E n \in T : \A m \in T : n <= m
<1>1. PICK k \in T : TRUE
  OBVIOUS
<1> DEFINE D == 0 .. k
           U == {0 .. n : n \in {m \in T : m <= k}}
<1>2. IsFiniteSet(D)
  BY <1>1, FS_Interval
<1>3. IsWellFoundedOn(StrictSubsetOrdering(D), SUBSET D)
  BY <1>2, FS_StrictSubsetOrderingWellFounded, FS_FiniteSubsetsOfFinite
<1>4. U \subseteq SUBSET D /\ U # {}
  BY <1>1
<1>5. PICK s \in U : \A t \in U : ~ (<<t, s>> \in StrictSubsetOrdering(D))
  <2> HIDE DEF U
  <2> QED BY <1>3, <1>4, WFMin
<1>6. PICK n \in T : n <= k /\ s = 0 .. n
  BY <1>5
<1>7. ASSUME NEW m \in T PROVE n <= m
  <2> SUFFICES ASSUME m < n PROVE FALSE
    BY <1>6, <1>7
  <2>1. 0 .. m \in U
    BY <1>6
  <2>2. 0 .. m \subseteq 0 .. n /\ n \in 0 .. n /\ n \notin 0 .. m
    OBVIOUS
  <2>3. <<0 .. m, 0 .. n>> \in (SUBSET D) \X (SUBSET D)
    BY <1>4, <1>6, <2>1
  <2>4. <<0 .. m, s>> \in StrictSubsetOrdering(D)
    BY <1>6, <2>2, <2>3 DEF StrictSubsetOrdering
  <2> QED BY <1>5, <2>1, <2>4
<1> QED BY <1>7

\* A set of subsets of a finite set has a smallest member.
LEMMA SmallestMember ==
  ASSUME NEW D, IsFiniteSet(D), NEW T \in SUBSET SUBSET D, T # {}
  PROVE  \E s \in T : \A t \in T : t \subseteq s => t = s
<1>1. IsWellFoundedOn(StrictSubsetOrdering(D), SUBSET D)
  BY FS_StrictSubsetOrderingWellFounded, FS_FiniteSubsetsOfFinite
<1>2. PICK s \in T : \A t \in T : ~ (<<t, s>> \in StrictSubsetOrdering(D))
  BY <1>1, WFMin
<1>3. ASSUME NEW t \in T, t \subseteq s PROVE t = s
  <2>1. <<t, s>> \in (SUBSET D) \X (SUBSET D)
    BY <1>3
  <2> QED BY <1>2, <1>3, <2>1 DEF StrictSubsetOrdering
<1> QED BY <1>2, <1>3

\* One pair for each embedding of each of the inputs.
Units(s) == UNION {{h} \X (1 .. Embeds[h]) : h \in s}

\* The units of finitely many inputs, one input more or less.
LEMMA UnitsOfRest ==
  ASSUME NEW s \in SUBSET Hash, IsFiniteSet(s), NEW x \in s
  PROVE  /\ IsFiniteSet(Units(s))
         /\ Cardinality(Units(s)) = Embeds[x] + Cardinality(Units(s \ {x}))
<1>1. \A y \in Hash : IsFiniteSet({y} \X (1 .. Embeds[y])) /\ Cardinality({y} \X (1 .. Embeds[y])) = Embeds[y]
  <2> TAKE y \in Hash
  <2>1. Embeds[y] \in Nat
    BY ConstantsAssumption
  <2>2. IsFiniteSet(1 .. Embeds[y]) /\ Cardinality(1 .. Embeds[y]) = Embeds[y]
    BY SMTT(30), <2>1, FS_Interval
  <2>3. IsFiniteSet({y}) /\ Cardinality({y}) = 1
    BY FS_Singleton
  <2>4. /\ IsFiniteSet({y} \X (1 .. Embeds[y]))
        /\ Cardinality({y} \X (1 .. Embeds[y])) = Cardinality({y}) * Cardinality(1 .. Embeds[y])
    BY <2>2, <2>3, FS_Product
  <2> QED BY <2>1, <2>2, <2>3, <2>4
<1>2. ASSUME NEW t \in SUBSET s PROVE IsFiniteSet(Units(t))
  <2> DEFINE of == [y \in t |-> {y} \X (1 .. Embeds[y])]
             all == {{y} \X (1 .. Embeds[y]) : y \in t}
  <2>1. IsFiniteSet(t)
    BY FS_Subset
  <2>2. of \in Surjection(t, all)
    BY DEF Surjection
  <2>3. IsFiniteSet(all)
    BY <2>1, <2>2, FS_Surjection
  <2>4. \A u \in all : IsFiniteSet(u)
    BY <1>1
  <2> HIDE DEF all
  <2>5. IsFiniteSet(UNION all)
    BY <2>3, <2>4, FS_UNION
  <2> QED BY <2>5 DEF Units, all
<1> DEFINE a == {x} \X (1 .. Embeds[x])
           b == Units(s \ {x})
<1>3. Units(s) = a \cup b /\ a \cap b = {}
  BY DEF Units
<1>4. IsFiniteSet(a) /\ Cardinality(a) = Embeds[x] /\ IsFiniteSet(b)
  BY <1>1, <1>2
<1>5. IsFiniteSet(Units(s))
  BY <1>2
<1> HIDE DEF a, b
<1>6. Cardinality(a \cup b) = Cardinality(a) + Cardinality(b) - Cardinality(a \cap b)
  BY <1>4, FS_Union
<1>7. Cardinality(a) \in Nat /\ Cardinality(b) \in Nat /\ Cardinality({}) = 0
  BY <1>4, FS_CardinalityType, FS_EmptySet
<1>8. Cardinality(a \cap b) = 0
  BY <1>3, <1>7
<1> QED BY <1>3, <1>4, <1>5, <1>6, <1>7, <1>8 DEF b

\* EmbedsOf adds up: it is the number of units, whatever order the fold takes.
LEMMA EmbedsCount ==
  ASSUME NEW D \in SUBSET Hash, IsFiniteSet(D)
  PROVE  EmbedsOf(D) = Cardinality(Units(D))
<1> DEFINE Some(s) == CHOOSE x \in s : TRUE
           Adds(g) == g = [s \in SUBSET D |->
                             IF s = {} THEN 0
                             ELSE LET x == CHOOSE x \in s : TRUE IN Embeds[x] + g[s \ {x}]]
           sum == CHOOSE g : Adds(g)
           n == [s \in SUBSET D |-> Cardinality(Units(s))]
<1>1. EmbedsOf(D) = sum[D]
  BY DEF EmbedsOf, SumOf, MapThenSumSet, MapThenFoldSet
<1>2. Adds(n)
  <2>1. ASSUME NEW s \in SUBSET D
        PROVE  n[s] = IF s = {} THEN 0
                      ELSE LET x == CHOOSE x \in s : TRUE IN Embeds[x] + n[s \ {x}]
    <3>1. CASE s = {}
      <4>1. Units({}) = {}
        BY DEF Units
      <4> QED BY <3>1, <4>1, FS_EmptySet
    <3>2. CASE s # {}
      <4>1. Some(s) \in s
        BY <3>2
      <4>2. Cardinality(Units(s)) = Embeds[Some(s)] + Cardinality(Units(s \ {Some(s)}))
        <5>1. IsFiniteSet(s)
          BY FS_Subset
        <5> HIDE DEF Some
        <5> QED BY <4>1, <5>1, UnitsOfRest
      <4>3. n[s] = Cardinality(Units(s)) /\ s \ {Some(s)} \in SUBSET D
        OBVIOUS
      <4>4. n[s \ {Some(s)}] = Cardinality(Units(s \ {Some(s)}))
        BY <4>3
      <4> QED BY <3>2, <4>2, <4>3, <4>4
    <3> QED BY <3>1, <3>2
  <2> QED BY <2>1
<1>3. Adds(sum)
  <2> HIDE DEF n
  <2>1. \E g : Adds(g)
    BY <1>2
  <2> HIDE DEF Adds
  <2> QED BY <2>1
<1>4. \A s \in SUBSET D : sum[s] = IF s = {} THEN 0 ELSE Embeds[Some(s)] + sum[s \ {Some(s)}]
  BY <1>3
<1>5. \A s \in SUBSET D : n[s] = IF s = {} THEN 0 ELSE Embeds[Some(s)] + n[s \ {Some(s)}]
  <2> HIDE DEF n
  <2> QED BY <1>2
<1> HIDE DEF sum
<1>6. \A s \in SUBSET D : sum[s] = n[s]
  <2> HIDE DEF n
  <2> DEFINE T == {s \in SUBSET D : sum[s] # n[s]}
  <2> SUFFICES ASSUME T # {} PROVE FALSE
    OBVIOUS
  <2>1. PICK s \in T : \A t \in T : t \subseteq s => t = s
    <3>1. T \in SUBSET SUBSET D
      OBVIOUS
    <3> HIDE DEF T
    <3> QED BY <3>1, SmallestMember
  <2>2. s # {}
    BY <1>4, <1>5
  <2>3. Some(s) \in s
    BY <2>2
  <2>4. s \ {Some(s)} \notin T /\ s \ {Some(s)} \in SUBSET D
    BY <2>1, <2>3
  <2>5. sum[s \ {Some(s)}] = n[s \ {Some(s)}] /\ s \in SUBSET D /\ sum[s] # n[s]
    BY <2>4
  <2> HIDE DEF Some, T
  <2> QED BY <1>4, <1>5, <2>2, <2>5
<1>7. D \in SUBSET D
  OBVIOUS
<1> QED BY <1>1, <1>6, <1>7

\* The embeddings of no input, of one more, and of fewer.
LEMMA EmbedsLemma ==
  ASSUME NEW D \in SUBSET Hash, IsFiniteSet(D)
  PROVE  /\ EmbedsOf(D) \in Nat
         /\ EmbedsOf({}) = 0
         /\ \A x \in D : EmbedsOf(D) = Embeds[x] + EmbedsOf(D \ {x})
         /\ \A E \in SUBSET D : EmbedsOf(E) <= EmbedsOf(D) /\ EmbedsOf(E) \in Nat
         /\ \A E \in SUBSET D : EmbedsOf(D) = EmbedsOf(E) + EmbedsOf(D \ E)
<1>1. IsFiniteSet(Units(D))
  <2>1. CASE D = {}
    <3>1. Units(D) = {}
      BY <2>1 DEF Units
    <3> QED BY <3>1, FS_EmptySet
  <2>2. CASE D # {}
    BY <2>2, UnitsOfRest
  <2> QED BY <2>1, <2>2
<1>2. EmbedsOf(D) \in Nat
  BY <1>1, EmbedsCount, FS_CardinalityType
<1>3. EmbedsOf({}) = 0
  <2>1. Units({}) = {}
    BY DEF Units
  <2> QED BY <2>1, FS_EmptySet, EmbedsCount
<1>4. ASSUME NEW x \in D PROVE EmbedsOf(D) = Embeds[x] + EmbedsOf(D \ {x})
  <2>1. IsFiniteSet(D \ {x})
    BY FS_Subset
  <2> QED BY <2>1, EmbedsCount, UnitsOfRest
<1>5. ASSUME NEW E \in SUBSET D
      PROVE  /\ EmbedsOf(E) <= EmbedsOf(D) /\ EmbedsOf(E) \in Nat
             /\ EmbedsOf(D) = EmbedsOf(E) + EmbedsOf(D \ E)
  <2>1. IsFiniteSet(E) /\ IsFiniteSet(D \ E)
    BY FS_Subset
  <2>2. Units(D) = Units(E) \cup Units(D \ E) /\ Units(E) \cap Units(D \ E) = {}
    BY DEF Units
  <2>3. IsFiniteSet(Units(E)) /\ IsFiniteSet(Units(D \ E))
    BY <1>1, <2>2, FS_Subset
  <2>4. Cardinality(Units(D)) =
          Cardinality(Units(E)) + Cardinality(Units(D \ E)) - Cardinality(Units(E) \cap Units(D \ E))
    BY <2>2, <2>3, FS_Union
  <2>5. Cardinality(Units(E)) \in Nat /\ Cardinality(Units(D \ E)) \in Nat
    BY <2>3, FS_CardinalityType
  <2>6. Cardinality(Units(E) \cap Units(D \ E)) = 0
    BY <2>2, FS_EmptySet
  <2>7. /\ EmbedsOf(E) = Cardinality(Units(E)) /\ EmbedsOf(D) = Cardinality(Units(D))
        /\ EmbedsOf(D \ E) = Cardinality(Units(D \ E))
    BY <2>1, EmbedsCount
  <2> QED BY <2>4, <2>5, <2>6, <2>7
<1> QED BY <1>2, <1>3, <1>4, <1>5

-----------------------------------------------------------------------------
(* Lists.                                                                  *)

\* The members of a list, and when it holds each once, by position.
LEMMA ListLemma ==
  ASSUME NEW S, NEW list \in Seq(S)
  PROVE  /\ DOMAIN list = 1 .. Len(list) /\ Len(list) \in Nat
         /\ Range(list) \subseteq S
         /\ \A i \in 1 .. Len(list) : list[i] \in Range(list)
         /\ \A x \in Range(list) : \E i \in 1 .. Len(list) : list[i] = x
         /\ IsInjective(list) <=>
              \A i, j \in 1 .. Len(list) : list[i] = list[j] => i = j
<1>1. DOMAIN list = 1 .. Len(list) /\ Len(list) \in Nat
  OBVIOUS
<1>2. \A i \in 1 .. Len(list) : list[i] \in S
  OBVIOUS
<1>3. IsInjective(list) <=> \A i, j \in 1 .. Len(list) : list[i] = list[j] => i = j
  BY <1>1, Zenon DEF IsInjective
<1> QED BY <1>1, <1>2, <1>3, Zenon DEF Range

\* A list without its element at a position.
LEMMA RemoveAtLemma ==
  ASSUME NEW S, NEW list \in Seq(S), NEW k \in 1 .. Len(list)
  PROVE  /\ RemoveAt(list, k) \in Seq(S)
         /\ Len(RemoveAt(list, k)) = Len(list) - 1
         /\ \A i \in 1 .. Len(list) - 1 :
              RemoveAt(list, k)[i] = IF i < k THEN list[i] ELSE list[i + 1]
<1> DEFINE a == SubSeq(list, 1, k - 1)
           b == SubSeq(list, k + 1, Len(list))
<1>1. a \in Seq(S) /\ Len(a) = k - 1 /\ \A i \in 1 .. k - 1 : a[i] = list[i]
  OBVIOUS
<1>2. b \in Seq(S) /\ Len(b) = Len(list) - k /\ \A i \in 1 .. Len(list) - k : b[i] = list[k + i]
  OBVIOUS
<1>3. RemoveAt(list, k) = a \o b
  BY DEF RemoveAt
<1> DEFINE w == a \o b
<1> HIDE DEF a, b
<1>4. /\ w \in Seq(S)
      /\ Len(w) = Len(a) + Len(b)
      /\ \A i \in 1 .. Len(a) + Len(b) : w[i] = IF i <= Len(a) THEN a[i] ELSE b[i - Len(a)]
  BY <1>1, <1>2, ConcatProperties
<1> HIDE DEF w
<1>5. w \in Seq(S) /\ Len(w) = Len(list) - 1
  BY <1>1, <1>2, <1>4
<1>6. \A i \in 1 .. Len(list) - 1 : w[i] = IF i <= k - 1 THEN a[i] ELSE b[i - (k - 1)]
  BY <1>1, <1>2, <1>4
<1>7. \A i \in 1 .. Len(list) - 1 : w[i] = IF i < k THEN list[i] ELSE list[i + 1]
  <2> TAKE i \in 1 .. Len(list) - 1
  <2>1. CASE i < k
    BY <2>1, <1>1, <1>6
  <2>2. CASE ~ (i < k)
    <3>1. i - (k - 1) \in 1 .. Len(list) - k /\ k + (i - (k - 1)) = i + 1
      BY <2>2
    <3> QED BY <3>1, <2>2, <1>2, <1>6
  <2> QED BY <2>1, <2>2
<1> QED BY <1>3, <1>5, <1>7 DEF w

\* Taking a member out of a list that holds each once.
LEMMA RemoveLemma ==
  ASSUME NEW S, NEW list \in Seq(S), IsInjective(list), NEW x
  PROVE  /\ RemoveFirst(list, x) \in Seq(S)
         /\ IsInjective(RemoveFirst(list, x))
         /\ Range(RemoveFirst(list, x)) = Range(list) \ {x}
<1>1. CASE ~ \E i \in 1 .. Len(list) : list[i] = x
  <2>1. RemoveFirst(list, x) = list
    BY <1>1 DEF RemoveFirst
  <2>2. x \notin Range(list)
    BY <1>1, ListLemma
  <2> QED BY <2>1, <2>2
<1>2. CASE \E i \in 1 .. Len(list) : list[i] = x
  <2> DEFINE T == {i \in 1 .. Len(list) : list[i] = x}
             k == CHOOSE i \in T : \A j \in T : i =< j
             w == RemoveFirst(list, x)
  <2>1. T \in SUBSET Nat /\ T # {}
    BY <1>2
  <2>2. k \in T
    <3> HIDE DEF T
    <3>1. \E n \in T : \A m \in T : n <= m
      BY <2>1, LeastNumber
    <3> QED BY <3>1
  <2>3. w = RemoveAt(list, k)
    BY <1>2, <2>1 DEF RemoveFirst, SelectInSeq, Min
  <2>4. k \in 1 .. Len(list) /\ list[k] = x
    BY <2>2
  <2> HIDE DEF k, w, T
  <2>5. /\ w \in Seq(S) /\ Len(w) = Len(list) - 1
        /\ \A i \in 1 .. Len(list) - 1 : w[i] = IF i < k THEN list[i] ELSE list[i + 1]
    BY <2>3, <2>4, RemoveAtLemma
  <2>6. \A i, j \in 1 .. Len(list) : list[i] = list[j] => i = j
    BY ListLemma
  <2>7. \A i, j \in 1 .. Len(w) : w[i] = w[j] => i = j
    BY <2>4, <2>5, <2>6
  <2>8. ASSUME NEW y \in Range(w) PROVE y \in Range(list) \ {x}
    <3>1. PICK i \in 1 .. Len(w) : w[i] = y
      BY <2>5, ListLemma
    <3>2. PICK j \in 1 .. Len(list) : y = list[j] /\ j # k
      BY <3>1, <2>4, <2>5
    <3> QED BY <3>2, <2>4, <2>6, ListLemma
  <2>9. ASSUME NEW y \in Range(list) \ {x} PROVE y \in Range(w)
    <3>1. PICK i \in 1 .. Len(list) : list[i] = y
      BY ListLemma
    <3>2. \E j \in 1 .. Len(w) : w[j] = y
      <4>1. CASE i < k
        BY <4>1, <3>1, <2>4, <2>5
      <4>2. CASE i > k
        <5>1. i - 1 \in 1 .. Len(w) /\ w[i - 1] = y
          BY <4>2, <3>1, <2>4, <2>5
        <5> QED BY <5>1
      <4> QED BY <4>1, <4>2, <3>1, <2>4
    <3> QED BY <3>2, <2>5, ListLemma
  <2>10. IsInjective(w) /\ Range(w) = Range(list) \ {x}
    BY <2>5, <2>7, <2>8, <2>9, ListLemma
  <2> QED BY <2>5, <2>10 DEF w
<1> QED BY <1>1, <1>2

\* One list behind another that shares no member with it.
LEMMA JoinLemma ==
  ASSUME NEW S, NEW a \in Seq(S), NEW b \in Seq(S), IsInjective(a), IsInjective(b),
         Range(a) \cap Range(b) = {}
  PROVE  a \o b \in Seq(S) /\ IsInjective(a \o b) /\ Range(a \o b) = Range(a) \cup Range(b)
<1> DEFINE w == a \o b
<1>1. /\ w \in Seq(S) /\ Len(w) = Len(a) + Len(b) /\ Len(a) \in Nat /\ Len(b) \in Nat
      /\ \A i \in 1 .. Len(w) : w[i] = IF i <= Len(a) THEN a[i] ELSE b[i - Len(a)]
  BY ConcatProperties
<1> HIDE DEF w
<1>2. \A i \in 1 .. Len(w) : IF i <= Len(a) THEN w[i] \in Range(a) ELSE w[i] \in Range(b)
  <2> TAKE i \in 1 .. Len(w)
  <2>1. CASE i <= Len(a)
    <3>1. i \in 1 .. Len(a) /\ w[i] = a[i]
      BY <1>1, <2>1
    <3> QED BY <2>1, <3>1, ListLemma
  <2>2. CASE ~ (i <= Len(a))
    <3>1. i - Len(a) \in 1 .. Len(b) /\ w[i] = b[i - Len(a)]
      BY <1>1, <2>2
    <3> QED BY <2>2, <3>1, ListLemma
  <2> QED BY <2>1, <2>2
<1>3. \A i, j \in 1 .. Len(w) : w[i] = w[j] => i = j
  <2>1. SUFFICES ASSUME NEW i \in 1 .. Len(w), NEW j \in 1 .. Len(w), w[i] = w[j] PROVE i = j
    OBVIOUS
  <2>2. CASE i <= Len(a) /\ j <= Len(a)
    <3>1. i \in 1 .. Len(a) /\ j \in 1 .. Len(a) /\ a[i] = a[j]
      BY <1>1, <2>1, <2>2
    <3> QED BY <3>1, ListLemma
  <2>3. CASE ~ (i <= Len(a)) /\ ~ (j <= Len(a))
    <3> DEFINE p == i - Len(a)
               q == j - Len(a)
    <3>1. p \in 1 .. Len(b) /\ q \in 1 .. Len(b) /\ b[p] = b[q]
      BY <1>1, <2>1, <2>3
    <3>2. \A m, n \in 1 .. Len(b) : b[m] = b[n] => m = n
      BY ListLemma
    <3> HIDE DEF p, q
    <3>3. p = q
      BY <3>1, <3>2
    <3> QED BY <1>1, <3>3 DEF p, q
  <2>4. CASE i <= Len(a) <=> ~ (j <= Len(a))
    BY <1>2, <2>1, <2>4
  <2> QED BY <2>2, <2>3, <2>4
<1>4. ASSUME NEW x \in Range(w) PROVE x \in Range(a) \cup Range(b)
  <2>1. PICK i \in 1 .. Len(w) : w[i] = x
    BY <1>1, ListLemma
  <2> QED BY <1>2, <2>1
<1>5. ASSUME NEW x \in Range(a) \cup Range(b) PROVE x \in Range(w)
  <2>1. CASE x \in Range(a)
    <3>1. PICK i \in 1 .. Len(a) : a[i] = x
      BY <2>1, ListLemma
    <3>2. i \in 1 .. Len(w) /\ w[i] = x
      BY <1>1, <3>1
    <3> QED BY <1>1, <3>2, ListLemma
  <2>2. CASE x \in Range(b)
    <3>1. PICK i \in 1 .. Len(b) : b[i] = x
      BY <2>2, ListLemma
    <3> DEFINE j == i + Len(a)
    <3>2. j \in 1 .. Len(w) /\ ~ (j <= Len(a)) /\ j - Len(a) = i
      BY <1>1
    <3> HIDE DEF j
    <3>3. w[j] = b[j - Len(a)]
      BY <1>1, <3>2
    <3>4. w[j] = x
      BY <3>1, <3>2, <3>3
    <3> QED BY <1>1, <3>2, <3>4, ListLemma
  <2> QED BY <2>1, <2>2
<1>6. IsInjective(w) /\ Range(w) = Range(a) \cup Range(b)
  BY <1>1, <1>3, <1>4, <1>5, ListLemma
<1> QED BY <1>1, <1>6 DEF w

\* A list of one.
LEMMA OneLemma ==
  ASSUME NEW S, NEW x \in S
  PROVE  <<x>> \in Seq(S) /\ IsInjective(<<x>>) /\ Range(<<x>>) = {x}
<1>1. <<x>> \in Seq(S) /\ Len(<<x>>) = 1 /\ <<x>>[1] = x
  OBVIOUS
<1> DEFINE w == <<x>>
<1> HIDE DEF w
<1>2. w \in Seq(S) /\ Len(w) = 1 /\ w[1] = x
  BY <1>1 DEF w
<1>3. \A i, j \in 1 .. Len(w) : w[i] = w[j] => i = j
  BY <1>2
<1>4. IsInjective(w)
  BY <1>2, <1>3, ListLemma
<1>5. \A i \in 1 .. Len(w) : w[i] = x
  BY <1>2
<1>6. Range(w) = {x}
  <2>1. 1 \in 1 .. Len(w)
    BY <1>2
  <2>2. x \in Range(w)
    BY <1>2, <2>1, ListLemma
  <2>3. \A y \in Range(w) : y = x
    BY <1>2, <1>5, ListLemma
  <2> QED BY <2>2, <2>3
<1> QED BY <1>2, <1>4, <1>6 DEF w

\* One more at the end.
LEMMA AppendLemma ==
  ASSUME NEW S, NEW list \in Seq(S), IsInjective(list), NEW x \in S, x \notin Range(list)
  PROVE  /\ Append(list, x) \in Seq(S) /\ IsInjective(Append(list, x))
         /\ Range(Append(list, x)) = Range(list) \cup {x}
<1>1. Append(list, x) = list \o <<x>>
  OBVIOUS
<1>2. <<x>> \in Seq(S) /\ IsInjective(<<x>>) /\ Range(<<x>>) = {x}
  BY OneLemma
<1> DEFINE one == <<x>>
<1> HIDE DEF one
<1>3. one \in Seq(S) /\ IsInjective(one) /\ Range(one) = {x} /\ Append(list, x) = list \o one
  BY <1>1, <1>2 DEF one
<1>4. Range(list) \cap Range(one) = {}
  BY <1>3
<1> QED BY <1>3, <1>4, JoinLemma

\* A part of a list, from position p to position q.
LEMMA PartLemma ==
  ASSUME NEW S, NEW list \in Seq(S), NEW p \in 1 .. Len(list) + 1, NEW q \in 0 .. Len(list)
  PROVE  /\ SubSeq(list, p, q) \in Seq(S)
         /\ Range(SubSeq(list, p, q)) = {list[i] : i \in p .. q}
         /\ IsInjective(list) => IsInjective(SubSeq(list, p, q))
<1> DEFINE w == SubSeq(list, p, q)
<1>1. /\ w \in Seq(S) /\ Len(w) = (IF p <= q THEN q - p + 1 ELSE 0)
      /\ \A i \in 1 .. Len(w) : w[i] = list[p + i - 1]
  OBVIOUS
<1> HIDE DEF w
<1>2. ASSUME NEW x \in Range(w) PROVE x \in {list[i] : i \in p .. q}
  <2>1. PICK i \in 1 .. Len(w) : w[i] = x
    BY <1>1, ListLemma
  <2>2. p + i - 1 \in p .. q
    BY <1>1
  <2> QED BY <1>1, <2>1, <2>2
<1>3. ASSUME NEW x \in {list[i] : i \in p .. q} PROVE x \in Range(w)
  <2>1. PICK i \in p .. q : list[i] = x
    OBVIOUS
  <2>2. i - p + 1 \in 1 .. Len(w) /\ p + (i - p + 1) - 1 = i
    BY <1>1
  <2>3. w[i - p + 1] = x
    BY <1>1, <2>1, <2>2
  <2> QED BY <1>1, <2>2, <2>3, ListLemma
<1>4. ASSUME IsInjective(list) PROVE IsInjective(w)
  <2>1. \A i, j \in 1 .. Len(list) : list[i] = list[j] => i = j
    BY <1>4, ListLemma
  <2>2. ASSUME NEW i \in 1 .. Len(w), NEW j \in 1 .. Len(w), w[i] = w[j] PROVE i = j
    <3>1. /\ p + i - 1 \in 1 .. Len(list) /\ p + j - 1 \in 1 .. Len(list)
          /\ list[p + i - 1] = list[p + j - 1]
      BY <1>1, <2>2
    <3>2. p + i - 1 = p + j - 1
      BY <2>1, <3>1
    <3> QED BY <3>2
  <2> QED BY <1>1, <2>2, ListLemma
<1> QED BY <1>1, <1>2, <1>3, <1>4 DEF w

-----------------------------------------------------------------------------
(* The encoder cache.                                                      *)

\* f is e, with r referring to h.
IsReferred(e, f, r, h) ==
  /\ f \in EncoderCache /\ CacheOK(f)
  /\ f.cached = e.cached \cup {h} /\ f.freed = e.freed
  /\ \A g \in Hash : f.refs[g] = IF g = h THEN e.refs[g] \cup {r} ELSE e.refs[g]

\* r refers to one more input, which is cached or fits.
LEMMA ReferredLemma ==
  ASSUME NEW e \in EncoderCache, CacheOK(e), NEW r \in Req, NEW h \in Hash,
         EmbedsOf(e.cached \cup {h}) <= CacheSize
  PROVE  IsReferred(e, Referred(e, r, h), r, h)
<1> DEFINE f == Referred(e, r, h)
<1>1. /\ e.cached \in SUBSET Hash /\ e.refs \in [Hash -> SUBSET Req]
      /\ e.freeable \in Seq(Hash) /\ e.freed \in SUBSET Hash
  BY DEF EncoderCache
<1>2. /\ RemoveFirst(e.freeable, h) \in Seq(Hash) /\ IsInjective(RemoveFirst(e.freeable, h))
      /\ Range(RemoveFirst(e.freeable, h)) = Range(e.freeable) \ {h}
  BY <1>1, RemoveLemma DEF CacheOK
<1>3. /\ f.cached = e.cached \cup {h} /\ f.freed = e.freed
      /\ f.freeable = RemoveFirst(e.freeable, h)
      /\ f.refs = [e.refs EXCEPT ![h] = @ \cup {r}]
      /\ f \in EncoderCache
  BY <1>1, <1>2 DEF Referred, EncoderCache
<1> HIDE DEF f
<1>4. \A g \in Hash : f.refs[g] = IF g = h THEN e.refs[g] \cup {r} ELSE e.refs[g]
  BY <1>1, <1>3
<1>5. IsFiniteSet(f.cached)
  BY <1>3, FS_AddElement DEF CacheOK
<1>6. Range(f.freeable) = {g \in f.cached : f.refs[g] = {}}
  <2>1. \A g \in f.cached : g \in Hash
    BY <1>1, <1>3
  <2>2. Range(e.freeable) = {g \in e.cached : e.refs[g] = {}}
    BY DEF CacheOK
  <2> QED BY <1>2, <1>3, <1>4, <2>1, <2>2
<1>7. \A g \in Hash : f.refs[g] # {} => g \in f.cached
  BY <1>3, <1>4 DEF CacheOK
<1>8. CacheOK(f)
  BY <1>2, <1>3, <1>5, <1>6, <1>7 DEF CacheOK
<1>9. IsReferred(e, f, r, h)
  BY <1>3, <1>4, <1>8 DEF IsReferred
<1> QED BY <1>9 DEF f

\* What f keeps of e when r refers to less.
KeepsOthers(e, f, r) ==
  /\ f.cached = e.cached /\ f.freed = e.freed
  /\ \A h \in Hash : \A q \in Req : q # r /\ q \in e.refs[h] => q \in f.refs[h]

\* r refers to one input less.
LEMMA FreeInputLemma ==
  ASSUME NEW e \in EncoderCache, CacheOK(e), NEW r \in Req, NEW h \in Hash
  PROVE  LET f == FreeEncoderInput(e, r, h)
         IN  f \in EncoderCache /\ CacheOK(f) /\ KeepsOthers(e, f, r)
<1> DEFINE f == FreeEncoderInput(e, r, h)
           l == IF e.refs[h] = {r} THEN Append(e.freeable, h) ELSE e.freeable
<1>1. /\ e.cached \in SUBSET Hash /\ e.refs \in [Hash -> SUBSET Req]
      /\ e.freeable \in Seq(Hash) /\ e.freed \in SUBSET Hash
  BY DEF EncoderCache
<1>2. CASE e.refs[h] = {}
  BY <1>2 DEF FreeEncoderInput, KeepsOthers
<1>3. CASE e.refs[h] # {}
  <2>1. Range(e.freeable) = {g \in e.cached : e.refs[g] = {}} /\ IsInjective(e.freeable)
    BY DEF CacheOK
  <2>2. h \notin Range(e.freeable)
    BY <1>3, <2>1
  <2>3. /\ l \in Seq(Hash) /\ IsInjective(l)
        /\ Range(l) = IF e.refs[h] = {r} THEN Range(e.freeable) \cup {h} ELSE Range(e.freeable)
    <3>1. /\ Append(e.freeable, h) \in Seq(Hash) /\ IsInjective(Append(e.freeable, h))
          /\ Range(Append(e.freeable, h)) = Range(e.freeable) \cup {h}
      BY <1>1, <2>1, <2>2, AppendLemma
    <3>2. CASE e.refs[h] = {r}
      BY <3>1, <3>2
    <3>3. CASE e.refs[h] # {r}
      BY <1>1, <2>1, <3>3
    <3> QED BY <3>2, <3>3
  <2>4. /\ f.cached = e.cached /\ f.freed = e.freed /\ f.freeable = l
        /\ f.refs = [e.refs EXCEPT ![h] = @ \ {r}]
        /\ f \in EncoderCache
    BY <1>1, <1>3, <2>3 DEF FreeEncoderInput, EncoderCache
  <2> HIDE DEF f, l
  <2>5. \A g \in Hash : f.refs[g] = IF g = h THEN e.refs[g] \ {r} ELSE e.refs[g]
    BY <1>1, <2>4
  <2>6. Range(f.freeable) = {g \in f.cached : f.refs[g] = {}}
    <3>1. h \in e.cached
      BY <1>3 DEF CacheOK
    <3>2. e.refs[h] \ {r} = {} <=> e.refs[h] = {r}
      BY <1>3
    <3> QED BY <1>1, <1>3, <2>1, <2>3, <2>4, <2>5, <3>1, <3>2
  <2>7. \A g \in Hash : f.refs[g] # {} => g \in f.cached
    BY <2>4, <2>5 DEF CacheOK
  <2>8. CacheOK(f)
    BY <2>3, <2>4, <2>6, <2>7 DEF CacheOK
  <2>9. KeepsOthers(e, f, r)
    BY <2>4, <2>5 DEF KeepsOthers
  <2> QED BY <2>4, <2>8, <2>9 DEF f
<1> QED BY <1>2, <1>3

\* The inputs are released one after the other.
ReleaseRun(a, e, r, features, inputs, N) ==
  /\ Released(e, r, features, inputs) = a[N]
  /\ a[0] = e
  /\ \A i \in 1 .. N :
       a[i] = IF i \in inputs THEN FreeEncoderInput(a[i - 1], r, features[i].hash)
              ELSE a[i - 1]

\* Released, position by position.
LEMMA ReleasedSteps ==
  ASSUME NEW e, NEW r, NEW features, NEW N \in Nat, N = Len(features), NEW inputs
  PROVE  \E a : ReleaseRun(a, e, r, features, inputs, N)
<1> DEFINE Is(g, m) ==
             g = [i \in 0 .. m |->
                    IF i = 0 THEN e
                    ELSE IF i \in inputs THEN FreeEncoderInput(g[i - 1], r, features[i].hash)
                    ELSE g[i - 1]]
           T == {m \in Nat : ~ \E g : Is(g, m)}
<1>1. T = {}
  <2> SUFFICES ASSUME T # {} PROVE FALSE
    OBVIOUS
  <2>1. PICK m \in T : \A k \in T : m <= k
    <3>1. T \in SUBSET Nat
      OBVIOUS
    <3> HIDE DEF T
    <3> QED BY <3>1, LeastNumber
  <2>2. CASE m = 0
    <3>1. Is([i \in 0 .. 0 |-> e], 0)
      OBVIOUS
    <3> QED BY <2>1, <2>2, <3>1
  <2>3. CASE m # 0
    <3>1. m \in Nat /\ m - 1 \in Nat /\ m - 1 \notin T
      BY <2>1, <2>3
    <3>2. PICK g : Is(g, m - 1)
      BY <3>1
    <3> DEFINE last == IF m \in inputs THEN FreeEncoderInput(g[m - 1], r, features[m].hash)
                       ELSE g[m - 1]
               w == [i \in 0 .. m |-> IF i = m THEN last ELSE g[i]]
    <3>3. \A i \in 0 .. m - 1 : g[i] = IF i = 0 THEN e
                    ELSE IF i \in inputs THEN FreeEncoderInput(g[i - 1], r, features[i].hash)
                    ELSE g[i - 1]
      <4> HIDE DEF w, last
      <4> QED BY <3>2
    <3>4. \A i \in 0 .. m : w[i] = IF i = m THEN last ELSE g[i]
      BY <3>1
    <3>5. \A i \in 1 .. m : w[i - 1] = g[i - 1]
      BY <3>1, <3>4
    <3>6. \A i \in 0 .. m : w[i] = IF i = 0 THEN e
                    ELSE IF i \in inputs THEN FreeEncoderInput(w[i - 1], r, features[i].hash)
                    ELSE w[i - 1]
      <4> TAKE i \in 0 .. m
      <4>1. w[i] = IF i = m THEN last ELSE g[i]
        BY <3>4
      <4>2. CASE i = 0
        BY <2>3, <3>1, <3>3, <4>1, <4>2
      <4>3. CASE i # 0
        <5>1. w[i - 1] = g[i - 1]
          BY <3>5, <4>3
        <5>2. CASE i = m
          BY <4>1, <4>3, <5>1, <5>2
        <5>3. CASE i # m
          BY <3>1, <3>3, <4>1, <4>3, <5>1, <5>3
        <5> QED BY <5>2, <5>3
      <4> QED BY <4>2, <4>3
    <3>7. w = [i \in 0 .. m |-> w[i]]
      OBVIOUS
    <3> HIDE DEF w
    <3>8. Is(w, m)
      BY <3>6, <3>7
    <3> QED BY <2>1, <3>8
  <2> QED BY <2>2, <2>3
<1> DEFINE a == CHOOSE g : Is(g, N)
<1>2. Released(e, r, features, inputs) = a[N]
  BY DEF Released
<1>3. Is(a, N)
  <2>1. \E g : Is(g, N)
    BY <1>1
  <2> HIDE DEF Is
  <2> QED BY <2>1
<1> HIDE DEF a
<1>4. \A i \in 0 .. N : a[i] = IF i = 0 THEN e
                    ELSE IF i \in inputs THEN FreeEncoderInput(a[i - 1], r, features[i].hash)
                    ELSE a[i - 1]
  BY <1>3
<1>5. /\ a[0] = e
      /\ \A i \in 1 .. N :
           a[i] = IF i \in inputs THEN FreeEncoderInput(a[i - 1], r, features[i].hash)
                  ELSE a[i - 1]
  BY <1>4
<1>6. ReleaseRun(a, e, r, features, inputs, N)
  BY <1>2, <1>5 DEF ReleaseRun
<1> QED BY <1>6

\* f is e with nothing more for r to refer to.
IsReleased(e, f, r) == f \in EncoderCache /\ CacheOK(f) /\ KeepsOthers(e, f, r)

\* r refers to none of these inputs any more; what others refer to stays.
LEMMA ReleasedLemma ==
  ASSUME NEW e \in EncoderCache, CacheOK(e), NEW r \in Req, NEW features \in Seq(Feature),
         NEW inputs
  PROVE  IsReleased(e, Released(e, r, features, inputs), r)
<1>1. Len(features) \in Nat /\ \A i \in 1 .. Len(features) : features[i].hash \in Hash
  <2>1. \A i \in 1 .. Len(features) : features[i] \in Feature
    OBVIOUS
  <2> QED BY <2>1 DEF Feature
<1>n. PICK N \in Nat : N = Len(features)
  BY <1>1
<1>a. PICK a : ReleaseRun(a, e, r, features, inputs, N)
  BY <1>n, ReleasedSteps
<1>2. /\ Released(e, r, features, inputs) = a[N]
      /\ a[0] = e
      /\ \A i \in 1 .. N :
           a[i] = IF i \in inputs THEN FreeEncoderInput(a[i - 1], r, features[i].hash)
                  ELSE a[i - 1]
  BY <1>a DEF ReleaseRun
<1> DEFINE Good(f) == f \in EncoderCache /\ CacheOK(f) /\ KeepsOthers(e, f, r)
           T == {i \in 0 .. N : ~ Good(a[i])}
<1>3. Good(e)
  BY DEF KeepsOthers
<1>4. \A i \in 1 .. N : Good(a[i - 1]) => Good(a[i])
  <2> SUFFICES ASSUME NEW i \in 1 .. N, Good(a[i - 1]) PROVE Good(a[i])
    OBVIOUS
  <2>1. CASE i \in inputs
    <3> DEFINE b == a[i - 1]
               f == a[i]
    <3>1. f = FreeEncoderInput(b, r, features[i].hash) /\ features[i].hash \in Hash
      BY <1>1, <1>n, <1>2, <2>1
    <3>2. Good(b)
      OBVIOUS
    <3> HIDE DEF b, f
    <3>3. f \in EncoderCache /\ CacheOK(f) /\ KeepsOthers(b, f, r)
      BY <3>1, <3>2, FreeInputLemma
    <3>4. KeepsOthers(e, f, r)
      BY <3>2, <3>3 DEF KeepsOthers
    <3> QED BY <3>3, <3>4 DEF f
  <2>2. CASE i \notin inputs
    BY <1>2, <2>2
  <2> QED BY <2>1, <2>2
<1> HIDE DEF Good
<1>5. T = {}
  <2> SUFFICES ASSUME T # {} PROVE FALSE
    OBVIOUS
  <2>1. PICK m \in T : \A k \in T : m <= k
    <3>1. T \in SUBSET Nat
      BY <1>1
    <3> HIDE DEF T
    <3> QED BY <3>1, LeastNumber
  <2>2. m \in 0 .. N /\ ~ Good(a[m])
    BY <2>1
  <2>3. m # 0
    BY <1>2, <1>3, <2>2
  <2>4. m - 1 \in 0 .. N /\ m \in 1 .. N /\ ~ (m <= m - 1)
    BY <1>1, <2>2, <2>3
  <2>5. Good(a[m - 1])
    BY <2>1, <2>4
  <2> QED BY <1>4, <2>2, <2>4, <2>5
<1>6. Good(a[N])
  <2>1. N \in 0 .. N
    BY <1>1
  <2> QED BY <1>5, <2>1
<1> QED BY <1>2, <1>6 DEF Good, IsReleased

\* f refers to all that e refers to.
RefersTo(e, f) == \A h \in Hash : e.refs[h] \subseteq f.refs[h]

\* The inputs of a request that are scheduled are allocated one after the other.
AllocateRun(a, e, r, inputs, N) ==
  /\ Allocated(e, r, inputs) = a[N]
  /\ a[0] = e
  /\ \A k \in 1 .. N : a[k] = Referred(a[k - 1], r, req[r].feats[inputs[k]].hash)

\* Allocated, position by position.
LEMMA AllocatedSteps ==
  ASSUME NEW e, NEW r, NEW inputs, NEW N \in Nat, N = Len(inputs)
  PROVE  \E a : AllocateRun(a, e, r, inputs, N)
<1> DEFINE Is(g, m) ==
             g = [k \in 0 .. m |->
                    IF k = 0 THEN e ELSE Referred(g[k - 1], r, req[r].feats[inputs[k]].hash)]
           T == {m \in Nat : ~ \E g : Is(g, m)}
<1>1. T = {}
  <2> SUFFICES ASSUME T # {} PROVE FALSE
    OBVIOUS
  <2>1. PICK m \in T : \A k \in T : m <= k
    <3>1. T \in SUBSET Nat
      OBVIOUS
    <3> HIDE DEF T
    <3> QED BY <3>1, LeastNumber
  <2>2. CASE m = 0
    <3>1. Is([i \in 0 .. 0 |-> e], 0)
      OBVIOUS
    <3> QED BY <2>1, <2>2, <3>1
  <2>3. CASE m # 0
    <3>1. m \in Nat /\ m - 1 \in Nat /\ m - 1 \notin T
      BY <2>1, <2>3
    <3>2. PICK g : Is(g, m - 1)
      BY <3>1
    <3> DEFINE last == Referred(g[m - 1], r, req[r].feats[inputs[m]].hash)
               w == [i \in 0 .. m |-> IF i = m THEN last ELSE g[i]]
    <3>3. \A i \in 0 .. m - 1 :
             g[i] = IF i = 0 THEN e ELSE Referred(g[i - 1], r, req[r].feats[inputs[i]].hash)
      <4> HIDE DEF w, last
      <4> QED BY <3>2
    <3>4. \A i \in 0 .. m : w[i] = IF i = m THEN last ELSE g[i]
      BY <3>1
    <3>5. \A i \in 1 .. m : w[i - 1] = g[i - 1]
      BY <3>1, <3>4
    <3>6. \A i \in 0 .. m :
             w[i] = IF i = 0 THEN e ELSE Referred(w[i - 1], r, req[r].feats[inputs[i]].hash)
      <4> TAKE i \in 0 .. m
      <4>1. w[i] = IF i = m THEN last ELSE g[i]
        BY <3>4
      <4>2. CASE i = 0
        BY <2>3, <3>1, <3>3, <4>1, <4>2
      <4>3. CASE i # 0
        <5>1. w[i - 1] = g[i - 1]
          BY <3>5, <4>3
        <5>2. CASE i = m
          BY <4>1, <4>3, <5>1, <5>2
        <5>3. CASE i # m
          BY <3>1, <3>3, <4>1, <4>3, <5>1, <5>3
        <5> QED BY <5>2, <5>3
      <4> QED BY <4>2, <4>3
    <3>7. w = [i \in 0 .. m |-> w[i]]
      OBVIOUS
    <3> HIDE DEF w
    <3>8. Is(w, m)
      BY <3>6, <3>7
    <3> QED BY <2>1, <3>8
  <2> QED BY <2>2, <2>3
<1> DEFINE a == CHOOSE g : Is(g, N)
<1>2. Allocated(e, r, inputs) = a[N]
  BY DEF Allocated
<1>3. Is(a, N)
  <2> HIDE DEF Is
  <2>1. \E g : Is(g, N)
    BY <1>1
  <2> QED BY <2>1
<1> HIDE DEF a
<1>4. \A i \in 0 .. N :
         a[i] = IF i = 0 THEN e ELSE Referred(a[i - 1], r, req[r].feats[inputs[i]].hash)
  BY <1>3
<1>5. a[0] = e /\ \A k \in 1 .. N : a[k] = Referred(a[k - 1], r, req[r].feats[inputs[k]].hash)
  BY <1>4
<1>6. AllocateRun(a, e, r, inputs, N)
  BY <1>2, <1>5 DEF AllocateRun
<1> QED BY <1>6

\* f is e with these inputs cached, and referred to by r.
IsAllocated(e, f, r, hashes) ==
  /\ f \in EncoderCache /\ CacheOK(f) /\ RefersTo(e, f)
  /\ f.cached = e.cached \cup hashes /\ f.freed = e.freed
  /\ \A h \in hashes : r \in f.refs[h]

\* Inputs that fit are cached, and r refers to them.
LEMMA AllocatedLemma ==
  ASSUME NEW e \in EncoderCache, CacheOK(e), req \in [Req -> Request], NEW r \in Req,
         NEW inputs \in Seq(Nat), \A i \in Range(inputs) : i \in 1 .. Len(req[r].feats),
         NEW hs, hs = {req[r].feats[i].hash : i \in Range(inputs)},
         IsFiniteSet(hs), EmbedsOf(e.cached \cup hs) <= CacheSize
  PROVE  IsAllocated(e, Allocated(e, r, inputs), r, hs)
<1> DEFINE h(k) == req[r].feats[inputs[k]].hash
<1>1. PICK N \in Nat : N = Len(inputs)
  OBVIOUS
<1>2. \A k \in 1 .. N : inputs[k] \in Range(inputs)
  BY <1>1, ListLemma
<1>3. \A i \in 1 .. Len(req[r].feats) : req[r].feats[i].hash \in Hash
  <2>1. req[r].feats \in Seq(Feature)
    BY DEF Request
  <2>2. \A i \in 1 .. Len(req[r].feats) : req[r].feats[i] \in Feature
    BY <2>1
  <2> QED BY <2>2 DEF Feature
<1>4. \A k \in 1 .. N : h(k) \in Hash /\ h(k) \in hs
  BY <1>2, <1>3
<1>5. hs \subseteq Hash /\ e.cached \subseteq Hash /\ IsFiniteSet(e.cached)
  BY <1>3 DEF EncoderCache, CacheOK
<1>6. ASSUME NEW x \in hs PROVE \E k \in 1 .. N : x = h(k)
  <2>1. PICK i \in Range(inputs) : x = req[r].feats[i].hash
    OBVIOUS
  <2>2. PICK k \in 1 .. Len(inputs) : inputs[k] = i
    BY ListLemma
  <2> QED BY <1>1, <2>1, <2>2
<1>7. PICK a : AllocateRun(a, e, r, inputs, N)
  BY <1>1, AllocatedSteps
<1>8. /\ Allocated(e, r, inputs) = a[N]
      /\ a[0] = e
      /\ \A k \in 1 .. N : a[k] = Referred(a[k - 1], r, h(k))
  BY <1>7 DEF AllocateRun
<1> HIDE DEF h
<1> DEFINE Good(m, f) == /\ f \in EncoderCache /\ CacheOK(f) /\ RefersTo(e, f)
                         /\ f.cached = e.cached \cup {h(k) : k \in 1 .. m}
                         /\ f.freed = e.freed
                         /\ \A k \in 1 .. m : r \in f.refs[h(k)]
           T == {m \in 0 .. N : ~ Good(m, a[m])}
<1>9. Good(0, e)
  <2>1. {h(k) : k \in 1 .. 0} = {}
    OBVIOUS
  <2> QED BY <2>1 DEF RefersTo
<1>10. \A m \in 1 .. N : Good(m - 1, a[m - 1]) => Good(m, a[m])
  <2> SUFFICES ASSUME NEW m \in 1 .. N, Good(m - 1, a[m - 1]) PROVE Good(m, a[m])
    OBVIOUS
  <2> DEFINE b == a[m - 1]
             f == a[m]
             x == h(m)
  <2>1. f = Referred(b, r, x) /\ x \in Hash /\ x \in hs
    BY <1>4, <1>8
  <2>2. /\ b \in EncoderCache /\ CacheOK(b) /\ RefersTo(e, b)
        /\ b.cached = e.cached \cup {h(k) : k \in 1 .. m - 1} /\ b.freed = e.freed
        /\ \A k \in 1 .. m - 1 : r \in b.refs[h(k)]
    OBVIOUS
  <2> HIDE DEF b, f, x
  <2>3. b.cached \cup {x} \subseteq e.cached \cup hs
    <3>1. \A k \in 1 .. m - 1 : k \in 1 .. N
      OBVIOUS
    <3> QED BY <1>4, <2>1, <2>2, <3>1
  <2>4. EmbedsOf(b.cached \cup {x}) <= CacheSize
    <3>1. IsFiniteSet(e.cached \cup hs) /\ e.cached \cup hs \in SUBSET Hash
      BY <1>5, FS_Union
    <3>2. /\ EmbedsOf(b.cached \cup {x}) <= EmbedsOf(e.cached \cup hs)
          /\ EmbedsOf(b.cached \cup {x}) \in Nat /\ EmbedsOf(e.cached \cup hs) \in Nat
      BY <2>3, <3>1, EmbedsLemma
    <3> QED BY <3>2, ConstantsAssumption
  <2>5. /\ f \in EncoderCache /\ CacheOK(f) /\ f.cached = b.cached \cup {x} /\ f.freed = b.freed
        /\ \A g \in Hash : f.refs[g] = IF g = x THEN b.refs[g] \cup {r} ELSE b.refs[g]
    <3>1. b \in EncoderCache /\ CacheOK(b) /\ x \in Hash /\ EmbedsOf(b.cached \cup {x}) <= CacheSize
      BY <2>1, <2>2, <2>4
    <3>2. IsReferred(b, Referred(b, r, x), r, x)
      BY <3>1, ReferredLemma
    <3>3. IsReferred(b, f, r, x)
      BY <2>1, <3>2
    <3> QED BY <3>3 DEF IsReferred
  <2>6. \A k \in 1 .. m : k = m \/ k \in 1 .. m - 1
    OBVIOUS
  <2>7. {h(k) : k \in 1 .. m} = {h(k) : k \in 1 .. m - 1} \cup {x}
    BY DEF x
  <2>8. \A k \in 1 .. m : r \in f.refs[h(k)]
    <3> TAKE k \in 1 .. m
    <3>1. h(k) \in Hash
      BY <1>4
    <3>2. k = m => h(k) = x
      BY DEF x
    <3> QED BY <2>2, <2>5, <2>6, <3>1, <3>2
  <2>9. RefersTo(e, f)
    BY <2>2, <2>5 DEF RefersTo
  <2>10. f.cached = e.cached \cup {h(k) : k \in 1 .. m}
    BY <2>2, <2>5, <2>7
  <2> QED BY <2>2, <2>5, <2>8, <2>9, <2>10 DEF f
<1> HIDE DEF Good
<1>11. T = {}
  <2> SUFFICES ASSUME T # {} PROVE FALSE
    OBVIOUS
  <2>1. PICK m \in T : \A k \in T : m <= k
    <3>1. T \in SUBSET Nat
      OBVIOUS
    <3> HIDE DEF T
    <3> QED BY <3>1, LeastNumber
  <2>2. m \in 0 .. N /\ ~ Good(m, a[m])
    BY <2>1
  <2>3. m # 0
    BY <1>8, <1>9, <2>2
  <2>4. m - 1 \in 0 .. N /\ m \in 1 .. N /\ ~ (m <= m - 1)
    BY <2>2, <2>3
  <2>5. Good(m - 1, a[m - 1])
    BY <2>1, <2>4
  <2> QED BY <1>10, <2>2, <2>4, <2>5
<1>12. Good(N, a[N])
  <2>1. N \in 0 .. N
    OBVIOUS
  <2> QED BY <1>11, <2>1
<1>13. hs = {h(k) : k \in 1 .. N}
  BY <1>4, <1>6
<1> QED BY <1>8, <1>12, <1>13 DEF Good, IsAllocated

\* Evictions make the room that is asked for, and take nothing anyone refers to.
LEMMA EvictedLemma ==
  ASSUME NEW e \in EncoderCache, CacheOK(e), NEW room \in Nat, room <= NumFreeableSlots(e)
  PROVE  LET f == Evicted(e, room)
         IN  /\ f \in EncoderCache /\ CacheOK(f)
             /\ f.cached \subseteq e.cached /\ f.refs = e.refs
             /\ f.freed = e.freed \cup (e.cached \ f.cached)
             /\ EmbedsOf(f.cached) + room <= CacheSize
<1> DEFINE L == Len(e.freeable)
           Ev(k) == Range(SubSeq(e.freeable, 1, k))
           Wo(k) == [e EXCEPT !.cached = @ \ Range(SubSeq(e.freeable, 1, k)),
                              !.freed = @ \cup Range(SubSeq(e.freeable, 1, k)),
                              !.freeable = SubSeq(@, k + 1, Len(@))]
           T == {k \in 0 .. L : NumFreeSlots(Wo(k)) >= room}
           n == CHOOSE k \in 0 .. L :
                  /\ NumFreeSlots(Wo(k)) >= room
                  /\ \A j \in 0 .. k - 1 : NumFreeSlots(Wo(j)) < room
<1>1. /\ e.cached \in SUBSET Hash /\ e.refs \in [Hash -> SUBSET Req]
      /\ e.freeable \in Seq(Hash) /\ e.freed \in SUBSET Hash /\ L \in Nat
  BY DEF EncoderCache
<1>2. /\ IsFiniteSet(e.cached) /\ IsInjective(e.freeable)
      /\ Range(e.freeable) = {h \in e.cached : e.refs[h] = {}}
      /\ \A h \in Hash : e.refs[h] # {} => h \in e.cached
      /\ EmbedsOf(e.cached) <= CacheSize
  BY DEF CacheOK
<1>3. Evicted(e, room) = Wo(n)
  BY DEF Evicted
<1> HIDE DEF L
<1>4. ASSUME NEW k \in 0 .. L
      PROVE  /\ Wo(k).cached = e.cached \ Ev(k) /\ Wo(k).refs = e.refs
             /\ Wo(k).freed = e.freed \cup Ev(k)
             /\ Wo(k).freeable = SubSeq(e.freeable, k + 1, L)
             /\ Ev(k) = {e.freeable[i] : i \in 1 .. k}
             /\ Ev(k) \subseteq Range(e.freeable)
             /\ Wo(k) \in EncoderCache
  <2>1. Ev(k) = {e.freeable[i] : i \in 1 .. k}
    <3>1. 1 \in 1 .. L + 1
      BY <1>1
    <3> QED BY <1>1, <3>1, PartLemma DEF L
  <2>2. Ev(k) \subseteq Range(e.freeable)
    <3>1. \A i \in 1 .. L : e.freeable[i] \in Range(e.freeable)
      BY <1>1, ListLemma DEF L
    <3>2. \A i \in 1 .. k : i \in 1 .. L
      BY <1>1
    <3> QED BY <2>1, <3>1, <3>2
  <2>3. e = [cached |-> e.cached, refs |-> e.refs, freeable |-> e.freeable, freed |-> e.freed]
    BY DEF EncoderCache
  <2>4. Ev(k) \subseteq Hash
    BY <1>1, <1>2, <2>2
  <2>5. SubSeq(e.freeable, k + 1, Len(e.freeable)) \in Seq(Hash)
    BY <1>1 DEF L
  <2>6. Wo(k) \in EncoderCache
    BY <1>1, <2>4, <2>5 DEF EncoderCache
  <2>7. /\ Wo(k).cached = e.cached \ Ev(k) /\ Wo(k).refs = e.refs
        /\ Wo(k).freed = e.freed \cup Ev(k)
        /\ Wo(k).freeable = SubSeq(e.freeable, k + 1, L)
    BY <2>3 DEF L
  <2> HIDE DEF Wo, Ev
  <2> QED BY <2>1, <2>2, <2>6, <2>7
<1>5. L \in T
  <2>1. L \in 0 .. L
    BY <1>1
  <2>2. Ev(L) = Range(e.freeable)
    <3>1. \A x \in Range(e.freeable) : \E i \in 1 .. L : e.freeable[i] = x
      BY <1>1, ListLemma DEF L
    <3> HIDE DEF Wo, Ev
    <3>2. Ev(L) = {e.freeable[i] : i \in 1 .. L} /\ Ev(L) \subseteq Range(e.freeable)
      BY <1>4, <2>1
    <3> QED BY <3>1, <3>2
  <2>3. e.cached \ Ev(L) = {h \in e.cached : e.refs[h] # {}}
    BY <1>2, <2>2
  <2> HIDE DEF Wo, Ev
  <2>4. NumFreeSlots(Wo(L)) = NumFreeableSlots(e)
    BY <1>4, <2>1, <2>3 DEF NumFreeSlots, NumFreeableSlots
  <2>5. NumFreeableSlots(e) \in Int
    <3>1. EmbedsOf({h \in e.cached : e.refs[h] # {}}) \in Nat
      BY <1>1, <1>2, EmbedsLemma
    <3> QED BY <3>1, ConstantsAssumption DEF NumFreeableSlots
  <2> QED BY <2>1, <2>4, <2>5
<1>6. n \in 0 .. L /\ NumFreeSlots(Wo(n)) >= room
  <2>1. PICK k \in T : \A j \in T : k <= j
    <3>1. T # {}
      BY <1>5
    <3> HIDE DEF Wo, Ev
    <3>2. T \in SUBSET Nat
      BY <1>1
    <3> HIDE DEF T
    <3> QED BY <3>1, <3>2, LeastNumber
  <2> HIDE DEF Wo, Ev
  <2>2. \A j \in 0 .. L : NumFreeSlots(Wo(j)) \in Int
    <3> TAKE j \in 0 .. L
    <3>1. EmbedsOf(e.cached \ Ev(j)) \in Nat
      BY <1>1, <1>2, EmbedsLemma
    <3>2. Wo(j).cached = e.cached \ Ev(j)
      BY <1>4
    <3> QED BY <3>1, <3>2, ConstantsAssumption DEF NumFreeSlots
  <2>3. ASSUME NEW j \in 0 .. k - 1 PROVE NumFreeSlots(Wo(j)) < room
    <3>1. j \in 0 .. L /\ ~ (k <= j)
      BY <1>1, <2>1
    <3>2. j \notin T
      BY <2>1, <3>1
    <3> QED BY <2>2, <3>1, <3>2
  <2>4. k \in 0 .. L /\ NumFreeSlots(Wo(k)) >= room
    BY <2>1
  <2> QED BY <2>3, <2>4
<1> DEFINE f == Wo(n)
<1>7. /\ f.cached = e.cached \ Ev(n) /\ f.refs = e.refs /\ f.freed = e.freed \cup Ev(n)
      /\ f.freeable = SubSeq(e.freeable, n + 1, L)
      /\ Ev(n) = {e.freeable[i] : i \in 1 .. n} /\ Ev(n) \subseteq Range(e.freeable)
  <2> HIDE DEF n, Wo, Ev
  <2> QED BY <1>4, <1>6
<1>8. n \in 0 .. L
  BY <1>6
<1> HIDE DEF n
<1>9. /\ f.freeable \in Seq(Hash) /\ IsInjective(f.freeable)
      /\ Range(f.freeable) = {e.freeable[i] : i \in n + 1 .. L}
  <2>1. n + 1 \in 1 .. L + 1 /\ L \in 0 .. L
    BY <1>1, <1>8
  <2> DEFINE l == SubSeq(e.freeable, n + 1, L)
  <2>2. l \in Seq(Hash) /\ Range(l) = {e.freeable[i] : i \in n + 1 .. L} /\ IsInjective(l)
    BY <1>1, <1>2, <2>1, PartLemma DEF L
  <2> HIDE DEF Wo, f
  <2> QED BY <1>7, <2>2
<1>10. f \in EncoderCache
  <2> HIDE DEF Wo, Ev
  <2> QED BY <1>4, <1>8
<1> HIDE DEF Wo, Ev
<1>11. Range(f.freeable) = {h \in f.cached : f.refs[h] = {}}
  <2>1. \A i, j \in 1 .. L : e.freeable[i] = e.freeable[j] => i = j
    BY <1>1, <1>2, ListLemma DEF L
  <2>2. Range(e.freeable) = {e.freeable[i] : i \in 1 .. L}
    <3>1. \A x \in Range(e.freeable) : \E i \in 1 .. L : e.freeable[i] = x
      BY <1>1, ListLemma DEF L
    <3>2. \A i \in 1 .. L : e.freeable[i] \in Range(e.freeable)
      BY <1>1, ListLemma DEF L
    <3> QED BY <3>1, <3>2
  <2>3. \A i \in 1 .. L : i \in 1 .. n <=> ~ (i \in n + 1 .. L)
    BY <1>1, <1>8
  <2>4. {e.freeable[i] : i \in n + 1 .. L} = Range(e.freeable) \ Ev(n)
    <3>1. ASSUME NEW x \in Range(e.freeable) \ Ev(n) PROVE \E i \in n + 1 .. L : e.freeable[i] = x
      <4>1. PICK i \in 1 .. L : e.freeable[i] = x
        BY <2>2
      <4> QED BY <1>7, <2>3, <4>1
    <3>2. ASSUME NEW i \in n + 1 .. L PROVE e.freeable[i] \in Range(e.freeable) \ Ev(n)
      <4>1. i \in 1 .. L /\ i \notin 1 .. n
        BY <1>1, <1>8
      <4>2. \A j \in 1 .. n : j \in 1 .. L
        BY <1>1, <1>8
      <4>3. e.freeable[i] \notin Ev(n)
        BY <1>7, <2>1, <4>1, <4>2
      <4> QED BY <2>2, <4>1, <4>3
    <3> QED BY <3>1, <3>2
  <2> QED BY <1>2, <1>7, <1>9, <2>4
<1>12. \A h \in Hash : f.refs[h] # {} => h \in f.cached
  BY <1>2, <1>7
<1>13. IsFiniteSet(f.cached) /\ EmbedsOf(f.cached) \in Nat
  <2>1. IsFiniteSet(f.cached)
    BY <1>2, <1>7, FS_Subset
  <2>2. f.cached \in SUBSET Hash
    BY <1>1, <1>7
  <2> QED BY <2>1, <2>2, EmbedsLemma
<1>14. EmbedsOf(f.cached) + room <= CacheSize
  BY <1>6, <1>13, ConstantsAssumption DEF NumFreeSlots
<1>15. CacheOK(f)
  <2>1. EmbedsOf(f.cached) <= CacheSize
    BY <1>13, <1>14, ConstantsAssumption
  <2> QED BY <1>9, <1>11, <1>12, <1>13, <2>1 DEF CacheOK
<1>16. f.freed = e.freed \cup (e.cached \ f.cached)
  BY <1>2, <1>7
<1> QED BY <1>3, <1>7, <1>10, <1>14, <1>15, <1>16

-----------------------------------------------------------------------------
(* _try_schedule_encoder_inputs.                                           *)

Trying ==
  [n : Nat, enc : EncoderCache, budget : Int, embeds : Nat, hashes : SUBSET Hash,
   inputs : Seq(Nat), stop : BOOLEAN]

\* f is what evictions and further references make of e.
Reworked(e, f) ==
  /\ RefersTo(e, f)
  /\ f.cached \subseteq e.cached
  /\ f.freed = e.freed \cup (e.cached \ f.cached)

\* The cache and the inputs to be computed, of what the loop has found out.
TryCached(a, r) ==
  /\ CacheOK(a.enc) /\ Reworked(enc, a.enc)
  /\ \A i \in Range(a.inputs) : i \in 1 .. Len(req[r].feats)
  /\ a.hashes = HashesAt(req[r].feats, a.inputs) /\ IsFiniteSet(a.hashes)
  /\ a.hashes \cap a.enc.cached = {}
  /\ a.embeds = EmbedsOf(a.hashes)
  /\ EmbedsOf(a.enc.cached) + a.embeds <= CacheSize

\* Of the first m inputs, those among the tokens are referred to or to be computed.
TryCovers(a, r, c, m) ==
  \A i \in Touched(req[r].feats, c, a.n) :
    (i <= m \/ a.stop) /\ a.n > 0 =>
      r \in a.enc.refs[req[r].feats[i].hash] \/ req[r].feats[i].hash \in a.hashes

\* What the loop has found out of the first m inputs of r.
TryOK(a, r, c, n, m) ==
  a \in Trying /\ a.n <= n /\ TryCached(a, r) /\ TryCovers(a, r, c, m)

\* The inputs of a request, by position.
LEMMA FeatureLemma ==
  ASSUME req \in [Req -> Request], NEW r \in Req
  PROVE  /\ req[r].feats \in Seq(Feature) /\ Len(req[r].feats) \in Nat
         /\ DOMAIN req[r].feats = 1 .. Len(req[r].feats)
         /\ \A i \in 1 .. Len(req[r].feats) :
              /\ req[r].feats[i] \in Feature
              /\ req[r].feats[i].hash \in Hash /\ req[r].feats[i].start \in Nat
              /\ Embeds[req[r].feats[i].hash] \in Nat \ {0}
              /\ EndOf(req[r].feats[i]) \in Nat
              /\ EndOf(req[r].feats[i]) > req[r].feats[i].start
<1>1. req[r].feats \in Seq(Feature)
  BY DEF Request
<1>2. \A i \in 1 .. Len(req[r].feats) : req[r].feats[i] \in Feature
  BY <1>1
<1>3. \A h \in Hash : Embeds[h] \in Nat \ {0}
  BY ConstantsAssumption
<1>4. \A f \in Feature : /\ f.hash \in Hash /\ f.start \in Nat
                         /\ EndOf(f) \in Nat /\ EndOf(f) > f.start
  BY <1>3 DEF Feature, EndOf
<1> QED BY <1>1, <1>2, <1>3, <1>4

\* One more at the end, which may be there already.
LEMMA AppendRange ==
  ASSUME NEW S, NEW list \in Seq(S), NEW x \in S
  PROVE  Append(list, x) \in Seq(S) /\ Range(Append(list, x)) = Range(list) \cup {x}
<1> DEFINE w == Append(list, x)
<1>1. /\ w \in Seq(S) /\ Len(w) = Len(list) + 1 /\ Len(list) \in Nat
      /\ \A i \in 1 .. Len(list) : w[i] = list[i]
      /\ w[Len(list) + 1] = x
  OBVIOUS
<1> HIDE DEF w
<1>2. ASSUME NEW y \in Range(w) PROVE y \in Range(list) \cup {x}
  <2>1. PICK i \in 1 .. Len(w) : w[i] = y
    BY <1>1, ListLemma
  <2>2. i \in 1 .. Len(list) \/ i = Len(list) + 1
    BY <1>1
  <2> QED BY <1>1, <2>1, <2>2, ListLemma
<1>3. ASSUME NEW y \in Range(list) \cup {x} PROVE y \in Range(w)
  <2>1. CASE y \in Range(list)
    <3>1. PICK i \in 1 .. Len(list) : list[i] = y
      BY <2>1, ListLemma
    <3>2. i \in 1 .. Len(w) /\ w[i] = y
      BY <1>1, <3>1
    <3> QED BY <1>1, <3>2, ListLemma
  <2>2. CASE y = x
    <3>1. Len(list) + 1 \in 1 .. Len(w)
      BY <1>1
    <3> QED BY <1>1, <2>2, <3>1, ListLemma
  <2> QED BY <2>1, <2>2
<1> QED BY <1>1, <1>2, <1>3 DEF w

\* What the loop makes of one input f, the m-th, case by case.
ConsiderIs(r, c, a, m, f, room, b) ==
  \/ a.stop /\ b = a
  \/ ~ a.stop /\ f.start >= (c + a.n) + Shift /\ b = [a EXCEPT !.stop = TRUE]
  \/ ~ a.stop /\ (EndOf(f) <= c \/ f.hash \in a.hashes) /\ b = a
  \/ /\ ~ a.stop /\ f.hash \in a.enc.cached
     /\ b = [a EXCEPT !.enc = Referred(@, r, f.hash)]
  \/ /\ ~ a.stop /\ f.start < (c + a.n) + Shift
     /\ b = [a EXCEPT !.n = Positive(f.start - (c + Shift)), !.stop = TRUE]
  \/ /\ ~ a.stop /\ f.start >= c + a.n
     /\ room <= NumFreeableSlots(a.enc)
     /\ b = [a EXCEPT !.enc = Evicted(@, room)]
  \/ /\ ~ a.stop /\ f.hash \notin a.enc.cached \cup a.hashes
     /\ room <= NumFreeableSlots(a.enc)
     /\ b = [a EXCEPT !.enc = Evicted(@, room), !.embeds = room,
                      !.budget = @ - Embeds[f.hash],
                      !.hashes = @ \cup {f.hash}, !.inputs = Append(@, m)]

\* Consider, by its cases.
LEMMA ConsiderCases ==
  ASSUME req \in [Req -> Request], NEW r \in Req, NEW c \in Nat, NEW n \in Nat,
         NEW a, NEW m \in 1 .. Len(req[r].feats), TryOK(a, r, c, n, m - 1),
         NEW f, f = req[r].feats[m], NEW room, room = a.embeds + Embeds[f.hash],
         NEW b, b = Consider(r, c, a, m)
  PROVE  ConsiderIs(r, c, a, m, f, room, b)
<1> DEFINE to == c + a.n
           inner ==
      CASE EndOf(f) <= c \/ f.hash \in a.hashes -> a
        [] EndOf(f) > c /\ f.hash \in a.enc.cached \ a.hashes ->
           [a EXCEPT !.enc = Referred(@, r, f.hash)]
        [] EndOf(f) > c /\ f.hash \notin a.enc.cached \cup a.hashes ->
           IF \/ DisableChunkedMM /\ c < f.start /\ to < EndOf(f)
              \/ Embeds[f.hash] > a.budget
              \/ room > NumFreeableSlots(a.enc)
           THEN [a EXCEPT !.n = Positive(f.start - (c + Shift)), !.stop = TRUE]
           ELSE LET roomy == [a EXCEPT !.enc = Evicted(@, room)]
                IN  IF f.start >= to THEN roomy
                    ELSE [roomy EXCEPT !.embeds = room,
                                       !.budget = @ - Embeds[f.hash],
                                       !.hashes = @ \cup {f.hash},
                                       !.inputs = Append(@, m)]
<1>c. b = CASE a.stop -> a
            [] ~ a.stop /\ f.start >= to + Shift -> [a EXCEPT !.stop = TRUE]
            [] ~ a.stop /\ f.start < to + Shift -> inner
  BY Zenon DEF Consider
<1>1. /\ f.hash \in Hash /\ f.start \in Nat /\ EndOf(f) \in Nat /\ Embeds[f.hash] \in Nat
      /\ to \in Nat /\ room \in Nat /\ Shift \in Nat /\ a.stop \in BOOLEAN
  <2>1. f.hash \in Hash /\ f.start \in Nat /\ EndOf(f) \in Nat /\ Embeds[f.hash] \in Nat
    BY FeatureLemma
  <2>2. a.n \in Nat /\ a.embeds \in Nat /\ a.stop \in BOOLEAN
    BY DEF TryOK, Trying
  <2>3. Shift \in Nat
    BY ConstantsAssumption
  <2>4. to \in Nat
    BY <2>2
  <2>5. room \in Nat
    <3> DEFINE x == a.embeds
               y == Embeds[f.hash]
    <3>1. x \in Nat /\ y \in Nat /\ room = x + y
      BY <2>1, <2>2
    <3> HIDE DEF x, y
    <3> QED BY <3>1
  <2> HIDE DEF to
  <2> QED BY <2>1, <2>2, <2>3, <2>4, <2>5
<1>2. NumFreeableSlots(a.enc) \in Int
  <2>1. /\ IsFiniteSet(a.enc.cached)
        /\ {h \in a.enc.cached : a.enc.refs[h] # {}} \in SUBSET a.enc.cached
        /\ a.enc.cached \in SUBSET Hash
    BY DEF TryOK, TryCached, Trying, EncoderCache, CacheOK
  <2>2. EmbedsOf({h \in a.enc.cached : a.enc.refs[h] # {}}) \in Nat
    BY <2>1, EmbedsLemma
  <2> QED BY <2>2, ConstantsAssumption DEF NumFreeableSlots
<1>3. CASE a.stop
  <2>1. b = a
    <3> HIDE DEF inner
    <3> QED BY <1>c, <1>3
  <2> QED BY <1>3, <2>1 DEF ConsiderIs
<1>4. CASE ~ a.stop /\ f.start >= to + Shift
  <2>1. b = [a EXCEPT !.stop = TRUE]
    <3> HIDE DEF inner
    <3>1. ~ (f.start < to + Shift)
      BY <1>1, <1>4
    <3> QED BY <1>c, <1>4, <3>1
  <2> QED BY <1>4, <2>1 DEF ConsiderIs
<1>5. CASE ~ a.stop /\ f.start < to + Shift
  <2>1. b = inner
    <3> HIDE DEF inner
    <3>1. ~ (f.start >= to + Shift)
      BY <1>1, <1>5
    <3> QED BY <1>c, <1>5, <3>1
  <2>2. CASE EndOf(f) <= c \/ f.hash \in a.hashes
    <3>1. ~ (EndOf(f) > c /\ f.hash \in a.enc.cached \ a.hashes)
      BY <1>1, <2>2
    <3>2. ~ (EndOf(f) > c /\ f.hash \notin a.enc.cached \cup a.hashes)
      BY SMTT(30), <1>1, <2>2
    <3>3. b = a
      BY Zenon, <2>1, <2>2, <3>1, <3>2
    <3> QED BY <1>5, <2>2, <3>3 DEF ConsiderIs
  <2>3. CASE EndOf(f) > c /\ f.hash \in a.enc.cached \ a.hashes
    <3>1. ~ (EndOf(f) <= c \/ f.hash \in a.hashes)
      BY <1>1, <2>3
    <3>2. ~ (EndOf(f) > c /\ f.hash \notin a.enc.cached \cup a.hashes)
      BY <2>3
    <3>3. b = [a EXCEPT !.enc = Referred(@, r, f.hash)]
      BY <2>1, <2>3, <3>1, <3>2
    <3> QED BY <1>5, <2>3, <3>3 DEF ConsiderIs
  <2>4. CASE EndOf(f) > c /\ f.hash \notin a.enc.cached \cup a.hashes
    <3>1. ~ (EndOf(f) <= c \/ f.hash \in a.hashes)
      BY <1>1, <2>4
    <3>2. ~ (EndOf(f) > c /\ f.hash \in a.enc.cached \ a.hashes)
      BY <2>4
    <3>3. CASE \/ DisableChunkedMM /\ c < f.start /\ to < EndOf(f)
               \/ Embeds[f.hash] > a.budget
               \/ room > NumFreeableSlots(a.enc)
      <4>1. b = [a EXCEPT !.n = Positive(f.start - (c + Shift)), !.stop = TRUE]
        BY Zenon, <2>1, <2>4, <3>1, <3>2, <3>3
      <4> QED BY SMTT(30), <1>5, <4>1 DEF ConsiderIs
    <3>4. CASE ~ (\/ DisableChunkedMM /\ c < f.start /\ to < EndOf(f)
                  \/ Embeds[f.hash] > a.budget
                  \/ room > NumFreeableSlots(a.enc))
      <4>1. room <= NumFreeableSlots(a.enc)
        BY <1>1, <1>2, <3>4
      <4> DEFINE roomy == [a EXCEPT !.enc = Evicted(@, room)]
      <4>2. CASE f.start >= to
        <5>1. b = roomy
          BY SMTT(30), <2>1, <2>4, <3>1, <3>2, <3>4, <4>2
        <5> QED BY SMTT(30), <1>5, <4>1, <4>2, <5>1 DEF ConsiderIs
      <4>3. CASE ~ (f.start >= to)
        <5>1. b = [roomy EXCEPT !.embeds = room, !.budget = @ - Embeds[f.hash],
                                !.hashes = @ \cup {f.hash}, !.inputs = Append(@, m)]
          BY SMTT(30), <2>1, <2>4, <3>1, <3>2, <3>4, <4>3
        <5>2. b = [a EXCEPT !.enc = Evicted(@, room), !.embeds = room,
                          !.budget = @ - Embeds[f.hash],
                          !.hashes = @ \cup {f.hash}, !.inputs = Append(@, m)]
          BY <5>1 DEF TryOK, Trying
        <5> QED BY ZenonT(30), <1>5, <2>4, <4>1, <5>2 DEF ConsiderIs
      <4> QED BY <4>2, <4>3
    <3> QED BY <3>3, <3>4
  <2>5. \/ EndOf(f) <= c \/ f.hash \in a.hashes
        \/ EndOf(f) > c /\ f.hash \in a.enc.cached \ a.hashes
        \/ EndOf(f) > c /\ f.hash \notin a.enc.cached \cup a.hashes
    BY <1>1
  <2> QED BY <2>2, <2>3, <2>4, <2>5
<1> QED BY <1>1, <1>3, <1>4, <1>5

\* The inputs that begin before another one come before it.
LEMMA OrderLemma ==
  ASSUME req \in [Req -> Request], NEW r \in Req, InOrder(req[r].feats),
         NEW i \in 1 .. Len(req[r].feats), NEW m \in 1 .. Len(req[r].feats),
         req[r].feats[i].start < req[r].feats[m].start
  PROVE  i <= m - 1
<1> DEFINE x == req[r].feats[i]
           y == req[r].feats[m]
<1>1. x.start \in Nat /\ y.start \in Nat /\ EndOf(y) \in Nat /\ EndOf(y) > y.start
  BY FeatureLemma
<1>2. i \in Int /\ m \in Int /\ i # m
  BY FeatureLemma
<1>3. CASE m < i
  <2>1. EndOf(y) <= x.start
    BY <1>3 DEF InOrder
  <2> HIDE DEF x, y
  <2>2. x.start < y.start
    BY DEF x, y
  <2> QED BY <1>1, <2>1, <2>2
<1> QED BY <1>2, <1>3

\* Reworked twice.
LEMMA ReworkedLemma ==
  ASSUME NEW d \in EncoderCache, NEW e \in EncoderCache, NEW f \in EncoderCache,
         Reworked(d, e), Reworked(e, f)
  PROVE  Reworked(d, f)
<1>1. RefersTo(d, f)
  BY DEF Reworked, RefersTo
<1> QED BY <1>1 DEF Reworked

\* One turn of the loop.
LEMMA ConsiderLemma ==
  ASSUME req \in [Req -> Request], enc \in EncoderCache, NEW r \in Req, InOrder(req[r].feats),
         NEW c \in Nat, NEW n \in Nat,
         NEW a, NEW m \in 1 .. Len(req[r].feats), TryOK(a, r, c, n, m - 1)
  PROVE  TryOK(Consider(r, c, a, m), r, c, n, m)
<1>p. PICK f, room, b : /\ f = req[r].feats[m]
                        /\ room = a.embeds + Embeds[f.hash]
                        /\ b = Consider(r, c, a, m)
  OBVIOUS
<1>1. ConsiderIs(r, c, a, m, f, room, b)
  BY <1>p, ConsiderCases
<1>2. /\ f.hash \in Hash /\ f.start \in Nat /\ EndOf(f) \in Nat /\ EndOf(f) > f.start
      /\ Embeds[f.hash] \in Nat
  BY <1>p, FeatureLemma
<1>3. /\ a.n \in Nat /\ a.enc \in EncoderCache /\ a.budget \in Int /\ a.embeds \in Nat
      /\ a.hashes \in SUBSET Hash /\ a.inputs \in Seq(Nat) /\ a.stop \in BOOLEAN
  BY DEF TryOK, Trying
<1>4. Shift \in Nat /\ CacheSize \in Nat
  BY ConstantsAssumption
<1>5. a \in Trying /\ a.n <= n /\ TryCached(a, r) /\ TryCovers(a, r, c, m - 1)
  BY DEF TryOK
<1>6. Len(req[r].feats) \in Nat
  BY FeatureLemma
<1>7. \A i \in 1 .. Len(req[r].feats) :
        req[r].feats[i].start \in Nat /\ EndOf(req[r].feats[i]) \in Nat
  BY FeatureLemma
<1>8. \A i \in 1 .. Len(req[r].feats) : i <= m => i <= m - 1 \/ i = m
  BY <1>6
<1>9. \A i \in 1 .. Len(req[r].feats) :
        req[r].feats[i].start < f.start => i <= m - 1
  BY <1>p, OrderLemma
<1>10. CASE a.stop /\ b = a
  <2>1. TryCovers(b, r, c, m)
    BY <1>5, <1>10 DEF TryCovers
  <2> QED BY <1>p, <1>5, <1>10, <2>1 DEF TryOK
<1>11. CASE ~ a.stop /\ f.start >= (c + a.n) + Shift /\ b = [a EXCEPT !.stop = TRUE]
  <2>1. b \in Trying /\ b.n = a.n /\ b.enc = a.enc /\ b.hashes = a.hashes
    BY <1>5, <1>11 DEF Trying
  <2>2. TryCached(b, r)
    BY <1>5, <1>11 DEF Trying, TryCached
  <2>3. TryCovers(b, r, c, m)
    <3> SUFFICES ASSUME NEW i \in Touched(req[r].feats, c, a.n), a.n > 0
                 PROVE  r \in a.enc.refs[req[r].feats[i].hash] \/ req[r].feats[i].hash \in a.hashes
      BY <2>1 DEF TryCovers
    <3>1. i \in 1 .. Len(req[r].feats) /\ req[r].feats[i].start < c + a.n
      BY DEF Touched
    <3>2. PICK x \in Nat, y \in Nat, z \in Nat :
                 x = req[r].feats[i].start /\ y = f.start /\ z = a.n
      BY <1>2, <1>3, <1>7, <3>1
    <3>3. x < y
      <4>1. x < c + z /\ y >= (c + z) + Shift
        BY <1>11, <3>1, <3>2
      <4> QED BY <1>4, <4>1
    <3> QED BY <1>5, <1>9, <3>1, <3>2, <3>3 DEF TryCovers
  <2> QED BY <1>p, <1>5, <2>1, <2>2, <2>3 DEF TryOK
<1>12. CASE ~ a.stop /\ (EndOf(f) <= c \/ f.hash \in a.hashes) /\ b = a
  <2>1. TryCovers(b, r, c, m)
    <3> SUFFICES ASSUME NEW i \in Touched(req[r].feats, c, a.n), a.n > 0, i <= m
                 PROVE  r \in a.enc.refs[req[r].feats[i].hash] \/ req[r].feats[i].hash \in a.hashes
      BY <1>12 DEF TryCovers
    <3>1. i \in 1 .. Len(req[r].feats) /\ EndOf(req[r].feats[i]) > c
      BY DEF Touched
    <3>2. CASE i = m
      BY <1>p, <1>2, <1>12, <3>1, <3>2
    <3>3. CASE i <= m - 1
      BY <1>5, <3>3 DEF TryCovers
    <3> QED BY <1>8, <3>1, <3>2, <3>3
  <2> QED BY <1>p, <1>5, <1>12, <2>1 DEF TryOK
<1>13. CASE /\ ~ a.stop /\ f.hash \in a.enc.cached
            /\ b = [a EXCEPT !.enc = Referred(@, r, f.hash)]
  <2>1. PICK e : e = Referred(a.enc, r, f.hash)
    OBVIOUS
  <2>2. IsReferred(a.enc, e, r, f.hash)
    <3>1. EmbedsOf(a.enc.cached \cup {f.hash}) <= CacheSize
      <4>1. a.enc.cached \cup {f.hash} = a.enc.cached
        BY <1>13
      <4> QED BY <1>5, <4>1 DEF TryCached, CacheOK
    <3> QED BY <1>2, <1>3, <1>5, <2>1, <3>1, ReferredLemma DEF TryCached
  <2>3. e \in EncoderCache /\ CacheOK(e) /\ e.cached = a.enc.cached
    BY <1>13, <2>2 DEF IsReferred
  <2>4. b \in Trying /\ b.n = a.n /\ b.enc = e /\ b.hashes = a.hashes /\ b.inputs = a.inputs
        /\ b.embeds = a.embeds /\ b.stop = a.stop
    BY <1>5, <1>13, <2>1, <2>3 DEF Trying
  <2>5. Reworked(a.enc, e)
    BY <1>13, <2>2 DEF IsReferred, Reworked, RefersTo
  <2>6. Reworked(enc, e)
    BY <1>3, <1>5, <2>3, <2>5, ReworkedLemma DEF TryCached
  <2>7. TryCached(b, r)
    BY <1>5, <2>3, <2>4, <2>6 DEF TryCached
  <2>8. TryCovers(b, r, c, m)
    <3> SUFFICES ASSUME NEW i \in Touched(req[r].feats, c, a.n), a.n > 0, i <= m
                 PROVE  r \in e.refs[req[r].feats[i].hash] \/ req[r].feats[i].hash \in a.hashes
      BY <1>13, <2>4 DEF TryCovers
    <3>1. i \in 1 .. Len(req[r].feats)
      BY DEF Touched
    <3>2. CASE i = m
      BY <1>p, <1>2, <2>2, <3>2 DEF IsReferred
    <3>3. CASE i <= m - 1
      <4>1. r \in a.enc.refs[req[r].feats[i].hash] \/ req[r].feats[i].hash \in a.hashes
        BY <1>5, <3>3 DEF TryCovers
      <4>2. req[r].feats[i].hash \in Hash
        BY <3>1, FeatureLemma
      <4> QED BY <2>5, <4>1, <4>2 DEF Reworked, RefersTo
    <3> QED BY <1>8, <3>1, <3>2, <3>3
  <2> QED BY <1>p, <1>5, <2>4, <2>7, <2>8 DEF TryOK
<1>14. CASE /\ ~ a.stop /\ f.start < (c + a.n) + Shift
            /\ b = [a EXCEPT !.n = Positive(f.start - (c + Shift)), !.stop = TRUE]
  <2> DEFINE k == Positive(f.start - (c + Shift))
  <2>1. k \in Nat /\ k <= a.n
    <3>1. PICK y \in Nat, z \in Nat : y = f.start /\ z = a.n
      BY <1>2, <1>3
    <3>2. y < (c + z) + Shift /\ k = Positive(y - (c + Shift))
      BY <1>14, <3>1
    <3> HIDE DEF k
    <3>3. PICK w \in Int : w = y - (c + Shift)
      BY <1>4, <3>1
    <3>4. k = Positive(w) /\ w < z
      BY <1>4, <3>1, <3>2, <3>3
    <3> QED BY <3>1, <3>3, <3>4 DEF Positive
  <2>2. k > 0 => c + k <= f.start
    BY <1>2, <1>4 DEF Positive
  <2>3. /\ b \in Trying /\ b.n = k /\ b.enc = a.enc /\ b.hashes = a.hashes
        /\ b.inputs = a.inputs /\ b.embeds = a.embeds
    <3> HIDE DEF k
    <3>1. b = [a EXCEPT !.n = k, !.stop = TRUE]
      BY <1>14 DEF k
    <3> QED BY <1>5, <2>1, <3>1 DEF Trying
  <2> HIDE DEF k
  <2>4. TryCached(b, r)
    BY <1>5, <2>3 DEF TryCached
  <2>5. TryCovers(b, r, c, m)
    <3> SUFFICES ASSUME NEW i \in Touched(req[r].feats, c, k), k > 0
                 PROVE  r \in a.enc.refs[req[r].feats[i].hash] \/ req[r].feats[i].hash \in a.hashes
      BY <2>3 DEF TryCovers
    <3>1. /\ i \in 1 .. Len(req[r].feats) /\ req[r].feats[i].start < c + k
          /\ EndOf(req[r].feats[i]) > c
      BY DEF Touched
    <3>2. req[r].feats[i].start < f.start /\ req[r].feats[i].start < c + a.n /\ a.n > 0
      <4>1. PICK x \in Nat, y \in Nat, z \in Nat :
                   x = req[r].feats[i].start /\ y = f.start /\ z = a.n
        BY <1>2, <1>3, <1>7, <3>1
      <4>2. x < c + k /\ k <= z /\ c + k <= y
        BY <2>1, <2>2, <3>1, <4>1
      <4>3. x < y /\ x < c + z /\ z > 0
        BY <2>1, <4>2
      <4> QED BY <4>1, <4>3
    <3>3. i \in Touched(req[r].feats, c, a.n)
      BY <3>1, <3>2 DEF Touched
    <3> QED BY <1>5, <1>9, <3>1, <3>2, <3>3 DEF TryCovers
  <2>6. b.n <= n
    BY <1>3, <1>5, <2>1, <2>3
  <2> QED BY <1>p, <2>3, <2>4, <2>5, <2>6 DEF TryOK
<1>e. ASSUME ~ a.stop, room <= NumFreeableSlots(a.enc)
      PROVE  LET e == Evicted(a.enc, room)
             IN  /\ e \in EncoderCache /\ CacheOK(e) /\ Reworked(enc, e) /\ e.refs = a.enc.refs
                 /\ e.cached \subseteq a.enc.cached
                 /\ EmbedsOf(e.cached) + room <= CacheSize
                 /\ EmbedsOf(e.cached) \in Nat
  <2>1. PICK e : e = Evicted(a.enc, room)
    OBVIOUS
  <2>2. room \in Nat
    BY SMTT(30), <1>p, <1>2, <1>3
  <2>3. /\ e \in EncoderCache /\ CacheOK(e)
        /\ e.cached \subseteq a.enc.cached /\ e.refs = a.enc.refs
        /\ e.freed = a.enc.freed \cup (a.enc.cached \ e.cached)
        /\ EmbedsOf(e.cached) + room <= CacheSize
    BY <1>3, <1>5, <1>e, <2>1, <2>2, EvictedLemma DEF TryCached
  <2>4. Reworked(a.enc, e)
    BY <2>3 DEF Reworked, RefersTo
  <2>5. Reworked(enc, e)
    BY <1>3, <1>5, <2>3, <2>4, ReworkedLemma DEF TryCached
  <2>6. EmbedsOf(e.cached) \in Nat
    BY <2>3, EmbedsLemma DEF EncoderCache, CacheOK
  <2> QED BY <2>1, <2>3, <2>5, <2>6
<1>15. CASE /\ ~ a.stop /\ f.start >= c + a.n
            /\ room <= NumFreeableSlots(a.enc)
            /\ b = [a EXCEPT !.enc = Evicted(@, room)]
  <2>1. PICK e : e = Evicted(a.enc, room)
    OBVIOUS
  <2>2. /\ e \in EncoderCache /\ CacheOK(e) /\ Reworked(enc, e) /\ e.refs = a.enc.refs
        /\ e.cached \subseteq a.enc.cached
        /\ EmbedsOf(e.cached) + room <= CacheSize
        /\ EmbedsOf(e.cached) \in Nat
    BY <1>e, <1>15, <2>1
  <2>3. b \in Trying /\ b.n = a.n /\ b.enc = e /\ b.hashes = a.hashes /\ b.inputs = a.inputs
        /\ b.embeds = a.embeds /\ b.stop = a.stop
    BY <1>5, <1>15, <2>1, <2>2 DEF Trying
  <2>4. EmbedsOf(e.cached) + a.embeds <= CacheSize
    <3>1. PICK x \in Nat, y \in Nat, z \in Nat :
                 x = EmbedsOf(e.cached) /\ y = a.embeds /\ z = Embeds[f.hash]
      BY <1>2, <1>3, <2>2
    <3>2. x + (y + z) <= CacheSize
      BY <1>p, <2>2, <3>1
    <3> QED BY SMTT(30), <1>4, <3>1, <3>2
  <2>5. TryCached(b, r)
    BY <1>5, <2>2, <2>3, <2>4 DEF TryCached
  <2>6. TryCovers(b, r, c, m)
    <3> SUFFICES ASSUME NEW i \in Touched(req[r].feats, c, a.n), a.n > 0, i <= m
                 PROVE  r \in e.refs[req[r].feats[i].hash] \/ req[r].feats[i].hash \in a.hashes
      BY <1>15, <2>3 DEF TryCovers
    <3>1. i \in 1 .. Len(req[r].feats) /\ req[r].feats[i].start < c + a.n
      BY DEF Touched
    <3>2. i # m
      BY <1>p, <1>2, <1>3, <1>15, <3>1
    <3>3. r \in a.enc.refs[req[r].feats[i].hash] \/ req[r].feats[i].hash \in a.hashes
      BY <1>5, <1>8, <3>1, <3>2 DEF TryCovers
    <3> QED BY <2>2, <3>3
  <2> QED BY <1>p, <1>5, <2>3, <2>5, <2>6 DEF TryOK
<1>16. CASE /\ ~ a.stop /\ f.hash \notin a.enc.cached \cup a.hashes
            /\ room <= NumFreeableSlots(a.enc)
            /\ b = [a EXCEPT !.enc = Evicted(@, room), !.embeds = room,
                             !.budget = @ - Embeds[f.hash],
                             !.hashes = @ \cup {f.hash}, !.inputs = Append(@, m)]
  <2>1. PICK e : e = Evicted(a.enc, room)
    OBVIOUS
  <2>2. /\ e \in EncoderCache /\ CacheOK(e) /\ Reworked(enc, e) /\ e.refs = a.enc.refs
        /\ e.cached \subseteq a.enc.cached
        /\ EmbedsOf(e.cached) + room <= CacheSize
        /\ EmbedsOf(e.cached) \in Nat
    BY <1>e, <1>16, <2>1
  <2>3. room \in Nat /\ a.budget - Embeds[f.hash] \in Int /\ m \in Nat
    <3>1. PICK x \in Nat, y \in Nat, z \in Int :
                 x = Embeds[f.hash] /\ y = a.embeds /\ z = a.budget
      BY <1>2, <1>3
    <3>2. room = y + x /\ a.budget - Embeds[f.hash] = z - x
      BY <1>p, <3>1
    <3>3. y + x \in Nat /\ z - x \in Int
      BY <3>1
    <3>4. m \in Nat
      BY <1>6
    <3> QED BY <3>2, <3>3, <3>4
  <2>4. Append(a.inputs, m) \in Seq(Nat) /\ Range(Append(a.inputs, m)) = Range(a.inputs) \cup {m}
    BY <1>3, <2>3, AppendRange
  <2>5. PICK ins, bud : ins = Append(a.inputs, m) /\ bud = a.budget - Embeds[f.hash]
    OBVIOUS
  <2>6. b \in Trying /\ b.n = a.n /\ b.enc = e /\ b.hashes = a.hashes \cup {f.hash}
        /\ b.inputs = ins /\ b.embeds = room /\ b.stop = a.stop
    <3>1. b = [a EXCEPT !.enc = e, !.embeds = room, !.budget = bud,
                        !.hashes = @ \cup {f.hash}, !.inputs = ins]
      BY <1>5, <1>16, <2>1, <2>5 DEF Trying
    <3>2. a.hashes \cup {f.hash} \in SUBSET Hash /\ ins \in Seq(Nat) /\ bud \in Int
      BY <1>2, <1>3, <2>3, <2>4, <2>5
    <3> QED BY <1>5, <2>2, <2>3, <3>1, <3>2 DEF Trying
  <2>7. TryCached(b, r)
    <3>1. \A i \in Range(ins) : i \in 1 .. Len(req[r].feats)
      BY <1>5, <2>4, <2>5 DEF TryCached
    <3>2. b.hashes = HashesAt(req[r].feats, ins)
      <4>1. a.hashes = HashesAt(req[r].feats, a.inputs)
        BY <1>5 DEF TryCached
      <4> QED BY <1>p, <2>4, <2>5, <2>6, <4>1 DEF HashesAt
    <3>3. IsFiniteSet(b.hashes)
      <4>1. IsFiniteSet(a.hashes)
        BY <1>5 DEF TryCached
      <4>2. IsFiniteSet(a.hashes \cup {f.hash})
        BY <4>1, FS_AddElement
      <4> QED BY <2>6, <4>2
    <3>4. b.hashes \cap e.cached = {}
      BY <1>5, <1>16, <2>2, <2>6 DEF TryCached
    <3>5. room = EmbedsOf(b.hashes)
      <4>1. b.hashes \in SUBSET Hash /\ f.hash \in b.hashes /\ b.hashes \ {f.hash} = a.hashes
        BY <1>2, <1>3, <1>16, <2>6
      <4>2. EmbedsOf(b.hashes) = Embeds[f.hash] + EmbedsOf(b.hashes \ {f.hash})
        BY <3>3, <4>1, EmbedsLemma
      <4>3. a.embeds = EmbedsOf(a.hashes)
        BY <1>5 DEF TryCached
      <4>4. PICK y \in Nat, z \in Nat : y = a.embeds /\ z = Embeds[f.hash]
        BY <1>2, <1>3
      <4>5. room = y + z /\ EmbedsOf(b.hashes) = z + y
        BY <1>p, <4>1, <4>2, <4>3, <4>4
      <4> QED BY <4>5
    <3> QED BY <2>2, <2>6, <3>1, <3>2, <3>3, <3>4, <3>5 DEF TryCached
  <2>8. TryCovers(b, r, c, m)
    <3> SUFFICES ASSUME NEW i \in Touched(req[r].feats, c, a.n), a.n > 0, i <= m
                 PROVE  r \in e.refs[req[r].feats[i].hash] \/ req[r].feats[i].hash \in a.hashes \cup {f.hash}
      BY <1>16, <2>6 DEF TryCovers
    <3>1. i \in 1 .. Len(req[r].feats)
      BY DEF Touched
    <3>2. CASE i = m
      BY <1>p, <3>2
    <3>3. CASE i <= m - 1
      <4>1. r \in a.enc.refs[req[r].feats[i].hash] \/ req[r].feats[i].hash \in a.hashes
        BY <1>5, <3>3 DEF TryCovers
      <4> QED BY <2>2, <4>1
    <3> QED BY <1>8, <3>1, <3>2, <3>3
  <2> QED BY <1>p, <1>5, <2>6, <2>7, <2>8 DEF TryOK
<1> QED BY <1>1, <1>10, <1>11, <1>12, <1>13, <1>14, <1>15, <1>16 DEF ConsiderIs

\* What the loop begins with.
TryFirst(n) ==
  [n |-> n, enc |-> enc, budget |-> plan.encBudget, embeds |-> 0,
   hashes |-> {}, inputs |-> <<>>, stop |-> n = 0]

\* The inputs of r are considered one after the other.
TryRun(a, r, c, n, N) ==
  /\ TryScheduleEncoderInputs(r, c, n) = a[N]
  /\ a[0] = TryFirst(n)
  /\ \A k \in 1 .. N : a[k] = Consider(r, c, a[k - 1], k)

\* TryScheduleEncoderInputs, input by input.
LEMMA TrySteps ==
  ASSUME NEW r, NEW c, NEW n, NEW e, e = TryFirst(n), NEW N \in Nat, N = Len(req[r].feats)
  PROVE  \E a : TryRun(a, r, c, n, N)
<1> DEFINE Is(g, m) ==
             g = [k \in 0 .. m |->
                    IF k = 0 THEN e ELSE Consider(r, c, g[k - 1], k)]
           T == {m \in Nat : ~ \E g : Is(g, m)}
<1>1. T = {}
  <2> SUFFICES ASSUME T # {} PROVE FALSE
    OBVIOUS
  <2>1. PICK m \in T : \A k \in T : m <= k
    <3>1. T \in SUBSET Nat
      OBVIOUS
    <3> HIDE DEF T
    <3> QED BY <3>1, LeastNumber
  <2>2. CASE m = 0
    <3>1. Is([i \in 0 .. 0 |-> e], 0)
      OBVIOUS
    <3> QED BY <2>1, <2>2, <3>1
  <2>3. CASE m # 0
    <3>1. m \in Nat /\ m - 1 \in Nat /\ m - 1 \notin T
      <4>1. m \in Nat
        BY <2>1
      <4>2. m - 1 \in Nat /\ ~ (m <= m - 1)
        BY <2>3, <4>1
      <4> HIDE DEF T
      <4> QED BY <2>1, <4>1, <4>2
    <3>2. PICK g : Is(g, m - 1)
      BY <3>1
    <3> DEFINE last == Consider(r, c, g[m - 1], m)
               w == [i \in 0 .. m |-> IF i = m THEN last ELSE g[i]]
    <3>3. \A i \in 0 .. m - 1 :
             g[i] = IF i = 0 THEN e ELSE Consider(r, c, g[i - 1], i)
      <4> HIDE DEF w, last
      <4> QED BY <3>2
    <3>4. \A i \in 0 .. m : w[i] = IF i = m THEN last ELSE g[i]
      BY <3>1
    <3>5. \A i \in 1 .. m : w[i - 1] = g[i - 1]
      BY <3>1, <3>4
    <3>6. \A i \in 0 .. m :
             w[i] = IF i = 0 THEN e ELSE Consider(r, c, w[i - 1], i)
      <4> TAKE i \in 0 .. m
      <4>1. w[i] = IF i = m THEN last ELSE g[i]
        BY <3>4
      <4>2. CASE i = 0
        BY <2>3, <3>1, <3>3, <4>1, <4>2
      <4>3. CASE i # 0
        <5>1. w[i - 1] = g[i - 1]
          BY <3>5, <4>3
        <5>2. CASE i = m
          BY <4>1, <4>3, <5>1, <5>2
        <5>3. CASE i # m
          BY <3>1, <3>3, <4>1, <4>3, <5>1, <5>3
        <5> QED BY <5>2, <5>3
      <4> QED BY <4>2, <4>3
    <3>7. w = [i \in 0 .. m |-> w[i]]
      OBVIOUS
    <3> HIDE DEF w
    <3>8. Is(w, m)
      BY <3>6, <3>7
    <3> QED BY <2>1, <3>8
  <2> QED BY <2>2, <2>3
<1> DEFINE a == CHOOSE g : Is(g, N)
<1>2. TryScheduleEncoderInputs(r, c, n) = a[N]
  BY DEF TryScheduleEncoderInputs, TryFirst
<1>3. Is(a, N)
  <2> HIDE DEF Is
  <2>1. \E g : Is(g, N)
    BY <1>1
  <2> QED BY <2>1
<1> HIDE DEF a
<1>4. \A i \in 0 .. N :
         a[i] = IF i = 0 THEN e ELSE Consider(r, c, a[i - 1], i)
  BY <1>3
<1>5. a[0] = e /\ \A k \in 1 .. N : a[k] = Consider(r, c, a[k - 1], k)
  BY <1>4
<1>6. TryRun(a, r, c, n, N)
  BY <1>2, <1>5 DEF TryRun
<1> QED BY <1>6

\* What the loop has found out at its end.
LEMMA TryLemma ==
  ASSUME req \in [Req -> Request], enc \in EncoderCache, CacheOK(enc), plan.encBudget \in Int,
         NEW r \in Req, InOrder(req[r].feats), NEW c \in Nat, NEW n \in Nat
  PROVE  TryOK(TryScheduleEncoderInputs(r, c, n), r, c, n, Len(req[r].feats))
<1>1. PICK N \in Nat : N = Len(req[r].feats)
  BY FeatureLemma
<1>2. PICK e : e = TryFirst(n)
  OBVIOUS
<1>3. PICK a : TryRun(a, r, c, n, N)
  BY <1>1, <1>2, TrySteps
<1>4. /\ TryScheduleEncoderInputs(r, c, n) = a[N]
      /\ a[0] = e
      /\ \A k \in 1 .. N : a[k] = Consider(r, c, a[k - 1], k)
  BY <1>2, <1>3 DEF TryRun
<1>5. TryOK(e, r, c, n, 0)
  <2>1. /\ e \in Trying /\ e.n = n /\ e.enc = enc /\ e.embeds = 0 /\ e.hashes = {}
        /\ e.inputs = <<>> /\ (e.stop <=> n = 0)
    <3>1. <<>> \in Seq(Nat)
      OBVIOUS
    <3> QED BY <1>2, <3>1 DEF TryFirst, Trying
  <2>2. Range(<<>>) = {}
    BY DEF Range
  <2>3. EmbedsOf({}) = 0
    BY EmbedsLemma, FS_EmptySet
  <2>4. Reworked(enc, enc)
    BY DEF Reworked, RefersTo
  <2>5. EmbedsOf(enc.cached) + 0 <= CacheSize
    <3>1. EmbedsOf(enc.cached) \in Nat /\ EmbedsOf(enc.cached) <= CacheSize
      BY EmbedsLemma DEF EncoderCache, CacheOK
    <3> QED BY <3>1
  <2>6. TryCached(e, r)
    <3>1. HashesAt(req[r].feats, <<>>) = {}
      BY <2>2 DEF HashesAt
    <3> QED BY <2>1, <2>2, <2>3, <2>4, <2>5, <3>1, FS_EmptySet DEF TryCached
  <2>7. TryCovers(e, r, c, 0)
    BY <2>1 DEF TryCovers, Touched
  <2> QED BY <2>1, <2>6, <2>7 DEF TryOK
<1> DEFINE T == {m \in 0 .. N : ~ TryOK(a[m], r, c, n, m)}
<1>6. \A m \in 1 .. N : TryOK(a[m - 1], r, c, n, m - 1) => TryOK(a[m], r, c, n, m)
  BY <1>1, <1>4, ConsiderLemma
<1>7. T = {}
  <2> SUFFICES ASSUME T # {} PROVE FALSE
    OBVIOUS
  <2>1. PICK m \in T : \A k \in T : m <= k
    <3>1. T \in SUBSET Nat
      OBVIOUS
    <3> HIDE DEF T
    <3> QED BY <3>1, LeastNumber
  <2>2. m \in 0 .. N /\ ~ TryOK(a[m], r, c, n, m)
    BY <2>1
  <2>3. m # 0
    BY <1>4, <1>5, <2>2
  <2>4. m - 1 \in 0 .. N /\ m \in 1 .. N /\ ~ (m <= m - 1)
    BY <2>2, <2>3
  <2>5. TryOK(a[m - 1], r, c, n, m - 1)
    BY <2>1, <2>4
  <2> QED BY <1>6, <2>2, <2>4, <2>5
<1>8. N \in 0 .. N
  OBVIOUS
<1> QED BY <1>1, <1>4, <1>7, <1>8

-----------------------------------------------------------------------------
(* What the steps keep.                                                    *)

\* The fields of a request.
LEMMA FieldsLemma ==
  ASSUME req \in [Req -> Request], NEW r \in Req
  PROVE  /\ req[r] \in Request /\ req[r].status \in Statuses
         /\ req[r].toks \in Seq(Token) /\ NumTokens(r) \in Nat /\ NumTokens(r) = Len(req[r].toks)
         /\ req[r].outs \in Nat /\ req[r].computed \in Nat /\ req[r].spec \in Nat
         /\ req[r].feats \in Seq(Feature) /\ req[r].queue \in Seq(Nat) /\ req[r].alloc \in Int
BY DEF Request, NumTokens

\* The requests that run are there, and running.
LEMMA RunningLemma ==
  ASSUME TypeOK, Queues, NEW r \in Range(running)
  PROVE  r \in Req /\ r \in Live /\ req[r].status = "RUNNING"
<1>1. r \in Req
  BY ListLemma DEF TypeOK
<1> QED BY <1>1 DEF Queues, Live

\* Without a step in flight, a request has tokens beyond those computed.
LEMMA BetweenSteps ==
  ASSUME TypeOK, Requests, step = NoStep, NEW r \in Live
  PROVE  /\ Pending(r) = 0 /\ Behind(r) = req[r].computed
         /\ req[r].computed \in 0 .. NumTokens(r) - 1
<1>1. Range(<<>>) = {}
  BY DEF Range
<1>2. Pending(r) = 0
  BY <1>1 DEF Pending, NoStep
<1>3. r \in Req
  BY DEF Live
<1>4. req[r].computed \in Nat
  BY <1>3, FieldsLemma DEF TypeOK
<1>5. Behind(r) = req[r].computed
  BY <1>2, <1>4 DEF Behind
<1> QED BY <1>2, <1>5 DEF Requests, RequestOK, Numbers

\* A request that a step leaves alone.
LEMMA RequestKept ==
  ASSUME NEW r \in Req, RequestOK(r),
         req'[r] = req[r], kv'[r] = kv[r], wfeats'[r] = wfeats[r],
         r \in Range(plan'.order) =>
           /\ r \in Range(plan.order)
           /\ plan'.n[r] = plan.n[r] /\ plan'.drafts[r] = plan.drafts[r],
         r \in Range(step'.order) <=> r \in Range(step.order),
         step'.n[r] = step.n[r], step'.drafts[r] = step.drafts[r],
         pc' = "update" => pc = "update",
         InputsKnown(r)'
  PROVE  RequestOK(r)'
<1>1. /\ Pending(r)' = Pending(r) /\ Behind(r)' = Behind(r) /\ NumTokens(r)' = NumTokens(r)
  BY DEF Pending, Behind, NumTokens
<1>2. Numbers(r)'
  <2>1. Numbers(r)
    BY DEF RequestOK
  <2> QED BY <1>1, <2>1 DEF Numbers
<1>3. KvOK(r)'
  <2>1. KvOK(r)
    BY DEF RequestOK
  <2> QED BY <1>1, <2>1 DEF KvOK
<1> QED BY <1>2, <1>3 DEF RequestOK, InputsPlaced

\* What the worker knows of a request stays known.
LEMMA KnownKept ==
  ASSUME NEW r \in Req, InputsKnown(r), req'[r] = req[r], wfeats'[r] = wfeats[r],
         plan.new \subseteq plan'.new, step'.new = step.new, pc = "worker" => pc' = "worker"
  PROVE  InputsKnown(r)'
BY DEF InputsKnown

\* Between steps nothing is planned, needed or in flight.
LEMMA IdleLemma ==
  ASSUME Plans, Steps, pc = "idle"
  PROVE  plan = NoPlan /\ step = NoStep /\ need = NoNeed
BY DEF Plans, Steps, InSchedule, InRunningLoop

\* The empty plan and the empty step.
LEMMA EmptyLemma ==
  /\ Range(<<>>) = {} /\ IsInjective(<<>>)
  /\ NoPlan \in Planning /\ NoStep \in Stepping /\ NoNeed \in Needing
  /\ NoPlan.order = <<>> /\ NoPlan.new = {} /\ NoPlan.stepSkipped = <<>>
  /\ NoStep.order = <<>> /\ NoStep.new = {}
  /\ \A r \in Req : /\ NoPlan.n[r] = 0 /\ NoPlan.inputs[r] = <<>> /\ NoPlan.drafts[r] = 0
                    /\ NoStep.n[r] = 0 /\ NoStep.inputs[r] = <<>> /\ NoStep.drafts[r] = 0
<1>1. Range(<<>>) = {} /\ IsInjective(<<>>)
  BY DEF Range, IsInjective
<1>2. \A S : <<>> \in Seq(S)
  OBVIOUS
<1>3. /\ [r \in Req |-> 0] \in [Req -> Nat]
      /\ [r \in Req |-> <<>>] \in [Req -> Seq(Nat)]
  BY <1>2
<1>4. NoPlan \in Planning /\ NoStep \in Stepping /\ NoNeed \in Needing
  BY <1>2, <1>3 DEF NoPlan, NoStep, NoNeed, Planning, Stepping, Needing
<1> QED BY <1>1, <1>4 DEF NoPlan, NoStep

\* Nothing is encoded for an empty plan.
LEMMA NoHashes ==
  ASSUME NEW p, \A r \in Req : p[r] = <<>>
  PROVE  HashesOf(p) = {}
<1>1. \A r \in Req : HashesAt(req[r].feats, p[r]) = {}
  BY EmptyLemma DEF HashesAt
<1> QED BY <1>1 DEF HashesOf

-----------------------------------------------------------------------------
(* The steps of the scheduler that change no request.                      *)

\* schedule() begins with an empty plan.
LEMMA BeginStep ==
  ASSUME IInv, BeginSchedule
  PROVE  IInv'
<1>1. /\ plan = NoPlan /\ step = NoStep /\ need = NoNeed
      /\ pc = "idle" /\ pc' = "running"
      /\ plan' = [NoPlan EXCEPT !.budget = TokenBudget, !.encBudget = EncoderBudget]
      /\ UNCHANGED <<sent, req, queueVars, enc, need, workerVars>>
  BY IdleLemma DEF IInv, BeginSchedule
<1>2. /\ plan'.order = <<>> /\ plan'.new = {} /\ plan'.stepSkipped = <<>>
      /\ plan'.n = plan.n /\ plan'.drafts = plan.drafts /\ plan'.inputs = plan.inputs
      /\ plan.order = <<>> /\ plan.new = {} /\ plan.stepSkipped = <<>>
  BY <1>1 DEF NoPlan
<1>3. TypeOK'
  <2>1. plan' \in Planning
    <3>1. TokenBudget \in Int /\ EncoderBudget \in Int
      BY ConstantsAssumption
    <3> QED BY <1>1, <3>1, EmptyLemma DEF Planning
  <2> QED BY <1>1, <2>1 DEF IInv, TypeOK, queueVars, workerVars
<1>4. Queues'
  BY <1>1, <1>2 DEF IInv, Queues, queueVars, workerVars
<1>5. Plans'
  BY <1>1, <1>2, EmptyLemma DEF IInv, Plans, Consistent, InSchedule, queueVars
<1>6. Steps'
  BY <1>1 DEF IInv, Steps, InWorker, Consistent, queueVars, workerVars
<1>7. Requests'
  <2>1. Live' = Live
    BY <1>1 DEF Live
  <2>2. ASSUME NEW r \in Live PROVE RequestOK(r)'
    <3>1. r \in Req /\ RequestOK(r)
      BY DEF IInv, Requests, Live
    <3>2. InputsKnown(r)'
      BY <1>1, <1>2, <3>1, KnownKept DEF RequestOK, workerVars
    <3> QED BY <1>1, <1>2, <3>1, <3>2, RequestKept, EmptyLemma DEF workerVars
  <2> QED BY <1>1, <2>1, <2>2 DEF IInv, Requests
<1>8. CacheOK(enc)'
  BY <1>1 DEF IInv, CacheOK
<1>9. GpuFollows'
  <2>1. HashesOf(plan.inputs)' = HashesOf(plan.inputs) /\ enc.freed = {}
    BY <1>1, <1>2 DEF IInv, GpuFollows, InSchedule, HashesOf
  <2> QED BY <1>1, <2>1 DEF IInv, GpuFollows, workerVars, InSchedule
<1>10. InputsHeld'
  BY <1>1, <1>2, EmptyLemma DEF InputsHeld, InWorker
<1>11. NeedHeld'
  BY <1>1 DEF NeedHeld
<1> QED BY <1>3, <1>4, <1>5, <1>6, <1>7, <1>8, <1>9, <1>10, <1>11 DEF IInv

\* The RUNNING loop ends.
LEMMA EndRunningStep ==
  ASSUME IInv, EndRunning
  PROVE  IInv'
<1>1. /\ pc = "running" /\ pc' \in {"commit", "waiting"} /\ need = NoNeed /\ step = NoStep
      /\ UNCHANGED <<sent, req, queueVars, enc, plan, need, workerVars>>
  BY DEF IInv, EndRunning, Plans, Steps
<1>2. TypeOK'
  BY <1>1 DEF IInv, TypeOK, queueVars, workerVars
<1>3. Queues'
  BY <1>1 DEF IInv, Queues, queueVars, workerVars
<1>4. Plans'
  BY <1>1 DEF IInv, Plans, Consistent, InSchedule, queueVars
<1>5. Steps'
  BY <1>1 DEF IInv, Steps, InWorker, Consistent, queueVars, workerVars
<1>6. Requests'
  <2>1. Live' = Live
    BY <1>1 DEF Live
  <2>2. ASSUME NEW r \in Live PROVE RequestOK(r)'
    <3>1. r \in Req /\ RequestOK(r)
      BY DEF IInv, Requests, Live
    <3>2. InputsKnown(r)'
      BY <1>1, <3>1, KnownKept DEF RequestOK, workerVars
    <3> QED BY <1>1, <3>1, <3>2, RequestKept DEF workerVars
  <2> QED BY <1>1, <2>1, <2>2 DEF IInv, Requests
<1>7. CacheOK(enc)'
  BY <1>1 DEF IInv, CacheOK
<1>8. GpuFollows'
  <2>1. HashesOf(plan.inputs)' = HashesOf(plan.inputs)
    BY <1>1 DEF HashesOf
  <2> QED BY <1>1, <2>1 DEF IInv, GpuFollows, workerVars, InSchedule
<1>9. InputsHeld'
  BY <1>1 DEF IInv, InputsHeld, InWorker, Held
<1>10. NeedHeld'
  BY <1>1 DEF NeedHeld
<1> QED BY <1>2, <1>3, <1>4, <1>5, <1>6, <1>7, <1>8, <1>9, <1>10 DEF IInv

\* The head of the queues, taken out of its queue.
LEMMA PoppedLemma ==
  ASSUME TypeOK, Queues, Looking, Popped
  PROVE  /\ HeadRequest \in Req
         /\ HeadRequest \in Range(skipped) \cup Range(waiting)
         /\ skipped' \in Seq(Req) /\ waiting' \in Seq(Req)
         /\ IsInjective(skipped') /\ IsInjective(waiting')
         /\ Range(skipped') = Range(skipped) \ {HeadRequest}
         /\ Range(waiting') = Range(waiting) \ {HeadRequest}
<1>1. /\ skipped \in Seq(Req) /\ waiting \in Seq(Req)
      /\ IsInjective(skipped) /\ IsInjective(waiting) /\ Range(skipped) \cap Range(waiting) = {}
  BY DEF TypeOK, Queues
<1>2. ASSUME NEW s \in Seq(Req), s # <<>>, IsInjective(s)
      PROVE  /\ Head(s) \in Range(s) /\ Tail(s) \in Seq(Req) /\ IsInjective(Tail(s))
             /\ Range(Tail(s)) = Range(s) \ {Head(s)}
  <2>1. /\ Len(s) \in Nat \ {0} /\ Tail(s) \in Seq(Req) /\ Len(Tail(s)) = Len(s) - 1
        /\ Head(s) = s[1] /\ \A i \in 1 .. Len(s) - 1 : Tail(s)[i] = s[i + 1]
    BY <1>2
  <2> DEFINE t == Tail(s)
  <2> HIDE DEF t
  <2>2. t \in Seq(Req) /\ Len(t) = Len(s) - 1 /\ \A i \in 1 .. Len(s) - 1 : t[i] = s[i + 1]
    BY <2>1 DEF t
  <2>3. \A i, j \in 1 .. Len(s) : s[i] = s[j] => i = j
    BY <1>2, ListLemma
  <2>4. \A i, j \in 1 .. Len(t) : t[i] = t[j] => i = j
    <3> SUFFICES ASSUME NEW i \in 1 .. Len(t), NEW j \in 1 .. Len(t), t[i] = t[j] PROVE i = j
      OBVIOUS
    <3>1. i + 1 \in 1 .. Len(s) /\ j + 1 \in 1 .. Len(s) /\ s[i + 1] = s[j + 1]
      BY <2>1, <2>2
    <3>2. i + 1 = j + 1
      BY <2>3, <3>1
    <3> QED BY <3>2
  <2>5. IsInjective(t)
    BY <2>2, <2>4, ListLemma
  <2>6. Head(s) \in Range(s)
    BY <2>1, ListLemma
  <2>7. ASSUME NEW x \in Range(t) PROVE x \in Range(s) \ {Head(s)}
    <3>1. PICK i \in 1 .. Len(t) : t[i] = x
      BY <2>2, ListLemma
    <3>2. i + 1 \in 1 .. Len(s) /\ s[i + 1] = x /\ 1 \in 1 .. Len(s) /\ i + 1 # 1
      BY <2>1, <2>2, <3>1
    <3>3. x # s[1]
      BY <2>3, <3>2
    <3> QED BY <2>1, <3>2, <3>3, ListLemma
  <2>8. ASSUME NEW x \in Range(s) \ {Head(s)} PROVE x \in Range(t)
    <3>1. PICK i \in 1 .. Len(s) : s[i] = x
      BY ListLemma
    <3>2. i # 1
      BY <2>1, <3>1
    <3>3. i - 1 \in 1 .. Len(t) /\ t[i - 1] = x
      BY <2>1, <2>2, <3>1, <3>2
    <3> QED BY <2>2, <3>3, ListLemma
  <2> QED BY <2>1, <2>5, <2>6, <2>7, <2>8 DEF t
<1>3. CASE skipped # <<>>
  <2>1. HeadRequest = Head(skipped)
    <3> DEFINE w == skipped \o waiting
    <3>1. /\ w \in Seq(Req) /\ Len(w) = Len(skipped) + Len(waiting)
          /\ Len(skipped) \in Nat \ {0} /\ Len(waiting) \in Nat
          /\ \A i \in 1 .. Len(skipped) : w[i] = skipped[i]
      BY <1>1, <1>3
    <3> HIDE DEF w
    <3>2. w[1] = skipped[1] /\ w # <<>>
      BY <3>1
    <3>3. Head(w) = w[1] /\ Head(skipped) = skipped[1]
      BY <1>1, <1>3, <3>1, <3>2
    <3> QED BY <3>2, <3>3 DEF HeadRequest, w
  <2>2. Head(skipped) \in Range(skipped) /\ Range(skipped) \subseteq Req
    BY <1>1, <1>2, <1>3, ListLemma
  <2>3. skipped' = Tail(skipped) /\ waiting' = waiting
    BY <1>3 DEF Popped
  <2> QED BY <1>1, <1>2, <1>3, <2>1, <2>2, <2>3
<1>4. CASE skipped = <<>>
  <2>1. skipped \o waiting = waiting
    BY <1>1, <1>4
  <2>2. waiting # <<>> /\ HeadRequest = Head(waiting)
    BY <2>1 DEF Looking, HeadRequest
  <2>3. Head(waiting) \in Range(waiting) /\ Range(waiting) \subseteq Req
    BY <1>1, <1>2, <2>2, ListLemma
  <2>4. skipped' = skipped /\ waiting' = Tail(waiting) /\ Range(skipped) = {}
    BY <1>4, EmptyLemma DEF Popped
  <2> QED BY <1>1, <1>2, <2>2, <2>3, <2>4
<1> QED BY <1>3, <1>4

\* A session that waits for its next chunk is put aside.
LEMMA SkipStep ==
  ASSUME IInv, SkipWaiting
  PROVE  IInv'
<1> DEFINE h == HeadRequest
           l == Append(plan.stepSkipped, h)
<1>1. /\ pc = "waiting" /\ pc' = pc /\ need = NoNeed /\ step = NoStep
      /\ req[h].status = "WAITING_FOR_STREAMING_REQ"
      /\ plan' = [plan EXCEPT !.stepSkipped = l]
      /\ UNCHANGED <<sent, req, running, numWaitingForStreamingInput, enc, need, workerVars>>
  BY DEF IInv, SkipWaiting, Looking, Plans, Steps, InRunningLoop
<1>2. /\ h \in Req /\ h \in Range(skipped) \cup Range(waiting)
      /\ skipped' \in Seq(Req) /\ waiting' \in Seq(Req)
      /\ IsInjective(skipped') /\ IsInjective(waiting')
      /\ Range(skipped') = Range(skipped) \ {h}
      /\ Range(waiting') = Range(waiting) \ {h}
  BY PoppedLemma DEF IInv, SkipWaiting
<1>3. plan \in Planning /\ plan.stepSkipped \in Seq(Req) /\ IsInjective(plan.stepSkipped)
  BY DEF IInv, TypeOK, Planning, Queues
<1>4. h \notin Range(plan.stepSkipped)
  BY <1>2 DEF IInv, Queues
<1>5. l \in Seq(Req) /\ IsInjective(l) /\ Range(l) = Range(plan.stepSkipped) \cup {h}
  BY <1>2, <1>3, <1>4, AppendLemma
<1> HIDE DEF h, l
<1>6. /\ plan' \in Planning /\ plan'.stepSkipped = l
      /\ plan'.order = plan.order /\ plan'.new = plan.new /\ plan'.idx = plan.idx
      /\ plan'.n = plan.n /\ plan'.drafts = plan.drafts /\ plan'.inputs = plan.inputs
  BY <1>1, <1>3, <1>5 DEF Planning
<1>7. TypeOK'
  BY <1>1, <1>2, <1>6 DEF IInv, TypeOK, workerVars
<1>8. Queues'
  BY <1>1, <1>2, <1>5, <1>6 DEF IInv, Queues
<1>9. Plans'
  BY <1>1, <1>6 DEF IInv, Plans, Consistent, InSchedule
<1>10. Steps'
  BY <1>1 DEF IInv, Steps, InWorker, Consistent, workerVars
<1>11. Requests'
  <2>1. Live' = Live
    BY <1>1 DEF Live
  <2>2. ASSUME NEW r \in Live PROVE RequestOK(r)'
    <3>1. r \in Req /\ RequestOK(r)
      BY DEF IInv, Requests, Live
    <3>2. InputsKnown(r)'
      BY <1>1, <1>6, <3>1, KnownKept DEF RequestOK, workerVars
    <3> QED BY <1>1, <1>6, <3>1, <3>2, RequestKept DEF workerVars
  <2> QED BY <1>1, <2>1, <2>2 DEF IInv, Requests
<1>12. CacheOK(enc)'
  BY <1>1 DEF IInv, CacheOK
<1>13. GpuFollows'
  <2>1. HashesOf(plan.inputs)' = HashesOf(plan.inputs)
    BY <1>1, <1>6 DEF HashesOf
  <2> QED BY <1>1, <1>6, <2>1 DEF IInv, GpuFollows, workerVars, InSchedule
<1>14. InputsHeld'
  BY <1>1, <1>6 DEF IInv, InputsHeld, InWorker, Held
<1>15. NeedHeld'
  BY <1>1 DEF NeedHeld
<1> QED BY <1>7, <1>8, <1>9, <1>10, <1>11, <1>12, <1>13, <1>14, <1>15 DEF IInv

\* The last request of an output is dealt with.
LEMMA EndUpdateStep ==
  ASSUME IInv, EndUpdate
  PROVE  IInv'
<1>1. /\ pc = "update" /\ pc' = "idle" /\ step.order = <<>> /\ step' = NoStep
      /\ plan = NoPlan /\ need = NoNeed
      /\ UNCHANGED <<sent, req, queueVars, enc, plan, need, gpu, wfeats, kv>>
  BY DEF IInv, EndUpdate, Plans, InRunningLoop, InSchedule
<1>2. Range(step.order) = {} /\ Range(step'.order) = {} /\ IsInjective(step'.order)
  BY <1>1, EmptyLemma
<1>3. TypeOK'
  BY <1>1, EmptyLemma DEF IInv, TypeOK, queueVars
<1>4. Queues'
  BY <1>1 DEF IInv, Queues, queueVars
<1>5. Plans'
  BY <1>1 DEF IInv, Plans, Consistent, InSchedule, queueVars
<1>6. Steps'
  BY <1>1, <1>2, EmptyLemma, ConstantsAssumption DEF Steps, InWorker
<1>7. Requests'
  <2>1. Live' = Live
    BY <1>1 DEF Live
  <2>2. ASSUME NEW r \in Live PROVE RequestOK(r)'
    <3>1. r \in Req /\ RequestOK(r)
      BY DEF IInv, Requests, Live
    <3>2. Pending(r) = 0 /\ Pending(r)' = 0
      BY <1>2 DEF Pending
    <3>3. Behind(r)' = Behind(r) /\ NumTokens(r)' = NumTokens(r)
      BY <1>1, <3>2 DEF Behind, NumTokens
    <3>4. Numbers(r)'
      BY <1>1, <1>2, <3>1, <3>3 DEF RequestOK, Numbers
    <3>5. KvOK(r)'
      BY <1>1, <1>2, <3>1, <3>3 DEF RequestOK, KvOK
    <3>6. InputsKnown(r)'
      BY <1>1, <3>1 DEF RequestOK, InputsKnown
    <3> QED BY <1>1, <3>1, <3>4, <3>5, <3>6 DEF RequestOK, InputsPlaced
  <2> QED BY <1>1, <2>1, <2>2 DEF IInv, Requests
<1>8. CacheOK(enc)'
  BY <1>1 DEF IInv, CacheOK
<1>9. GpuFollows'
  <2>1. HashesOf(plan.inputs)' = HashesOf(plan.inputs)
    BY <1>1 DEF HashesOf
  <2> QED BY <1>1, <2>1 DEF IInv, GpuFollows, InSchedule
<1>10. InputsHeld'
  BY <1>1 DEF IInv, InputsHeld, InWorker, Held
<1>11. NeedHeld'
  BY <1>1 DEF NeedHeld
<1> QED BY <1>3, <1>4, <1>5, <1>6, <1>7, <1>8, <1>9, <1>10, <1>11 DEF IInv

-----------------------------------------------------------------------------
(* The steps of the RUNNING loop.                                          *)

\* The request the RUNNING loop is at.
LEMMA AtHand ==
  ASSUME TypeOK, Queues, InRunningLoop
  PROVE  /\ plan.idx \in 1 .. Len(running)
         /\ running[plan.idx] \in Range(running)
         /\ running[plan.idx] \in Req
         /\ running[plan.idx] \in Live
         /\ plan.budget \in Int /\ plan.budget > 0
<1>1. plan.idx \in 1 .. Len(running) /\ plan.budget \in Int /\ plan.budget > 0
  BY DEF TypeOK, Planning, InRunningLoop
<1>2. running[plan.idx] \in Range(running)
  BY <1>1, ListLemma DEF TypeOK
<1> QED BY <1>1, <1>2, RunningLemma

\* What is planned to be encoded is referred to.
LEMMA PlannedReferred ==
  ASSUME TypeOK, Plans, InputsHeld
  PROVE  InUse(enc, HashesOf(plan.inputs))
<1> SUFFICES ASSUME NEW h \in HashesOf(plan.inputs) PROVE h \in Hash /\ enc.refs[h] # {}
  BY DEF InUse
<1>1. PICK r \in Req : h \in HashesAt(req[r].feats, plan.inputs[r])
  BY DEF HashesOf
<1>2. PICK i \in Range(plan.inputs[r]) : h = req[r].feats[i].hash
  BY <1>1 DEF HashesAt
<1>3. r \in Range(plan.order)
  <2> SUFFICES ASSUME r \notin Range(plan.order) PROVE FALSE
    OBVIOUS
  <2>1. plan.inputs[r] = <<>>
    BY DEF Plans, Consistent
  <2> QED BY <1>2, <2>1, EmptyLemma
<1>4. Held(enc, r, req[r].feats, req[r].computed, plan.n[r], plan.inputs[r])
  BY <1>3 DEF InputsHeld
<1>5. i \in 1 .. Len(req[r].feats) /\ r \in enc.refs[h]
  BY <1>2, <1>4 DEF Held
<1>6. h \in Hash
  BY <1>2, <1>5, FeatureLemma DEF TypeOK
<1> QED BY <1>5, <1>6

\* The worker's cache still follows, when entries nobody refers to have been evicted.
LEMMA ReworkedGpu ==
  ASSUME NEW e \in EncoderCache, NEW f \in EncoderCache, CacheOK(f), Reworked(e, f),
         NEW g, NEW H, InUse(e, H), Follows(g, e.freed, H, e.cached)
  PROVE  Follows(g, f.freed, H, f.cached)
<1>1. \A h \in H : h \in f.cached
  <2> TAKE h \in H
  <2>1. f.refs[h] # {}
    BY DEF Reworked, RefersTo, InUse
  <2>2. h \in Hash
    BY DEF InUse
  <2> QED BY <2>1, <2>2 DEF CacheOK
<1> QED BY <1>1 DEF Reworked, Follows

\* What a request refers to it still refers to, if nothing is released.
LEMMA HeldKept ==
  ASSUME NEW e, NEW f, RefersTo(e, f), NEW feats \in Seq(Feature), NEW r, NEW c, NEW n,
         NEW inputs, Held(e, r, feats, c, n, inputs)
  PROVE  Held(f, r, feats, c, n, inputs)
<1>1. \A i \in 1 .. Len(feats) : feats[i].hash \in Hash
  <2>1. \A i \in 1 .. Len(feats) : feats[i] \in Feature
    OBVIOUS
  <2> QED BY <2>1 DEF Feature
<1>2. \A i \in Touched(feats, c, n) : i \in 1 .. Len(feats)
  BY DEF Touched
<1> QED BY <1>1, <1>2 DEF Held, RefersTo

\* The same if another request has released its inputs.
LEMMA HeldBesides ==
  ASSUME NEW e, NEW f, NEW q, KeepsOthers(e, f, q), NEW feats \in Seq(Feature),
         NEW r \in Req, r # q, NEW c, NEW n, NEW inputs, Held(e, r, feats, c, n, inputs)
  PROVE  Held(f, r, feats, c, n, inputs)
<1>1. \A i \in 1 .. Len(feats) : feats[i].hash \in Hash
  <2>1. \A i \in 1 .. Len(feats) : feats[i] \in Feature
    OBVIOUS
  <2> QED BY <2>1 DEF Feature
<1>2. \A i \in Touched(feats, c, n) : i \in 1 .. Len(feats)
  BY DEF Touched
<1> QED BY <1>1, <1>2 DEF Held, KeepsOthers

\* What the request at hand could do is found out.
LEMMA ConsiderStep ==
  ASSUME IInv, ConsiderRunning
  PROVE  IInv'
<1> DEFINE R == running[plan.idx]
           N == Lesser(NumTokens(R) + req[R].spec - req[R].computed, plan.budget)
<1>p. PICK r, n, try : /\ r = R /\ n = N
                       /\ try = TryScheduleEncoderInputs(r, req[r].computed, n)
  BY SMTT(30)
<1>1. /\ pc = "running" /\ pc' = pc /\ need = NoNeed /\ step = NoStep /\ InRunningLoop
      /\ enc' = try.enc
      /\ need' = IF try.n = 0 THEN NoNeed
                 ELSE [n |-> try.n, inputs |-> try.inputs, budget |-> try.budget]
      /\ plan' = IF try.n = 0 THEN [plan EXCEPT !.idx = @ + 1] ELSE plan
      /\ UNCHANGED <<sent, req, queueVars, workerVars>>
  BY ZenonT(30), <1>p DEF IInv, ConsiderRunning, InRunningLoop, Steps
<1>2. /\ plan.idx \in 1 .. Len(running) /\ r = running[plan.idx]
      /\ r \in Range(running) /\ r \in Req /\ r \in Live
      /\ plan.budget \in Int /\ plan.budget > 0
  BY <1>p, <1>1, AtHand DEF IInv
<1>3. /\ req[r].computed \in Nat /\ req[r].spec \in Nat /\ NumTokens(r) \in Nat
      /\ NumTokens(r) = Len(req[r].toks)
      /\ req[r].computed < NumTokens(r) /\ req[r].feats \in Seq(Feature)
      /\ InOrder(req[r].feats)
  <2>1. req[r].computed \in 0 .. NumTokens(r) - 1
    BY <1>1, <1>2, BetweenSteps DEF IInv
  <2>2. RequestOK(r)
    BY <1>2 DEF IInv, Requests
  <2>3. /\ req[r].computed \in Nat /\ req[r].spec \in Nat /\ NumTokens(r) \in Nat
        /\ NumTokens(r) = Len(req[r].toks) /\ req[r].feats \in Seq(Feature)
    BY <1>2, FieldsLemma DEF IInv, TypeOK
  <2>4. InOrder(req[r].feats)
    BY <2>2 DEF RequestOK, InputsPlaced
  <2>5. req[r].computed < NumTokens(r)
    BY <2>1, <2>3
  <2> QED BY <2>3, <2>4, <2>5
<1>4. n \in Nat /\ n <= NumTokens(r) + req[r].spec - req[r].computed
  <2>1. PICK x \in Nat, y \in Nat, z \in Nat, b \in Int :
               x = NumTokens(r) /\ y = req[r].spec /\ z = req[r].computed /\ b = plan.budget
    BY <1>2, <1>3
  <2>2. n = Lesser(x + y - z, b) /\ z < x /\ b > 0
    BY <1>p, <1>2, <1>3, <2>1
  <2>3. n \in Nat /\ n <= x + y - z
    BY <2>1, <2>2 DEF Lesser
  <2> QED BY <2>1, <2>3
<1> HIDE DEF R, N
<1>5. TryOK(try, r, req[r].computed, n, Len(req[r].feats))
  <2>1. /\ req \in [Req -> Request] /\ enc \in EncoderCache /\ plan.encBudget \in Int
        /\ CacheOK(enc)
    BY DEF IInv, TypeOK, Planning
  <2> QED BY <1>p, <1>2, <1>3, <1>4, <2>1, TryLemma
<1>6. try \in Trying /\ try.n <= n /\ TryCached(try, r)
      /\ TryCovers(try, r, req[r].computed, Len(req[r].feats))
  BY <1>5 DEF TryOK
<1>7. /\ try.n \in Nat /\ try.inputs \in Seq(Nat) /\ try.budget \in Int
      /\ enc' \in EncoderCache /\ CacheOK(enc') /\ Reworked(enc, enc')
  BY <1>1, <1>6 DEF Trying, TryCached
<1>8. /\ plan' \in Planning /\ plan'.order = plan.order /\ plan'.new = plan.new
      /\ plan'.n = plan.n /\ plan'.drafts = plan.drafts /\ plan'.inputs = plan.inputs
      /\ plan'.stepSkipped = plan.stepSkipped
      /\ plan'.idx = (IF try.n = 0 THEN plan.idx + 1 ELSE plan.idx)
      /\ plan'.budget = plan.budget
  <2>1. plan \in Planning /\ plan.idx \in Nat \ {0} /\ plan.idx + 1 \in Nat \ {0}
    BY DEF IInv, TypeOK, Planning
  <2>2. CASE try.n = 0
    BY <1>1, <2>1, <2>2 DEF Planning
  <2>3. CASE try.n # 0
    BY <1>1, <2>1, <2>3
  <2> QED BY <2>2, <2>3
<1>9. need' \in Needing
  <2>1. CASE try.n = 0
    BY <1>1, <2>1, EmptyLemma
  <2>2. CASE try.n # 0
    BY <1>1, <1>7, <2>2 DEF Needing
  <2> QED BY <2>1, <2>2
<1>10. TypeOK'
  BY <1>1, <1>7, <1>8, <1>9 DEF IInv, TypeOK, queueVars, workerVars
<1>11. Queues'
  BY <1>1, <1>8 DEF IInv, Queues, queueVars
<1>12. Plans'
  <2>1. Consistent(plan') /\ Range(plan'.order) \subseteq Range(running')
    BY <1>1, <1>8 DEF IInv, Plans, Consistent, queueVars
  <2>2. \A q \in Range(plan'.order) :
          \E i \in 1 .. Len(running') : i < plan'.idx /\ running'[i] = q
    <3> TAKE q \in Range(plan'.order)
    <3>1. PICK i \in 1 .. Len(running) : i < plan.idx /\ running[i] = q
      BY <1>1, <1>8 DEF IInv, Plans
    <3>2. i < plan'.idx
      BY <1>2, <1>8, <3>1
    <3> QED BY <1>1, <3>1, <3>2 DEF queueVars
  <2>3. need' # NoNeed => InRunningLoop' /\ need'.n > 0
    <3> SUFFICES ASSUME need' # NoNeed PROVE InRunningLoop' /\ need'.n > 0
      OBVIOUS
    <3>1. try.n # 0 /\ need'.n = try.n /\ plan' = plan
      BY <1>1
    <3> QED BY <1>1, <1>7, <3>1 DEF InRunningLoop, queueVars
  <2> QED BY <1>1, <1>8, <2>1, <2>2, <2>3 DEF IInv, Plans, InSchedule
<1>13. Steps'
  BY <1>1 DEF IInv, Steps, InWorker, queueVars, workerVars
<1>14. Requests'
  <2>1. Live' = Live
    BY <1>1 DEF Live
  <2>2. ASSUME NEW q \in Live PROVE RequestOK(q)'
    <3>1. q \in Req /\ RequestOK(q)
      BY DEF IInv, Requests, Live
    <3>2. InputsKnown(q)'
      BY <1>1, <1>8, <3>1, KnownKept DEF RequestOK, workerVars
    <3> QED BY <1>1, <1>8, <3>1, <3>2, RequestKept DEF workerVars
  <2> QED BY <1>1, <2>1, <2>2 DEF IInv, Requests
<1>15. CacheOK(enc)'
  BY <1>7
<1>16. GpuFollows'
  <2>1. HashesOf(plan.inputs)' = HashesOf(plan.inputs)
    BY <1>1, <1>8 DEF HashesOf
  <2>2. InUse(enc, HashesOf(plan.inputs))
    BY PlannedReferred DEF IInv
  <2>3. Follows(gpu, enc.freed, HashesOf(plan.inputs), enc.cached) /\ enc \in EncoderCache
    BY <1>1 DEF IInv, GpuFollows, TypeOK
  <2>4. Follows(gpu, enc'.freed, HashesOf(plan.inputs), enc'.cached)
    BY <1>7, <2>2, <2>3, ReworkedGpu
  <2> QED BY <1>1, <2>1, <2>4 DEF GpuFollows, InSchedule, workerVars
<1>17. InputsHeld'
  <2>1. ASSUME NEW q \in Range(plan.order)
        PROVE  Held(enc', q, req[q].feats, req[q].computed, plan.n[q], plan.inputs[q])
    <3>1. q \in Req /\ req[q].feats \in Seq(Feature)
      <4>1. q \in Req
        BY RunningLemma DEF IInv, Plans
      <4> QED BY <4>1, FieldsLemma DEF IInv, TypeOK
    <3>2. Held(enc, q, req[q].feats, req[q].computed, plan.n[q], plan.inputs[q])
      BY DEF IInv, InputsHeld
    <3>3. RefersTo(enc, enc')
      BY <1>7 DEF Reworked
    <3> QED BY <3>1, <3>2, <3>3, HeldKept
  <2> QED BY <1>1, <1>8, <2>1 DEF InputsHeld, InWorker
<1>18. NeedHeld'
  <2> SUFFICES ASSUME need' # NoNeed
               PROVE  NeedFits(enc, r, req[r])'
    BY <1>1, <1>2, <1>8 DEF NeedHeld, queueVars
  <2>1. try.n # 0 /\ need'.n = try.n /\ need'.inputs = try.inputs
    BY <1>1
  <2> DEFINE hs == HashesAt(req[r].feats, try.inputs)
  <2>2. /\ \A i \in Range(try.inputs) : i \in 1 .. Len(req[r].feats)
        /\ try.hashes = hs /\ IsFiniteSet(hs) /\ hs \cap enc'.cached = {}
        /\ EmbedsOf(enc'.cached) + EmbedsOf(hs) <= CacheSize
    BY <1>1, <1>6 DEF TryCached
  <2>3. hs \in SUBSET Hash
    BY <1>6, <2>2 DEF Trying
  <2> HIDE DEF hs
  <2>4. EmbedsOf(enc'.cached \cup hs) <= CacheSize
    <3> DEFINE both == enc'.cached \cup hs
    <3>1. both \in SUBSET Hash /\ IsFiniteSet(both) /\ enc'.cached \in SUBSET both
          /\ both \ enc'.cached = hs
      BY <1>7, <2>2, <2>3, FS_Union DEF EncoderCache, CacheOK
    <3> HIDE DEF both
    <3>2. EmbedsOf(both) = EmbedsOf(enc'.cached) + EmbedsOf(both \ enc'.cached)
      BY <3>1, EmbedsLemma
    <3> QED BY <2>2, <3>1, <3>2 DEF both
  <2>5. \A i \in Touched(req[r].feats, req[r].computed, try.n) :
          r \in enc'.refs[req[r].feats[i].hash] \/ req[r].feats[i].hash \in hs
    <3>1. \A i \in Touched(req[r].feats, req[r].computed, try.n) : i <= Len(req[r].feats)
      BY <1>3 DEF Touched
    <3> QED BY <1>1, <1>6, <1>7, <2>1, <2>2, <3>1 DEF TryCovers
  <2>6. try.n <= Len(req[r].toks) + req[r].spec - req[r].computed
    <3>1. PICK x \in Int : x = Len(req[r].toks) + req[r].spec - req[r].computed
      BY <1>3
    <3>2. n <= x /\ try.n <= n
      BY <1>3, <1>4, <1>6, <3>1
    <3> QED BY <1>4, <1>7, <3>1, <3>2
  <2> QED BY <1>1, <2>1, <2>2, <2>4, <2>5, <2>6 DEF NeedFits, hs
<1> QED BY <1>10, <1>11, <1>12, <1>13, <1>14, <1>15, <1>16, <1>17, <1>18 DEF IInv

\* The plan o is p with r, n tokens, inputs and d drafts of it.
IsPlanMore(p, o, r, n, inputs, d) ==
  /\ Consistent(o) /\ Range(o.order) = Range(p.order) \cup {r}
  /\ o.n[r] = n /\ o.inputs[r] = inputs /\ o.drafts[r] = d
  /\ \A q \in Req : q # r => /\ o.n[q] = p.n[q] /\ o.inputs[q] = p.inputs[q]
                             /\ o.drafts[q] = p.drafts[q]

\* A plan for one request more.
LEMMA PlanMore ==
  ASSUME NEW p \in Planning, NEW o \in Planning, Consistent(p),
         NEW r \in Req, r \notin Range(p.order), NEW n \in Nat, n > 0, NEW inputs, NEW d \in Nat,
         d <= NumDrafts,
         o.order = Append(p.order, r), o.n = [p.n EXCEPT ![r] = n],
         o.inputs = [p.inputs EXCEPT ![r] = inputs], o.drafts = [p.drafts EXCEPT ![r] = d]
  PROVE  IsPlanMore(p, o, r, n, inputs, d)
<1>1. /\ p.order \in Seq(Req) /\ p.n \in [Req -> Nat] /\ p.inputs \in [Req -> Seq(Nat)]
      /\ p.drafts \in [Req -> Nat]
  BY DEF Planning
<1>2. IsInjective(p.order)
  BY DEF Consistent
<1>3. IsInjective(o.order) /\ Range(o.order) = Range(p.order) \cup {r}
  BY <1>1, <1>2, AppendLemma
<1>4. /\ o.n[r] = n /\ o.inputs[r] = inputs /\ o.drafts[r] = d
      /\ \A q \in Req : q # r => /\ o.n[q] = p.n[q] /\ o.inputs[q] = p.inputs[q]
                                 /\ o.drafts[q] = p.drafts[q]
  BY <1>1
<1>5. Consistent(o)
  BY <1>3, <1>4 DEF Consistent
<1> QED BY <1>3, <1>4, <1>5 DEF IsPlanMore

\* What is encoded for a plan for one request more.
LEMMA HashesMore ==
  ASSUME NEW r \in Req, plan.inputs[r] = <<>>,
         \A q \in Req : req'[q].feats = req[q].feats,
         \A q \in Req : q # r => plan'.inputs[q] = plan.inputs[q]
  PROVE  HashesOf(plan.inputs)' =
           HashesOf(plan.inputs) \cup HashesAt(req[r].feats, plan'.inputs[r])
<1>1. \A q \in Req : q # r => HashesAt(req'[q].feats, plan'.inputs[q]) = HashesAt(req[q].feats, plan.inputs[q])
  OBVIOUS
<1>2. HashesAt(req[r].feats, plan.inputs[r]) = {}
  BY EmptyLemma DEF HashesAt
<1>3. HashesAt(req'[r].feats, plan'.inputs[r]) = HashesAt(req[r].feats, plan'.inputs[r])
  OBVIOUS
<1>4. HashesOf(plan.inputs)' = UNION {HashesAt(req'[q].feats, plan'.inputs[q]) : q \in Req}
  BY DEF HashesOf
<1> HIDE DEF HashesAt
<1> QED BY <1>1, <1>2, <1>3, <1>4 DEF HashesOf

\* The request at hand is none that is planned already.
LEMMA AtHandNotPlanned ==
  ASSUME TypeOK, Queues, Plans, InRunningLoop, NEW k \in 1 .. Len(running), k >= plan.idx
  PROVE  running[k] \notin Range(plan.order)
<1> SUFFICES ASSUME running[k] \in Range(plan.order) PROVE FALSE
  OBVIOUS
<1>1. PICK i \in 1 .. Len(running) : i < plan.idx /\ running[i] = running[k]
  BY DEF InRunningLoop, Plans
<1>2. i = k
  BY <1>1, ListLemma DEF TypeOK, Queues
<1>3. plan.idx \in Nat
  BY DEF TypeOK, Planning
<1> QED BY <1>1, <1>2, <1>3

\* The request at hand is scheduled.
LEMMA ScheduleStep ==
  ASSUME IInv, ScheduleRunning
  PROVE  IInv'
<1> DEFINE R == running[plan.idx]
           D == IF req[R].spec > 0
                THEN Positive(need.n + req[R].computed - NumTokens(R)) ELSE 0
           M == Missing(R, req[R].computed, need.n)
<1>p. PICK r, n, d, m : r = R /\ n = need.n /\ d = D /\ m = M
  OBVIOUS
<1>1. /\ pc = "running" /\ pc' = pc /\ need # NoNeed /\ need' = NoNeed
      /\ step = NoStep /\ InRunningLoop
      /\ plan' = [Planned(r, n, need.inputs, need.budget) EXCEPT !.idx = @ + 1, !.drafts[r] = d]
      /\ req' = [req EXCEPT ![r].alloc = @ + m, ![r].spec = 0]
      /\ enc' = Allocated(enc, r, need.inputs)
      /\ UNCHANGED <<sent, queueVars, workerVars>>
  BY <1>p DEF IInv, ScheduleRunning, InRunningLoop, Steps
<1>2. /\ plan.idx \in 1 .. Len(running) /\ r = running[plan.idx]
      /\ r \in Range(running) /\ r \in Req /\ r \in Live
  BY <1>p, <1>1, AtHand DEF IInv
<1>3. /\ req[r] \in Request
      /\ req[r].computed \in Nat /\ req[r].spec \in Nat /\ NumTokens(r) \in Nat
      /\ NumTokens(r) = Len(req[r].toks) /\ req[r].alloc \in Int
      /\ req[r].feats \in Seq(Feature)
  BY <1>2, FieldsLemma DEF IInv, TypeOK
<1>4. /\ n \in Nat /\ n > 0 /\ need.inputs \in Seq(Nat) /\ need.budget \in Int
  BY <1>p, <1>1 DEF IInv, TypeOK, Needing, Plans
<1>5. NeedFits(enc, r, req[r]) /\ n <= NumTokens(r) + req[r].spec - req[r].computed
  BY Zenon, <1>p, <1>1, <1>2, <1>3 DEF IInv, NeedHeld, NeedFits
<1>6. RequestOK(r) /\ req[r].spec <= NumDrafts /\ NumDrafts \in Nat
  BY <1>2, ConstantsAssumption DEF IInv, Requests, RequestOK, Numbers
<1>7. d \in Nat /\ d <= NumDrafts /\ d = Positive(req[r].computed + n - NumTokens(r))
  <2>1. PICK x \in Nat, y \in Nat, z \in Nat :
               x = NumTokens(r) /\ y = req[r].spec /\ z = req[r].computed
    BY <1>3
  <2>2. n <= x + y - z /\ d = (IF y > 0 THEN Positive(n + z - x) ELSE 0) /\ y <= NumDrafts
    BY <1>p, <1>5, <1>6, <2>1
  <2>3. PICK k \in Int : k = z + n - x /\ n + z - x = k
    BY <1>4, <2>1
  <2>4. k <= y
    <3>1. n \in Nat /\ n <= x + y - z
      BY <1>4, <2>2
    <3> QED BY SMTT(30), <2>1, <2>3, <3>1
  <2>5. CASE y > 0
    <3>1. d = Positive(k)
      BY <2>2, <2>3, <2>5
    <3> QED BY <1>6, <2>1, <2>2, <2>3, <2>4, <3>1 DEF Positive
  <2>6. CASE y = 0
    <3>1. d = 0 /\ Positive(k) = 0
      BY <2>1, <2>2, <2>3, <2>4, <2>6 DEF Positive
    <3> QED BY <1>6, <2>1, <2>3, <3>1
  <2> QED BY <2>1, <2>5, <2>6
<1>8. m \in Int
  <2>1. PICK x \in Nat, y \in Int : x = req[r].computed /\ y = req[r].alloc
    BY <1>3
  <2>2. m = Positive(x + n - y)
    BY <1>p, <2>1 DEF Missing
  <2>3. PICK k \in Int : k = x + n - y
    BY <1>4, <2>1
  <2>4. m = Positive(k)
    BY <2>2, <2>3
  <2> QED BY <2>3, <2>4 DEF Positive
<1>9. r \notin Range(plan.order)
  <2>1. plan.idx \in Int /\ plan.idx >= plan.idx
    BY <1>2
  <2>2. TypeOK /\ Queues /\ Plans
    BY SMTT(30) DEF IInv
  <2> QED BY <1>1, <1>2, <2>1, <2>2, AtHandNotPlanned
<1> HIDE DEF R, D, M
<1>10. /\ plan' \in Planning /\ plan'.order = Append(plan.order, r) /\ plan'.new = plan.new
       /\ plan'.n = [plan.n EXCEPT ![r] = n]
       /\ plan'.inputs = [plan.inputs EXCEPT ![r] = need.inputs]
       /\ plan'.drafts = [plan.drafts EXCEPT ![r] = d]
       /\ plan'.idx = plan.idx + 1 /\ plan'.stepSkipped = plan.stepSkipped
  <2>1. plan \in Planning
    BY DEF IInv, TypeOK
  <2>2. plan' = [plan EXCEPT !.n[r] = n, !.inputs[r] = need.inputs, !.order = Append(@, r),
                             !.budget = @ - n, !.encBudget = need.budget,
                             !.idx = @ + 1, !.drafts[r] = d]
    BY <1>1, <2>1 DEF Planned, Planning
  <2>3. /\ plan.idx + 1 \in Nat \ {0} /\ plan.budget - n \in Int
        /\ Append(plan.order, r) \in Seq(Req)
    BY SMTT(30), <1>2, <1>4, <2>1 DEF Planning
  <2> QED BY ZenonT(30), <1>2, <1>4, <1>7, <2>1, <2>2, <2>3 DEF Planning
<1>11. /\ Consistent(plan') /\ Range(plan'.order) = Range(plan.order) \cup {r}
       /\ plan'.n[r] = n /\ plan'.inputs[r] = need.inputs /\ plan'.drafts[r] = d
       /\ \A q \in Req : q # r => /\ plan'.n[q] = plan.n[q] /\ plan'.inputs[q] = plan.inputs[q]
                                  /\ plan'.drafts[q] = plan.drafts[q]
  <2>1. plan \in Planning /\ Consistent(plan)
    BY DEF IInv, TypeOK, Plans
  <2>2. PICK p, o, ins : p = plan /\ o = plan' /\ ins = need.inputs
    OBVIOUS
  <2>3. /\ p \in Planning /\ o \in Planning /\ Consistent(p) /\ r \notin Range(p.order)
        /\ o.order = Append(p.order, r) /\ o.n = [p.n EXCEPT ![r] = n]
        /\ o.inputs = [p.inputs EXCEPT ![r] = ins] /\ o.drafts = [p.drafts EXCEPT ![r] = d]
    BY <1>9, <1>10, <2>1, <2>2
  <2>4. IsPlanMore(p, o, r, n, ins, d)
    BY <1>2, <1>4, <1>7, <2>3, PlanMore
  <2> QED BY <2>2, <2>4 DEF IsPlanMore
<1>12. /\ req' \in [Req -> Request] /\ Live' = Live
       /\ \A q \in Req : q # r => req'[q] = req[q]
       /\ \A q \in Req : /\ req'[q].feats = req[q].feats /\ req'[q].computed = req[q].computed
                         /\ req'[q].toks = req[q].toks /\ req'[q].status = req[q].status
                         /\ req'[q].queue = req[q].queue
       /\ req'[r].spec = 0
  <2>1. req \in [Req -> Request]
    BY DEF IInv, TypeOK
  <2>2. req' = [req EXCEPT ![r] = [req[r] EXCEPT !.alloc = @ + m, !.spec = 0]]
    BY <1>1, <1>2, <2>1
  <2>3. req[r].alloc + m \in Int
    BY <1>3, <1>8
  <2> DEFINE new == [req[r] EXCEPT !.alloc = @ + m, !.spec = 0]
  <2>4. /\ new \in Request /\ new.spec = 0 /\ new.feats = req[r].feats
        /\ new.computed = req[r].computed /\ new.toks = req[r].toks
        /\ new.status = req[r].status /\ new.queue = req[r].queue
    BY <1>3, <2>3 DEF Request
  <2> HIDE DEF new
  <2>5. \A q \in Req : req'[q] = IF q = r THEN new ELSE req[q]
    BY <2>1, <2>2 DEF new
  <2>6. req' \in [Req -> Request]
    BY <1>2, <2>1, <2>2, <2>4 DEF new
  <2>7. \A q \in Req : req'[q].status = req[q].status
    BY <2>4, <2>5
  <2>8. Live' = Live
    BY <2>7 DEF Live
  <2> QED BY <1>2, <2>4, <2>5, <2>6, <2>8
<1> DEFINE hs == HashesAt(req[r].feats, need.inputs)
<1>13. /\ enc' \in EncoderCache /\ CacheOK(enc') /\ RefersTo(enc, enc')
       /\ enc'.cached = enc.cached \cup hs /\ enc'.freed = enc.freed
       /\ \A h \in hs : r \in enc'.refs[h]
  <2>1. /\ enc \in EncoderCache /\ CacheOK(enc) /\ req \in [Req -> Request]
    BY DEF IInv, TypeOK
  <2>2. /\ \A i \in Range(need.inputs) : i \in 1 .. Len(req[r].feats)
        /\ IsFiniteSet(hs) /\ EmbedsOf(enc.cached \cup hs) <= CacheSize
    BY <1>5 DEF NeedFits
  <2>3. hs = {req[r].feats[i].hash : i \in Range(need.inputs)}
    BY SMTT(30) DEF HashesAt
  <2> HIDE DEF hs
  <2>4. IsAllocated(enc, enc', r, hs)
    BY Zenon, <1>1, <1>2, <1>4, <2>1, <2>2, <2>3, AllocatedLemma
  <2> QED BY <2>4 DEF IsAllocated
<1>14. TypeOK'
  BY <1>1, <1>10, <1>12, <1>13, EmptyLemma DEF IInv, TypeOK, queueVars, workerVars
<1>15. Queues'
  <2>1. \A q \in Range(running) \cup Range(waiting) \cup Range(skipped) \cup Range(plan.stepSkipped) : q \in Req
    BY ListLemma DEF IInv, TypeOK, Planning
  <2> QED BY <1>1, <1>10, <1>12, <2>1 DEF IInv, Queues, queueVars
<1>16. Plans'
  <2>1. Range(plan'.order) \subseteq Range(running')
    BY <1>1, <1>2, <1>11 DEF IInv, Plans, queueVars
  <2>2. \A q \in Range(plan'.order) :
          \E i \in 1 .. Len(running') : i < plan'.idx /\ running'[i] = q
    <3> TAKE q \in Range(plan'.order)
    <3>1. CASE q = r
      BY <1>1, <1>2, <1>10, <3>1 DEF queueVars
    <3>2. CASE q # r
      <4>1. q \in Range(plan.order)
        BY <1>11, <3>2
      <4>2. PICK i \in 1 .. Len(running) : i < plan.idx /\ running[i] = q
        BY <1>1, <4>1 DEF IInv, Plans
      <4>3. i < plan'.idx
        BY <1>2, <1>10, <4>2
      <4> QED BY <1>1, <4>2, <4>3 DEF queueVars
    <3> QED BY <3>1, <3>2
  <2> QED BY <1>1, <1>10, <1>11, <2>1, <2>2 DEF IInv, Plans, InSchedule
<1>17. Steps'
  BY <1>1 DEF IInv, Steps, InWorker, queueVars, workerVars
<1>18. Requests'
  <2>1. ASSUME NEW q \in Live PROVE RequestOK(q)'
    <3>1. q \in Req /\ RequestOK(q)
      BY DEF IInv, Requests, Live
    <3>2. InputsKnown(q)'
      BY <1>1, <1>10, <1>12, <3>1 DEF RequestOK, InputsKnown, workerVars
    <3>3. CASE q # r
      BY <1>1, <1>11, <1>12, <3>1, <3>2, <3>3, RequestKept DEF workerVars
    <3>4. CASE q = r
      <4>1. Pending(q)' = Pending(q) /\ Behind(q)' = Behind(q) /\ NumTokens(q)' = NumTokens(q)
        BY <1>1, <1>12, <3>1 DEF Pending, Behind, NumTokens, workerVars
      <4>2. Numbers(q)'
        BY <1>1, <1>6, <1>7, <1>11, <1>12, <3>1, <3>4, <4>1 DEF RequestOK, Numbers, workerVars
      <4>3. KvOK(q)'
        BY <1>1, <1>12, <3>1, <4>1 DEF RequestOK, KvOK, workerVars
      <4>4. InputsPlaced(q, req[q])'
        BY <1>12, <3>1 DEF RequestOK, InputsPlaced
      <4> QED BY <1>12, <3>1, <3>2, <4>2, <4>3, <4>4 DEF RequestOK
    <3> QED BY <3>3, <3>4
  <2> QED BY <1>1, <1>12, <2>1 DEF IInv, Requests
<1>19. CacheOK(enc)'
  BY <1>13
<1>20. GpuFollows'
  <2>1. plan.inputs[r] = <<>>
    BY <1>2, <1>9 DEF IInv, Plans, Consistent
  <2>2. HashesOf(plan.inputs)' = HashesOf(plan.inputs) \cup hs
    BY <1>2, <1>11, <1>12, <2>1, HashesMore
  <2> HIDE DEF hs
  <2>3. Follows(gpu, enc.freed, HashesOf(plan.inputs), enc.cached)
    BY <1>1 DEF IInv, GpuFollows
  <2>4. Follows(gpu, enc'.freed, HashesOf(plan.inputs) \cup hs, enc'.cached)
    <3>1. PICK H : H = HashesOf(plan.inputs)
      OBVIOUS
    <3> QED BY <1>13, <2>3, <3>1 DEF Follows
  <2> QED BY <1>1, <2>2, <2>4 DEF GpuFollows, InSchedule, workerVars
<1>21. InputsHeld'
  <2>1. ASSUME NEW q \in Range(plan'.order)
        PROVE  Held(enc', q, req[q].feats, req[q].computed, plan'.n[q], plan'.inputs[q])
    <3>1. CASE q # r
      <4>1. q \in Range(plan.order) /\ q \in Req
        BY <1>11, <2>1, <3>1, RunningLemma DEF IInv, Plans
      <4>2. Held(enc, q, req[q].feats, req[q].computed, plan.n[q], plan.inputs[q])
        BY <4>1 DEF IInv, InputsHeld
      <4>3. req[q].feats \in Seq(Feature)
        BY <4>1, FieldsLemma DEF IInv, TypeOK
      <4>4. Held(enc', q, req[q].feats, req[q].computed, plan.n[q], plan.inputs[q])
        BY <1>13, <4>2, <4>3, HeldKept
      <4> QED BY <1>11, <3>1, <4>1, <4>4
    <3>2. CASE q = r
      <4>1. ASSUME NEW i \in Touched(req[r].feats, req[r].computed, n)
            PROVE  r \in enc'.refs[req[r].feats[i].hash]
        <5>1. r \in enc.refs[req[r].feats[i].hash] \/ req[r].feats[i].hash \in hs
          BY <1>p, <1>5, <4>1 DEF NeedFits
        <5>2. req[r].feats[i].hash \in Hash
          BY <1>2, FeatureLemma DEF Touched, IInv, TypeOK
        <5> HIDE DEF hs
        <5> QED BY <1>13, <5>1, <5>2 DEF RefersTo
      <4>2. ASSUME NEW i \in Range(need.inputs)
            PROVE  i \in 1 .. Len(req[r].feats) /\ r \in enc'.refs[req[r].feats[i].hash]
        <5>1. req[r].feats[i].hash \in hs
          BY DEF HashesAt
        <5> HIDE DEF hs
        <5> QED BY <1>5, <1>13, <5>1 DEF NeedFits
      <4>3. Held(enc', r, req[r].feats, req[r].computed, n, need.inputs)
        BY <4>1, <4>2 DEF Held
      <4> QED BY <1>11, <3>2, <4>3
    <3> QED BY <3>1, <3>2
  <2>2. \A q \in Range(plan'.order) : q \in Req
    BY <1>2, <1>11, RunningLemma DEF IInv, Plans
  <2> QED BY <1>1, <1>12, <2>1, <2>2 DEF InputsHeld, InWorker
<1>22. NeedHeld'
  BY <1>1 DEF NeedHeld
<1> QED BY <1>14, <1>15, <1>16, <1>17, <1>18, <1>19, <1>20, <1>21, <1>22 DEF IInv

\* A list without its last member.
LEMMA FrontLemma ==
  ASSUME NEW S, NEW list \in Seq(S), Len(list) > 0, IsInjective(list)
  PROVE  /\ Front(list) \in Seq(S) /\ Len(Front(list)) = Len(list) - 1
         /\ IsInjective(Front(list))
         /\ Range(Front(list)) = Range(list) \ {Last(list)}
         /\ \A i \in 1 .. Len(list) - 1 : Front(list)[i] = list[i]
         /\ Last(list) = list[Len(list)]
<1>1. Len(list) \in Nat \ {0}
  OBVIOUS
<1>2. /\ 1 \in 1 .. Len(list) + 1 /\ Len(list) - 1 \in 0 .. Len(list)
  BY <1>1
<1>3. /\ Front(list) \in Seq(S) /\ IsInjective(Front(list))
      /\ Range(Front(list)) = {list[i] : i \in 1 .. Len(list) - 1}
  BY <1>2, PartLemma DEF Front
<1>4. /\ Len(Front(list)) = Len(list) - 1
      /\ \A i \in 1 .. Len(list) - 1 : Front(list)[i] = list[i]
      /\ Last(list) = list[Len(list)]
  <2>1. PICK n \in Nat : n = Len(list) - 1
    BY <1>1
  <2>2. Front(list) = SubSeq(list, 1, n)
    BY <2>1 DEF Front
  <2>3. Len(SubSeq(list, 1, n)) = n /\ \A i \in 1 .. n : SubSeq(list, 1, n)[i] = list[i]
    BY <1>1, <2>1
  <2> QED BY <2>1, <2>2, <2>3 DEF Last
<1>5. \A i, j \in 1 .. Len(list) : list[i] = list[j] => i = j
  BY ListLemma
<1>6. {list[i] : i \in 1 .. Len(list) - 1} = Range(list) \ {list[Len(list)]}
  <2>1. ASSUME NEW x \in Range(list) \ {list[Len(list)]}
        PROVE  \E i \in 1 .. Len(list) - 1 : list[i] = x
    <3>1. PICK i \in 1 .. Len(list) : list[i] = x
      BY ListLemma
    <3>2. i \in 1 .. Len(list) - 1
      BY <1>1, <3>1
    <3> QED BY <3>1, <3>2
  <2>2. ASSUME NEW i \in 1 .. Len(list) - 1
        PROVE  list[i] \in Range(list) \ {list[Len(list)]}
    <3>1. i \in 1 .. Len(list) /\ Len(list) \in 1 .. Len(list) /\ i # Len(list)
      BY <1>1
    <3> QED BY <1>5, <3>1, ListLemma
  <2> QED BY <2>1, <2>2
<1> QED BY <1>3, <1>4, <1>6

\* A list with one more at its beginning.
LEMMA PrependLemma ==
  ASSUME NEW S, NEW list \in Seq(S), IsInjective(list), NEW x \in S, x \notin Range(list)
  PROVE  /\ <<x>> \o list \in Seq(S) /\ IsInjective(<<x>> \o list)
         /\ Range(<<x>> \o list) = Range(list) \cup {x}
<1>1. <<x>> \in Seq(S) /\ IsInjective(<<x>>) /\ Range(<<x>>) = {x}
  BY OneLemma
<1> DEFINE one == <<x>>
<1> HIDE DEF one
<1>2. one \in Seq(S) /\ IsInjective(one) /\ Range(one) = {x}
  BY <1>1 DEF one
<1>3. Range(one) \cap Range(list) = {}
  BY <1>2
<1>4. /\ one \o list \in Seq(S) /\ IsInjective(one \o list)
      /\ Range(one \o list) = Range(one) \cup Range(list)
  BY <1>2, <1>3, JoinLemma
<1> QED BY <1>2, <1>4 DEF one

\* The last request that runs is preempted, for the one at hand or being it.
LEMMA PreemptStep ==
  ASSUME IInv, PreemptFor
  PROVE  IInv'
<1>p. PICK r, v : r = running[plan.idx] /\ v = Last(running)
  OBVIOUS
<1>1. /\ pc = "running" /\ pc' = (IF v = r THEN "commit" ELSE pc)
      /\ need # NoNeed /\ need' = (IF v = r THEN NoNeed ELSE need)
      /\ step = NoStep /\ InRunningLoop
      /\ running' = Front(running)
      /\ req' = [req EXCEPT ![v] = Preempted(@)]
      /\ enc' = ReleasedAll(enc, v, req[v].feats)
      /\ waiting' = <<v>> \o waiting
      /\ plan' = [plan EXCEPT !.preempted = TRUE]
      /\ UNCHANGED <<sent, skipped, numWaitingForStreamingInput, workerVars>>
  BY <1>p DEF IInv, PreemptFor, InRunningLoop, Steps
<1>2. plan.idx \in 1 .. Len(running) /\ r \in Range(running) /\ r \in Req
  BY <1>p, <1>1, AtHand DEF IInv
<1>3. /\ running \in Seq(Req) /\ waiting \in Seq(Req) /\ Len(running) \in Nat
      /\ IsInjective(running) /\ IsInjective(waiting)
  BY DEF IInv, TypeOK, Queues
<1>4. /\ running' \in Seq(Req) /\ Len(running') = Len(running) - 1
      /\ IsInjective(running') /\ Range(running') = Range(running) \ {v}
      /\ \A i \in 1 .. Len(running) - 1 : running'[i] = running[i]
      /\ v = running[Len(running)]
  BY <1>p, <1>1, <1>2, <1>3, FrontLemma
<1>5. v \in Range(running) /\ v \in Req /\ v \in Live /\ req[v].status = "RUNNING"
  <2>1. Len(running) \in 1 .. Len(running)
    BY <1>2, <1>3
  <2>2. v \in Range(running)
    BY <1>3, <1>4, <2>1, ListLemma
  <2> QED BY <2>2, RunningLemma DEF IInv
<1>6. v \notin Range(plan.order)
  <2>1. Len(running) \in 1 .. Len(running) /\ Len(running) >= plan.idx
    BY <1>2, <1>3
  <2>2. TypeOK /\ Queues /\ Plans
    BY DEF IInv
  <2> QED BY <1>1, <1>4, <2>1, <2>2, AtHandNotPlanned
<1>7. /\ v \notin Range(waiting) /\ v \notin Range(skipped) /\ v \notin Range(plan.stepSkipped)
  BY <1>5 DEF IInv, Queues
<1>8. /\ waiting' \in Seq(Req) /\ IsInjective(waiting')
      /\ Range(waiting') = Range(waiting) \cup {v}
  BY <1>1, <1>3, <1>5, <1>7, PrependLemma
<1>9. /\ plan' \in Planning /\ plan'.order = plan.order /\ plan'.new = plan.new
      /\ plan'.n = plan.n /\ plan'.drafts = plan.drafts /\ plan'.inputs = plan.inputs
      /\ plan'.stepSkipped = plan.stepSkipped /\ plan'.idx = plan.idx
      /\ plan'.budget = plan.budget
  BY <1>1 DEF IInv, TypeOK, Planning
<1>10. /\ req' \in [Req -> Request] /\ Live' = Live
       /\ \A q \in Req : q # v => req'[q] = req[q]
       /\ req'[v].feats = req[v].feats /\ req'[v].toks = req[v].toks
       /\ req'[v].queue = req[v].queue /\ req'[v].status = "PREEMPTED"
       /\ req'[v].spec = 0 /\ req'[v].computed = 0
  <2>1. req \in [Req -> Request] /\ req[v] \in Request
    BY <1>5 DEF IInv, TypeOK
  <2> DEFINE new == Preempted(req[v])
  <2>2. /\ new \in Request /\ new.feats = req[v].feats /\ new.toks = req[v].toks
        /\ new.queue = req[v].queue /\ new.status = "PREEMPTED"
        /\ new.spec = 0 /\ new.computed = 0
    <3>1. new = [req[v] EXCEPT !.status = "PREEMPTED", !.computed = 0, !.spec = 0, !.alloc = 0]
      BY DEF Preempted
    <3>2. "PREEMPTED" \in Statuses /\ 0 \in Nat /\ 0 \in Int
      BY DEF Statuses
    <3> HIDE DEF new
    <3> QED BY <2>1, <3>1, <3>2 DEF Request
  <2>3. req' = [req EXCEPT ![v] = new]
    BY <1>1, <1>5, <2>1
  <2> HIDE DEF new
  <2>4. \A q \in Req : req'[q] = IF q = v THEN new ELSE req[q]
    BY <2>1, <2>3
  <2>5. req' \in [Req -> Request]
    BY <1>5, <2>1, <2>2, <2>3
  <2>6. Live' = Live
    BY <1>5, <2>2, <2>4 DEF Live
  <2> QED BY <1>5, <2>2, <2>4, <2>5, <2>6
<1>11. IsReleased(enc, enc', v)
  <2>1. enc \in EncoderCache /\ CacheOK(enc) /\ req[v].feats \in Seq(Feature)
    BY <1>5, FieldsLemma DEF IInv, TypeOK
  <2> QED BY <1>1, <1>5, <2>1, ReleasedLemma DEF ReleasedAll
<1>12. /\ enc' \in EncoderCache /\ CacheOK(enc') /\ KeepsOthers(enc, enc', v)
       /\ enc'.cached = enc.cached /\ enc'.freed = enc.freed
  BY <1>11 DEF IsReleased, KeepsOthers
<1>13. TypeOK'
  <2>1. need' \in Needing
    BY <1>1, EmptyLemma DEF IInv, TypeOK
  <2>2. pc' \in {"idle", "running", "waiting", "commit", "worker", "gather", "update"}
    BY <1>1
  <2> QED BY <1>1, <1>4, <1>8, <1>9, <1>10, <1>12, <2>1, <2>2 DEF IInv, TypeOK, workerVars
<1>14. Queues'
  <2>1. \A q \in Range(running) \cup Range(waiting) \cup Range(skipped) \cup Range(plan.stepSkipped) : q \in Req
    BY ListLemma DEF IInv, TypeOK, Planning
  <2> QED BY <1>1, <1>4, <1>7, <1>8, <1>9, <1>10, <2>1 DEF IInv, Queues
<1>15. Plans'
  <2>1. Consistent(plan') /\ Range(plan'.order) \subseteq Range(running')
    BY <1>4, <1>6, <1>9 DEF IInv, Plans, Consistent
  <2>2. \A q \in Range(plan'.order) :
          \E i \in 1 .. Len(running') : i < plan'.idx /\ running'[i] = q
    <3> TAKE q \in Range(plan'.order)
    <3>1. PICK i \in 1 .. Len(running) : i < plan.idx /\ running[i] = q
      BY <1>1, <1>9 DEF IInv, Plans
    <3>2. i \in 1 .. Len(running) - 1
      BY <1>2, <1>3, <3>1
    <3>3. i \in 1 .. Len(running') /\ running'[i] = q /\ i < plan'.idx
      BY <1>4, <1>9, <3>1, <3>2
    <3> QED BY <3>3
  <2>3. need' # NoNeed => InRunningLoop' /\ need'.n > 0
    <3> SUFFICES ASSUME need' # NoNeed PROVE InRunningLoop' /\ need'.n > 0
      OBVIOUS
    <3>1. v # r /\ need' = need /\ pc' = pc
      BY <1>1
    <3>2. plan.idx # Len(running)
      BY <1>p, <1>4, <3>1
    <3>3. plan'.idx <= Len(running')
      BY <1>2, <1>3, <1>4, <1>9, <3>2
    <3> QED BY <1>1, <1>9, <3>1, <3>3 DEF IInv, Plans, InRunningLoop
  <2> QED BY <1>1, <1>9, <2>1, <2>2, <2>3 DEF IInv, Plans, InSchedule
<1>16. Steps'
  BY <1>1, EmptyLemma DEF IInv, Steps, InWorker, workerVars
<1>17. Requests'
  <2>1. ASSUME NEW q \in Live PROVE RequestOK(q)'
    <3>1. q \in Req /\ RequestOK(q)
      BY DEF IInv, Requests, Live
    <3>2. InputsKnown(q)'
      <4>1. plan.new = {}
        BY <1>1 DEF IInv, Plans
      <4>2. InputsKnown(q)
        BY <3>1 DEF RequestOK
      <4>3. CASE q # v
        BY <1>1, <1>9, <1>10, <3>1, <4>1, <4>2, <4>3 DEF InputsKnown, workerVars
      <4>4. CASE q = v
        BY <1>1, <1>5, <1>9, <1>10, <4>1, <4>2, <4>4 DEF InputsKnown, workerVars
      <4> QED BY <4>3, <4>4
    <3>3. CASE q # v
      BY <1>1, <1>9, <1>10, <3>1, <3>2, <3>3, RequestKept DEF workerVars
    <3>4. CASE q = v
      <4>1. /\ req[q].computed \in 0 .. NumTokens(q) - 1 /\ NumTokens(q) \in Nat
        BY <1>1, <3>1, BetweenSteps, FieldsLemma DEF IInv, TypeOK
      <4>2. Pending(q)' = 0 /\ Behind(q)' = 0 /\ NumTokens(q)' = NumTokens(q)
        BY <1>1, <1>10, <3>4, EmptyLemma DEF Pending, Behind, NumTokens, workerVars
      <4>3. Behind(q)' \in 0 .. NumTokens(q)' - 1
        BY <4>1, <4>2
      <4>4. Range(step'.order) = {} /\ NumDrafts \in Nat
        BY <1>1, EmptyLemma, ConstantsAssumption DEF workerVars
      <4>5. Numbers(q)'
        BY <1>6, <1>9, <1>10, <3>4, <4>3, <4>4 DEF Numbers
      <4>6. KvOK(q)'
        BY <4>2, <4>4 DEF KvOK
      <4>7. InputsPlaced(q, req[q])'
        BY <1>10, <3>1, <3>4 DEF RequestOK, InputsPlaced
      <4> QED BY <1>10, <3>2, <3>4, <4>5, <4>6, <4>7 DEF RequestOK
    <3> QED BY <3>3, <3>4
  <2>2. \A q \in Req : req'[q].status = "ABSENT" => req[q].status = "ABSENT"
    BY <1>10
  <2> QED BY <1>1, <1>10, <2>1, <2>2 DEF IInv, Requests
<1>18. CacheOK(enc)'
  BY <1>12
<1>19. GpuFollows'
  <2>1. HashesOf(plan.inputs)' = HashesOf(plan.inputs)
    <3>1. \A q \in Req : req'[q].feats = req[q].feats
      BY <1>10
    <3> QED BY <1>9, <3>1 DEF HashesOf
  <2> QED BY <1>1, <1>12, <2>1 DEF IInv, GpuFollows, InSchedule, workerVars
<1>20. InputsHeld'
  <2>1. ASSUME NEW q \in Range(plan.order)
        PROVE  /\ Held(enc', q, req[q].feats, req[q].computed, plan.n[q], plan.inputs[q])
               /\ req'[q] = req[q]
    <3>1. q \in Req /\ q # v
      BY <1>6, RunningLemma DEF IInv, Plans
    <3>2. Held(enc, q, req[q].feats, req[q].computed, plan.n[q], plan.inputs[q])
      BY DEF IInv, InputsHeld
    <3>3. req[q].feats \in Seq(Feature)
      BY <3>1, FieldsLemma DEF IInv, TypeOK
    <3> QED BY <1>10, <1>12, <3>1, <3>2, <3>3, HeldBesides
  <2> QED BY <1>1, <1>9, <2>1 DEF InputsHeld, InWorker
<1>21. NeedHeld'
  <2> SUFFICES ASSUME need' # NoNeed
               PROVE  NeedFits(enc', r, req[r]) /\ need' = need /\ req'[r] = req[r]
                      /\ running'[plan'.idx] = r
    BY DEF NeedHeld, NeedFits
  <2>1. v # r /\ need' = need
    BY <1>1
  <2>2. plan.idx # Len(running)
    BY <1>p, <1>4, <2>1
  <2>3. plan.idx \in 1 .. Len(running) - 1
    BY <1>2, <1>3, <2>2
  <2>4. running'[plan'.idx] = r
    BY <1>p, <1>4, <1>9, <2>3
  <2>5. NeedFits(enc, r, req[r])
    BY <1>p, <1>1 DEF IInv, NeedHeld
  <2>6. \A i \in Touched(req[r].feats, req[r].computed, need.n) : req[r].feats[i].hash \in Hash
    BY <1>2, FeatureLemma DEF Touched, IInv, TypeOK
  <2>7. NeedFits(enc', r, req[r])
    BY <1>2, <1>12, <2>1, <2>5, <2>6 DEF NeedFits, KeepsOthers
  <2> QED BY <1>2, <1>10, <2>1, <2>4, <2>7
<1> QED BY <1>13, <1>14, <1>15, <1>16, <1>17, <1>18, <1>19, <1>20, <1>21 DEF IInv

-----------------------------------------------------------------------------
(* The steps of the WAITING loop.                                          *)

\* The head of the queues is in one of them.
LEMMA HeadLemma ==
  ASSUME TypeOK, Queues, Looking
  PROVE  /\ HeadRequest \in Req /\ HeadRequest \in Live
         /\ HeadRequest \in Range(skipped) \cup Range(waiting)
         /\ HeadRequest \notin Range(running)
<1> DEFINE w == skipped \o waiting
<1>1. w \in Seq(Req) /\ Range(w) = Range(skipped) \cup Range(waiting)
  <2>1. /\ skipped \in Seq(Req) /\ waiting \in Seq(Req)
        /\ IsInjective(skipped) /\ IsInjective(waiting)
    BY DEF TypeOK, Queues
  <2>2. Range(skipped) \cap Range(waiting) = {}
    BY DEF Queues
  <2> QED BY <2>1, <2>2, JoinLemma
<1>2. w # <<>> /\ HeadRequest = Head(w)
  BY DEF Looking, HeadRequest
<1> HIDE DEF w
<1>3. Head(w) = w[1] /\ 1 \in 1 .. Len(w)
  BY <1>1, <1>2
<1>4. Head(w) \in Range(w) /\ Head(w) \in Req
  BY <1>1, <1>3, ListLemma
<1>5. HeadRequest \in Range(skipped) \cup Range(waiting)
  BY <1>1, <1>2, <1>4
<1>6. req[HeadRequest].status \in {"WAITING", "PREEMPTED", "WAITING_FOR_STREAMING_REQ"}
  BY <1>5 DEF Queues
<1> QED BY <1>2, <1>4, <1>5, <1>6 DEF Live, Queues

\* From where a request that waits may go on, and how far.
IsTrying(r, c, n, try) ==
  /\ c \in Nat /\ c < NumTokens(r)
  /\ \A i \in 1 .. c : i \in DOMAIN kv[r] /\ kv[r][i] = req[r].toks[i]
  /\ n \in Nat /\ n <= NumTokens(r) - c
  /\ TryOK(try, r, c, n, Len(req[r].feats))

\* The head of the queues, from where it may go on.
LEMMA HitsLemma ==
  ASSUME IInv, Looking, NEW r, r = HeadRequest, NEW c \in Hits(r), step = NoStep,
         NEW n, n = Lesser(NumTokens(r) - c, plan.budget), NEW try, try = TryWaiting(r, c)
  PROVE  IsTrying(r, c, n, try)
<1>1. r \in Req /\ r \in Live
  BY HeadLemma DEF IInv
<1>2. /\ NumTokens(r) \in Nat /\ req[r].computed \in Nat /\ req[r].computed \in 0 .. NumTokens(r) - 1
      /\ NumTokens(r) = Len(req[r].toks) /\ req[r].toks \in Seq(Token) /\ kv[r] \in Seq(Token)
      /\ Behind(r) = req[r].computed
  BY <1>1, FieldsLemma, BetweenSteps DEF IInv, TypeOK
<1>3. RequestOK(r)
  BY <1>1 DEF IInv, Requests
<1>4. /\ c \in Nat /\ c < NumTokens(r)
      /\ \A i \in 1 .. c : i \in DOMAIN kv[r] /\ kv[r][i] = req[r].toks[i]
  <2>1. CASE req[r].computed # 0
    <3>1. c = req[r].computed
      BY <2>1 DEF Hits
    <3>2. KvOK(r)
      BY <1>3 DEF RequestOK
    <3> QED BY <1>2, <3>1, <3>2 DEF KvOK
  <2>2. CASE req[r].computed = 0
    <3>1. /\ c \in 0 .. Lesser(NumTokens(r) - 1, Len(kv[r]))
          /\ SubSeq(kv[r], 1, c) = SubSeq(req[r].toks, 1, c)
      BY <2>2 DEF Hits
    <3>2. Len(kv[r]) \in Nat /\ DOMAIN kv[r] = 1 .. Len(kv[r])
      BY <1>2
    <3>3. c \in Nat /\ c <= NumTokens(r) - 1 /\ c <= Len(kv[r])
      BY <1>2, <3>1, <3>2 DEF Lesser
    <3>4. ASSUME NEW i \in 1 .. c PROVE i \in DOMAIN kv[r] /\ kv[r][i] = req[r].toks[i]
      <4>1. SubSeq(kv[r], 1, c)[i] = kv[r][i]
        BY <1>2, <3>3
      <4>2. SubSeq(req[r].toks, 1, c)[i] = req[r].toks[i]
        BY <1>2, <3>3
      <4> QED BY <3>1, <3>2, <3>3, <4>1, <4>2
    <3> QED BY <1>2, <3>3, <3>4
  <2> QED BY <2>1, <2>2
<1>5. n \in Nat /\ n <= NumTokens(r) - c
  <2>1. plan.budget \in Int /\ plan.budget > 0
    BY DEF IInv, TypeOK, Planning, Looking
  <2> QED BY <1>2, <1>4, <2>1 DEF Lesser
<1>6. TryOK(try, r, c, n, Len(req[r].feats))
  <2>1. /\ req \in [Req -> Request] /\ enc \in EncoderCache /\ plan.encBudget \in Int
        /\ CacheOK(enc)
    BY DEF IInv, TypeOK, Planning
  <2>2. InOrder(req[r].feats)
    BY <1>3 DEF RequestOK, InputsPlaced
  <2>3. try = TryScheduleEncoderInputs(r, c, n)
    BY DEF TryWaiting
  <2> QED BY <1>1, <1>4, <1>5, <2>1, <2>2, <2>3, TryLemma
<1> QED BY <1>4, <1>5, <1>6 DEF IsTrying

\* There is room for the inputs that are to be computed.
LEMMA TryFits ==
  ASSUME req \in [Req -> Request], NEW r \in Req, NEW c, NEW n, NEW m, NEW try, TryOK(try, r, c, n, m)
  PROVE  EmbedsOf(try.enc.cached \cup HashesAt(req[r].feats, try.inputs)) <= CacheSize
<1> DEFINE hs == HashesAt(req[r].feats, try.inputs)
           both == try.enc.cached \cup hs
<1>1. /\ try.hashes = hs /\ IsFiniteSet(hs) /\ hs \cap try.enc.cached = {}
      /\ EmbedsOf(try.enc.cached) + EmbedsOf(hs) <= CacheSize
      /\ hs \in SUBSET Hash /\ try.enc \in EncoderCache /\ CacheOK(try.enc)
  BY DEF TryOK, TryCached, Trying
<1> HIDE DEF hs
<1>2. both \in SUBSET Hash /\ IsFiniteSet(both) /\ try.enc.cached \in SUBSET both
      /\ both \ try.enc.cached = hs
  BY <1>1, FS_Union DEF EncoderCache, CacheOK
<1> HIDE DEF both
<1>3. EmbedsOf(both) = EmbedsOf(try.enc.cached) + EmbedsOf(both \ try.enc.cached)
  BY <1>2, EmbedsLemma
<1> QED BY <1>1, <1>2, <1>3 DEF both, hs

\* The worker's cache still follows, with inputs that are to be encoded for it.
LEMMA AllocatedGpu ==
  ASSUME NEW e, NEW f, NEW r, NEW hs, IsAllocated(e, f, r, hs), NEW g, NEW H,
         Follows(g, e.freed, H, e.cached)
  PROVE  Follows(g, f.freed, H \cup hs, f.cached)
BY DEF IsAllocated, Follows

\* A waiting request is scheduled.
LEMMA AdmitStep ==
  ASSUME IInv, Admit
  PROVE  IInv'
<1>p. PICK r : r = HeadRequest
  OBVIOUS
<1>0. /\ pc = "waiting" /\ pc' = pc /\ need = NoNeed /\ need' = need /\ step = NoStep
      /\ Looking /\ Popped
      /\ req[r].status # "WAITING_FOR_STREAMING_REQ"
      /\ running' = Append(running, r)
      /\ UNCHANGED <<sent, numWaitingForStreamingInput, workerVars>>
  BY <1>p DEF IInv, Admit, Looking, Plans, Steps, InRunningLoop
<1>c. PICK c \in Hits(r) :
        LET try == TryWaiting(r, c)
        IN  /\ try.n > 0
            /\ Missing(r, c, try.n) <= FreeSlots
            /\ req' = [req EXCEPT ![r].status = "RUNNING", ![r].computed = c,
                                  ![r].alloc = @ + Missing(r, c, try.n)]
            /\ enc' = Allocated(try.enc, r, try.inputs)
            /\ plan' = [Planned(r, try.n, try.inputs, try.budget) EXCEPT
                          !.new = IF req[r].status = "WAITING" THEN @ \cup {r} ELSE @]
  BY <1>p DEF Admit
<1>q. PICK try, n, m, k :
              /\ try = TryWaiting(r, c) /\ n = Lesser(NumTokens(r) - c, plan.budget)
              /\ m = Missing(r, c, try.n) /\ k = try.n
  OBVIOUS
<1>1. /\ k > 0
      /\ req' = [req EXCEPT ![r].status = "RUNNING", ![r].computed = c, ![r].alloc = @ + m]
      /\ enc' = Allocated(try.enc, r, try.inputs)
      /\ plan' = [Planned(r, k, try.inputs, try.budget) EXCEPT
                    !.new = IF req[r].status = "WAITING" THEN @ \cup {r} ELSE @]
  BY <1>c, <1>q
<1>2. IsTrying(r, c, n, try)
  BY <1>p, <1>0, <1>q, HitsLemma
<1>3. /\ r \in Req /\ r \in Live /\ r \notin Range(running)
      /\ r \in Range(skipped) \cup Range(waiting)
      /\ skipped' \in Seq(Req) /\ waiting' \in Seq(Req)
      /\ IsInjective(skipped') /\ IsInjective(waiting')
      /\ Range(skipped') = Range(skipped) \ {r} /\ Range(waiting') = Range(waiting) \ {r}
  BY <1>p, <1>0, HeadLemma, PoppedLemma DEF IInv
<1>4. /\ c \in Nat /\ c < NumTokens(r) /\ n \in Nat /\ n <= NumTokens(r) - c
      /\ \A i \in 1 .. c : i \in DOMAIN kv[r] /\ kv[r][i] = req[r].toks[i]
      /\ TryOK(try, r, c, n, Len(req[r].feats))
  BY <1>2 DEF IsTrying
<1>5. /\ try \in Trying /\ try.n <= n /\ TryCached(try, r)
      /\ TryCovers(try, r, c, Len(req[r].feats))
  BY <1>4 DEF TryOK
<1>6. /\ k \in Nat /\ k <= n /\ try.inputs \in Seq(Nat) /\ try.budget \in Int
      /\ try.enc \in EncoderCache /\ CacheOK(try.enc) /\ Reworked(enc, try.enc)
  BY <1>q, <1>5 DEF Trying, TryCached
<1>7. /\ req[r] \in Request /\ NumTokens(r) \in Nat /\ req[r].alloc \in Int
      /\ req[r].feats \in Seq(Feature) /\ req[r].status \in {"WAITING", "PREEMPTED"}
      /\ RequestOK(r)
  <2>1. req[r].status \in {"WAITING", "PREEMPTED"}
    BY <1>0, <1>3 DEF IInv, Queues
  <2> QED BY <1>3, <2>1, FieldsLemma DEF IInv, TypeOK, Requests
<1>8. m \in Int
  <2>1. m = Positive(c + k - req[r].alloc)
    BY <1>q DEF Missing
  <2>2. PICK z \in Int : z = c + k - req[r].alloc
    BY <1>4, <1>6, <1>7
  <2> QED BY <2>1, <2>2 DEF Positive
<1>9. r \notin Range(plan.order)
  BY <1>3 DEF IInv, Plans
<1>10. /\ plan' \in Planning /\ plan'.order = Append(plan.order, r)
       /\ plan'.n = [plan.n EXCEPT ![r] = k]
       /\ plan'.inputs = [plan.inputs EXCEPT ![r] = try.inputs]
       /\ plan'.drafts = [plan.drafts EXCEPT ![r] = 0]
       /\ plan'.stepSkipped = plan.stepSkipped
       /\ plan.new \subseteq plan'.new
       /\ req[r].status = "WAITING" => r \in plan'.new
  <2>1. plan \in Planning
    BY DEF IInv, TypeOK
  <2>2. PICK new : new = IF req[r].status = "WAITING" THEN plan.new \cup {r} ELSE plan.new
    OBVIOUS
  <2>3. plan' = [plan EXCEPT !.n[r] = k, !.inputs[r] = try.inputs, !.order = Append(@, r),
                             !.budget = @ - k, !.encBudget = try.budget, !.new = new]
    BY <1>1, <2>1, <2>2 DEF Planned, Planning
  <2>4. /\ plan.budget - k \in Int /\ Append(plan.order, r) \in Seq(Req)
        /\ new \in SUBSET Req /\ plan.new \subseteq new
        /\ req[r].status = "WAITING" => r \in new
    BY <1>3, <1>6, <2>1, <2>2 DEF Planning
  <2>5. plan.drafts[r] = 0
    BY <1>3, <1>9 DEF IInv, Plans, Consistent
  <2>6. plan.drafts = [plan.drafts EXCEPT ![r] = 0]
    BY <2>1, <2>5 DEF Planning
  <2> QED BY <1>3, <1>6, <2>1, <2>3, <2>4, <2>6 DEF Planning
<1>11. IsPlanMore(plan, plan', r, k, try.inputs, 0)
  <2>1. PICK p, o, ins : p = plan /\ o = plan' /\ ins = try.inputs
    OBVIOUS
  <2>2. /\ p \in Planning /\ o \in Planning /\ Consistent(p) /\ r \notin Range(p.order)
        /\ o.order = Append(p.order, r) /\ o.n = [p.n EXCEPT ![r] = k]
        /\ o.inputs = [p.inputs EXCEPT ![r] = ins] /\ o.drafts = [p.drafts EXCEPT ![r] = 0]
    BY <1>9, <1>10, <2>1 DEF IInv, TypeOK, Plans
  <2>3. 0 \in Nat /\ 0 <= NumDrafts
    BY ConstantsAssumption
  <2>4. IsPlanMore(p, o, r, k, ins, 0)
    BY <1>1, <1>3, <1>6, <2>2, <2>3, PlanMore
  <2> QED BY <2>1, <2>4
<1>12. /\ Consistent(plan') /\ Range(plan'.order) = Range(plan.order) \cup {r}
       /\ plan'.n[r] = k /\ plan'.inputs[r] = try.inputs /\ plan'.drafts[r] = 0
       /\ \A q \in Req : q # r => /\ plan'.n[q] = plan.n[q] /\ plan'.inputs[q] = plan.inputs[q]
                                  /\ plan'.drafts[q] = plan.drafts[q]
  BY <1>11 DEF IsPlanMore
<1>13. /\ req' \in [Req -> Request] /\ Live' = Live
       /\ \A q \in Req : q # r => req'[q] = req[q]
       /\ req'[r].feats = req[r].feats /\ req'[r].toks = req[r].toks
       /\ req'[r].queue = req[r].queue /\ req'[r].status = "RUNNING"
       /\ req'[r].spec = req[r].spec /\ req'[r].computed = c
  <2>1. req \in [Req -> Request]
    BY DEF IInv, TypeOK
  <2> DEFINE new == [req[r] EXCEPT !.status = "RUNNING", !.computed = c, !.alloc = @ + m]
  <2>2. /\ new \in Request /\ new.feats = req[r].feats /\ new.toks = req[r].toks
        /\ new.queue = req[r].queue /\ new.status = "RUNNING"
        /\ new.spec = req[r].spec /\ new.computed = c
    <3>1. req[r].alloc + m \in Int /\ "RUNNING" \in Statuses
      BY <1>7, <1>8 DEF Statuses
    <3> QED BY <1>4, <1>7, <3>1 DEF Request
  <2>3. req' = [req EXCEPT ![r] = new]
    BY <1>1, <1>3, <2>1
  <2> HIDE DEF new
  <2>4. \A q \in Req : req'[q] = IF q = r THEN new ELSE req[q]
    BY <2>1, <2>3
  <2>5. req' \in [Req -> Request]
    BY <1>3, <2>1, <2>2, <2>3
  <2>6. Live' = Live
    BY <1>3, <2>2, <2>4 DEF Live
  <2> QED BY <1>3, <2>2, <2>4, <2>5, <2>6
<1> DEFINE hs == HashesAt(req[r].feats, try.inputs)
<1>14. IsAllocated(try.enc, enc', r, hs)
  <2>1. req \in [Req -> Request]
    BY DEF IInv, TypeOK
  <2>2. /\ \A i \in Range(try.inputs) : i \in 1 .. Len(req[r].feats)
        /\ IsFiniteSet(hs)
    BY <1>5 DEF TryCached
  <2>3. EmbedsOf(try.enc.cached \cup hs) <= CacheSize
    BY <1>3, <1>4, <2>1, TryFits
  <2>4. hs = {req[r].feats[i].hash : i \in Range(try.inputs)}
    BY DEF HashesAt
  <2> HIDE DEF hs
  <2>5. PICK e, ins : e = try.enc /\ ins = try.inputs
    OBVIOUS
  <2>6. /\ e \in EncoderCache /\ CacheOK(e) /\ ins \in Seq(Nat)
        /\ \A i \in Range(ins) : i \in 1 .. Len(req[r].feats)
        /\ hs = {req[r].feats[i].hash : i \in Range(ins)}
        /\ EmbedsOf(e.cached \cup hs) <= CacheSize /\ enc' = Allocated(e, r, ins)
    BY <1>1, <1>6, <2>2, <2>3, <2>4, <2>5
  <2>7. IsAllocated(e, enc', r, hs)
    BY <1>3, <2>1, <2>2, <2>6, AllocatedLemma
  <2> QED BY <2>5, <2>7
<1>15. /\ enc' \in EncoderCache /\ CacheOK(enc') /\ RefersTo(enc, enc')
       /\ RefersTo(try.enc, enc') /\ \A h \in hs : r \in enc'.refs[h]
  BY <1>6, <1>14 DEF IsAllocated, RefersTo, Reworked
<1>16. /\ running' \in Seq(Req) /\ IsInjective(running') /\ Range(running') = Range(running) \cup {r}
  BY <1>0, <1>3, AppendLemma DEF IInv, TypeOK, Queues
<1>17. TypeOK'
  BY <1>0, <1>3, <1>10, <1>13, <1>15, <1>16 DEF IInv, TypeOK, workerVars
<1>18. Queues'
  <2>1. \A q \in Range(running) \cup Range(waiting) \cup Range(skipped) \cup Range(plan.stepSkipped) : q \in Req
    BY ListLemma DEF IInv, TypeOK, Planning
  <2>2. r \notin Range(plan.stepSkipped)
    BY <1>3 DEF IInv, Queues
  <2>3. /\ IsInjective(plan'.stepSkipped)
        /\ Range(waiting') \cap Range(skipped') = {}
        /\ Range(waiting') \cap Range(plan'.stepSkipped) = {}
        /\ Range(skipped') \cap Range(plan'.stepSkipped) = {}
    <3>1. /\ IsInjective(plan.stepSkipped)
          /\ Range(waiting) \cap Range(skipped) = {}
          /\ Range(waiting) \cap Range(plan.stepSkipped) = {}
          /\ Range(skipped) \cap Range(plan.stepSkipped) = {}
      BY DEF IInv, Queues
    <3> QED BY <1>3, <1>10, <3>1
  <2>4. \A q \in Range(running') : req'[q].status = "RUNNING"
    <3>1. \A q \in Range(running) : req[q].status = "RUNNING"
      BY DEF IInv, Queues
    <3> QED BY <1>13, <1>16, <2>1, <3>1
  <2>5. \A q \in Range(waiting') : req'[q].status \in {"WAITING", "PREEMPTED"}
    <3>1. \A q \in Range(waiting) : req[q].status \in {"WAITING", "PREEMPTED"}
      BY DEF IInv, Queues
    <3> QED BY <1>3, <1>13, <2>1, <3>1
  <2>6. \A q \in Range(skipped') \cup Range(plan'.stepSkipped) :
          req'[q].status \in {"WAITING", "PREEMPTED", "WAITING_FOR_STREAMING_REQ"}
    <3>1. \A q \in Range(skipped) \cup Range(plan.stepSkipped) :
            req[q].status \in {"WAITING", "PREEMPTED", "WAITING_FOR_STREAMING_REQ"}
      BY DEF IInv, Queues
    <3>2. ASSUME NEW q \in Range(skipped') \cup Range(plan'.stepSkipped)
          PROVE  q \in Range(skipped) \cup Range(plan.stepSkipped) /\ q # r /\ q \in Req
      BY <1>3, <1>10, <2>1, <2>2
    <3> QED BY <1>13, <3>1, <3>2
  <2> QED BY <1>3, <1>16, <2>3, <2>4, <2>5, <2>6 DEF Queues
<1>19. Plans'
  <2>1. Range(plan'.order) \subseteq Range(running')
    BY <1>12, <1>16 DEF IInv, Plans
  <2> QED BY <1>0, <1>12, <2>1 DEF Plans, InSchedule
<1>20. Steps'
  BY <1>0, <1>16 DEF IInv, Steps, InWorker, workerVars
<1>21. Requests'
  <2>1. ASSUME NEW q \in Live PROVE RequestOK(q)'
    <3>1. q \in Req /\ RequestOK(q)
      BY DEF IInv, Requests, Live
    <3>2. CASE q # r
      <4>1. InputsKnown(q)'
        BY <1>0, <1>10, <1>13, <3>1, <3>2, KnownKept DEF RequestOK, workerVars
      <4> QED BY <1>0, <1>12, <1>13, <3>1, <3>2, <4>1, RequestKept DEF workerVars
    <3>3. CASE q = r
      <4>1. InputsKnown(q)'
        BY <1>0, <1>7, <1>10, <1>13, <3>3 DEF RequestOK, InputsKnown, workerVars
      <4>2. Pending(q)' = 0 /\ Behind(q)' = c /\ NumTokens(q)' = NumTokens(q)
        BY <1>0, <1>4, <1>13, <3>3, EmptyLemma DEF Pending, Behind, NumTokens, workerVars
      <4>3. Behind(q)' \in 0 .. NumTokens(q)' - 1
        BY <1>4, <1>7, <3>3, <4>2
      <4>4. Range(step'.order) = {}
        BY <1>0, EmptyLemma DEF workerVars
      <4>5. 0 = Positive(c + k - NumTokens(r))
        BY <1>4, <1>6, <1>7 DEF Positive
      <4>6. Numbers(q)'
        BY <1>7, <1>12, <1>13, <3>3, <4>2, <4>3, <4>4, <4>5 DEF RequestOK, Numbers
      <4>7. KvOK(q)'
        BY <1>0, <1>4, <1>13, <3>3, <4>2, <4>4 DEF KvOK, workerVars
      <4>8. InputsPlaced(q, req[q])'
        BY <1>7, <1>13, <3>3 DEF RequestOK, InputsPlaced
      <4> QED BY <1>13, <3>3, <4>1, <4>6, <4>7, <4>8 DEF RequestOK
    <3> QED BY <3>2, <3>3
  <2>2. \A q \in Req : req'[q].status = "ABSENT" => req[q].status = "ABSENT"
    BY <1>13
  <2> QED BY <1>0, <1>13, <2>1, <2>2 DEF IInv, Requests
<1>22. CacheOK(enc)'
  BY <1>15
<1>23. GpuFollows'
  <2>1. plan.inputs[r] = <<>>
    BY <1>3, <1>9 DEF IInv, Plans, Consistent
  <2>2. HashesOf(plan.inputs)' = HashesOf(plan.inputs) \cup hs
    <3>1. \A q \in Req : req'[q].feats = req[q].feats
      BY <1>13
    <3> QED BY <1>3, <1>12, <2>1, <3>1, HashesMore
  <2> HIDE DEF hs
  <2>3. Follows(gpu, enc.freed, HashesOf(plan.inputs), enc.cached) /\ enc \in EncoderCache
    BY <1>0 DEF IInv, GpuFollows, TypeOK
  <2>4. InUse(enc, HashesOf(plan.inputs))
    BY PlannedReferred DEF IInv
  <2>5. Follows(gpu, try.enc.freed, HashesOf(plan.inputs), try.enc.cached)
    BY <1>6, <2>3, <2>4, ReworkedGpu
  <2>6. Follows(gpu, enc'.freed, HashesOf(plan.inputs) \cup hs, enc'.cached)
    BY <1>14, <2>5, AllocatedGpu
  <2> QED BY <1>0, <2>2, <2>6 DEF GpuFollows, InSchedule, workerVars
<1>24. InputsHeld'
  <2>1. ASSUME NEW q \in Range(plan'.order)
        PROVE  Held(enc', q, req'[q].feats, req'[q].computed, plan'.n[q], plan'.inputs[q])
    <3>1. CASE q # r
      <4>1. q \in Range(plan.order) /\ q \in Req
        BY <1>12, <2>1, <3>1, RunningLemma DEF IInv, Plans
      <4>2. Held(enc, q, req[q].feats, req[q].computed, plan.n[q], plan.inputs[q])
        BY <4>1 DEF IInv, InputsHeld
      <4>3. req[q].feats \in Seq(Feature)
        BY <4>1, FieldsLemma DEF IInv, TypeOK
      <4>4. Held(enc', q, req[q].feats, req[q].computed, plan.n[q], plan.inputs[q])
        BY <1>15, <4>2, <4>3, HeldKept
      <4> QED BY <1>12, <1>13, <3>1, <4>1, <4>4
    <3>2. CASE q = r
      <4>1. ASSUME NEW i \in Touched(req[r].feats, c, k)
            PROVE  r \in enc'.refs[req[r].feats[i].hash]
        <5>1. i \in 1 .. Len(req[r].feats) /\ i <= Len(req[r].feats)
          BY <1>7 DEF Touched
        <5>2. r \in try.enc.refs[req[r].feats[i].hash] \/ req[r].feats[i].hash \in hs
          BY <1>1, <1>q, <1>5, <5>1 DEF TryCovers, TryCached
        <5>3. req[r].feats[i].hash \in Hash
          BY <1>3, <5>1, FeatureLemma DEF IInv, TypeOK
        <5> HIDE DEF hs
        <5> QED BY <1>15, <5>2, <5>3 DEF RefersTo
      <4>2. ASSUME NEW i \in Range(try.inputs)
            PROVE  i \in 1 .. Len(req[r].feats) /\ r \in enc'.refs[req[r].feats[i].hash]
        <5>1. req[r].feats[i].hash \in hs
          BY DEF HashesAt
        <5> HIDE DEF hs
        <5> QED BY <1>5, <1>15, <5>1 DEF TryCached
      <4>3. Held(enc', r, req[r].feats, c, k, try.inputs)
        BY <4>1, <4>2 DEF Held
      <4> QED BY <1>12, <1>13, <3>2, <4>3
    <3> QED BY <3>1, <3>2
  <2> QED BY <1>0, <2>1 DEF InputsHeld, InWorker
<1>25. NeedHeld'
  BY <1>0 DEF NeedHeld
<1> QED BY <1>17, <1>18, <1>19, <1>20, <1>21, <1>22, <1>23, <1>24, <1>25 DEF IInv

\* The WAITING loop ends, whether or not the head of the queues has been tried.
LEMMA EndWaitingStep ==
  ASSUME IInv, EndWaiting
  PROVE  IInv'
<1>1. /\ pc = "waiting" /\ pc' = "commit" /\ need = NoNeed /\ step = NoStep
      /\ UNCHANGED <<sent, req, queueVars, plan, need, workerVars>>
      /\ enc \in EncoderCache /\ CacheOK(enc)
  BY DEF IInv, TypeOK, EndWaiting, Plans, Steps, InRunningLoop
<1>2. PICK e, h : /\ e \in EncoderCache /\ CacheOK(e) /\ Reworked(enc, e)
                  /\ h \notin Range(running)
                  /\ enc' = e \/ IsReleased(e, enc', h)
  <2>1. CASE ~ Looking /\ enc' = enc
    <3>1. Reworked(enc, enc)
      BY DEF Reworked, RefersTo
    <3>2. \E h : h \notin Range(running)
      <4>1. \E h : h \notin Req
        BY NoSetContainsEverything
      <4>2. Range(running) \subseteq Req
        BY ListLemma DEF IInv, TypeOK
      <4> QED BY <4>1, <4>2
    <3> QED BY <1>1, <2>1, <3>1, <3>2
  <2>2. ASSUME Looking, NEW r, r = HeadRequest, NEW c \in Hits(r), NEW try, try = TryWaiting(r, c),
               enc' = try.enc \/ enc' = ReleasedAll(try.enc, r, req[r].feats)
        PROVE  /\ try.enc \in EncoderCache /\ CacheOK(try.enc) /\ Reworked(enc, try.enc)
               /\ r \notin Range(running)
               /\ enc' = try.enc \/ IsReleased(try.enc, enc', r)
    <3>1. PICK n : n = Lesser(NumTokens(r) - c, plan.budget)
      OBVIOUS
    <3>2. IsTrying(r, c, n, try)
      BY <1>1, <2>2, <3>1, HitsLemma
    <3>3. try.enc \in EncoderCache /\ CacheOK(try.enc) /\ Reworked(enc, try.enc)
      BY <3>2 DEF IsTrying, TryOK, TryCached, Trying
    <3>4. r \in Req /\ r \notin Range(running)
      BY <2>2, HeadLemma DEF IInv
    <3>5. req[r].feats \in Seq(Feature)
      BY <3>4, FieldsLemma DEF IInv, TypeOK
    <3>6. IsReleased(try.enc, ReleasedAll(try.enc, r, req[r].feats), r)
      BY <3>3, <3>4, <3>5, ReleasedLemma DEF ReleasedAll
    <3> QED BY <2>2, <3>3, <3>4, <3>6
  <2>3. CASE ~ (~ Looking /\ enc' = enc)
    <3>1. PICK r : r = HeadRequest
      OBVIOUS
    <3>2. PICK c \in Hits(r) : LET try == TryWaiting(r, c)
                               IN  \/ try.n = 0 /\ enc' = try.enc
                                   \/ /\ try.n > 0
                                      /\ Missing(r, c, try.n) > FreeSlots
                                      /\ enc' = ReleasedAll(try.enc, r, req[r].feats)
      BY <2>3, <3>1 DEF EndWaiting
    <3>3. PICK try : try = TryWaiting(r, c)
      OBVIOUS
    <3>4. Looking /\ (enc' = try.enc \/ enc' = ReleasedAll(try.enc, r, req[r].feats))
      BY <2>3, <3>2, <3>3 DEF EndWaiting
    <3> QED BY <2>2, <3>1, <3>3, <3>4
  <2> QED BY <2>1, <2>3
<1>3. enc' \in EncoderCache /\ CacheOK(enc')
  BY <1>2 DEF IsReleased
<1>4. TypeOK'
  BY <1>1, <1>3 DEF IInv, TypeOK, queueVars, workerVars
<1>5. Queues'
  BY <1>1 DEF IInv, Queues, queueVars, workerVars
<1>6. Plans'
  BY <1>1 DEF IInv, Plans, Consistent, InSchedule, queueVars
<1>7. Steps'
  BY <1>1 DEF IInv, Steps, InWorker, Consistent, queueVars, workerVars
<1>8. Requests'
  <2>1. Live' = Live
    BY <1>1 DEF Live
  <2>2. ASSUME NEW r \in Live PROVE RequestOK(r)'
    <3>1. r \in Req /\ RequestOK(r)
      BY DEF IInv, Requests, Live
    <3>2. InputsKnown(r)'
      BY <1>1, <3>1, KnownKept DEF RequestOK, workerVars
    <3> QED BY <1>1, <3>1, <3>2, RequestKept DEF workerVars
  <2> QED BY <1>1, <2>1, <2>2 DEF IInv, Requests
<1>9. GpuFollows'
  <2>1. HashesOf(plan.inputs)' = HashesOf(plan.inputs)
    BY <1>1 DEF HashesOf
  <2>2. Follows(gpu, enc.freed, HashesOf(plan.inputs), enc.cached)
    BY <1>1 DEF IInv, GpuFollows
  <2>3. InUse(enc, HashesOf(plan.inputs))
    BY PlannedReferred DEF IInv
  <2>4. Follows(gpu, e.freed, HashesOf(plan.inputs), e.cached)
    BY <1>1, <1>2, <2>2, <2>3, ReworkedGpu
  <2>5. enc'.freed = e.freed /\ enc'.cached = e.cached
    BY <1>2 DEF IsReleased, KeepsOthers
  <2> QED BY <1>1, <2>1, <2>4, <2>5 DEF GpuFollows, InSchedule, workerVars
<1>10. InputsHeld'
  <2>1. ASSUME NEW q \in Range(plan.order)
        PROVE  Held(enc', q, req[q].feats, req[q].computed, plan.n[q], plan.inputs[q])
    <3>1. q \in Req /\ q # h
      BY <1>2, RunningLemma DEF IInv, Plans
    <3>2. Held(enc, q, req[q].feats, req[q].computed, plan.n[q], plan.inputs[q])
      BY DEF IInv, InputsHeld
    <3>3. req[q].feats \in Seq(Feature)
      BY <3>1, FieldsLemma DEF IInv, TypeOK
    <3>4. Held(e, q, req[q].feats, req[q].computed, plan.n[q], plan.inputs[q])
      BY <1>2, <3>2, <3>3, HeldKept DEF Reworked
    <3>5. CASE enc' = e
      BY <3>4, <3>5
    <3>6. CASE IsReleased(e, enc', h)
      BY <3>1, <3>3, <3>4, <3>6, HeldBesides DEF IsReleased
    <3> QED BY <1>2, <3>5, <3>6
  <2> QED BY <1>1, <2>1 DEF InputsHeld, InWorker
<1>11. NeedHeld'
  BY <1>1 DEF NeedHeld
<1> QED BY <1>3, <1>4, <1>5, <1>6, <1>7, <1>8, <1>9, <1>10, <1>11 DEF IInv

-----------------------------------------------------------------------------
(* The plan becomes a step, and the worker takes it.                       *)

\* Every request that the plan says nothing of is left alone by it.
LEMMA NotPlanned ==
  ASSUME TypeOK, Plans, NEW r \in Req
  PROVE  /\ plan.n[r] \in Nat /\ plan.drafts[r] \in Nat
         /\ r \notin Range(plan.order) => plan.n[r] = 0
<1>1. plan.n[r] \in Nat /\ plan.drafts[r] \in Nat
  BY DEF TypeOK, Planning
<1> QED BY <1>1 DEF Plans, Consistent

\* The SchedulerOutput is handed over.
LEMMA CommitStep ==
  ASSUME IInv, Commit
  PROVE  IInv'
<1>1. /\ pc = "commit" /\ pc' = "worker" /\ need = NoNeed /\ step = NoStep /\ plan' = NoPlan
      /\ skipped' = plan.stepSkipped \o skipped
      /\ UNCHANGED <<sent, waiting, running, numWaitingForStreamingInput, need, gpu, wfeats, kv>>
      /\ enc' = [enc EXCEPT !.freed = {}] /\ enc \in EncoderCache /\ plan \in Planning
      /\ req' = [r \in Req |-> [req[r] EXCEPT !.computed = @ + plan.n[r]]]
  BY DEF IInv, TypeOK, Commit, Plans, Steps, InRunningLoop
<1>2. /\ step'.n = plan.n /\ step'.drafts = plan.drafts /\ step'.inputs = plan.inputs
      /\ step'.order = plan.order /\ step'.new = plan.new /\ step'.freed = enc.freed
      /\ step' \in Stepping
  <2>1. step' = [n |-> plan.n, drafts |-> plan.drafts, inputs |-> plan.inputs,
                 order |-> plan.order, new |-> plan.new, freed |-> enc.freed]
    BY DEF Commit
  <2> QED BY <1>1, <2>1 DEF Planning, Stepping, EncoderCache
<1>3. /\ enc'.cached = enc.cached /\ enc'.refs = enc.refs /\ enc'.freeable = enc.freeable
      /\ enc'.freed = {} /\ enc' \in EncoderCache
  BY <1>1 DEF EncoderCache
<1>4. ASSUME NEW r \in Req
      PROVE  /\ req'[r] \in Request
             /\ req'[r].status = req[r].status /\ req'[r].toks = req[r].toks
             /\ req'[r].spec = req[r].spec /\ req'[r].feats = req[r].feats
             /\ req'[r].queue = req[r].queue
             /\ req'[r].computed = req[r].computed + plan.n[r]
  <2>1. /\ req[r] \in Request /\ req[r].computed \in Nat /\ plan.n[r] \in Nat
    BY FieldsLemma, NotPlanned DEF IInv, TypeOK
  <2>2. req'[r] = [req[r] EXCEPT !.computed = @ + plan.n[r]]
    BY <1>1
  <2>3. PICK x \in Nat : x = req[r].computed + plan.n[r]
    BY <2>1
  <2> QED BY <2>1, <2>2, <2>3 DEF Request
<1>5. req' \in [Req -> Request] /\ Live' = Live
  BY <1>1, <1>4 DEF Live
<1>6. /\ skipped' \in Seq(Req) /\ IsInjective(skipped')
      /\ Range(skipped') = Range(plan.stepSkipped) \cup Range(skipped)
  <2>1. /\ skipped \in Seq(Req) /\ plan.stepSkipped \in Seq(Req)
        /\ IsInjective(skipped) /\ IsInjective(plan.stepSkipped)
    BY DEF IInv, TypeOK, Queues, Planning
  <2>2. Range(plan.stepSkipped) \cap Range(skipped) = {}
    BY DEF IInv, Queues
  <2> QED BY <1>1, <2>1, <2>2, JoinLemma
<1>7. TypeOK'
  BY <1>1, <1>2, <1>3, <1>5, <1>6, EmptyLemma DEF IInv, TypeOK
<1>8. Queues'
  <2>1. \A q \in Range(running) \cup Range(waiting) \cup Range(skipped) \cup Range(plan.stepSkipped) :
          q \in Req
    BY ListLemma DEF IInv, TypeOK, Planning
  <2>2. \A q \in Req : req'[q].status = req[q].status
    BY <1>4
  <2>3. Range(plan'.stepSkipped) = {} /\ IsInjective(plan'.stepSkipped)
    BY <1>1, EmptyLemma
  <2> QED BY <1>1, <1>6, <2>1, <2>2, <2>3 DEF IInv, Queues
<1>9. Consistent(NoPlan)
  BY EmptyLemma, ConstantsAssumption DEF Consistent
<1>10. Plans'
  BY <1>1, <1>9, EmptyLemma DEF Plans
<1>11. Steps'
  <2>1. Consistent(plan) /\ Range(plan.order) \subseteq Range(running)
    BY DEF IInv, Plans
  <2>2. Consistent(step')
    BY <1>2, <2>1 DEF Consistent
  <2> QED BY <1>1, <1>2, <2>1, <2>2 DEF Steps, Consistent
<1>12. ASSUME NEW r \in Live
       PROVE  Behind(r)' = req[r].computed /\ NumTokens(r)' = NumTokens(r) /\ Behind(r) = req[r].computed
  <2>1. r \in Req /\ Behind(r) = req[r].computed
    BY <1>1, BetweenSteps DEF IInv, Live
  <2>2. Pending(r)' = plan.n[r]
    BY <1>2, <2>1, NotPlanned DEF IInv, Pending
  <2>3. req[r].computed \in Nat /\ plan.n[r] \in Nat
    BY <2>1, FieldsLemma, NotPlanned DEF IInv, TypeOK
  <2> QED BY <1>4, <2>1, <2>2, <2>3 DEF Behind, NumTokens
<1>13. Requests'
  <2>1. ASSUME NEW r \in Live PROVE RequestOK(r)'
    <3>1. r \in Req /\ RequestOK(r)
      BY DEF IInv, Requests, Live
    <3>2. Numbers(r)'
      <4>1. /\ Behind(r) \in 0 .. NumTokens(r) - 1 /\ req[r].spec <= NumDrafts
            /\ r \in Range(plan.order) =>
                 plan.drafts[r] = Positive(req[r].computed + plan.n[r] - NumTokens(r))
        BY <3>1 DEF RequestOK, Numbers
      <4>2. r \notin Range(plan'.order)
        BY <1>1, EmptyLemma
      <4>3. r \in Range(step'.order) => step'.drafts[r] = Positive(req'[r].computed - NumTokens(r)')
        <5>1. req'[r].computed = req[r].computed + plan.n[r]
          BY <1>4, <3>1
        <5>2. NumTokens(r)' = NumTokens(r)
          BY <1>12
        <5>3. step'.drafts[r] = plan.drafts[r] /\ (r \in Range(step'.order) <=> r \in Range(plan.order))
          BY <1>2
        <5>4. PICK c, n, y : c = req[r].computed /\ n = plan.n[r] /\ y = NumTokens(r)
          OBVIOUS
        <5>5. c \in Nat /\ n \in Nat /\ y \in Nat
          BY <3>1, <5>4, FieldsLemma, NotPlanned DEF IInv, TypeOK
        <5>6. PICK x \in Int : x = c + n - y
          BY <5>5
        <5>7. req'[r].computed - NumTokens(r)' = x
          BY <5>1, <5>2, <5>4, <5>5, <5>6
        <5>8. r \in Range(plan.order) => plan.drafts[r] = Positive(x)
          BY <4>1, <5>4, <5>6
        <5> QED BY <5>3, <5>7, <5>8
      <4> QED BY <1>4, <1>12, <3>1, <4>1, <4>2, <4>3 DEF Numbers
    <3>3. KvOK(r)'
      <4>1. \A i \in 1 .. Behind(r) : i \in DOMAIN kv[r] /\ kv[r][i] = req[r].toks[i]
        BY <3>1 DEF RequestOK, KvOK
      <4> QED BY <1>1, <1>4, <1>12, <3>1, <4>1 DEF KvOK
    <3>4. InputsPlaced(r, req[r])'
      BY <1>4, <3>1 DEF RequestOK, InputsPlaced
    <3>5. InputsKnown(r)'
      BY <1>1, <1>2, <1>4, <3>1, EmptyLemma DEF RequestOK, InputsKnown
    <3>6. ASSUME req'[r].status = "WAITING_FOR_STREAMING_REQ"
          PROVE  EndBy(req'[r].feats, req'[r].computed)
      <4>1. req[r].status = "WAITING_FOR_STREAMING_REQ"
        BY <1>4, <3>1, <3>6
      <4>2. r \notin Range(running)
        BY <4>1 DEF IInv, Queues
      <4>3. plan.n[r] = 0
        BY <3>1, <4>2, NotPlanned DEF IInv, Plans
      <4>4. req'[r].computed = req[r].computed
        BY <1>4, <3>1, <4>3, FieldsLemma DEF IInv, TypeOK
      <4> QED BY <1>4, <3>1, <4>1, <4>4 DEF RequestOK
    <3> QED BY <3>2, <3>3, <3>4, <3>5, <3>6 DEF RequestOK
  <2> QED BY <1>1, <1>4, <1>5, <2>1 DEF IInv, Requests
<1>14. CacheOK(enc)'
  BY <1>3 DEF IInv, CacheOK
<1>15. GpuFollows'
  <2>1. Follows(gpu, enc.freed, HashesOf(plan.inputs), enc.cached)
    BY <1>1 DEF IInv, GpuFollows
  <2>2. HashesOf(step.inputs)' = HashesOf(plan.inputs)
    BY <1>2, <1>4 DEF HashesOf
  <2> QED BY <1>1, <1>2, <1>3, <2>1, <2>2 DEF GpuFollows
<1>16. InputsHeld'
  <2>1. ASSUME NEW r \in Range(plan.order)
        PROVE  Held(enc', r, req'[r].feats, Behind(r)', plan.n[r], plan.inputs[r])
    <3>1. r \in Live /\ r \in Req
      BY RunningLemma DEF IInv, Plans
    <3>2. Held(enc, r, req[r].feats, req[r].computed, plan.n[r], plan.inputs[r])
      BY DEF IInv, InputsHeld
    <3> QED BY <1>3, <1>4, <1>12, <3>1, <3>2 DEF Held
  <2>2. Range(plan'.order) = {}
    BY <1>1, EmptyLemma
  <2> QED BY <1>2, <2>1, <2>2 DEF InputsHeld
<1>17. NeedHeld'
  BY <1>1 DEF NeedHeld
<1> QED BY <1>7, <1>8, <1>10, <1>11, <1>13, <1>14, <1>15, <1>16, <1>17 DEF IInv

\* What the worker is told of a request, it has; and so it encodes what the step says.
LEMMA UpdateStatesStep ==
  ASSUME IInv, UpdateStates
  PROVE  IInv'
<1>1. /\ pc = "worker" /\ pc' = "gather"
      /\ UNCHANGED <<sent, req, queueVars, enc, plan, need, step, kv>>
      /\ wfeats' = [r \in Req |-> IF r \in step.new THEN FeaturesSent(r) ELSE wfeats[r]]
      /\ plan = NoPlan /\ need = NoNeed /\ enc.freed = {} /\ Consistent(step)
      /\ Range(step.order) \subseteq Range(running)
  BY DEF IInv, UpdateStates, Plans, Steps, GpuFollows, InSchedule, InWorker, InRunningLoop
<1>2. wfeats' \in [Req -> Seq(Feature)]
  <2>1. \A r \in Req : req[r].feats \in Seq(Feature)
    BY FieldsLemma DEF IInv, TypeOK
  <2>2. wfeats \in [Req -> Seq(Feature)]
    BY DEF IInv, TypeOK
  <2> QED BY <1>1, <2>1, <2>2 DEF FeaturesSent
<1>3. ASSUME NEW r \in Live, req[r].status \in {"RUNNING", "PREEMPTED"}
      PROVE  wfeats'[r] = req[r].feats
  <2>1. r \in Req /\ InputsKnown(r)
    BY DEF IInv, Requests, RequestOK, Live
  <2>2. r \notin plan.new
    BY <1>1, EmptyLemma
  <2> QED BY <1>1, <1>3, <2>1, <2>2 DEF InputsKnown, FeaturesSent
<1>4. ASSUME NEW r \in Req, NEW i \in Range(step.inputs[r])
      PROVE  wfeats'[r] = req[r].feats
  <2>1. r \in Range(step.order)
    BY <1>1, EmptyLemma DEF Consistent
  <2>2. r \in Live /\ req[r].status = "RUNNING"
    BY <1>1, <2>1, RunningLemma DEF IInv
  <2> QED BY <1>3, <2>2
<1> DEFINE entries == UNION {{r} \X Range(step.inputs[r]) : r \in Req}
           hashes == {wfeats'[x[1]][x[2]].hash : x \in entries}
<1>5. gpu' = FreeThenEncode(hashes)
  BY DEF UpdateStates
<1>6. hashes = HashesOf(step.inputs)
  <2>1. ASSUME NEW h \in hashes PROVE h \in HashesOf(step.inputs)
    <3>1. PICK x \in entries : h = wfeats'[x[1]][x[2]].hash
      OBVIOUS
    <3>2. PICK r \in Req : x \in {r} \X Range(step.inputs[r])
      OBVIOUS
    <3>3. PICK i \in Range(step.inputs[r]) : x = <<r, i>>
      BY <3>2
    <3>4. h = req[r].feats[i].hash
      BY <1>4, <3>1, <3>3
    <3> QED BY <3>4 DEF HashesOf, HashesAt
  <2>2. ASSUME NEW h \in HashesOf(step.inputs) PROVE h \in hashes
    <3>1. PICK r \in Req : h \in HashesAt(req[r].feats, step.inputs[r])
      BY DEF HashesOf
    <3>2. PICK i \in Range(step.inputs[r]) : h = req[r].feats[i].hash
      BY <3>1 DEF HashesAt
    <3>3. PICK x : x = <<r, i>>
      OBVIOUS
    <3>4. x \in entries /\ x[1] = r /\ x[2] = i
      BY <3>3
    <3>5. h = wfeats'[x[1]][x[2]].hash
      BY <1>4, <3>2, <3>4
    <3> QED BY <3>4, <3>5
  <2> HIDE DEF hashes
  <2> QED BY <2>1, <2>2
<1> HIDE DEF hashes, entries
<1>7. gpu' = enc.cached
  BY <1>1, <1>5, <1>6 DEF IInv, GpuFollows, Follows, FreeThenEncode
<1>8. TypeOK'
  BY <1>1, <1>2, <1>7 DEF IInv, TypeOK, queueVars, EncoderCache
<1>9. Queues'
  BY <1>1 DEF IInv, Queues, queueVars
<1>10. Plans'
  BY <1>1, EmptyLemma DEF IInv, Plans, InSchedule, InRunningLoop, queueVars
<1>11. Steps'
  BY <1>1 DEF IInv, Steps, InWorker, Consistent, queueVars
<1>12. Requests'
  <2>1. Live' = Live
    BY <1>1 DEF Live
  <2>2. ASSUME NEW r \in Live PROVE RequestOK(r)'
    <3>1. r \in Req /\ RequestOK(r)
      BY DEF IInv, Requests, Live
    <3>2. Behind(r)' = Behind(r) /\ NumTokens(r)' = NumTokens(r)
      BY <1>1 DEF Behind, Pending, NumTokens
    <3>3. Numbers(r)' /\ KvOK(r)'
      BY <1>1, <3>1, <3>2 DEF RequestOK, Numbers, KvOK
    <3>4. InputsKnown(r)'
      BY <1>1, <1>3 DEF InputsKnown
    <3> QED BY <1>1, <3>1, <3>3, <3>4 DEF RequestOK, InputsPlaced
  <2> QED BY <1>1, <2>1, <2>2 DEF IInv, Requests
<1>13. CacheOK(enc)'
  BY <1>1 DEF IInv
<1>14. GpuFollows'
  <2>1. HashesOf(plan.inputs)' = {}
    BY <1>1, EmptyLemma DEF HashesOf, HashesAt
  <2> QED BY <1>1, <1>7, <2>1 DEF GpuFollows, Follows
<1>15. InputsHeld'
  <2>1. \A r : Behind(r)' = Behind(r)
    BY <1>1 DEF Behind, Pending
  <2> QED BY <1>1, <2>1 DEF IInv, InputsHeld, InWorker
<1>16. NeedHeld'
  BY <1>1 DEF NeedHeld
<1> QED BY <1>8, <1>9, <1>10, <1>11, <1>12, <1>13, <1>14, <1>15, <1>16 DEF IInv

\* A list that is cut to p members, and more behind them.
IsWritten(S, written, list, p, more) ==
  /\ written \in Seq(S) /\ DOMAIN written = 1 .. p + Len(more)
  /\ \A i \in 1 .. p : written[i] = list[i]
  /\ \A i \in p + 1 .. p + Len(more) : written[i] = more[i - p]

LEMMA WrittenLemma ==
  ASSUME NEW S, NEW list \in Seq(S), NEW p \in Nat, p <= Len(list), NEW more \in Seq(S)
  PROVE  IsWritten(S, SubSeq(list, 1, p) \o more, list, p, more)
<1> DEFINE first == SubSeq(list, 1, p)
<1>1. first \in Seq(S) /\ Len(first) = p /\ \A i \in 1 .. p : first[i] = list[i]
  OBVIOUS
<1> HIDE DEF first
<1>2. /\ first \o more \in Seq(S) /\ Len(first \o more) = p + Len(more) /\ Len(more) \in Nat
      /\ \A i \in 1 .. p : (first \o more)[i] = first[i]
      /\ \A i \in p + 1 .. p + Len(more) : (first \o more)[i] = more[i - p]
  BY SMTT(30), <1>1
<1> QED BY <1>1, <1>2 DEF first, IsWritten

\* The forward pass writes the KV of what is pending.
LEMMA ForwardStep ==
  ASSUME IInv, Forward
  PROVE  IInv'
<1>1. /\ pc = "gather" /\ pc' = "update" /\ plan = NoPlan /\ need = NoNeed /\ Consistent(step)
      /\ UNCHANGED <<sent, req, queueVars, enc, plan, need, step, gpu, wfeats>>
      /\ kv' = [r \in Req |-> IF step.n[r] = 0 THEN kv[r]
                              ELSE SubSeq(kv[r], 1, Start(r)) \o Fed(r)]
      /\ Range(step.order) \subseteq Range(running)
  BY DEF IInv, Forward, Plans, Steps, InSchedule, InWorker, InRunningLoop
<1>2. ASSUME NEW r \in Req, r \in Range(step.order)
      PROVE  /\ step.n[r] \in Nat /\ step.n[r] > 0
             /\ req[r].computed \in Nat /\ NumTokens(r) \in Nat
             /\ Start(r) = Behind(r) /\ Start(r) \in 0 .. NumTokens(r) - 1
             /\ Start(r) + step.n[r] = req[r].computed
             /\ kv[r] \in Seq(Token) /\ req[r].toks \in Seq(Token) /\ NumTokens(r) = Len(req[r].toks)
             /\ Start(r) <= Len(kv[r])
             /\ \A i \in 1 .. Start(r) : kv[r][i] = req[r].toks[i]
  <2>1. /\ step.n[r] \in Nat /\ step.n[r] > 0
        /\ req[r].computed \in Nat /\ NumTokens(r) \in Nat
        /\ kv[r] \in Seq(Token) /\ req[r].toks \in Seq(Token) /\ NumTokens(r) = Len(req[r].toks)
    BY <1>1, <1>2, FieldsLemma DEF IInv, TypeOK, Stepping, Consistent
  <2>2. RequestOK(r)
    BY <1>1, <1>2, RunningLemma DEF IInv, Requests
  <2>3. Behind(r) \in 0 .. NumTokens(r) - 1
    BY <2>2 DEF RequestOK, Numbers
  <2>4. Start(r) = Behind(r) /\ Start(r) + step.n[r] = req[r].computed
    BY <1>2, <2>1 DEF Start, Behind, Pending
  <2>5. \A i \in 1 .. Behind(r) : i \in DOMAIN kv[r] /\ kv[r][i] = req[r].toks[i]
    BY <2>2 DEF RequestOK, KvOK
  <2>6. Start(r) <= Len(kv[r])
    <3>1. PICK s \in Nat : s = Start(r)
      BY <2>3, <2>4
    <3>2. s > 0 => s \in DOMAIN kv[r]
      BY <2>4, <2>5, <3>1
    <3> QED BY <2>1, <3>1, <3>2
  <2> QED BY <2>1, <2>3, <2>4, <2>5, <2>6
<1>3. ASSUME NEW r \in Req, r \in Range(step.order)
      PROVE  /\ Fed(r) \in Seq(Token) /\ Len(Fed(r)) = step.n[r]
             /\ \A i \in 1 .. step.n[r] :
                  Fed(r)[i] = IF Start(r) + i <= NumTokens(r) THEN req[r].toks[Start(r) + i] ELSE Out
  <2>1. PICK s, n, m : s = Start(r) /\ n = step.n[r] /\ m = NumTokens(r)
    OBVIOUS
  <2>2. s \in Nat /\ n \in Nat /\ m \in Nat /\ req[r].toks \in Seq(Token) /\ m = Len(req[r].toks)
    BY <1>2, <1>3, <2>1
  <2>3. Out \in Token
    BY DEF Out, Token
  <2>4. \A i \in 1 .. n : (IF s + i <= m THEN req[r].toks[s + i] ELSE Out) \in Token
    BY <2>2, <2>3
  <2>5. Fed(r) = [i \in 1 .. n |-> IF s + i <= m THEN req[r].toks[s + i] ELSE Out]
    BY <2>1 DEF Fed
  <2>6. Fed(r) \in Seq(Token) /\ Len(Fed(r)) = n
    BY <2>2, <2>4, <2>5
  <2> QED BY <2>1, <2>5, <2>6
<1>4. ASSUME NEW r \in Req, r \in Range(step.order)
      PROVE  /\ kv'[r] \in Seq(Token)
             /\ \A i \in 1 .. req[r].computed :
                  /\ i \in DOMAIN kv'[r]
                  /\ kv'[r][i] = IF i <= NumTokens(r) THEN req[r].toks[i] ELSE Out
  <2>1. PICK s, n, m, c, f, k, t :
                /\ s = Start(r) /\ n = step.n[r] /\ m = NumTokens(r) /\ c = req[r].computed
                /\ f = Fed(r) /\ k = kv[r] /\ t = req[r].toks
    OBVIOUS
  <2>2. /\ s \in Nat /\ s < m /\ n \in Nat /\ n > 0 /\ m \in Nat /\ c \in Nat /\ s + n = c
        /\ f \in Seq(Token) /\ Len(f) = n /\ k \in Seq(Token) /\ s <= Len(k)
        /\ \A i \in 1 .. s : k[i] = t[i]
        /\ \A i \in 1 .. n : f[i] = IF s + i <= m THEN t[s + i] ELSE Out
    BY <1>2, <1>3, <1>4, <2>1
  <2>3. kv'[r] = SubSeq(k, 1, s) \o f
    <3>1. step.n[r] # 0
      BY <2>1, <2>2
    <3>2. kv'[r] = SubSeq(kv[r], 1, Start(r)) \o Fed(r)
      BY <1>1, <3>1
    <3> QED BY <2>1, <3>2
  <2>4. /\ kv'[r] \in Seq(Token) /\ DOMAIN kv'[r] = 1 .. s + n
        /\ \A i \in 1 .. s : kv'[r][i] = k[i]
        /\ \A i \in s + 1 .. s + n : kv'[r][i] = f[i - s]
    <3>1. s \in Nat /\ k \in Seq(Token) /\ f \in Seq(Token) /\ s <= Len(k)
      BY <2>2
    <3>2. IsWritten(Token, SubSeq(k, 1, s) \o f, k, s, f)
      BY <3>1, WrittenLemma
    <3>3. IsWritten(Token, kv'[r], k, s, f) /\ Len(f) = n
      BY <2>2, <2>3, <3>2
    <3> QED BY <3>3 DEF IsWritten
  <2>5. ASSUME NEW i \in 1 .. c
        PROVE  i \in DOMAIN kv'[r] /\ kv'[r][i] = IF i <= m THEN t[i] ELSE Out
    <3>1. CASE i <= s
      <4>1. i \in 1 .. s /\ i <= m
        BY <2>2, <3>1
      <4> QED BY <2>2, <2>4, <4>1
    <3>2. CASE i > s
      <4>1. PICK j \in 1 .. n : j = i - s
        BY <2>2, <3>2
      <4>2. i \in s + 1 .. s + n /\ s + j = i
        BY <2>2, <3>2, <4>1
      <4>3. kv'[r][i] = f[j]
        BY <2>4, <4>1, <4>2
      <4>4. f[j] = IF i <= m THEN t[i] ELSE Out
        BY <2>2, <4>2
      <4> QED BY <2>2, <2>4, <4>3, <4>4
    <3> QED BY <2>2, <3>1, <3>2
  <2> QED BY <2>1, <2>4, <2>5
<1>5. \A r \in Req : r \notin Range(step.order) => kv'[r] = kv[r]
  <2>1. \A r \in Req : step.n[r] \in Nat
    BY DEF IInv, TypeOK, Stepping
  <2> QED BY <1>1, <2>1 DEF Consistent
<1>6. kv' \in [Req -> Seq(Token)]
  <2>1. \A r \in Req : kv'[r] \in Seq(Token)
    BY <1>4, <1>5 DEF IInv, TypeOK
  <2> QED BY <1>1, <2>1
<1>7. TypeOK'
  BY <1>1, <1>6 DEF IInv, TypeOK, queueVars
<1>8. Queues'
  BY <1>1 DEF IInv, Queues, queueVars
<1>9. Plans'
  BY <1>1, EmptyLemma DEF IInv, Plans, InSchedule, InRunningLoop, queueVars
<1>10. Steps'
  BY <1>1 DEF IInv, Steps, InWorker, Consistent, queueVars
<1>11. Requests'
  <2>1. Live' = Live
    BY <1>1 DEF Live
  <2>2. ASSUME NEW r \in Live PROVE RequestOK(r)'
    <3>1. r \in Req /\ RequestOK(r)
      BY DEF IInv, Requests, Live
    <3>2. Behind(r)' = Behind(r) /\ NumTokens(r)' = NumTokens(r)
      BY <1>1 DEF Behind, Pending, NumTokens
    <3>3. Numbers(r)'
      BY <1>1, <3>1, <3>2 DEF RequestOK, Numbers
    <3>4. KvOK(r)'
      <4>1. CASE r \in Range(step.order)
        <5>1. Behind(r) = Start(r) /\ Start(r) \in 0 .. NumTokens(r) - 1 /\ NumTokens(r) \in Nat
              /\ Start(r) + step.n[r] = req[r].computed /\ step.n[r] \in Nat /\ req[r].computed \in Nat
          BY <1>2, <3>1, <4>1
        <5>2. \A i \in 1 .. Behind(r) : i \in 1 .. req[r].computed /\ i <= NumTokens(r)
          BY <5>1
        <5>3. \A i \in 1 .. req[r].computed :
                /\ i \in DOMAIN kv'[r]
                /\ kv'[r][i] = IF i <= NumTokens(r) THEN req[r].toks[i] ELSE Out
          BY <1>4, <3>1, <4>1
        <5> QED BY <1>1, <3>2, <5>2, <5>3 DEF KvOK
      <4>2. CASE r \notin Range(step.order)
        <5>1. \A i \in 1 .. Behind(r) : i \in DOMAIN kv[r] /\ kv[r][i] = req[r].toks[i]
          BY <3>1 DEF RequestOK, KvOK
        <5> QED BY <1>1, <1>5, <3>1, <3>2, <4>2, <5>1 DEF KvOK
      <4> QED BY <4>1, <4>2
    <3>5. InputsKnown(r)'
      BY <1>1, <3>1 DEF RequestOK, InputsKnown
    <3> QED BY <1>1, <3>1, <3>3, <3>4, <3>5 DEF RequestOK, InputsPlaced
  <2> QED BY <1>1, <2>1, <2>2 DEF IInv, Requests
<1>12. CacheOK(enc)'
  BY <1>1 DEF IInv
<1>13. GpuFollows'
  <2>1. HashesOf(plan.inputs)' = HashesOf(plan.inputs)
    BY <1>1 DEF HashesOf
  <2> QED BY <1>1, <2>1 DEF IInv, GpuFollows, InSchedule
<1>14. InputsHeld'
  BY <1>1, EmptyLemma DEF InputsHeld, InWorker
<1>15. NeedHeld'
  BY <1>1 DEF NeedHeld
<1> QED BY <1>7, <1>8, <1>9, <1>10, <1>11, <1>12, <1>13, <1>14, <1>15 DEF IInv

-----------------------------------------------------------------------------
(* Between steps and while an output is dealt with, one request at a time   *)
(* changes.                                                                *)

\* A list without its first member.
LEMMA TailLemma ==
  ASSUME NEW S, NEW list \in Seq(S), IsInjective(list), list # <<>>
  PROVE  /\ Tail(list) \in Seq(S) /\ IsInjective(Tail(list))
         /\ Head(list) \in S /\ Head(list) \in Range(list)
         /\ Range(Tail(list)) = Range(list) \ {Head(list)}
<1>1. /\ Len(list) \in Nat \ {0} /\ 1 \in 1 .. Len(list) /\ Head(list) = list[1]
      /\ Tail(list) \in Seq(S) /\ Len(Tail(list)) = Len(list) - 1
      /\ \A i \in 1 .. Len(list) - 1 : Tail(list)[i] = list[i + 1]
  OBVIOUS
<1>2. \A i, j \in 1 .. Len(list) : list[i] = list[j] => i = j
  BY ListLemma
<1>3. IsInjective(Tail(list))
  <2>1. ASSUME NEW i \in 1 .. Len(list) - 1, NEW j \in 1 .. Len(list) - 1,
               Tail(list)[i] = Tail(list)[j]
        PROVE  i = j
    <3>1. i + 1 \in 1 .. Len(list) /\ j + 1 \in 1 .. Len(list) /\ list[i + 1] = list[j + 1]
      BY <1>1, <2>1
    <3>2. i + 1 = j + 1
      BY <1>2, <3>1
    <3> QED BY <1>1, <3>2
  <2> QED BY <1>1, <2>1, ListLemma
<1>4. Head(list) \in S /\ Head(list) \in Range(list)
  BY <1>1, ListLemma
<1>5. ASSUME NEW x \in Range(Tail(list)) PROVE x \in Range(list) \ {Head(list)}
  <2>0. \E i \in 1 .. Len(Tail(list)) : Tail(list)[i] = x
    BY ZenonT(30), <1>1, ListLemma
  <2>1. PICK i \in 1 .. Len(list) - 1 : Tail(list)[i] = x
    BY <1>1, <2>0
  <2>2. i + 1 \in 1 .. Len(list) /\ x = list[i + 1] /\ i + 1 # 1
    BY <1>1, <2>1
  <2>3. x \in Range(list)
    BY <2>2, ListLemma
  <2> QED BY <1>1, <1>2, <2>2, <2>3
<1>6. ASSUME NEW x \in Range(list) \ {Head(list)} PROVE x \in Range(Tail(list))
  <2>1. PICK i \in 1 .. Len(list) : list[i] = x
    BY ListLemma
  <2>2. i # 1
    BY <1>1, <1>6, <2>1
  <2>3. PICK j \in 1 .. Len(list) - 1 : j + 1 = i
    <3>1. i - 1 \in 1 .. Len(list) - 1 /\ (i - 1) + 1 = i
      BY <1>1, <2>2
    <3> QED BY <3>1
  <2>4. Tail(list)[j] = x
    BY <1>1, <2>1, <2>3
  <2> QED BY <1>1, <2>4, ListLemma
<1> QED BY <1>1, <1>3, <1>4, <1>5, <1>6

\* Of the queues and what is known of the requests, only r's part changes.
OnlyOf(r) ==
  \A q \in Req \ {r} :
    /\ req'[q] = req[q] /\ kv'[q] = kv[q] /\ wfeats'[q] = wfeats[q] /\ sent'[q] = sent[q]

\* The queues when r has been moved.
LEMMA QueuesMoved ==
  ASSUME TypeOK, Queues, TypeOK', NEW r \in Req, plan' = plan, plan = NoPlan, OnlyOf(r),
         IsInjective(running'), IsInjective(waiting'), IsInjective(skipped'),
         Range(running') \ {r} \subseteq Range(running),
         Range(waiting') \ {r} \subseteq Range(waiting),
         Range(skipped') \ {r} \subseteq Range(skipped),
         ~ (r \in Range(waiting') /\ r \in Range(skipped')),
         r \in Range(running') => req'[r].status = "RUNNING",
         r \in Range(waiting') => req'[r].status \in {"WAITING", "PREEMPTED"},
         r \in Range(skipped') =>
           req'[r].status \in {"WAITING", "PREEMPTED", "WAITING_FOR_STREAMING_REQ"}
  PROVE  Queues'
<1>1. Range(plan'.stepSkipped) = {} /\ IsInjective(plan'.stepSkipped)
  BY EmptyLemma
<1>2. /\ \A q \in Range(running') : q \in Req
      /\ \A q \in Range(waiting') : q \in Req
      /\ \A q \in Range(skipped') : q \in Req
  <2>1. running' \in Seq(Req) /\ waiting' \in Seq(Req) /\ skipped' \in Seq(Req)
    BY DEF TypeOK
  <2> QED BY <2>1, ListLemma
<1>3. Range(waiting') \cap Range(skipped') = {}
  <2>1. Range(waiting) \cap Range(skipped) = {}
    BY DEF Queues
  <2> QED BY <2>1
<1>4. \A q \in Range(running') : req'[q].status = "RUNNING"
  BY <1>2 DEF Queues, OnlyOf
<1>5. \A q \in Range(waiting') : req'[q].status \in {"WAITING", "PREEMPTED"}
  <2>1. \A q \in Range(waiting) : req[q].status \in {"WAITING", "PREEMPTED"}
    BY DEF Queues
  <2> QED BY <1>2, <2>1 DEF OnlyOf
<1>6. \A q \in Range(skipped') :
        req'[q].status \in {"WAITING", "PREEMPTED", "WAITING_FOR_STREAMING_REQ"}
  <2>1. \A q \in Range(skipped) :
          req[q].status \in {"WAITING", "PREEMPTED", "WAITING_FOR_STREAMING_REQ"}
    BY DEF Queues
  <2> QED BY <1>2, <2>1 DEF OnlyOf
<1> QED BY <1>1, <1>3, <1>4, <1>5, <1>6 DEF Queues

\* The step, or what is left of it without r.
StepWithout(r) ==
  \/ step' = step
  \/ step.order # <<>> /\ r = Head(step.order) /\ step' = [step EXCEPT !.order = Tail(@)]

\* What is left of the step.
LEMMA StepLeft ==
  ASSUME TypeOK, Steps, NEW r, StepWithout(r)
  PROVE  /\ step' \in Stepping /\ IsInjective(step'.order)
         /\ Range(step'.order) \subseteq Range(step.order)
         /\ Range(step.order) \ {r} \subseteq Range(step'.order)
         /\ step'.n = step.n /\ step'.drafts = step.drafts /\ step'.inputs = step.inputs
         /\ step'.new = step.new /\ step'.freed = step.freed
         /\ step' # step => r \notin Range(step'.order)
<1>1. step \in Stepping /\ step.order \in Seq(Req) /\ IsInjective(step.order)
  BY DEF TypeOK, Steps, Stepping
<1>2. CASE step' = step
  BY <1>1, <1>2
<1>3. CASE step.order # <<>> /\ r = Head(step.order) /\ step' = [step EXCEPT !.order = Tail(@)]
  <2>1. /\ Tail(step.order) \in Seq(Req) /\ IsInjective(Tail(step.order))
        /\ Range(Tail(step.order)) = Range(step.order) \ {r}
    BY <1>1, <1>3, TailLemma
  <2>2. PICK rest : rest = Tail(step.order)
    OBVIOUS
  <2>3. step' = [step EXCEPT !.order = rest]
    BY <1>3, <2>2
  <2>4. /\ step'.order = rest /\ step' \in Stepping
        /\ step'.n = step.n /\ step'.drafts = step.drafts /\ step'.inputs = step.inputs
        /\ step'.new = step.new /\ step'.freed = step.freed
    BY <1>1, <2>1, <2>2, <2>3 DEF Stepping
  <2> QED BY <2>1, <2>2, <2>4
<1> QED BY <1>2, <1>3 DEF StepWithout

\* With no plan, and the worker done, nothing but r and its inputs change.
LEMMA QuietStep ==
  ASSUME IInv, pc \in {"idle", "update"}, UNCHANGED <<pc, plan, need, gpu>>, NEW r \in Req,
         enc' = enc \/ IsReleased(enc, enc', r), StepWithout(r),
         TypeOK', Queues', Range(step'.order) \subseteq Range(running'), OnlyOf(r),
         req'[r].status # "ABSENT", r \in Live' => RequestOK(r)'
  PROVE  IInv'
<1>1. /\ plan = NoPlan /\ plan' = NoPlan /\ need = NoNeed /\ need' = NoNeed
      /\ pc' \in {"idle", "update"} /\ pc' = pc
      /\ TypeOK /\ Steps
  BY DEF IInv, Plans, InSchedule, InRunningLoop
<1>2. Consistent(NoPlan)
  BY EmptyLemma, ConstantsAssumption DEF Consistent
<1>3. Plans'
  BY <1>1, <1>2, EmptyLemma DEF Plans
<1>4. /\ step' \in Stepping /\ IsInjective(step'.order)
      /\ Range(step.order) \ {r} \subseteq Range(step'.order)
      /\ Range(step'.order) \subseteq Range(step.order)
      /\ step'.n = step.n /\ step'.drafts = step.drafts /\ step'.new = step.new
  BY <1>1, StepLeft
<1>5. Steps'
  <2>1. pc = "idle" => step' = NoStep
    BY <1>1, EmptyLemma DEF Steps, StepWithout
  <2>2. \A q \in Req : step'.drafts[q] <= NumDrafts
    BY <1>1, <1>4 DEF Steps
  <2> QED BY <1>1, <1>4, <2>1, <2>2 DEF Steps, InWorker
<1>6. Requests'
  <2>1. ASSUME NEW q \in Live', q # r PROVE RequestOK(q)'
    <3>1. /\ q \in Req /\ req'[q] = req[q] /\ kv'[q] = kv[q] /\ wfeats'[q] = wfeats[q]
      BY <2>1 DEF Live, OnlyOf
    <3>2. RequestOK(q)
      BY <2>1, <3>1 DEF IInv, Requests, Live
    <3>3. Range(plan'.order) = {}
      BY <1>1, EmptyLemma
    <3>4. InputsKnown(q)'
      BY <1>1, <1>4, <3>1, <3>2, KnownKept DEF RequestOK
    <3>5. q \in Range(step'.order) <=> q \in Range(step.order)
      BY <1>4, <2>1
    <3> QED BY <1>1, <1>4, <3>1, <3>2, <3>3, <3>4, <3>5, RequestKept
  <2>2. ASSUME NEW q \in Req, req'[q].status = "ABSENT" PROVE sent'[q] = 0
    <3>1. q # r
      BY <2>2
    <3> QED BY <2>2, <3>1 DEF IInv, Requests, OnlyOf
  <2> QED BY <2>1, <2>2 DEF Requests
<1>7. /\ CacheOK(enc') /\ enc'.cached = enc.cached /\ enc'.freed = enc.freed
  BY DEF IInv, IsReleased, KeepsOthers
<1>8. GpuFollows'
  <2>1. HashesOf(plan.inputs) = {} /\ HashesOf(plan.inputs)' = {}
    BY <1>1, EmptyLemma DEF HashesOf, HashesAt
  <2>2. Follows(gpu, enc.freed, HashesOf(plan.inputs), enc.cached) /\ enc.freed = {}
    BY <1>1 DEF IInv, GpuFollows, InSchedule
  <2> QED BY <1>1, <1>7, <2>1, <2>2 DEF GpuFollows
<1>9. InputsHeld'
  BY <1>1, EmptyLemma DEF InputsHeld, InWorker
<1>10. NeedHeld'
  BY <1>1 DEF NeedHeld
<1>11. CacheOK(enc)'
  BY <1>7
<1> QED BY <1>3, <1>5, <1>6, <1>8, <1>9, <1>10, <1>11 DEF IInv

\* A request q of r with all that is computed accounted for.
Settled(r, q, written) ==
  /\ q \in Request
  /\ q.computed < Len(q.toks) /\ q.spec <= NumDrafts
  /\ \A i \in 1 .. q.computed : i \in DOMAIN written /\ written[i] = q.toks[i]
  /\ InputsPlaced(r, q)
  /\ q.status = "WAITING_FOR_STREAMING_REQ" => EndBy(q.feats, q.computed)

\* Such a request is one as the invariant wants it.
LEMMA SettledLemma ==
  ASSUME NEW r \in Req, NEW q, q = req'[r], Settled(r, q, kv'[r]), plan' = NoPlan,
         r \notin Range(step'.order), InputsKnown(r)'
  PROVE  RequestOK(r)'
<1>1. q.computed \in Nat /\ Len(q.toks) \in Nat /\ q.computed \in 0 .. Len(q.toks) - 1
  BY DEF Settled, Request
<1>2. Behind(r)' = q.computed /\ NumTokens(r)' = Len(q.toks)
  BY <1>1 DEF Behind, Pending, NumTokens
<1>3. r \notin Range(plan'.order)
  BY EmptyLemma
<1>4. Numbers(r)'
  BY <1>1, <1>2, <1>3 DEF Numbers, Settled
<1>5. KvOK(r)'
  BY <1>2 DEF KvOK, Settled
<1> QED BY <1>4, <1>5 DEF RequestOK, InputsPlaced, Settled

\* Between steps, every request is such a request.
LEMMA IdleSettled ==
  ASSUME IInv, pc = "idle", NEW r \in Live
  PROVE  Settled(r, req[r], kv[r])
<1>1. step = NoStep /\ r \in Req /\ RequestOK(r) /\ req[r] \in Request
  BY IdleLemma DEF IInv, Requests, Live, TypeOK
<1>2. /\ Behind(r) = req[r].computed /\ req[r].computed \in 0 .. NumTokens(r) - 1
      /\ NumTokens(r) \in Nat
  BY <1>1, BetweenSteps, FieldsLemma DEF IInv, TypeOK
<1>3. req[r].computed < Len(req[r].toks)
  BY <1>2 DEF NumTokens
<1> QED BY <1>1, <1>2, <1>3 DEF Settled, RequestOK, Numbers, KvOK

-----------------------------------------------------------------------------
(* A session goes on with its next chunk.                                  *)

\* One more input at the end of those of a request.
LEMMA OneMoreInput ==
  ASSUME NEW feats \in Seq(Feature), NEW f \in Feature, NEW g, g = feats \o <<f>>
  PROVE  /\ g \in Seq(Feature) /\ Len(g) = Len(feats) + 1 /\ Range(g) = Range(feats) \cup {f}
         /\ \A i \in 1 .. Len(feats) : g[i] = feats[i]
         /\ g[Len(feats) + 1] = f
<1>1. /\ g \in Seq(Feature) /\ Len(g) = Len(feats) + 1 /\ Len(feats) \in Nat
      /\ \A i \in 1 .. Len(feats) : g[i] = feats[i]
      /\ g[Len(feats) + 1] = f
  OBVIOUS
<1>2. /\ \A x \in Range(g) : \E i \in 1 .. Len(g) : g[i] = x
      /\ \A i \in 1 .. Len(g) : g[i] \in Range(g)
  BY ZenonT(30), <1>1, ListLemma
<1>3. /\ \A x \in Range(feats) : \E i \in 1 .. Len(feats) : feats[i] = x
      /\ \A i \in 1 .. Len(feats) : feats[i] \in Range(feats)
  BY ListLemma
<1>4. \A x \in Range(g) : x \in Range(feats) \cup {f}
  BY <1>1, <1>2, <1>3
<1>5. ASSUME NEW x \in Range(feats) \cup {f} PROVE x \in Range(g)
  <2>1. CASE x = f
    <3>1. Len(feats) + 1 \in 1 .. Len(g)
      BY <1>1
    <3> QED BY <1>1, <1>2, <2>1, <3>1
  <2>2. CASE x \in Range(feats)
    <3>1. PICK i \in 1 .. Len(feats) : feats[i] = x
      BY <1>3, <2>2
    <3>2. i \in 1 .. Len(g) /\ g[i] = x
      BY <1>1, <3>1
    <3> QED BY <1>2, <3>2
  <2> QED BY <2>1, <2>2
<1> QED BY <1>1, <1>4, <1>5

\* An input as a number of embeddings from a position on.
LEMMA InputLemma ==
  ASSUME NEW f \in Feature
  PROVE  /\ f.start \in Nat /\ f.hash \in Hash /\ Embeds[f.hash] \in Nat \ {0}
         /\ EndOf(f) = f.start + Embeds[f.hash] /\ EndOf(f) \in Nat
<1>1. f.start \in Nat /\ f.hash \in Hash
  BY DEF Feature
<1>2. Embeds[f.hash] \in Nat \ {0}
  BY <1>1, ConstantsAssumption
<1> QED BY <1>1, <1>2 DEF EndOf

\* Behind the last input nothing is embedded.
LEMMA NothingEmbedded ==
  ASSUME NEW feats \in Seq(Feature), NEW n \in Nat, EndBy(feats, n), NEW p \in Nat, n <= p
  PROVE  Embedded(feats, p) = {}
<1>1. ASSUME NEW g \in Range(feats) PROVE ~ InPlaceholder(g, p)
  <2>1. PICK i \in 1 .. Len(feats) : feats[i] = g
    BY ListLemma
  <2>2. g \in Feature
    BY ListLemma
  <2>3. EndOf(g) <= n /\ EndOf(g) \in Nat
    BY <2>1, <2>2, InputLemma DEF EndBy
  <2> QED BY <2>3 DEF InPlaceholder
<1> QED BY <1>1 DEF Embedded

\* The embedding of an input f at position p.
EmbeddedOf(f, p) == IF InPlaceholder(f, p) THEN {<<f.hash, p - f.start>>} ELSE {}

\* The inputs g are feats and f behind them.
IsOneMore(g, feats, f) == g = feats \o <<f>>

\* Where the embeddings of one input more are, which begins behind the others.
LEMMA EmbeddedMore ==
  ASSUME NEW feats \in Seq(Feature), NEW n \in Nat, EndBy(feats, n),
         NEW f \in Feature, n <= f.start, NEW g, IsOneMore(g, feats, f), NEW p \in Nat
  PROVE  /\ p < n => Embedded(g, p) = Embedded(feats, p)
         /\ n <= p => Embedded(g, p) = EmbeddedOf(f, p)
<1>1. Range(g) = Range(feats) \cup {f}
  BY OneMoreInput DEF IsOneMore
<1>2. CASE p < n
  <2>1. ~ InPlaceholder(f, p)
    BY <1>2, InputLemma DEF InPlaceholder
  <2>2. {x \in Range(g) : InPlaceholder(x, p)} = {x \in Range(feats) : InPlaceholder(x, p)}
    BY <1>1, <2>1
  <2>3. Embedded(g, p) = Embedded(feats, p)
    BY <2>2 DEF Embedded
  <2> QED BY <1>2, <2>3
<1>3. CASE n <= p
  <2>1. ASSUME NEW x \in Range(feats) PROVE ~ InPlaceholder(x, p)
    <3>1. PICK i \in 1 .. Len(feats) : feats[i] = x
      BY ListLemma
    <3>2. x \in Feature
      BY ListLemma
    <3>3. EndOf(x) <= n /\ EndOf(x) \in Nat
      BY <3>1, <3>2, InputLemma DEF EndBy
    <3> QED BY <1>3, <3>3 DEF InPlaceholder
  <2>2. {x \in Range(g) : InPlaceholder(x, p)} = IF InPlaceholder(f, p) THEN {f} ELSE {}
    BY <1>1, <2>1
  <2>3. Embedded(g, p) = EmbeddedOf(f, p)
    BY <2>2 DEF Embedded, EmbeddedOf
  <2> QED BY <1>3, <2>3
<1> QED BY <1>2, <1>3

\* The k-th chunk of r.
LEMMA ChunkLemma ==
  ASSUME NEW r \in Req, NEW k \in 1 .. Len(Chunks[r]), NEW c, c = Chunks[r][k]
  PROVE  /\ c.len \in Nat \ {0} /\ c.offset \in Nat /\ c.hash \in Hash \cup {NoHash}
         /\ c.hash # NoHash => c.hash \in Hash /\ c.offset + Embeds[c.hash] <= c.len
         /\ k \in Nat \ {0} /\ Len(Chunks[r]) \in Nat \ {0}
         /\ ChunkTokens(r, k) \in Seq(Token) /\ Len(ChunkTokens(r, k)) = c.len
         /\ \A i \in 1 .. c.len : ChunkTokens(r, k)[i] = <<k, i - 1>>
<1>1. /\ c.len \in Nat \ {0} /\ c.offset \in Nat /\ c.hash \in Hash \cup {NoHash}
      /\ c.hash # NoHash => c.hash \in Hash /\ c.offset + Embeds[c.hash] <= c.len
      /\ k \in Nat \ {0} /\ Len(Chunks[r]) \in Nat \ {0}
  BY ConstantsAssumption
<1>2. ChunkTokens(r, k) = [i \in 1 .. c.len |-> <<k, i - 1>>]
  BY DEF ChunkTokens
<1>3. \A i \in 1 .. c.len : <<k, i - 1>> \in Token
  BY <1>1 DEF Token
<1>4. ChunkTokens(r, k) \in Seq(Token) /\ Len(ChunkTokens(r, k)) = c.len
  BY <1>1, <1>2, <1>3
<1> QED BY <1>1, <1>2, <1>4

\* What is wanted at a position of the k-th chunk, if that starts at position n.
LEMMA WantedOfChunk ==
  ASSUME NEW r \in Req, NEW k \in 1 .. Len(Chunks[r]), NEW n \in Nat, NEW p \in Nat, n <= p,
         NEW c, c = Chunks[r][k]
  PROVE  /\ c.hash = NoHash => WantedBy(r, <<k, p - n>>) = {}
         /\ c.hash # NoHash =>
              WantedBy(r, <<k, p - n>>) =
                EmbeddedOf([start |-> n + c.offset, hash |-> c.hash], p)
<1>1. /\ c.offset \in Nat /\ k # 0
      /\ c.hash # NoHash => Embeds[c.hash] \in Nat \ {0}
  BY ChunkLemma, ConstantsAssumption
<1> DEFINE t == <<k, p - n>>
<1>2. t[1] = k /\ t[2] = p - n /\ t # Out
  BY <1>1 DEF Out
<1>3. CASE c.hash = NoHash
  BY <1>2, <1>3 DEF WantedBy
<1>4. CASE c.hash # NoHash
  <2> DEFINE f == [start |-> n + c.offset, hash |-> c.hash]
  <2>1. PICK m \in Nat : m = Embeds[c.hash]
    BY <1>1, <1>4
  <2>2. f.hash = c.hash /\ f.start = n + c.offset /\ EndOf(f) = (n + c.offset) + m
    BY <2>1 DEF EndOf
  <2>3. PICK o \in Nat : o = c.offset
    BY <1>1
  <2>4. p - n - o \in 0 .. m - 1 <=> n + o <= p /\ p < (n + o) + m
    BY <2>1
  <2>5. (p - n) - o = p - (n + o)
    BY <2>3
  <2>6. InPlaceholder(f, p) <=> (p - n) - o \in 0 .. m - 1
    BY <2>2, <2>3, <2>4 DEF InPlaceholder
  <2> HIDE DEF f, t
  <2>7. WantedBy(r, t) = IF (p - n) - o \in 0 .. m - 1 THEN {<<c.hash, (p - n) - o>>} ELSE {}
    BY <1>2, <1>4, <2>1, <2>3 DEF WantedBy
  <2>8. WantedBy(r, t) = EmbeddedOf(f, p)
    BY <2>2, <2>3, <2>5, <2>6, <2>7 DEF EmbeddedOf
  <2> QED BY <1>4, <2>8 DEF f, t
<1> QED BY <1>3, <1>4

\* The inputs g are feats and those of the k-th chunk, len tokens from position n on.
IsPlacedMore(g, feats, r, k, n, len) ==
  /\ g \in Seq(Feature) /\ InOrder(g) /\ EndBy(g, n + len)
  /\ \A p \in 0 .. n - 1 : Embedded(g, p) = Embedded(feats, p)
  /\ \A p \in Nat : n <= p => Embedded(g, p) = WantedBy(r, <<k, p - n>>)

\* The inputs of a request with one chunk more, from position n on.
LEMMA PlacedMore ==
  ASSUME NEW r \in Req, NEW k \in 1 .. Len(Chunks[r]), NEW n \in Nat,
         NEW feats \in Seq(Feature), InOrder(feats), EndBy(feats, n),
         NEW g, g = feats \o ChunkFeatures(r, k, n), NEW len, len = Chunks[r][k].len
  PROVE  IsPlacedMore(g, feats, r, k, n, len)
<1>0. PICK c : c = Chunks[r][k]
  OBVIOUS
<1>1. /\ len \in Nat /\ c.len = len /\ c.offset \in Nat
      /\ c.hash # NoHash => c.hash \in Hash /\ c.offset + Embeds[c.hash] <= len
  BY <1>0, ChunkLemma
<1>2. ASSUME NEW i \in 1 .. Len(feats)
      PROVE  /\ feats[i] \in Feature /\ feats[i].start \in Nat /\ EndOf(feats[i]) \in Nat
             /\ EndOf(feats[i]) <= n
  <2>1. feats[i] \in Feature
    OBVIOUS
  <2> QED BY <2>1, InputLemma DEF EndBy
<1>3. CASE c.hash = NoHash
  <2>1. g = feats
    BY <1>0, <1>3 DEF ChunkFeatures
  <2>2. EndBy(g, n + len)
    BY <1>1, <1>2, <2>1 DEF EndBy
  <2>3. ASSUME NEW p \in Nat, n <= p
        PROVE  Embedded(g, p) = WantedBy(r, <<k, p - n>>)
    BY <1>0, <1>3, <2>1, <2>3, NothingEmbedded, WantedOfChunk
  <2> QED BY <2>1, <2>2, <2>3 DEF IsPlacedMore
<1>4. CASE c.hash # NoHash
  <2>1. PICK f : f = [start |-> n + c.offset, hash |-> c.hash]
    OBVIOUS
  <2>2. /\ f \in Feature /\ f.start = n + c.offset /\ f.hash = c.hash
    BY <1>1, <1>4, <2>1 DEF Feature
  <2>3. g = feats \o <<f>>
    BY <1>0, <1>4, <2>1 DEF ChunkFeatures
  <2>4. n <= f.start /\ EndOf(f) \in Nat /\ EndOf(f) <= n + len
    <3>1. /\ Embeds[f.hash] \in Nat /\ EndOf(f) = f.start + Embeds[f.hash]
      BY <2>2, InputLemma
    <3>2. PICK m \in Nat : m = Embeds[f.hash]
      BY <3>1
    <3>3. PICK o \in Nat : o = c.offset
      BY <1>1
    <3>4. o + m <= len
      BY <1>1, <1>4, <2>2, <3>2, <3>3
    <3>5. f.start = n + o /\ EndOf(f) = (n + o) + m
      BY <2>2, <3>1, <3>2, <3>3
    <3>6. n <= n + o /\ (n + o) + m \in Nat /\ (n + o) + m <= n + len
      BY <1>1, <3>4
    <3> QED BY <3>3, <3>5, <3>6
  <2>5. /\ g \in Seq(Feature) /\ Len(g) = Len(feats) + 1
        /\ \A i \in 1 .. Len(feats) : g[i] = feats[i]
        /\ g[Len(feats) + 1] = f /\ Len(feats) \in Nat
    BY <2>2, <2>3, OneMoreInput
  <2>6. InOrder(g)
    <3>1. ASSUME NEW i \in 1 .. Len(g), NEW j \in 1 .. Len(g), i < j
          PROVE  EndOf(g[i]) <= g[j].start
      <4>1. i \in 1 .. Len(feats) /\ g[i] = feats[i]
        BY <2>5, <3>1
      <4>2. CASE j \in 1 .. Len(feats)
        BY <2>5, <3>1, <4>1, <4>2 DEF InOrder
      <4>3. CASE j = Len(feats) + 1
        <5>1. EndOf(feats[i]) \in Nat /\ EndOf(feats[i]) <= n /\ f.start \in Nat
          BY <1>1, <1>2, <2>2, <4>1
        <5> QED BY <2>4, <2>5, <4>1, <4>3, <5>1
      <4> QED BY <2>5, <4>2, <4>3
    <3> QED BY <3>1 DEF InOrder
  <2>7. EndBy(g, n + len)
    <3>1. ASSUME NEW i \in 1 .. Len(g) PROVE EndOf(g[i]) <= n + len
      <4>1. CASE i \in 1 .. Len(feats)
        BY SMTT(30), <1>1, <1>2, <2>5, <4>1
      <4>2. CASE i = Len(feats) + 1
        BY <2>4, <2>5, <4>2
      <4> QED BY <2>5, <4>1, <4>2
    <3> QED BY <3>1 DEF EndBy
  <2>8. ASSUME NEW p \in Nat
        PROVE  /\ p < n => Embedded(g, p) = Embedded(feats, p)
               /\ n <= p => Embedded(g, p) = EmbeddedOf(f, p)
    <3>1. n <= f.start /\ f \in Feature
      BY <2>2, <2>4
    <3>2. IsOneMore(g, feats, f)
      BY <2>3 DEF IsOneMore
    <3> QED BY <3>1, <3>2, EmbeddedMore
  <2>9. ASSUME NEW p \in Nat, n <= p
        PROVE  Embedded(g, p) = WantedBy(r, <<k, p - n>>)
    <3>1. WantedBy(r, <<k, p - n>>) = EmbeddedOf(f, p)
      BY ZenonT(30), <1>0, <1>4, <2>1, <2>9, WantedOfChunk
    <3> QED BY <2>8, <2>9, <3>1
  <2>10. \A p \in 0 .. n - 1 : p \in Nat /\ p < n
    OBVIOUS
  <2> QED BY <2>5, <2>6, <2>7, <2>8, <2>9, <2>10 DEF IsPlacedMore
<1> QED BY <1>3, <1>4

\* A session that has dropped what is not computed and goes on with its k-th chunk.
LEMMA SessionLemma ==
  ASSUME NEW r \in Req, NEW k \in 1 .. Len(Chunks[r]), NEW q \in Request,
         q.computed <= Len(q.toks), q.spec <= NumDrafts,
         NEW written, \A i \in 1 .. q.computed : i \in DOMAIN written /\ written[i] = q.toks[i],
         InputsPlaced(r, q), EndBy(q.feats, q.computed), NEW s, s = AsSession(q, r, k)
  PROVE  Settled(r, s, written) /\ s.status = "WAITING"
<1>1. PICK n, old, feats, len, more :
              /\ n = q.computed /\ old = q.toks /\ feats = q.feats /\ len = Chunks[r][k].len
              /\ more = ChunkTokens(r, k)
  OBVIOUS
<1>2. /\ n \in Nat /\ old \in Seq(Token) /\ feats \in Seq(Feature) /\ n <= Len(old)
      /\ Len(old) \in Nat
  BY <1>1 DEF Request
<1>3. /\ len \in Nat \ {0} /\ k \in Nat \ {0} /\ Len(Chunks[r]) \in Nat
      /\ more \in Seq(Token) /\ Len(more) = len
      /\ \A i \in 1 .. len : more[i] = <<k, i - 1>>
  BY <1>1, ChunkLemma
<1>4. KeptTokens(q) = SubSeq(old, 1, n) /\ Base(q) = n
  BY <1>1, <1>2 DEF KeptTokens, Base, Lesser
<1>5. PICK toks, g : toks = SubSeq(old, 1, n) \o more /\ g = feats \o ChunkFeatures(r, k, n)
  OBVIOUS
<1>6. /\ toks \in Seq(Token) /\ DOMAIN toks = 1 .. n + len
      /\ \A i \in 1 .. n : toks[i] = old[i]
      /\ \A i \in n + 1 .. n + len : toks[i] = more[i - n]
  <2>1. n \in Nat /\ n <= Len(old) /\ old \in Seq(Token) /\ more \in Seq(Token)
    BY <1>2, <1>3
  <2>2. toks = SubSeq(old, 1, n) \o more
    BY <1>5
  <2>3. IsWritten(Token, SubSeq(old, 1, n) \o more, old, n, more)
    BY <2>1, WrittenLemma
  <2>4. Len(more) = len
    BY <1>3
  <2> QED BY <2>2, <2>3, <2>4 DEF IsWritten
<1>7. Len(toks) = n + len
  BY <1>2, <1>3, <1>6
<1>8. InOrder(feats) /\ EndBy(feats, n)
  BY <1>1 DEF InputsPlaced
<1>9. /\ g \in Seq(Feature) /\ InOrder(g) /\ EndBy(g, n + len)
      /\ \A p \in 0 .. n - 1 : Embedded(g, p) = Embedded(feats, p)
      /\ \A p \in Nat : n <= p => Embedded(g, p) = WantedBy(r, <<k, p - n>>)
  <2>1. g = feats \o ChunkFeatures(r, k, n)
    BY <1>5
  <2>2. feats \in Seq(Feature) /\ n \in Nat /\ len = Chunks[r][k].len
    BY <1>1, <1>2
  <2>3. IsPlacedMore(g, feats, r, k, n, len)
    BY <1>8, <2>1, <2>2, PlacedMore
  <2> QED BY <2>3 DEF IsPlacedMore
<1>10. s = [q EXCEPT !.toks = toks, !.feats = g, !.outs = 0, !.status = "WAITING"]
  BY <1>1, <1>4, <1>5 DEF AsSession
<1>11. /\ s \in Request /\ s.toks = toks /\ s.feats = g /\ s.status = "WAITING"
       /\ s.computed = n /\ s.spec = q.spec /\ s.queue = q.queue
  <2>1. "WAITING" \in Statuses
    BY DEF Statuses
  <2>2. toks \in Seq(Token) /\ g \in Seq(Feature) /\ 0 \in Nat
    BY <1>6, <1>9
  <2>3. s \in Request
    BY <1>10, <2>1, <2>2 DEF Request
  <2>4. /\ s.toks = toks /\ s.feats = g /\ s.status = "WAITING"
        /\ s.computed = q.computed /\ s.spec = q.spec /\ s.queue = q.queue
    BY <1>10 DEF Request
  <2> QED BY <1>1, <2>3, <2>4
<1>12. InputsPlaced(r, s)
  <2>1. ASSUME NEW p \in 0 .. Len(toks) - 1 PROVE Embedded(g, p) = WantedBy(r, toks[p + 1])
    <3>1. p \in Nat /\ p < n + len
      BY <1>2, <1>3, <1>7
    <3>2. CASE p < n
      <4>1. p \in 0 .. Len(old) - 1 /\ p \in 0 .. n - 1 /\ p + 1 \in 1 .. n
        BY <1>2, <3>1, <3>2
      <4>2. Embedded(feats, p) = WantedBy(r, old[p + 1])
        BY <1>1, <4>1 DEF InputsPlaced
      <4> QED BY <1>6, <1>9, <4>1, <4>2
    <3>3. CASE n <= p
      <4>1. PICK i \in 1 .. len : i = (p + 1) - n
        BY <1>2, <1>3, <3>1, <3>3
      <4>2. p + 1 \in n + 1 .. n + len /\ i - 1 = p - n
        BY <1>2, <1>3, <3>1, <3>3, <4>1
      <4>3. toks[p + 1] = <<k, p - n>>
        BY <1>3, <1>6, <4>1, <4>2
      <4> QED BY <1>9, <3>1, <3>3, <4>3
    <3> QED BY <1>2, <3>1, <3>2, <3>3
  <2> QED BY <1>7, <1>9, <1>11, <2>1 DEF InputsPlaced
<1>13. s.computed < Len(s.toks)
  BY <1>2, <1>3, <1>7, <1>11
<1>14. \A i \in 1 .. n : i \in DOMAIN written /\ written[i] = toks[i]
  BY <1>1, <1>6
<1> QED BY <1>11, <1>12, <1>13, <1>14 DEF Settled

-----------------------------------------------------------------------------
(* The client's calls.                                                     *)

\* A request that is freed.
LEMMA FreedLemma ==
  ASSUME TypeOK, NEW r \in Req, Freed(r)
  PROVE  /\ req' \in [Req -> Request]
         /\ kv' \in [Req -> Seq(Token)] /\ wfeats' \in [Req -> Seq(Feature)]
         /\ req'[r].status = "GONE" /\ r \notin Live'
         /\ \A q \in Req \ {r} : req'[q] = req[q] /\ kv'[q] = kv[q] /\ wfeats'[q] = wfeats[q]
<1>1. Gone \in Request /\ Gone.status = "GONE"
  <2>1. <<>> \in Seq(Token) /\ <<>> \in Seq(Feature) /\ <<>> \in Seq(Nat) /\ "GONE" \in Statuses
    BY DEF Statuses
  <2>2. "ABSENT" \in Statuses
    BY DEF Statuses
  <2>3. Absent \in Request
    BY <2>1, <2>2 DEF Absent, Request
  <2>4. Gone = [Absent EXCEPT !.status = "GONE"]
    BY DEF Gone
  <2> QED BY <2>1, <2>3, <2>4 DEF Request
<1>2. <<>> \in Seq(Token) /\ <<>> \in Seq(Feature)
  OBVIOUS
<1>3. /\ req \in [Req -> Request] /\ kv \in [Req -> Seq(Token)] /\ wfeats \in [Req -> Seq(Feature)]
      /\ req' = [req EXCEPT ![r] = Gone]
      /\ kv' = [kv EXCEPT ![r] = <<>>] /\ wfeats' = [wfeats EXCEPT ![r] = <<>>]
  BY DEF TypeOK, Freed
<1>4. /\ req' \in [Req -> Request] /\ req'[r] = Gone
      /\ kv' \in [Req -> Seq(Token)] /\ wfeats' \in [Req -> Seq(Feature)]
      /\ \A q \in Req \ {r} : req'[q] = req[q] /\ kv'[q] = kv[q] /\ wfeats'[q] = wfeats[q]
  BY <1>1, <1>2, <1>3
<1>5. r \notin Live'
  BY <1>1, <1>4 DEF Live
<1> QED BY <1>1, <1>4, <1>5

\* One request changes, and nothing the worker knows of.
LEMMA ChangedLemma ==
  ASSUME TypeOK, NEW r \in Req, NEW s \in Request, req' = [req EXCEPT ![r] = s],
         UNCHANGED <<kv, wfeats>>
  PROVE  /\ req' \in [Req -> Request] /\ req'[r] = s
         /\ kv' \in [Req -> Seq(Token)] /\ wfeats' \in [Req -> Seq(Feature)]
         /\ \A q \in Req \ {r} : req'[q] = req[q] /\ kv'[q] = kv[q] /\ wfeats'[q] = wfeats[q]
BY DEF TypeOK

\* What add_request hands on.
LEMMA NextChunk ==
  ASSUME TypeOK, NEW r \in Req,
         NEW k, k = IF sent[r] < Len(Chunks[r]) THEN sent[r] + 1 ELSE EndMark
  PROVE  /\ k \in 0 .. Len(Chunks[r]) /\ k \in Nat
         /\ k # EndMark => k \in 1 .. Len(Chunks[r])
         /\ sent[r] = 0 => k # EndMark
<1>1. PICK n \in Nat, m \in Nat \ {0} : n = sent[r] /\ m = Len(Chunks[r])
  BY ConstantsAssumption DEF TypeOK
<1> QED BY <1>1 DEF EndMark

\* A request that has yet to come is in no queue.
LEMMA NotQueued ==
  ASSUME Queues, NEW r, req[r].status = "ABSENT"
  PROVE  r \notin Range(running) /\ r \notin Range(waiting) /\ r \notin Range(skipped)
BY DEF Queues

\* A new request is one that goes on from nothing.
LEMMA NewSettled ==
  ASSUME NEW r \in Req, NEW k \in 1 .. Len(Chunks[r]), NEW s, s = AsSession(Absent, r, k),
         NEW written
  PROVE  Settled(r, s, written) /\ s.status = "WAITING"
<1>1. /\ Absent \in Request /\ Absent.computed = 0 /\ Absent.spec = 0 /\ Absent.toks = <<>>
      /\ Absent.feats = <<>> /\ Absent.queue = <<>>
  <2>1. <<>> \in Seq(Token) /\ <<>> \in Seq(Feature) /\ <<>> \in Seq(Nat) /\ "ABSENT" \in Statuses
    BY DEF Statuses
  <2> QED BY <2>1 DEF Absent, Request
<1>2. InOrder(<<>>) /\ EndBy(<<>>, 0) /\ Len(<<>>) = 0
  BY DEF InOrder, EndBy
<1>3. InputsPlaced(r, Absent)
  BY <1>1, <1>2 DEF InputsPlaced
<1>4. 0 <= NumDrafts
  BY ConstantsAssumption
<1>5. \A i \in 1 .. Absent.computed : i \in DOMAIN written /\ written[i] = Absent.toks[i]
  BY <1>1
<1>6. Absent.computed <= Len(Absent.toks)
  BY <1>1, <1>2
<1> QED BY <1>1, <1>2, <1>3, <1>4, <1>5, <1>6, SessionLemma

\* A request comes, or a session's next chunk or its end mark.
LEMMA AddStep ==
  ASSUME IInv, NEW r \in Req, AddRequest(r)
  PROVE  IInv'
<1>1. /\ pc = "idle" /\ pc \in {"idle", "update"} /\ plan = NoPlan /\ step = NoStep /\ need = NoNeed
      /\ req[r].status # "GONE"
      /\ UNCHANGED <<running, pc, plan, need, step, gpu>>
      /\ sent' = [sent EXCEPT ![r] = @ + 1]
      /\ TypeOK /\ Queues /\ CacheOK(enc) /\ enc \in EncoderCache
  BY IdleLemma DEF IInv, AddRequest, TypeOK
<1>2. PICK k : k = IF sent[r] < Len(Chunks[r]) THEN sent[r] + 1 ELSE EndMark
  OBVIOUS
<1>3. /\ k \in 0 .. Len(Chunks[r]) /\ k \in Nat
      /\ k # EndMark => k \in 1 .. Len(Chunks[r])
      /\ sent[r] = 0 => k # EndMark
  BY <1>1, <1>2, NextChunk
<1>4. /\ StepWithout(r) /\ Range(step'.order) \subseteq Range(running') /\ r \notin Range(step'.order)
  BY <1>1, EmptyLemma DEF StepWithout
<1>5. /\ sent' \in [Req -> Nat] /\ \A q \in Req \ {r} : sent'[q] = sent[q]
  <2>1. sent \in [Req -> Nat]
    BY <1>1 DEF TypeOK
  <2>2. sent[r] + 1 \in Nat
    BY <2>1
  <2> QED BY <1>1, <2>1, <2>2
<1>6. /\ req[r] \in Request /\ req[r].status \in Statuses /\ req[r].feats \in Seq(Feature)
      /\ req[r].queue \in Seq(Nat)
  BY <1>1, FieldsLemma DEF TypeOK
<1>7. /\ waiting \in Seq(Req) /\ skipped \in Seq(Req) /\ running \in Seq(Req)
      /\ IsInjective(waiting) /\ IsInjective(skipped) /\ IsInjective(running)
  BY <1>1 DEF TypeOK, Queues
<1>8. CASE req[r].status = "ABSENT"
  <2>1. PICK s : s = AsSession(Absent, r, k)
    OBVIOUS
  <2>2. /\ req' = [req EXCEPT ![r] = s] /\ waiting' = Append(waiting, r)
        /\ UNCHANGED <<skipped, enc, wfeats, kv>>
    BY <1>2, <1>8, <2>1 DEF AddRequest
  <2>3. k \in 1 .. Len(Chunks[r])
    BY <1>3, <1>8 DEF IInv, Requests
  <2>4. Settled(r, s, kv[r]) /\ s.status = "WAITING" /\ s \in Request
    BY <2>1, <2>3, NewSettled DEF Settled
  <2>5. /\ req' \in [Req -> Request] /\ req'[r] = s /\ OnlyOf(r)
        /\ kv' \in [Req -> Seq(Token)] /\ wfeats' \in [Req -> Seq(Feature)]
    BY <1>1, <1>5, <2>2, <2>4, ChangedLemma DEF OnlyOf
  <2>6. r \notin Range(running) /\ r \notin Range(waiting) /\ r \notin Range(skipped)
    BY <1>1, <1>8, NotQueued
  <2>7. /\ waiting' \in Seq(Req) /\ IsInjective(waiting')
        /\ Range(waiting') = Range(waiting) \cup {r}
    BY <1>7, <2>2, <2>6, AppendLemma
  <2>8. TypeOK'
    BY <1>1, <1>5, <2>2, <2>5, <2>7 DEF TypeOK
  <2>9. Queues'
    BY <1>1, <1>7, <2>2, <2>4, <2>5, <2>6, <2>7, <2>8, QueuesMoved
  <2>10. InputsKnown(r)'
    BY <2>4, <2>5 DEF InputsKnown
  <2>11. RequestOK(r)'
    BY <1>1, <1>4, <2>2, <2>4, <2>5, <2>10, SettledLemma
  <2> QED BY <1>1, <1>4, <2>2, <2>4, <2>5, <2>8, <2>9, <2>11, QuietStep
<1>9. CASE req[r].status = "WAITING_FOR_STREAMING_REQ"
  <2>1. /\ r \in Live /\ Settled(r, req[r], kv[r]) /\ EndBy(req[r].feats, req[r].computed)
    BY <1>1, <1>9, IdleSettled DEF Live, Settled
  <2>2. r \notin Range(running) /\ r \notin Range(waiting)
    BY <1>1, <1>9 DEF Queues
  <2>3. waiting' = waiting
    BY <1>9 DEF AddRequest
  <2>4. CASE k # EndMark
    <3>1. PICK s : s = AsSession(req[r], r, k)
      OBVIOUS
    <3>2. /\ req' = [req EXCEPT ![r] = s] /\ UNCHANGED <<skipped, enc, wfeats, kv>>
      <4>1. /\ req' = [req EXCEPT ![r] = AsSession(@, r, k)] /\ UNCHANGED <<skipped, enc, wfeats, kv>>
        BY <1>2, <1>9, <2>4 DEF AddRequest
      <4> QED BY <1>1, <3>1, <4>1 DEF TypeOK
    <3>3. k \in 1 .. Len(Chunks[r])
      BY <1>3, <2>4
    <3>4. /\ req[r].computed < Len(req[r].toks) /\ req[r].spec <= NumDrafts
          /\ \A i \in 1 .. req[r].computed : i \in DOMAIN kv[r] /\ kv[r][i] = req[r].toks[i]
          /\ InputsPlaced(r, req[r])
          /\ req[r].computed \in Nat /\ Len(req[r].toks) \in Nat
      BY <1>6, <2>1 DEF Settled, Request
    <3>5. req[r].computed <= Len(req[r].toks)
      BY <3>4
    <3>6. Settled(r, s, kv[r]) /\ s.status = "WAITING" /\ s \in Request
      <4>1. PICK q : q = req[r]
        OBVIOUS
      <4>2. /\ q \in Request /\ q.computed <= Len(q.toks) /\ q.spec <= NumDrafts
            /\ \A i \in 1 .. q.computed : i \in DOMAIN kv[r] /\ kv[r][i] = q.toks[i]
            /\ InputsPlaced(r, q) /\ EndBy(q.feats, q.computed) /\ s = AsSession(q, r, k)
        BY <1>6, <2>1, <3>1, <3>4, <3>5, <4>1
      <4>3. Settled(r, s, kv[r]) /\ s.status = "WAITING"
        BY <3>3, <4>2, SessionLemma
      <4> QED BY <4>3 DEF Settled
    <3>7. /\ req' \in [Req -> Request] /\ req'[r] = s /\ OnlyOf(r)
          /\ kv' \in [Req -> Seq(Token)] /\ wfeats' \in [Req -> Seq(Feature)]
      BY <1>1, <1>5, <3>2, <3>6, ChangedLemma DEF OnlyOf
    <3>8. TypeOK'
      BY <1>1, <1>5, <2>3, <3>2, <3>7 DEF TypeOK
    <3>9. Queues'
      BY <1>1, <1>7, <2>2, <2>3, <3>2, <3>6, <3>7, <3>8, QueuesMoved
    <3>10. InputsKnown(r)'
      BY <3>6, <3>7 DEF InputsKnown
    <3>11. RequestOK(r)'
      BY <1>1, <1>4, <3>2, <3>6, <3>7, <3>10, SettledLemma
    <3> QED BY <1>1, <1>4, <3>2, <3>6, <3>7, <3>8, <3>9, <3>11, QuietStep
  <2>5. CASE k = EndMark
    <3>1. /\ Freed(r) /\ enc' = ReleasedAll(enc, r, req[r].feats)
          /\ skipped' = RemoveFirst(skipped, r)
      BY <1>2, <1>9, <2>5 DEF AddRequest
    <3>2. /\ req' \in [Req -> Request] /\ OnlyOf(r) /\ req'[r].status = "GONE" /\ r \notin Live'
          /\ kv' \in [Req -> Seq(Token)] /\ wfeats' \in [Req -> Seq(Feature)]
      BY <1>1, <1>5, <3>1, FreedLemma DEF OnlyOf
    <3>3. IsReleased(enc, enc', r)
      BY <1>1, <1>6, <3>1, ReleasedLemma DEF ReleasedAll
    <3>4. /\ skipped' \in Seq(Req) /\ IsInjective(skipped') /\ Range(skipped') = Range(skipped) \ {r}
      BY <1>7, <3>1, RemoveLemma
    <3>5. enc' \in EncoderCache
      BY <3>3 DEF IsReleased
    <3>6. TypeOK'
      BY <1>1, <1>5, <2>3, <3>2, <3>4, <3>5 DEF TypeOK
    <3>7. Queues'
      BY <1>1, <1>7, <2>2, <2>3, <3>2, <3>4, <3>6, QueuesMoved
    <3> QED BY <1>1, <1>4, <3>2, <3>3, <3>6, <3>7, QuietStep
  <2> QED BY <2>4, <2>5
<1>10. CASE req[r].status \in {"WAITING", "RUNNING", "PREEMPTED"}
  <2>1. /\ r \in Live /\ Settled(r, req[r], kv[r]) /\ RequestOK(r)
    BY <1>1, <1>10, IdleSettled DEF Live, IInv, Requests
  <2>2. PICK s : s = [req[r] EXCEPT !.queue = Append(@, k)]
    OBVIOUS
  <2>3. /\ req' = [req EXCEPT ![r] = s]
        /\ UNCHANGED <<waiting, skipped, enc, wfeats, kv>>
    <3>1. /\ req' = [req EXCEPT ![r].queue = Append(@, k)]
          /\ UNCHANGED <<waiting, skipped, enc, wfeats, kv>>
      BY <1>2, <1>10 DEF AddRequest
    <3> QED BY <1>1, <2>2, <3>1 DEF TypeOK
  <2>4. /\ s \in Request /\ s.queue = Append(req[r].queue, k) /\ s.status = req[r].status
        /\ s.computed = req[r].computed /\ s.toks = req[r].toks /\ s.spec = req[r].spec
        /\ s.feats = req[r].feats
    <3>1. PICK more : more = Append(req[r].queue, k)
      OBVIOUS
    <3>2. more \in Seq(Nat)
      BY <1>3, <1>6, <3>1
    <3>3. s = [req[r] EXCEPT !.queue = more]
      BY <1>6, <2>2, <3>1 DEF Request
    <3> QED BY <1>6, <3>1, <3>2, <3>3 DEF Request
  <2>5. Settled(r, s, kv[r])
    <3>1. \A i \in 1 .. Len(s.queue) : s.queue[i] \in 0 .. Len(Chunks[r])
      <4>1. \A i \in 1 .. Len(req[r].queue) : req[r].queue[i] \in 0 .. Len(Chunks[r])
        BY <2>1 DEF Settled, InputsPlaced
      <4>2. PICK old, more : old = req[r].queue /\ more = Append(old, k)
        OBVIOUS
      <4>3. old \in Seq(Nat) /\ \A i \in 1 .. Len(old) : old[i] \in 0 .. Len(Chunks[r])
        BY <1>6, <4>1, <4>2
      <4>4. /\ Len(more) = Len(old) + 1 /\ more[Len(old) + 1] = k /\ Len(old) \in Nat
            /\ \A i \in 1 .. Len(old) : more[i] = old[i]
        BY <1>3, <4>2, <4>3
      <4>5. \A i \in 1 .. Len(more) : more[i] \in 0 .. Len(Chunks[r])
        BY <1>3, <4>3, <4>4
      <4> QED BY <2>4, <4>2, <4>5
    <3>2. InputsPlaced(r, s)
      BY <2>1, <2>4, <3>1 DEF Settled, InputsPlaced
    <3> QED BY <2>1, <2>4, <3>2 DEF Settled
  <2>6. /\ req' \in [Req -> Request] /\ req'[r] = s /\ OnlyOf(r)
        /\ kv' \in [Req -> Seq(Token)] /\ wfeats' \in [Req -> Seq(Feature)]
    BY <1>1, <1>5, <2>3, <2>4, ChangedLemma DEF OnlyOf
  <2>7. TypeOK'
    BY <1>1, <1>5, <2>3, <2>6 DEF TypeOK
  <2>8. Queues'
    <3>1. /\ r \in Range(running) => req[r].status = "RUNNING"
          /\ r \in Range(waiting) => req[r].status \in {"WAITING", "PREEMPTED"}
          /\ r \in Range(skipped) =>
               req[r].status \in {"WAITING", "PREEMPTED", "WAITING_FOR_STREAMING_REQ"}
          /\ ~ (r \in Range(waiting) /\ r \in Range(skipped))
      BY <1>1 DEF Queues
    <3> QED BY <1>1, <1>7, <2>3, <2>4, <2>6, <2>7, <3>1, QueuesMoved
  <2>9. InputsKnown(r)'
    BY <1>1, <2>1, <2>3, <2>4, <2>6 DEF RequestOK, InputsKnown
  <2>10. RequestOK(r)'
    BY <1>1, <1>4, <2>3, <2>5, <2>6, <2>9, SettledLemma
  <2>11. req'[r].status # "ABSENT"
    BY <1>10, <2>4, <2>6
  <2> QED BY <1>1, <1>4, <2>3, <2>6, <2>7, <2>8, <2>10, <2>11, QuietStep
<1> QED BY <1>1, <1>6, <1>8, <1>9, <1>10 DEF Statuses

\* A request is aborted.
LEMMA FinishStep ==
  ASSUME IInv, NEW r \in Req, FinishRequest(r)
  PROVE  IInv'
<1>1. /\ pc = "idle" /\ pc \in {"idle", "update"} /\ plan = NoPlan /\ step = NoStep /\ need = NoNeed
      /\ Freed(r) /\ enc' = ReleasedAll(enc, r, req[r].feats)
      /\ waiting' = RemoveFirst(waiting, r)
      /\ skipped' = RemoveFirst(skipped, r)
      /\ running' = RemoveFirst(running, r)
      /\ UNCHANGED <<sent, pc, plan, need, step, gpu>>
      /\ TypeOK /\ Queues /\ CacheOK(enc) /\ enc \in EncoderCache
  BY IdleLemma DEF IInv, FinishRequest, TypeOK
<1>2. StepWithout(r) /\ Range(step'.order) \subseteq Range(running')
  BY <1>1, EmptyLemma DEF StepWithout
<1>3. /\ waiting \in Seq(Req) /\ skipped \in Seq(Req) /\ running \in Seq(Req)
      /\ IsInjective(waiting) /\ IsInjective(skipped) /\ IsInjective(running)
      /\ req[r].feats \in Seq(Feature)
  BY <1>1, FieldsLemma DEF TypeOK, Queues
<1>4. /\ req' \in [Req -> Request] /\ OnlyOf(r) /\ req'[r].status = "GONE" /\ r \notin Live'
      /\ kv' \in [Req -> Seq(Token)] /\ wfeats' \in [Req -> Seq(Feature)]
  BY <1>1, FreedLemma DEF OnlyOf
<1>5. IsReleased(enc, enc', r) /\ enc' \in EncoderCache
  BY <1>1, <1>3, ReleasedLemma DEF ReleasedAll, IsReleased
<1>6. /\ waiting' \in Seq(Req) /\ IsInjective(waiting') /\ Range(waiting') = Range(waiting) \ {r}
      /\ skipped' \in Seq(Req) /\ IsInjective(skipped') /\ Range(skipped') = Range(skipped) \ {r}
      /\ running' \in Seq(Req) /\ IsInjective(running') /\ Range(running') = Range(running) \ {r}
  BY <1>1, <1>3, RemoveLemma
<1>7. TypeOK'
  BY <1>1, <1>4, <1>5, <1>6 DEF TypeOK
<1>8. Queues'
  BY <1>1, <1>4, <1>6, <1>7, QueuesMoved
<1> QED BY <1>1, <1>2, <1>4, <1>5, <1>7, <1>8, QuietStep

-----------------------------------------------------------------------------
(* update_from_output().                                                   *)

\* All that is assumed. num_computed_tokens is not corrected for accepted drafts that a stop
\* cuts off, and a session goes on from there (the run inputs_drafts).
NoDraftsInSessions == NumDrafts = 0 \/ Sessions = {}

\* A request whose output is to be dealt with.
LEMMA OutputLemma ==
  ASSUME IInv, pc = "update", NEW r \in Range(step.order)
  PROVE  /\ r \in Req /\ r \in Live /\ req[r].status = "RUNNING" /\ req[r] \in Request
         /\ step.drafts[r] = Positive(req[r].computed - NumTokens(r))
         /\ step.drafts[r] \in Nat /\ step.drafts[r] <= NumDrafts
         /\ NumTokens(r) = Len(req[r].toks) /\ NumTokens(r) \in Nat \ {0}
         /\ \A i \in 1 .. req[r].computed :
              /\ i \in DOMAIN kv[r]
              /\ kv[r][i] = IF i <= NumTokens(r) THEN req[r].toks[i] ELSE Out
         /\ InputsPlaced(r, req[r]) /\ req[r].spec <= NumDrafts
         /\ RequestOK(r)
<1>1. r \in Range(running)
  BY DEF IInv, Steps
<1>2. r \in Req /\ r \in Live /\ req[r].status = "RUNNING"
  BY <1>1, RunningLemma DEF IInv
<1>3. RequestOK(r)
  BY <1>2 DEF IInv, Requests
<1>4. /\ req[r] \in Request /\ NumTokens(r) = Len(req[r].toks) /\ NumTokens(r) \in Nat
  BY <1>2, FieldsLemma DEF IInv, TypeOK
<1>5. Behind(r) \in 0 .. NumTokens(r) - 1
  BY <1>3 DEF RequestOK, Numbers
<1>6. NumTokens(r) # 0
  BY <1>4, <1>5
<1>7. step.drafts[r] \in Nat /\ step.drafts[r] <= NumDrafts
  BY <1>2 DEF IInv, TypeOK, Stepping, Steps
<1> QED BY <1>2, <1>3, <1>4, <1>6, <1>7 DEF RequestOK, Numbers, KvOK

\* The output of a partial prefill.
LEMMA ChunkSettled ==
  ASSUME IInv, pc = "update", NEW r \in Range(step.order), req[r].computed < NumTokens(r),
         NEW s, s = [req[r] EXCEPT !.spec = 0]
  PROVE  Settled(r, s, kv[r]) /\ s.status = "RUNNING" /\ s.feats = req[r].feats
<1>1. /\ r \in Req /\ req[r].status = "RUNNING" /\ req[r] \in Request
      /\ NumTokens(r) = Len(req[r].toks) /\ NumTokens(r) \in Nat
      /\ \A i \in 1 .. req[r].computed :
           /\ i \in DOMAIN kv[r]
           /\ kv[r][i] = IF i <= NumTokens(r) THEN req[r].toks[i] ELSE Out
      /\ InputsPlaced(r, req[r])
  BY OutputLemma
<1>2. /\ s \in Request /\ s.status = "RUNNING" /\ s.feats = req[r].feats /\ s.toks = req[r].toks
      /\ s.computed = req[r].computed /\ s.spec = 0 /\ s.queue = req[r].queue
  BY <1>1 DEF Request
<1>3. InputsPlaced(r, s)
  BY <1>1, <1>2 DEF InputsPlaced
<1>4. 0 <= NumDrafts
  BY ConstantsAssumption
<1>5. \A i \in 1 .. req[r].computed : i \in DOMAIN kv[r] /\ kv[r][i] = req[r].toks[i]
  <2>1. req[r].computed \in Nat
    BY <1>1 DEF Request
  <2> QED BY <1>1, <2>1
<1> QED BY <1>1, <1>2, <1>3, <1>4, <1>5 DEF Settled

\* The list w is a, of l members, with b behind it.
IsJoined(w, a, b, l) ==
  /\ Len(w) = l + Len(b)
  /\ \A i \in 1 .. l : w[i] = a[i]
  /\ \A i \in l + 1 .. l + Len(b) : w[i] = b[i - l]

\* One list behind another, position by position.
LEMMA JoinedLemma ==
  ASSUME NEW S, NEW a \in Seq(S), NEW b \in Seq(S)
  PROVE  a \o b \in Seq(S) /\ IsJoined(a \o b, a, b, Len(a))
<1>1. PICK l \in Nat : l = Len(a)
  OBVIOUS
<1>2. /\ a \o b \in Seq(S) /\ Len(a \o b) = l + Len(b)
      /\ \A i \in 1 .. l : (a \o b)[i] = a[i]
      /\ \A i \in l + 1 .. l + Len(b) : (a \o b)[i] = b[i - l]
  BY <1>1
<1> QED BY <1>1, <1>2 DEF IsJoined

\* The list new is old, of l tokens, with m sampled tokens at its end.
IsSampled(new, old, l, m) ==
  /\ new \in Seq(Token) /\ Len(new) = l + m
  /\ \A i \in 1 .. l : new[i] = old[i]
  /\ \A i \in l + 1 .. l + m : new[i] = Out

\* Sampled tokens at the end of those of a request.
LEMMA SampledLemma ==
  ASSUME NEW old \in Seq(Token), NEW m \in Nat, NEW new,
         new = old \o [i \in 1 .. m |-> Out]
  PROVE  IsSampled(new, old, Len(old), m)
<1> DEFINE more == [i \in 1 .. m |-> Out]
<1>1. Out \in Token
  BY DEF Out, Token
<1>2. more \in Seq(Token) /\ Len(more) = m /\ \A i \in 1 .. m : more[i] = Out
  BY <1>1
<1> HIDE DEF more
<1>3. PICK l \in Nat : l = Len(old)
  OBVIOUS
<1>w. PICK w : w = old \o more
  OBVIOUS
<1>4. w \in Seq(Token) /\ IsJoined(w, old, more, l)
  BY <1>2, <1>3, <1>w, JoinedLemma
<1>5. /\ Len(w) = l + m
      /\ \A i \in 1 .. l : w[i] = old[i]
      /\ \A i \in l + 1 .. l + m : w[i] = more[i - l]
  BY <1>2, <1>4 DEF IsJoined
<1>6. \A i \in l + 1 .. l + m : i - l \in 1 .. m
  BY <1>3
<1>7. IsSampled(w, old, l, m)
  BY <1>2, <1>4, <1>5, <1>6 DEF IsSampled
<1> QED BY <1>3, <1>w, <1>7 DEF more

\* Sampled tokens stand for no input.
LEMMA SampledPlaced ==
  ASSUME NEW r \in Req, NEW q \in Request, InputsPlaced(r, q), NEW s \in Request,
         s.feats = q.feats, s.queue = q.queue, NEW m \in Nat,
         s.toks = q.toks \o [i \in 1 .. m |-> Out]
  PROVE  InputsPlaced(r, s)
<1>1. PICK old, new, feats, l : old = q.toks /\ new = s.toks /\ feats = q.feats /\ l = Len(old)
  OBVIOUS
<1>2. /\ old \in Seq(Token) /\ feats \in Seq(Feature) /\ l \in Nat
      /\ new = old \o [i \in 1 .. m |-> Out] /\ s.feats = feats
  BY <1>1 DEF Request
<1>3. /\ Len(new) = l + m
      /\ \A i \in 1 .. l : new[i] = old[i]
      /\ \A i \in l + 1 .. l + m : new[i] = Out
  <2>1. IsSampled(new, old, Len(old), m)
    BY <1>2, SampledLemma
  <2>2. IsSampled(new, old, l, m)
    BY <1>1, <2>1
  <2> QED BY <2>2 DEF IsSampled
<1>4. /\ InOrder(feats) /\ EndBy(feats, l)
      /\ \A p \in 0 .. l - 1 : Embedded(feats, p) = WantedBy(r, old[p + 1])
      /\ \A i \in 1 .. Len(q.queue) : q.queue[i] \in 0 .. Len(Chunks[r])
  BY <1>1 DEF InputsPlaced
<1>5. EndBy(feats, l + m)
  <2>1. ASSUME NEW i \in 1 .. Len(feats) PROVE EndOf(feats[i]) <= l + m
    <3>1. feats[i] \in Feature
      BY <1>2
    <3>2. EndOf(feats[i]) \in Nat /\ EndOf(feats[i]) <= l
      BY <1>4, <3>1, InputLemma DEF EndBy
    <3> QED BY <1>2, <3>2
  <2> QED BY <2>1 DEF EndBy
<1>6. ASSUME NEW p \in 0 .. (l + m) - 1
      PROVE  Embedded(feats, p) = WantedBy(r, new[p + 1])
  <2>1. CASE p < l
    <3>1. p \in 0 .. l - 1 /\ p + 1 \in 1 .. l
      BY <1>2, <2>1
    <3> QED BY <1>3, <1>4, <3>1
  <2>2. CASE l <= p
    <3>1. p + 1 \in l + 1 .. l + m /\ p \in Nat
      BY <1>2, <2>2
    <3>2. Embedded(feats, p) = {}
      BY <1>2, <1>4, <2>2, <3>1, NothingEmbedded
    <3>3. WantedBy(r, Out) = {}
      BY DEF WantedBy
    <3> QED BY <1>3, <3>1, <3>2, <3>3
  <2>3. p < l \/ l <= p
    BY <1>2
  <2> QED BY <2>1, <2>2, <2>3
<1> QED BY <1>1, <1>2, <1>3, <1>4, <1>5, <1>6 DEF InputsPlaced

\* The output of sampled tokens that are all kept: of the accepted drafts, and one more.
LEMMA OutputSettled ==
  ASSUME IInv, pc = "update", NEW r \in Range(step.order), req[r].computed >= NumTokens(r),
         NEW o \in Outcomes(r), o.kept = o.accepted + 1, NEW q, q = WithOutput(req[r], r, o)
  PROVE  /\ Settled(r, q, kv[r]) /\ q.status = "RUNNING" /\ q.feats = req[r].feats
         /\ EndBy(q.feats, q.computed)
<1>1. PICK c, d, a, old, m, outs :
              /\ c = req[r].computed /\ d = step.drafts[r] /\ a = o.accepted
              /\ old = req[r].toks /\ m = NumTokens(r) /\ outs = req[r].outs
  OBVIOUS
<1>2. /\ r \in Req /\ req[r].status = "RUNNING" /\ req[r] \in Request
      /\ d = Positive(c - m) /\ d \in Nat
      /\ m = Len(old) /\ m \in Nat \ {0}
      /\ \A i \in 1 .. c : i \in DOMAIN kv[r] /\ kv[r][i] = IF i <= m THEN old[i] ELSE Out
      /\ InputsPlaced(r, req[r])
  BY <1>1, OutputLemma
<1>3. c \in Nat /\ old \in Seq(Token) /\ c >= m /\ outs \in Nat
  BY <1>1, <1>2 DEF Request
<1>4. d = c - m
  <2>1. PICK x \in Int : x = c - m
    BY <1>2, <1>3
  <2>2. d = Positive(x) /\ x >= 0
    BY <1>2, <1>3, <2>1
  <2> QED BY <2>1, <2>2 DEF Positive
<1>5. a \in 0 .. d /\ o.kept = a + 1
  BY <1>1 DEF Outcomes
<1>6. a \in Nat /\ a <= d /\ a + 1 \in Nat
  BY <1>2, <1>5
<1>7. PICK toks : toks = old \o [i \in 1 .. a + 1 |-> Out]
  OBVIOUS
<1>8. /\ toks \in Seq(Token) /\ Len(toks) = m + (a + 1)
      /\ \A i \in 1 .. m : toks[i] = old[i]
      /\ \A i \in m + 1 .. m + (a + 1) : toks[i] = Out
  <2>1. PICK n \in Nat : n = a + 1
    BY <1>6
  <2>2. old \in Seq(Token) /\ toks = old \o [i \in 1 .. n |-> Out]
    BY <1>3, <1>7, <2>1
  <2>3. IsSampled(toks, old, Len(old), n)
    BY <2>2, SampledLemma
  <2>4. IsSampled(toks, old, m, n)
    BY <1>2, <2>3
  <2> QED BY <2>1, <2>4 DEF IsSampled
<1>9. c - (d - a) = m + a /\ m + a \in Nat
  BY <1>2, <1>3, <1>4, <1>6
<1>10. /\ q \in Request /\ q.computed = m + a /\ q.toks = toks /\ q.spec = NumDrafts
       /\ q.status = "RUNNING" /\ q.feats = req[r].feats /\ q.queue = req[r].queue
  <2>1. q = [req[r] EXCEPT !.computed = c - (d - a), !.toks = toks,
                           !.outs = outs + (a + 1), !.spec = NumDrafts]
    BY <1>1, <1>2, <1>5, <1>7 DEF WithOutput, Request
  <2>2. PICK x \in Nat, y \in Nat : x = c - (d - a) /\ y = outs + (a + 1)
    BY <1>3, <1>6, <1>9
  <2>3. q = [req[r] EXCEPT !.computed = x, !.toks = toks, !.outs = y, !.spec = NumDrafts]
    BY <2>1, <2>2
  <2>4. NumDrafts \in Nat
    BY ConstantsAssumption
  <2>5. PICK base : base = req[r]
    OBVIOUS
  <2>6. base \in Request /\ toks \in Seq(Token)
    BY <1>2, <1>8, <2>5
  <2>7. q = [base EXCEPT !.computed = x, !.toks = toks, !.outs = y, !.spec = NumDrafts]
    BY <2>3, <2>5
  <2>8. q \in Request
    BY <2>2, <2>4, <2>6, <2>7 DEF Request
  <2>9. /\ q.computed = x /\ q.toks = toks /\ q.spec = NumDrafts
        /\ q.status = base.status /\ q.feats = base.feats /\ q.queue = base.queue
    BY <2>6, <2>7 DEF Request
  <2> QED BY <1>2, <1>9, <2>2, <2>5, <2>8, <2>9
<1>11. InputsPlaced(r, q)
  BY <1>1, <1>2, <1>6, <1>7, <1>10, SampledPlaced
<1>12. \A i \in 1 .. q.computed : i \in DOMAIN kv[r] /\ kv[r][i] = toks[i]
  <2>1. ASSUME NEW i \in 1 .. m + a PROVE i \in DOMAIN kv[r] /\ kv[r][i] = toks[i]
    <3>1. i \in 1 .. c
      BY <1>2, <1>3, <1>4, <1>6
    <3>2. CASE i <= m
      <4>1. i \in 1 .. m
        BY <1>2, <1>6, <3>2
      <4> QED BY <1>2, <1>8, <3>1, <3>2, <4>1
    <3>3. CASE ~ (i <= m)
      <4>1. i \in m + 1 .. m + (a + 1)
        BY <1>2, <1>6, <3>3
      <4> QED BY <1>2, <1>8, <3>1, <3>3, <4>1
    <3> QED BY <3>2, <3>3
  <2> QED BY <1>10, <2>1
<1>13. EndBy(q.feats, q.computed)
  <2>1. EndBy(q.feats, m) /\ q.feats \in Seq(Feature)
    BY <1>1, <1>2, <1>10 DEF InputsPlaced, Request
  <2>2. ASSUME NEW i \in 1 .. Len(q.feats) PROVE EndOf(q.feats[i]) <= m + a
    <3>1. q.feats[i] \in Feature
      BY <2>1
    <3>2. EndOf(q.feats[i]) \in Nat /\ EndOf(q.feats[i]) <= m
      BY <2>1, <3>1, InputLemma DEF EndBy
    <3> QED BY <1>2, <1>6, <3>2
  <2> QED BY <1>10, <2>2 DEF EndBy
<1>14. q.computed < Len(q.toks) /\ q.spec <= NumDrafts
  BY <1>2, <1>6, <1>8, <1>10, ConstantsAssumption
<1> QED BY <1>10, <1>11, <1>12, <1>13, <1>14 DEF Settled

\* A session that has stopped, and whose next chunk is there.
LEMMA StoppedGoesOn ==
  ASSUME NEW r \in Req, NEW q, NEW written, Settled(r, q, written), EndBy(q.feats, q.computed),
         q.queue # <<>>, Head(q.queue) # EndMark,
         NEW s, s = AsSession([q EXCEPT !.queue = Tail(@)], r, Head(q.queue))
  PROVE  Settled(r, s, written) /\ s.status = "WAITING"
<1>1. PICK k, rest, old : k = Head(q.queue) /\ rest = Tail(q.queue) /\ old = q.queue
  OBVIOUS
<1>2. /\ q \in Request /\ q.queue \in Seq(Nat) /\ q.computed \in Nat /\ q.toks \in Seq(Token)
      /\ q.computed <= Len(q.toks) /\ InputsPlaced(r, q) /\ q.spec <= NumDrafts
      /\ \A i \in 1 .. q.computed : i \in DOMAIN written /\ written[i] = q.toks[i]
  BY DEF Settled, Request
<1>3. \A i \in 1 .. Len(old) : old[i] \in 0 .. Len(Chunks[r])
  BY <1>1, <1>2 DEF InputsPlaced
<1>4. /\ old \in Seq(Nat) /\ old # <<>> /\ k = old[1] /\ 1 \in 1 .. Len(old) /\ k # 0
      /\ rest \in Seq(Nat) /\ Len(rest) = Len(old) - 1 /\ Len(old) \in Nat
      /\ \A i \in 1 .. Len(old) - 1 : rest[i] = old[i + 1]
  BY <1>1, <1>2 DEF EndMark
<1>5. k \in 1 .. Len(Chunks[r])
  BY <1>3, <1>4
<1>6. \A i \in 1 .. Len(rest) : rest[i] \in 0 .. Len(Chunks[r])
  <2>1. ASSUME NEW i \in 1 .. Len(old) - 1 PROVE rest[i] \in 0 .. Len(Chunks[r])
    <3>1. i + 1 \in 1 .. Len(old)
      BY SMTT(30), <1>4
    <3> QED BY <1>3, <1>4, <3>1
  <2> QED BY <1>4, <2>1
<1>7. PICK p : p = [q EXCEPT !.queue = rest]
  OBVIOUS
<1>8. /\ p \in Request /\ p.queue = rest /\ p.toks = q.toks /\ p.computed = q.computed
      /\ p.feats = q.feats /\ p.spec = q.spec
  BY <1>2, <1>4, <1>7 DEF Request
<1>9. InputsPlaced(r, p)
  BY <1>2, <1>6, <1>8 DEF InputsPlaced
<1>10. [q EXCEPT !.queue = Tail(@)] = p
  BY <1>1, <1>2, <1>7 DEF Request
<1>11. s = AsSession(p, r, k)
  BY <1>1, <1>10
<1>12. /\ p \in Request /\ p.computed <= Len(p.toks) /\ p.spec <= NumDrafts
       /\ \A i \in 1 .. p.computed : i \in DOMAIN written /\ written[i] = p.toks[i]
       /\ InputsPlaced(r, p) /\ EndBy(p.feats, p.computed)
  BY <1>2, <1>8, <1>9
<1> QED BY <1>5, <1>11, <1>12, SessionLemma

\* The request whose output is next, and what is then left of the step.
LEMMA NextOutput ==
  ASSUME IInv, UpdateFromOutput, NEW r, r = Head(step.order)
  PROVE  /\ pc = "update" /\ pc \in {"idle", "update"} /\ plan = NoPlan /\ need = NoNeed
         /\ UNCHANGED <<sent, pc, plan, need, gpu>>
         /\ r \in Range(step.order) /\ r \in Range(running)
         /\ r \notin Range(waiting) /\ r \notin Range(skipped)
         /\ StepWithout(r) /\ step' \in Stepping
         /\ Range(step'.order) \subseteq Range(running) \ {r}
<1>1. /\ pc = "update" /\ step.order # <<>> /\ step' = [step EXCEPT !.order = Tail(@)]
      /\ UNCHANGED <<sent, pc, plan, need, gpu>> /\ plan = NoPlan /\ need = NoNeed
  BY DEF UpdateFromOutput, IInv, Plans, InSchedule, InRunningLoop
<1>2. /\ step \in Stepping /\ step.order \in Seq(Req) /\ IsInjective(step.order)
      /\ Range(step.order) \subseteq Range(running)
  BY DEF IInv, TypeOK, Steps, Stepping
<1>3. /\ r \in Range(step.order) /\ Tail(step.order) \in Seq(Req)
      /\ Range(Tail(step.order)) = Range(step.order) \ {r}
  BY <1>1, <1>2, TailLemma
<1>4. StepWithout(r)
  BY <1>1 DEF StepWithout
<1>5. step' \in Stepping
  BY <1>4, StepLeft DEF IInv
<1>6. step'.order = Tail(step.order)
  BY <1>1, <1>2 DEF Stepping
<1>7. req[r].status = "RUNNING"
  BY <1>2, <1>3 DEF IInv, Queues
<1>8. r \notin Range(waiting) /\ r \notin Range(skipped)
  BY <1>7 DEF IInv, Queues
<1> QED BY <1>1, <1>2, <1>3, <1>4, <1>5, <1>6, <1>8

\* It goes on as s, or waits, with some of its inputs released.
LEMMA ChangedStep ==
  ASSUME IInv, UpdateFromOutput, NEW r, r = Head(step.order), NEW s, Settled(r, s, kv[r]),
         req' = [req EXCEPT ![r] = s], UNCHANGED <<kv, wfeats>>,
         s.status \in {"RUNNING", "WAITING", "WAITING_FOR_STREAMING_REQ"},
         s.status = "RUNNING" => s.feats = req[r].feats,
         enc' \in EncoderCache, IsReleased(enc, enc', r),
         running' \in Seq(Req), waiting' \in Seq(Req), skipped' \in Seq(Req),
         IsInjective(running'), IsInjective(waiting'), IsInjective(skipped'),
         Range(running') = IF s.status = "RUNNING" THEN Range(running) ELSE Range(running) \ {r},
         Range(waiting') \ {r} \subseteq Range(waiting),
         Range(skipped') \ {r} \subseteq Range(skipped),
         r \in Range(waiting') => s.status = "WAITING",
         r \in Range(skipped') => s.status = "WAITING_FOR_STREAMING_REQ"
  PROVE  IInv'
<1>1. /\ pc = "update" /\ pc \in {"idle", "update"} /\ plan = NoPlan
      /\ UNCHANGED <<sent, pc, plan, need, gpu>>
      /\ r \in Range(step.order) /\ r \in Range(running)
      /\ StepWithout(r) /\ step' \in Stepping
      /\ Range(step'.order) \subseteq Range(running) \ {r}
  BY NextOutput
<1>2. r \in Req /\ req[r].status = "RUNNING" /\ RequestOK(r)
  BY <1>1, OutputLemma
<1>3. TypeOK /\ Queues /\ s \in Request
  BY DEF IInv, Settled
<1>4. /\ req' \in [Req -> Request] /\ req'[r] = s /\ OnlyOf(r)
      /\ kv' \in [Req -> Seq(Token)] /\ wfeats' \in [Req -> Seq(Feature)]
  BY <1>1, <1>2, <1>3, ChangedLemma DEF OnlyOf
<1>5. TypeOK'
  BY <1>1, <1>3, <1>4 DEF TypeOK
<1>6. Range(running') \ {r} \subseteq Range(running) /\ (r \in Range(running') => s.status = "RUNNING")
  OBVIOUS
<1>7. Queues'
  BY <1>1, <1>2, <1>3, <1>4, <1>5, <1>6, QueuesMoved
<1>8. Range(step'.order) \subseteq Range(running') /\ r \notin Range(step'.order)
  BY <1>1
<1>9. InputsKnown(r)'
  <2>1. wfeats[r] = req[r].feats
    BY <1>1, <1>2, EmptyLemma DEF RequestOK, InputsKnown
  <2> QED BY <1>4, <2>1 DEF InputsKnown
<1>10. RequestOK(r)'
  <2>1. Settled(r, s, kv'[r])
    OBVIOUS
  <2> QED BY <1>1, <1>2, <1>4, <1>8, <1>9, <2>1, SettledLemma
<1>11. req'[r].status # "ABSENT"
  BY <1>4
<1> QED BY <1>1, <1>2, <1>4, <1>5, <1>7, <1>8, <1>10, <1>11, QuietStep

\* Inputs of r released in the cache, whichever they are.
LEMMA InputsReleased ==
  ASSUME IInv, NEW r \in Req, NEW feats \in Seq(Feature), NEW inputs
  PROVE  IsReleased(enc, Released(enc, r, feats, inputs), r)
BY ReleasedLemma DEF IInv, TypeOK

\* The queues of a step, and a request that leaves those that run.
LEMMA RunningLeft ==
  ASSUME TypeOK, Queues, NEW r \in Req
  PROVE  /\ running \in Seq(Req) /\ waiting \in Seq(Req) /\ skipped \in Seq(Req)
         /\ IsInjective(running) /\ IsInjective(waiting) /\ IsInjective(skipped)
         /\ RemoveFirst(running, r) \in Seq(Req) /\ IsInjective(RemoveFirst(running, r))
         /\ Range(RemoveFirst(running, r)) = Range(running) \ {r}
<1>1. /\ running \in Seq(Req) /\ waiting \in Seq(Req) /\ skipped \in Seq(Req)
      /\ IsInjective(running) /\ IsInjective(waiting) /\ IsInjective(skipped)
  BY DEF TypeOK, Queues
<1> QED BY <1>1, RemoveLemma

\* A partial prefill is dealt with.
LEMMA ChunkStep ==
  ASSUME IInv, UpdateFromOutput, NEW r, r = Head(step.order), UpdateChunk(r)
  PROVE  IInv'
<1>1. /\ pc = "update" /\ r \in Range(step.order) /\ r \notin Range(waiting) /\ r \notin Range(skipped)
  BY NextOutput
<1>2. /\ r \in Req /\ req[r] \in Request /\ TypeOK /\ Queues
  BY <1>1, OutputLemma DEF IInv
<1>3. PICK s : s = [req[r] EXCEPT !.spec = 0]
  OBVIOUS
<1>4. /\ req[r].computed < NumTokens(r) /\ enc' = FreeEncoderInputs(r, req[r])
      /\ req' = [req EXCEPT ![r] = s]
      /\ UNCHANGED <<waiting, skipped, running, wfeats, kv>>
  <2>1. req' = [req EXCEPT ![r].spec = 0]
    BY DEF UpdateChunk
  <2> QED BY <1>2, <1>3, <2>1 DEF UpdateChunk, TypeOK
<1>5. Settled(r, s, kv[r]) /\ s.status = "RUNNING" /\ s.feats = req[r].feats
  BY <1>1, <1>3, <1>4, ChunkSettled
<1>6. IsReleased(enc, enc', r) /\ enc' \in EncoderCache
  <2>1. req[r].feats \in Seq(Feature)
    BY <1>2 DEF Request
  <2> QED BY <1>2, <1>4, <2>1, InputsReleased DEF FreeEncoderInputs, IsReleased
<1>7. /\ running \in Seq(Req) /\ waiting \in Seq(Req) /\ skipped \in Seq(Req)
      /\ IsInjective(running) /\ IsInjective(waiting) /\ IsInjective(skipped)
  BY <1>2, RunningLeft
<1> QED BY <1>1, <1>4, <1>5, <1>6, <1>7, ChangedStep

\* A request that has finished is freed.
LEMMA FreedStep ==
  ASSUME IInv, UpdateFromOutput, NEW r, r = Head(step.order), Freed(r),
         NEW feats \in Seq(Feature), enc' = ReleasedAll(enc, r, feats),
         running' = RemoveFirst(running, r), UNCHANGED <<waiting, skipped>>
  PROVE  IInv'
<1>1. /\ pc = "update" /\ pc \in {"idle", "update"} /\ plan = NoPlan
      /\ UNCHANGED <<sent, pc, plan, need, gpu>>
      /\ r \in Range(step.order) /\ r \notin Range(waiting) /\ r \notin Range(skipped)
      /\ StepWithout(r) /\ step' \in Stepping
      /\ Range(step'.order) \subseteq Range(running) \ {r}
  BY NextOutput
<1>2. r \in Req /\ TypeOK /\ Queues
  BY <1>1, OutputLemma DEF IInv
<1>3. /\ req' \in [Req -> Request] /\ OnlyOf(r) /\ req'[r].status = "GONE" /\ r \notin Live'
      /\ kv' \in [Req -> Seq(Token)] /\ wfeats' \in [Req -> Seq(Feature)]
  BY <1>1, <1>2, FreedLemma DEF OnlyOf
<1>4. IsReleased(enc, enc', r) /\ enc' \in EncoderCache
  BY <1>2, InputsReleased DEF ReleasedAll, IsReleased
<1>5. /\ waiting \in Seq(Req) /\ skipped \in Seq(Req)
      /\ IsInjective(waiting) /\ IsInjective(skipped)
      /\ running' \in Seq(Req) /\ IsInjective(running') /\ Range(running') = Range(running) \ {r}
  BY <1>2, RunningLeft
<1>6. TypeOK'
  BY <1>1, <1>2, <1>3, <1>4, <1>5 DEF TypeOK
<1>7. Queues'
  BY <1>1, <1>2, <1>3, <1>5, <1>6, QueuesMoved
<1>8. Range(step'.order) \subseteq Range(running')
  BY <1>1, <1>5
<1> QED BY <1>1, <1>2, <1>3, <1>4, <1>6, <1>7, <1>8, QuietStep

\* A session that has stopped goes on with its next chunk, or waits for it.
LEMMA SessionStep ==
  ASSUME IInv, UpdateFromOutput, NEW r, r = Head(step.order),
         NEW q, Settled(r, q, kv[r]), EndBy(q.feats, q.computed),
         HandleStopped(r, q), running' = RemoveFirst(running, r),
         ~ (r \notin Sessions \/ (q.queue # <<>> /\ Head(q.queue) = EndMark))
  PROVE  IInv'
<1>1. /\ pc = "update" /\ r \in Range(step.order) /\ r \notin Range(waiting) /\ r \notin Range(skipped)
  BY NextOutput
<1>2. r \in Req /\ TypeOK /\ Queues /\ q \in Request /\ q.feats \in Seq(Feature)
  BY <1>1, OutputLemma DEF IInv, Settled, Request
<1>3. enc' = FreeEncoderInputs(r, q) /\ UNCHANGED <<wfeats, kv>>
  BY DEF HandleStopped
<1>4. IsReleased(enc, enc', r) /\ enc' \in EncoderCache
  BY <1>2, <1>3, InputsReleased DEF FreeEncoderInputs, IsReleased
<1>5. /\ waiting \in Seq(Req) /\ skipped \in Seq(Req)
      /\ IsInjective(waiting) /\ IsInjective(skipped)
      /\ running' \in Seq(Req) /\ IsInjective(running') /\ Range(running') = Range(running) \ {r}
  BY <1>2, RunningLeft
<1>6. CASE q.queue # <<>>
  <2>1. PICK s : s = AsSession([q EXCEPT !.queue = Tail(@)], r, Head(q.queue))
    OBVIOUS
  <2>2. req' = [req EXCEPT ![r] = s] /\ waiting' = Append(waiting, r) /\ skipped' = skipped
    BY <1>6, <2>1 DEF HandleStopped
  <2>3. Settled(r, s, kv[r]) /\ s.status = "WAITING"
    BY <1>2, <1>6, <2>1, StoppedGoesOn
  <2>4. /\ waiting' \in Seq(Req) /\ IsInjective(waiting') /\ Range(waiting') = Range(waiting) \cup {r}
    BY <1>1, <1>2, <1>5, <2>2, AppendLemma
  <2> QED BY <1>1, <1>3, <1>4, <1>5, <2>2, <2>3, <2>4, ChangedStep
<1>7. CASE q.queue = <<>>
  <2>1. PICK s : s = [q EXCEPT !.status = "WAITING_FOR_STREAMING_REQ"]
    OBVIOUS
  <2>2. req' = [req EXCEPT ![r] = s] /\ skipped' = Append(skipped, r) /\ waiting' = waiting
    BY <1>7, <2>1 DEF HandleStopped
  <2>3. /\ s \in Request /\ s.status = "WAITING_FOR_STREAMING_REQ" /\ s.toks = q.toks
        /\ s.computed = q.computed /\ s.spec = q.spec /\ s.feats = q.feats /\ s.queue = q.queue
    <3>1. "WAITING_FOR_STREAMING_REQ" \in Statuses
      BY DEF Statuses
    <3> QED BY <1>2, <2>1, <3>1 DEF Request
  <2>4. Settled(r, s, kv[r])
    <3>1. InputsPlaced(r, s)
      BY <2>3 DEF Settled, InputsPlaced
    <3> QED BY <2>3, <3>1 DEF Settled
  <2>5. /\ skipped' \in Seq(Req) /\ IsInjective(skipped') /\ Range(skipped') = Range(skipped) \cup {r}
    BY <1>1, <1>2, <1>5, <2>2, AppendLemma
  <2> QED BY <1>1, <1>3, <1>4, <1>5, <2>2, <2>3, <2>4, <2>5, ChangedStep
<1> QED BY <1>6, <1>7

\* Sampled tokens are dealt with.
LEMMA SampledStep ==
  ASSUME IInv, NoDraftsInSessions, UpdateFromOutput, NEW r, r = Head(step.order), UpdateSampled(r)
  PROVE  IInv'
<1>1. /\ pc = "update" /\ r \in Range(step.order) /\ r \notin Range(waiting) /\ r \notin Range(skipped)
  BY NextOutput
<1>2. /\ r \in Req /\ req[r] \in Request /\ TypeOK /\ Queues
      /\ step.drafts[r] \in Nat /\ step.drafts[r] <= NumDrafts
  BY <1>1, OutputLemma DEF IInv
<1>3. req[r].computed >= NumTokens(r)
  BY DEF UpdateSampled
<1>4. PICK o \in Outcomes(r) :
        LET q == WithOutput(req[r], r, o)
        IN  IF o.stopped
            THEN HandleStopped(r, q) /\ running' = RemoveFirst(running, r)
            ELSE /\ req' = [req EXCEPT ![r] = q]
                 /\ enc' = FreeEncoderInputs(r, q)
                 /\ UNCHANGED <<waiting, skipped, running, numWaitingForStreamingInput,
                                wfeats, kv>>
  BY DEF UpdateSampled
<1>5. PICK q : q = WithOutput(req[r], r, o)
  OBVIOUS
<1>6. q.feats = req[r].feats /\ q.feats \in Seq(Feature)
  BY <1>2, <1>5 DEF WithOutput, Request
<1>7. /\ o.accepted \in 0 .. step.drafts[r] /\ o.kept \in 1 .. step.drafts[r] + 1
      /\ o.kept <= Lesser(o.accepted + 1, MaxTokens[r] - req[r].outs)
      /\ o.kept < o.accepted + 1 => o.stopped
  BY DEF Outcomes
<1>8. PICK a, k, d, m : a = o.accepted /\ k = o.kept /\ d = step.drafts[r] /\ m = MaxTokens[r] - req[r].outs
  OBVIOUS
<1>9. a \in Nat /\ a <= d /\ k \in Nat \ {0} /\ d \in Nat /\ m \in Int /\ k <= a + 1
  <2>1. MaxTokens[r] \in Nat /\ req[r].outs \in Nat
    BY <1>2, ConstantsAssumption DEF Request
  <2>2. m \in Int
    BY <1>8, <2>1
  <2>3. PICK b \in Nat : b = a + 1
    BY <1>2, <1>7, <1>8
  <2>4. k <= Lesser(b, m)
    BY <1>7, <1>8, <2>3
  <2>5. k <= b
    BY <1>2, <1>7, <1>8, <2>2, <2>4 DEF Lesser
  <2> QED BY <1>2, <1>7, <1>8, <2>2, <2>3, <2>5
<1>10. ASSUME ~ o.stopped \/ d = 0
       PROVE  /\ Settled(r, q, kv[r]) /\ q.status = "RUNNING"
              /\ EndBy(q.feats, q.computed)
  <2>1. k = a + 1
    BY <1>7, <1>8, <1>9, <1>10
  <2> QED BY <1>1, <1>3, <1>5, <1>8, <2>1, OutputSettled
<1>11. CASE ~ o.stopped
  <2>1. /\ req' = [req EXCEPT ![r] = q] /\ enc' = FreeEncoderInputs(r, q)
        /\ UNCHANGED <<waiting, skipped, running, wfeats, kv>>
    BY <1>4, <1>5, <1>11
  <2>2. Settled(r, q, kv[r]) /\ q.status = "RUNNING"
    BY <1>10, <1>11
  <2>3. IsReleased(enc, enc', r) /\ enc' \in EncoderCache
    BY <1>2, <1>6, <2>1, InputsReleased DEF FreeEncoderInputs, IsReleased
  <2>4. /\ running \in Seq(Req) /\ waiting \in Seq(Req) /\ skipped \in Seq(Req)
        /\ IsInjective(running) /\ IsInjective(waiting) /\ IsInjective(skipped)
    BY <1>2, RunningLeft
  <2> QED BY <1>1, <1>6, <2>1, <2>2, <2>3, <2>4, ChangedStep
<1>12. CASE o.stopped
  <2>1. HandleStopped(r, q) /\ running' = RemoveFirst(running, r)
    BY <1>4, <1>5, <1>12
  <2>2. CASE r \notin Sessions \/ (q.queue # <<>> /\ Head(q.queue) = EndMark)
    <3>1. Freed(r) /\ enc' = ReleasedAll(enc, r, q.feats) /\ UNCHANGED <<waiting, skipped>>
      BY <2>1, <2>2 DEF HandleStopped
    <3> QED BY <1>6, <2>1, <3>1, FreedStep
  <2>3. CASE ~ (r \notin Sessions \/ (q.queue # <<>> /\ Head(q.queue) = EndMark))
    <3>1. NumDrafts = 0
      BY <2>3 DEF NoDraftsInSessions
    <3>2. d = 0
      BY <1>2, <1>8, <3>1
    <3>3. Settled(r, q, kv[r]) /\ EndBy(q.feats, q.computed)
      BY <1>10, <3>2
    <3> QED BY <2>1, <2>3, <3>3, SessionStep
  <2> QED BY <2>2, <2>3
<1> QED BY <1>11, <1>12

-----------------------------------------------------------------------------
(* The invariant, and the properties.                                      *)

\* At first there is nothing.
LEMMA InitLemma ==
  Init => IInv
<1> SUFFICES ASSUME Init PROVE IInv
  OBVIOUS
<1>1. /\ sent = [r \in Req |-> 0] /\ req = [r \in Req |-> Absent]
      /\ waiting = <<>> /\ skipped = <<>> /\ running = <<>>
      /\ enc = EmptyEncoderCache /\ pc = "idle" /\ plan = NoPlan /\ need = NoNeed
      /\ step = NoStep /\ gpu = {}
      /\ wfeats = [r \in Req |-> <<>>] /\ kv = [r \in Req |-> <<>>]
  BY DEF Init
<1>2. Absent \in Request /\ Absent.status = "ABSENT"
  <2>1. <<>> \in Seq(Token) /\ <<>> \in Seq(Feature) /\ <<>> \in Seq(Nat) /\ "ABSENT" \in Statuses
    BY DEF Statuses
  <2> QED BY <2>1 DEF Absent, Request
<1>3. /\ enc \in EncoderCache /\ enc.cached = {} /\ enc.freed = {} /\ enc.freeable = <<>>
      /\ \A h \in Hash : enc.refs[h] = {}
  <2>1. <<>> \in Seq(Hash) /\ [h \in Hash |-> {}] \in [Hash -> SUBSET Req]
    OBVIOUS
  <2> QED BY <1>1, <2>1 DEF EmptyEncoderCache, EncoderCache
<1>4. TypeOK
  <2>1. <<>> \in Seq(Req) /\ <<>> \in Seq(Token) /\ <<>> \in Seq(Feature)
    OBVIOUS
  <2>2. /\ wfeats \in [Req -> Seq(Feature)] /\ kv \in [Req -> Seq(Token)]
        /\ sent \in [Req -> Nat] /\ req \in [Req -> Request]
    BY <1>1, <1>2, <2>1
  <2> QED BY <1>1, <1>3, <2>1, <2>2, EmptyLemma DEF TypeOK
<1>5. Queues
  BY <1>1, EmptyLemma DEF Queues
<1>6. Consistent(NoPlan)
  BY EmptyLemma, ConstantsAssumption DEF Consistent
<1>7. Plans
  BY <1>1, <1>6, EmptyLemma DEF Plans, InSchedule
<1>8. Steps
  BY <1>1, EmptyLemma, ConstantsAssumption DEF Steps, InWorker
<1>9. Requests
  <2>1. Live = {}
    BY <1>1, <1>2 DEF Live
  <2> QED BY <1>1, <2>1 DEF Requests
<1>10. CacheOK(enc)
  <2>1. EmbedsOf({}) = 0 /\ IsFiniteSet({})
    BY FS_EmptySet, EmbedsLemma
  <2> QED BY <1>3, <2>1, EmptyLemma, ConstantsAssumption DEF CacheOK
<1>11. GpuFollows
  <2>1. HashesOf(plan.inputs) = {}
    BY <1>1, EmptyLemma, NoHashes
  <2> QED BY <1>1, <1>3, <2>1 DEF GpuFollows, Follows, InSchedule
<1>12. InputsHeld
  BY <1>1, EmptyLemma DEF InputsHeld, InWorker
<1>13. NeedHeld
  BY <1>1 DEF NeedHeld
<1> QED BY <1>4, <1>5, <1>7, <1>8, <1>9, <1>10, <1>11, <1>12, <1>13 DEF IInv

\* Without a step everything stays.
LEMMA StutterStep ==
  ASSUME IInv, UNCHANGED vars
  PROVE  IInv'
<1>1. UNCHANGED <<sent, req, waiting, skipped, running, enc, pc, plan, need, step, gpu, wfeats, kv>>
  BY DEF vars, queueVars, workerVars
<1>2. TypeOK'
  BY <1>1 DEF IInv, TypeOK
<1>3. Queues'
  BY <1>1 DEF IInv, Queues
<1>4. Plans'
  BY <1>1 DEF IInv, Plans, Consistent, InSchedule, InRunningLoop
<1>5. Steps'
  BY <1>1 DEF IInv, Steps, Consistent, InWorker
<1>6. Live' = Live
  BY <1>1 DEF Live
<1>7. Requests'
  <2>1. ASSUME NEW r \in Live PROVE RequestOK(r)'
    <3>1. r \in Req /\ RequestOK(r)
      BY DEF IInv, Requests, Live
    <3>2. InputsKnown(r)'
      BY <1>1, <3>1 DEF RequestOK, InputsKnown
    <3> QED BY <1>1, <3>1, <3>2, RequestKept
  <2> QED BY <1>1, <1>6, <2>1 DEF IInv, Requests
<1>8. \A r : Behind(r)' = Behind(r)
  BY <1>1 DEF Behind, Pending
<1>9. GpuFollows'
  <2>1. HashesOf(plan.inputs)' = HashesOf(plan.inputs) /\ HashesOf(step.inputs)' = HashesOf(step.inputs)
    BY <1>1 DEF HashesOf
  <2> QED BY <1>1, <2>1 DEF IInv, GpuFollows, InSchedule
<1>10. InputsHeld'
  BY SMTT(30), <1>1, <1>8 DEF IInv, InputsHeld, InWorker
<1>11. NeedHeld'
  BY Zenon, <1>1 DEF IInv, NeedHeld, NeedFits
<1> QED BY <1>1, <1>2, <1>3, <1>4, <1>5, <1>7, <1>9, <1>10, <1>11 DEF IInv

\* Every step keeps the invariant.
LEMMA NextLemma ==
  ASSUME NoDraftsInSessions
  PROVE  IInv /\ [Next]_vars => IInv'
<1> SUFFICES ASSUME IInv, [Next]_vars PROVE IInv'
  OBVIOUS
<1>1. CASE \E r \in Req : AddRequest(r)
  BY <1>1, AddStep
<1>2. CASE \E r \in Req : FinishRequest(r)
  BY <1>2, FinishStep
<1>3. CASE BeginSchedule
  BY <1>3, BeginStep
<1>4. CASE ConsiderRunning
  BY <1>4, ConsiderStep
<1>5. CASE ScheduleRunning
  BY <1>5, ScheduleStep
<1>6. CASE PreemptFor
  BY <1>6, PreemptStep
<1>7. CASE EndRunning
  BY <1>7, EndRunningStep
<1>8. CASE SkipWaiting
  BY <1>8, SkipStep
<1>9. CASE Admit
  BY <1>9, AdmitStep
<1>10. CASE EndWaiting
  BY <1>10, EndWaitingStep
<1>11. CASE Commit
  BY <1>11, CommitStep
<1>12. CASE UpdateStates
  BY <1>12, UpdateStatesStep
<1>13. CASE Forward
  BY <1>13, ForwardStep
<1>14. CASE UpdateFromOutput
  <2>1. PICK r : r = Head(step.order)
    OBVIOUS
  <2>2. UpdateChunk(r) \/ UpdateSampled(r)
    BY <1>14, <2>1 DEF UpdateFromOutput
  <2> QED BY <1>14, <2>1, <2>2, ChunkStep, SampledStep
<1>15. CASE EndUpdate
  BY <1>15, EndUpdateStep
<1>16. CASE UNCHANGED vars
  BY <1>16, StutterStep
<1> QED BY <1>1, <1>2, <1>3, <1>4, <1>5, <1>6, <1>7, <1>8, <1>9, <1>10, <1>11, <1>12, <1>13,
           <1>14, <1>15, <1>16 DEF Next, Scheduling

\* Where nothing is in flight, what is written is the KV of what is computed.
LEMMA KvFollows ==
  IInv => KvMatchesTokens
<1> SUFFICES ASSUME IInv, pc = "idle", NEW r \in Live,
                    NEW i \in 1 .. Lesser(req[r].computed, NumTokens(r))
             PROVE  i \in DOMAIN kv[r] /\ kv[r][i] = req[r].toks[i]
  BY DEF KvMatchesTokens
<1>1. Settled(r, req[r], kv[r])
  BY IdleSettled
<1>2. req[r].computed \in Nat /\ Len(req[r].toks) \in Nat /\ NumTokens(r) = Len(req[r].toks)
  BY <1>1 DEF Settled, Request, NumTokens
<1>3. i \in 1 .. req[r].computed
  BY <1>1, <1>2 DEF Lesser, Settled
<1> QED BY <1>1, <1>3 DEF Settled

\* The embeddings a step gathers are those its tokens want, and are in the worker's cache.
LEMMA InputsFollow ==
  IInv => EmbeddingsThere
<1> SUFFICES ASSUME IInv, pc = "gather"
             PROVE  /\ \A r \in Req : \A p \in Start(r) .. Start(r) + step.n[r] - 1 :
                         p < NumTokens(r) =>
                           /\ Gathered(r, p) = Wanted(r, p)
                           /\ \A e \in Gathered(r, p) : e[1] \in gpu
                    /\ gpu = enc.cached
                    /\ EmbedsOf(gpu) <= CacheSize
  BY DEF EmbeddingsThere
<1>1. /\ plan = NoPlan /\ Consistent(step) /\ Range(step.order) \subseteq Range(running)
      /\ enc.freed = {} /\ CacheOK(enc) /\ enc \in EncoderCache
  BY DEF IInv, Plans, Steps, InSchedule, InWorker, GpuFollows, TypeOK
<1>2. gpu = enc.cached
  <2>1. HashesOf(plan.inputs) = {}
    BY <1>1, EmptyLemma, NoHashes
  <2>2. Follows(gpu, enc.freed, HashesOf(plan.inputs), enc.cached)
    BY DEF IInv, GpuFollows
  <2> QED BY <1>1, <2>1, <2>2 DEF Follows
<1>3. EmbedsOf(gpu) <= CacheSize
  BY <1>1, <1>2 DEF CacheOK
<1>4. ASSUME NEW r \in Req, NEW p \in Start(r) .. Start(r) + step.n[r] - 1, p < NumTokens(r)
      PROVE  /\ Gathered(r, p) = Wanted(r, p)
             /\ \A e \in Gathered(r, p) : e[1] \in gpu
  <2>1. step.n[r] \in Nat /\ req[r].computed \in Nat /\ NumTokens(r) \in Nat
    BY FieldsLemma DEF IInv, TypeOK, Stepping
  <2>2. Start(r) \in Int /\ step.n[r] > 0
    BY <1>4, <2>1 DEF Start
  <2>3. r \in Range(step.order)
    BY <1>1, <2>2 DEF Consistent
  <2>4. r \in Live /\ req[r].status = "RUNNING" /\ RequestOK(r)
    BY <1>1, <2>3, RunningLemma DEF IInv, Requests
  <2>5. Start(r) = Behind(r) /\ Behind(r) \in 0 .. NumTokens(r) - 1
    BY <2>3, <2>4 DEF Start, Behind, Pending, RequestOK, Numbers
  <2>6. wfeats[r] = req[r].feats
    BY <1>1, <2>4, EmptyLemma DEF RequestOK, InputsKnown
  <2>7. PICK feats, c, n : feats = req[r].feats /\ c = Start(r) /\ n = step.n[r]
    OBVIOUS
  <2>8. /\ feats \in Seq(Feature) /\ c \in Nat /\ n \in Nat /\ p \in Nat /\ c <= p /\ p < c + n
        /\ p \in 0 .. Len(req[r].toks) - 1
    <3>1. feats \in Seq(Feature) /\ NumTokens(r) = Len(req[r].toks)
      BY <2>7, FieldsLemma DEF IInv, TypeOK
    <3>2. c \in Nat /\ n \in Nat /\ p \in c .. c + n - 1
      BY <1>4, <2>1, <2>5, <2>7
    <3>3. p \in Nat /\ c <= p /\ p < c + n
      BY <3>2
    <3> QED BY <1>4, <2>1, <3>1, <3>2, <3>3
  <2>9. Gathered(r, p) = Embedded(feats, p)
    <3>1. ASSUME NEW g \in Range(feats)
          PROVE  p \in g.start .. EndOf(g) - 1 <=> InPlaceholder(g, p)
      <4>1. g \in Feature
        BY <2>8, ListLemma
      <4>2. g.start \in Nat /\ EndOf(g) \in Nat
        BY <4>1, InputLemma
      <4> QED BY <2>8, <4>2 DEF InPlaceholder
    <3>2. {g \in Range(feats) : p \in g.start .. EndOf(g) - 1} =
          {g \in Range(feats) : InPlaceholder(g, p)}
      BY <3>1
    <3> QED BY <2>6, <2>7, <3>2 DEF Gathered, Embedded
  <2>10. Wanted(r, p) = WantedBy(r, req[r].toks[p + 1])
    BY DEF Wanted, WantedBy
  <2>11. Embedded(feats, p) = WantedBy(r, req[r].toks[p + 1])
    BY <2>4, <2>7, <2>8 DEF RequestOK, InputsPlaced
  <2>12. ASSUME NEW e \in Embedded(feats, p) PROVE e[1] \in gpu
    <3>1. PICK g \in Range(feats) : InPlaceholder(g, p) /\ e = <<g.hash, p - g.start>>
      BY DEF Embedded
    <3>2. PICK i \in 1 .. Len(feats) : feats[i] = g
      BY <2>8, ListLemma
    <3>3. g \in Feature
      BY <2>8, ListLemma
    <3>4. g.start \in Nat /\ EndOf(g) \in Nat /\ g.hash \in Hash
      BY <3>3, InputLemma
    <3>5. EndOf(g) > c /\ g.start < c + n
      BY <2>8, <3>1, <3>4 DEF InPlaceholder
    <3>6. i \in Touched(feats, c, n)
      BY <3>2, <3>5 DEF Touched
    <3>7. Held(enc, r, feats, c, n, step.inputs[r])
      BY <2>3, <2>5, <2>7 DEF IInv, InputsHeld, InWorker
    <3>8. r \in enc.refs[g.hash]
      BY <3>2, <3>6, <3>7 DEF Held
    <3>9. g.hash \in enc.cached
      BY <1>1, <3>4, <3>8 DEF CacheOK
    <3> QED BY <1>2, <3>1, <3>9
  <2> QED BY <2>9, <2>10, <2>11, <2>12
<1> QED BY <1>2, <1>3, <1>4

\* What the scheduler counts, what its queues, its plan and its encoder cache hold, and what
\* the worker has of it, agree between any two steps, if there are no drafts or no sessions.
THEOREM SessionsInvariant ==
  ASSUME NoDraftsInSessions
  PROVE  Spec => []IInv
<1> QED BY InitLemma, NextLemma, PTL DEF Spec

\* Behind num_computed_tokens the KV is that of the request's tokens, whatever was appended to
\* a session, preempted, aborted or found in the prefix cache, if there are no drafts or no
\* sessions.
THEOREM ComputedTokensAreWritten ==
  ASSUME NoDraftsInSessions
  PROVE  Spec => []KvMatchesTokens
<1> QED BY SessionsInvariant, KvFollows, PTL

\* Each placeholder that is computed gets the embedding of its own input, which is in the
\* worker's cache when it is gathered; and that cache holds what the scheduler counts, and
\* fits: if there are no drafts or no sessions.
THEOREM GatheredInputsAreThere ==
  ASSUME NoDraftsInSessions
  PROVE  Spec => []EmbeddingsThere
<1> QED BY SessionsInvariant, InputsFollow, PTL
=============================================================================
