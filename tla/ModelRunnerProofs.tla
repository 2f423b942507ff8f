-------------------------- MODULE ModelRunnerProofs ---------------------------
(***************************************************************************)
(* The worker's counts against the scheduler's, for any finite number of   *)
(* requests, any prompts, drafts and limits, however steps are put         *)
(* together, preempted, reset and answered.                                *)
(***************************************************************************)
EXTENDS ModelRunner, TLAPS, FiniteSetTheorems, SequenceTheorems

-----------------------------------------------------------------------------
(* The inductive invariant.                                                *)

\* Stages of a step the scheduler has sent and the worker has not answered yet.
Working == {"update", "prepare", "forward", "sample", "answer"}

\* Counters as integers: that they stay natural is no part of the argument.
Jobs ==
  [status : {"waiting", "running", "preempted", "done"}, known : Int, computed : Int,
   ph : Int, spec : Int, chunk : BOOLEAN]

Plans ==
  [n : Counts, d : Counts, new : SUBSET Req, resumed : SUBSET Req, finished : SUBSET Req,
   computed : [Req -> Int], out : [Req -> Int], sent : [Req -> Int], chunk : SUBSET Req,
   preempted : SUBSET Req]

Cached == [there : BOOLEAN, out : Int, real : Int, computed : Int, drafts : Nat]

\* Whatever prompt logprobs come with it.
Outputs ==
  [n : Counts, d : Counts, prompt : UNION {[S -> SUBSET Int] : S \in SUBSET Req}, k : Counts]

RunnerTypes ==
  /\ job \in [Req -> Jobs]
  /\ finishedIds \subseteq Req
  /\ plan \in Plans
  /\ outputs \in Seq(Outputs) /\ Len(outputs) <= IF pc = "idle" THEN 2 ELSE 1
  /\ pc \in {"idle", "plan"} \cup Working
  /\ cache \in [Req -> Cached]
  /\ batch \in Seq(Req) /\ \A i, j \in Rows : batch[i] = batch[j] => i = j
  /\ assumed \in [Req -> Nat]
  /\ logprobs \in [Req -> SUBSET Int]
  /\ last.index \in [Req -> Nat]
  /\ last = [index |-> last.index, sampled |-> last.sampled, proposed |-> last.proposed,
             valid |-> last.valid, computed |-> last.computed]
  /\ \A r \in Req : last.index[r] # 0 => last.valid[last.index[r]] \in Nat
  /\ kv \in [Req -> Nat]

\* Tokens and drafts of r that a step in flight will be taken to have given, and the
\* drafts among them that were rejected.
Owed(o, r) == IF o.k[r] = 0 THEN 0 ELSE o.d[r] + 1
Lost(o, r) == IF o.k[r] = 0 THEN 0 ELSE o.d[r] + 1 - o.k[r]

OwedTo(r) ==
  (IF Len(outputs) >= 1 THEN Owed(outputs[1], r) ELSE 0) +
  (IF Len(outputs) = 2 THEN Owed(outputs[2], r) ELSE 0)

LostOf(r) ==
  (IF Len(outputs) >= 1 THEN Lost(outputs[1], r) ELSE 0) +
  (IF Len(outputs) = 2 THEN Lost(outputs[2], r) ELSE 0)

InFlight(r) == \E i \in DOMAIN outputs : outputs[i].k[r] # 0

\* The step at work owes as much, but to prefills.
OwedByPlan(r) ==
  IF pc \in Working /\ r \in Planned \ plan.chunk THEN plan.d[r] + 1 ELSE 0

Admitted == plan.new \cup plan.resumed

\* A row gives at most its drafts and one token.
OutputsAccount ==
  \A i \in DOMAIN outputs : \A r \in Req : outputs[i].k[r] <= outputs[i].d[r] + 1

\* What the plan or message holds in each stage, and of whom.
PlanAccount ==
  /\ pc = "idle" => plan = NoPlan
  /\ pc = "answer" => Planned = {}
  /\ \A r \in Planned : job[r].status = "running"
  /\ \A r \in Req \ Planned : plan.d[r] = 0
  /\ Admitted \subseteq Planned /\ plan.chunk \subseteq Planned
  /\ \A r \in finishedIds \cup plan.finished : job[r].status = "done"
  /\ pc = "plan" => plan.finished = {} /\ plan.chunk = {}

\* A request that waits has its prompt and nothing in flight.
WaitingAccount(r) ==
  job[r].known = PromptLen[r] /\ job[r].spec = 0 /\ ~InFlight(r)

\* A request is preempted in a step of its own, and what it had in flight is
\* there when the next step is planned.
PreemptedAccount(r) ==
  /\ job[r].spec = 0
  /\ InFlight(r) =>
       /\ pc = "plan" => r \in plan.preempted
       /\ pc = "idle" => Len(outputs) = 2 /\ outputs[2].k[r] = 0

\* A running request lacks a token at least; after its prompt, one and its drafts.
LacksTokens(r) ==
  /\ job[r].computed < job[r].known + job[r].ph
  /\ ~job[r].chunk \/ job[r].spec > 0 => job[r].computed = job[r].known + job[r].ph - 1

\* A request just admitted.
AdmittedJob(r) ==
  /\ ~InFlight(r)
  /\ job[r].computed = kv[r] /\ job[r].spec = 0 /\ plan.d[r] = 0
  /\ plan.n[r] <= job[r].known - job[r].computed
  /\ r \in plan.new => job[r].known = PromptLen[r]

\* A running request in the plan.
PlannedJob(r) ==
  /\ plan.n[r] <= job[r].known + job[r].spec + job[r].ph - job[r].computed
  /\ plan.d[r] = DraftsAmong(r, plan.n[r])

\* What the scheduler has sent.
SentJob(r) ==
  LET n == plan.n[r]
      d == plan.d[r]
      end == PromptLen[r] + plan.out[r]
  IN  /\ job[r].computed = plan.computed[r] + n
      /\ plan.computed[r] = kv[r] + LostOf(r)
      /\ end = job[r].known + job[r].ph - OwedByPlan(r)
      /\ r \in plan.chunk <=> plan.computed[r] + n < end
      /\ d + 1 <= n /\ (d > 0 => n = d + 1)
      /\ r \in plan.chunk => d = 0
      /\ r \in plan.new => plan.out[r] = 0
      /\ r \in Admitted => ~InFlight(r)

RunningJob(r) ==
  IF pc = "plan" /\ r \in Admitted THEN AdmittedJob(r)
  ELSE /\ LacksTokens(r)
       /\ InFlight(r) => kv[r] > 0
       /\ IF pc \in Working /\ r \in Planned THEN SentJob(r)
          ELSE /\ job[r].computed = kv[r] + LostOf(r)
               /\ r \in Planned => PlannedJob(r)

JobAccount(r) ==
  /\ job[r].status # "done" => job[r].ph = OwedTo(r) + OwedByPlan(r)
  /\ job[r].status = "waiting" => WaitingAccount(r)
  /\ job[r].status = "preempted" => PreemptedAccount(r)
  /\ job[r].status = "running" => RunningJob(r)

\* Until the batch follows the message it is that of the step before.
InLastStep(r) ==
  /\ job[r].status # "waiting" /\ r \notin plan.new
  /\ job[r].status # "done" =>
       cache[r].out + cache[r].drafts >= job[r].known - PromptLen[r] + job[r].ph - OwedByPlan(r)
  /\ cache[r].drafts > 0 /\ job[r].status = "running" /\ r \notin Admitted =>
       /\ last.index[r] # 0
       /\ kv[r] = last.computed[last.index[r]] + last.valid[last.index[r]]
  /\ outputs # <<>> /\ cache[r].drafts > 0 => Last(outputs).k[r] # 0

\* A request whose sample the scheduler has still to hear of is in the batch, and what the
\* worker remembers of its last step is what the output says.
Reported(r) ==
  outputs # <<>> /\ Last(outputs).k[r] # 0 =>
    /\ r \in ToSet(batch)
    /\ cache[r].drafts = Last(outputs).d[r]
    /\ last.index[r] # 0
    /\ last.valid[last.index[r]] = Last(outputs).k[r]

CorrectsLast(r) == last.index[r] # 0 /\ assumed[r] > 0

\* Once it does, and what is corrected on both sides.
InThisStep(r) ==
  /\ cache[r].out = plan.out[r] /\ cache[r].drafts = plan.d[r]
  /\ pc \in {"prepare", "forward"} =>
       /\ cache[r].computed = plan.computed[r]
       /\ IF CorrectsLast(r)
          THEN /\ kv[r] = last.computed[last.index[r]] + last.valid[last.index[r]]
               /\ outputs # <<>> => plan.computed[r] - Correction(r) = kv[r]
          ELSE plan.computed[r] = kv[r]
  /\ pc = "sample" /\ outputs # <<>> => cache[r].computed = kv[r]

WorkerAccount ==
  /\ pc \in {"idle", "plan", "update"} =>
       /\ \A r \in ToSet(batch) : InLastStep(r)
       /\ \A r \in Req : Reported(r)
  /\ pc \in {"prepare", "forward", "sample", "answer"} =>
       /\ ToSet(batch) = Planned
       /\ \A r \in Planned : InThisStep(r)
  /\ pc \in {"forward", "sample"} =>
       /\ start = [i \in Rows |-> kv[batch[i]]]
       /\ discards = {i \in Rows : batch[i] \in plan.chunk}

RunnerInv ==
  /\ RunnerTypes /\ OutputsAccount /\ PlanAccount
  /\ \A r \in Req : JobAccount(r)
  /\ WorkerAccount

-----------------------------------------------------------------------------
(* Running totals over the rows of the batch.                              *)

\* A set of natural numbers has a least one.
LEMMA LeastNumber ==
  ASSUME NEW T \in SUBSET Nat, T # {}
  PROVE  \E n \in T : \A m \in T : n <= m
<1>1. PICK k \in T : TRUE
  OBVIOUS
<1> DEFINE D == 0 .. k
           U == {0 .. n : n \in {m \in T : m <= k}}
<1>2. IsFiniteSet(D)
  BY <1>1, FS_Interval
<1>3. IsWellFoundedOn(StrictSubsetOrdering(D), SUBSET D)
  BY <1>2, FS_StrictSubsetOrderingWellFounded, FS_FiniteSubsetsOfFinite
<1>4. U \subseteq SUBSET D /\ U # {}
  BY <1>1
<1>5. PICK s \in U : \A t \in U : ~ (<<t, s>> \in StrictSubsetOrdering(D))
  <2> HIDE DEF U
  <2> QED BY <1>3, <1>4, WFMin
<1>6. PICK n \in T : n <= k /\ s = 0 .. n
  BY <1>5
<1>7. ASSUME NEW m \in T PROVE n <= m
  <2> SUFFICES ASSUME m < n PROVE FALSE
    BY <1>6, <1>7
  <2>1. 0 .. m \in U
    BY <1>6
  <2>2. 0 .. m \subseteq 0 .. n /\ n \in 0 .. n /\ n \notin 0 .. m
    OBVIOUS
  <2>3. <<0 .. m, 0 .. n>> \in (SUBSET D) \X (SUBSET D)
    BY <1>4, <1>6, <2>1
  <2>4. <<0 .. m, s>> \in StrictSubsetOrdering(D)
    BY <1>6, <2>2, <2>3 DEF StrictSubsetOrdering
  <2> QED BY <1>5, <2>1, <2>4
<1> QED BY <1>7

\* The running totals of count over the first n rows.
TotalsTo(f, count, n) == f = [i \in 0 .. n |-> IF i = 0 THEN 0 ELSE f[i - 1] + count[i]]

\* There are totals for any number of rows: those for one row more extend them.
LEMMA TotalsExist ==
  ASSUME NEW L \in Nat, NEW count \in [1 .. L -> Nat]
  PROVE  \E f : TotalsTo(f, count, L)
<1> DEFINE T == {n \in 0 .. L : ~ \E f : TotalsTo(f, count, n)}
<1>0. L \in 0 .. L
  OBVIOUS
<1> SUFFICES ASSUME T # {} PROVE FALSE
  BY <1>0
<1>1. PICK n \in T : \A m \in T : n <= m
  <2> T \subseteq Nat
    OBVIOUS
  <2> HIDE DEF T
  <2> QED BY LeastNumber
<1>2. CASE n = 0
  <2> DEFINE f == [i \in 0 .. 0 |-> 0]
  <2>1. f = [i \in 0 .. 0 |-> IF i = 0 THEN 0 ELSE f[i - 1] + count[i]]
    OBVIOUS
  <2>2. TotalsTo(f, count, 0)
    BY <2>1 DEF TotalsTo
  <2> QED BY <1>1, <1>2, <2>2
<1>3. CASE n # 0
  <2>1. n - 1 \in 0 .. L /\ n - 1 \notin T
    BY <1>1, <1>3
  <2>2. PICK f : TotalsTo(f, count, n - 1)
    BY <2>1
  <2> DEFINE g == [i \in 0 .. n |-> IF i = n THEN f[n - 1] + count[n] ELSE f[i]]
  <2>3. \A i \in 0 .. n : g[i] = IF i = 0 THEN 0 ELSE g[i - 1] + count[i]
    BY <1>1, <1>3, <2>2 DEF TotalsTo
  <2>4. g = [i \in 0 .. n |-> IF i = 0 THEN 0 ELSE g[i - 1] + count[i]]
    <3> HIDE DEF g
    <3>1. g = [i \in 0 .. n |-> g[i]]
      BY DEF g
    <3> QED BY <2>3, <3>1
  <2>5. TotalsTo(g, count, n)
    <3> HIDE DEF g
    <3> QED BY <2>4 DEF TotalsTo
  <2> QED BY <1>1, <2>5
<1> QED BY <1>2, <1>3

\* Totals are natural numbers.
LEMMA TotalsAreNat ==
  ASSUME NEW L \in Nat, NEW count \in [1 .. L -> Nat], NEW f, TotalsTo(f, count, L)
  PROVE  f \in [0 .. L -> Nat]
<1> DEFINE T == {n \in 0 .. L : f[n] \notin Nat}
<1>1. T = {}
  <2> SUFFICES ASSUME T # {} PROVE FALSE
    OBVIOUS
  <2>1. PICK n \in T : \A m \in T : n <= m
    <3> T \subseteq Nat
      OBVIOUS
    <3> HIDE DEF T
    <3> QED BY LeastNumber
  <2>2. f[n] = IF n = 0 THEN 0 ELSE f[n - 1] + count[n]
    BY <2>1 DEF TotalsTo
  <2>3. n # 0 => n - 1 \in 0 .. L /\ n - 1 \notin T /\ count[n] \in Nat
    BY <2>1
  <2> QED BY <2>1, <2>2, <2>3
<1>2. f = [i \in 0 .. L |-> f[i]]
  BY DEF TotalsTo
<1> QED BY <1>1, <1>2

\* Totals do not decrease from row to row.
LEMMA TotalsGrow ==
  ASSUME NEW L \in Nat, NEW count \in [1 .. L -> Nat], NEW f, TotalsTo(f, count, L),
         NEW i \in 0 .. L
  PROVE  \A j \in i .. L : f[i] <= f[j]
<1> DEFINE T == {n \in i .. L : ~(f[i] <= f[n])}
<1> SUFFICES ASSUME T # {} PROVE FALSE
  OBVIOUS
<1>1. PICK n \in T : \A m \in T : n <= m
  <2> T \subseteq Nat
    OBVIOUS
  <2> HIDE DEF T
  <2> QED BY LeastNumber
<1>2. f \in [0 .. L -> Nat]
  BY TotalsAreNat
<1>3. n # i
  BY <1>1, <1>2
<1>4. n \in 0 .. L /\ n # 0 /\ n - 1 \in i .. L /\ n - 1 \in Nat /\ ~(n <= n - 1)
  BY <1>1, <1>3
<1>5. n - 1 \notin T
  BY <1>1, <1>4
<1>6. f[n] = f[n - 1] + count[n]
  BY <1>4 DEF TotalsTo
<1>7. count[n] \in Nat /\ f[n - 1] \in Nat /\ f[i] \in Nat /\ f[n] \in Nat
  BY <1>2, <1>4
<1> QED BY <1>1, <1>4, <1>5, <1>6, <1>7

\* What the cumulative sums of the worker are.
LEMMA CumSumIs ==
  ASSUME batch \in Seq(Req), NEW count \in [Rows -> Nat]
  PROVE  /\ TotalsTo(CumSum(count), count, Len(batch))
         /\ CumSum(count) \in [0 .. Len(batch) -> Nat]
         /\ \A i \in Rows : CumSum(count)[i] = CumSum(count)[i - 1] + count[i]
<1>1. Len(batch) \in Nat /\ Rows = 1 .. Len(batch)
  BY DEF Rows
<1>2. CumSum(count) = CHOOSE f : TotalsTo(f, count, Len(batch))
  BY DEF CumSum, TotalsTo
<1>3. \E f : TotalsTo(f, count, Len(batch))
  BY <1>1, TotalsExist
<1>4. TotalsTo(CumSum(count), count, Len(batch))
  BY <1>2, <1>3
<1>5. CumSum(count) \in [0 .. Len(batch) -> Nat]
  BY <1>1, <1>4, TotalsAreNat
<1>6. ASSUME NEW i \in Rows PROVE CumSum(count)[i] = CumSum(count)[i - 1] + count[i]
  BY <1>1, <1>4 DEF TotalsTo
<1> QED BY <1>4, <1>5, <1>6

\* The row an index falls into.
LEMMA RowInIs ==
  ASSUME batch \in Seq(Req), NEW count \in [Rows -> Nat], NEW i \in Rows, NEW x \in Int,
         CumSum(count)[i - 1] < x, x <= CumSum(count)[i]
  PROVE  RowIn(CumSum(count), x) = i
<1> DEFINE f == CumSum(count)
<1>1. Len(batch) \in Nat /\ Rows = 1 .. Len(batch)
  BY DEF Rows
<1>2. TotalsTo(f, count, Len(batch)) /\ f \in [0 .. Len(batch) -> Nat]
  BY CumSumIs
<1>3. \A a \in 0 .. Len(batch) : \A b \in a .. Len(batch) : f[a] <= f[b]
  BY <1>1, <1>2, TotalsGrow
<1>4. f[i - 1] < x /\ x <= f[i]
  OBVIOUS
<1>5. \A a \in 0 .. Len(batch) : f[a] \in Nat
  BY <1>2
<1> HIDE DEF f
<1>6. ASSUME NEW j \in Rows, f[j - 1] < x /\ x <= f[j] PROVE j = i
  <2>1. i \in 0 .. Len(batch) /\ i - 1 \in 0 .. Len(batch)
    BY <1>1
  <2>2. j \in 0 .. Len(batch) /\ j - 1 \in 0 .. Len(batch)
    BY <1>1
  <2>3. f[i] \in Nat /\ f[i - 1] \in Nat /\ f[j] \in Nat /\ f[j - 1] \in Nat
    BY <1>5, <2>1, <2>2
  <2> DEFINE atI == f[i]
             beforeI == f[i - 1]
             atJ == f[j]
             beforeJ == f[j - 1]
  <2>4. ~(j < i)
    <3> SUFFICES ASSUME j < i PROVE FALSE
      OBVIOUS
    <3>1. atJ <= beforeI
      BY <1>1, <1>3, <2>1, <2>2
    <3>2. beforeI < x /\ x <= atJ /\ beforeI \in Nat /\ atJ \in Nat
      BY <1>4, <1>6, <2>3
    <3> HIDE DEF beforeI, atJ
    <3> QED BY <3>1, <3>2
  <2>5. ~(i < j)
    <3> SUFFICES ASSUME i < j PROVE FALSE
      OBVIOUS
    <3>1. atI <= beforeJ
      BY <1>1, <1>3, <2>1, <2>2
    <3>2. beforeJ < x /\ x <= atI /\ beforeJ \in Nat /\ atI \in Nat
      BY <1>4, <1>6, <2>3
    <3> HIDE DEF beforeJ, atI
    <3> QED BY <3>1, <3>2
  <2> QED BY <1>1, <2>4, <2>5
<1> QED BY <1>4, <1>6 DEF RowIn, f

\* Where the ids of a row begin and end.
LEMMA RowTokens ==
  ASSUME batch \in Seq(Req), plan \in Plans
  PROVE  /\ Len(batch) \in Nat /\ Rows = 1 .. Len(batch) /\ CuNumTokens[0] = 0
         /\ \A i \in 0 .. Len(batch) : CuNumTokens[i] \in Nat
         /\ \A i \in Rows :
              /\ batch[i] \in Req /\ plan.n[batch[i]] \in Nat /\ plan.d[batch[i]] \in Nat
              /\ i - 1 \in 0 .. Len(batch) /\ i \in 0 .. Len(batch)
              /\ CuNumTokens[i] = CuNumTokens[i - 1] + plan.n[batch[i]]
         /\ \A i \in 0 .. Len(batch) : \A j \in i .. Len(batch) :
              CuNumTokens[i] <= CuNumTokens[j]
<1>1. Len(batch) \in Nat /\ Rows = 1 .. Len(batch)
  BY DEF Rows
<1>2. plan.n \in [Req -> Nat] /\ plan.d \in [Req -> Nat]
  BY DEF Plans, Counts
<1>3. \A i \in Rows : batch[i] \in Req
  BY <1>1
<1>4. \A i \in Rows : plan.n[batch[i]] \in Nat /\ plan.d[batch[i]] \in Nat
  BY <1>2, <1>3
<1> DEFINE tok == [i \in Rows |-> plan.n[batch[i]]]
<1>5. tok \in [Rows -> Nat]
  BY <1>4
<1>6. CuNumTokens = CumSum(tok)
  BY DEF CuNumTokens
<1>7. \A i \in Rows : tok[i] = plan.n[batch[i]]
  OBVIOUS
<1> HIDE DEF tok
<1>8. /\ TotalsTo(CuNumTokens, tok, Len(batch)) /\ CuNumTokens \in [0 .. Len(batch) -> Nat]
      /\ \A i \in Rows : CuNumTokens[i] = CuNumTokens[i - 1] + tok[i]
  BY <1>5, <1>6, CumSumIs
<1>9. CuNumTokens[0] = 0
  BY <1>1, <1>8 DEF TotalsTo
<1>10. \A i \in 0 .. Len(batch) : \A j \in i .. Len(batch) : CuNumTokens[i] <= CuNumTokens[j]
  BY <1>1, <1>5, <1>8, TotalsGrow
<1>11. \A i \in Rows : i - 1 \in 0 .. Len(batch) /\ i \in 0 .. Len(batch)
  BY <1>1
<1> QED BY <1>1, <1>3, <1>4, <1>7, <1>8, <1>9, <1>10, <1>11

\* Between the ends of a row and of the row before there is no id of another row.
LEMMA RowAtOf ==
  ASSUME batch \in Seq(Req), plan \in Plans, NEW i \in Rows, NEW x \in Int,
         CuNumTokens[i - 1] < x, x <= CuNumTokens[i]
  PROVE  RowAt(x) = i
<1> DEFINE tok == [j \in Rows |-> plan.n[batch[j]]]
<1>1. tok \in [Rows -> Nat]
  BY RowTokens
<1>2. CuNumTokens = CumSum(tok)
  BY DEF CuNumTokens
<1> HIDE DEF tok
<1> QED BY <1>1, <1>2, RowInIs DEF RowAt

\* Every id is in a row.
LEMMA RowAtIs ==
  ASSUME batch \in Seq(Req), plan \in Plans, NEW x \in 1 .. TotalTokens
  PROVE  LET i == RowAt(x)
         IN  i \in Rows /\ CuNumTokens[i - 1] < x /\ x <= CuNumTokens[i]
<1> DEFINE T == {i \in 1 .. Len(batch) : x <= CuNumTokens[i]}
<1>1. /\ Len(batch) \in Nat /\ Rows = 1 .. Len(batch) /\ CuNumTokens[0] = 0
      /\ \A i \in 0 .. Len(batch) : CuNumTokens[i] \in Nat
  BY RowTokens
<1>2. TotalTokens = CuNumTokens[Len(batch)] /\ TotalTokens \in Nat
  BY <1>1 DEF TotalTokens
<1>3. x \in Nat /\ 1 <= x /\ x <= CuNumTokens[Len(batch)]
  BY <1>2
<1>4. Len(batch) # 0
  <2>1. CuNumTokens[0] # CuNumTokens[Len(batch)]
    BY <1>1, <1>3
  <2> QED BY <2>1
<1>5. Len(batch) \in T
  BY <1>1, <1>3, <1>4
<1>6. PICK i \in T : \A m \in T : i <= m
  <2> T \subseteq Nat
    OBVIOUS
  <2> HIDE DEF T
  <2> QED BY <1>5, LeastNumber
<1>7. CuNumTokens[i - 1] < x
  <2>1. CASE i = 1
    BY <1>1, <1>3, <2>1
  <2>2. CASE i # 1
    <3>1. i - 1 \in 1 .. Len(batch) /\ i - 1 \in 0 .. Len(batch) /\ ~(i <= i - 1)
      BY <1>6, <2>2
    <3>2. i - 1 \notin T
      BY <1>6, <3>1
    <3>3. ~(x <= CuNumTokens[i - 1]) /\ CuNumTokens[i - 1] \in Nat
      BY <1>1, <3>1, <3>2
    <3> QED BY <1>3, <3>3
  <2> QED BY <2>1, <2>2
<1>8. i \in Rows /\ x <= CuNumTokens[i]
  BY <1>1, <1>6
<1>9. RowAt(x) = i
  BY <1>3, <1>7, <1>8, RowAtOf
<1> QED BY <1>7, <1>8, <1>9

\* Row by row, as many logits as drafts and one more, from the last ids of the row.
LEMMA LogitsAre ==
  ASSUME batch \in Seq(Req), plan \in Plans, NEW i \in Rows,
         plan.d[batch[i]] + 1 <= plan.n[batch[i]], NEW k \in 1 .. plan.d[batch[i]] + 1
  PROVE  LET y == CuNumTokens[i] - (plan.d[batch[i]] + 1) + k
         IN  /\ LogitsIndex(CuNumSampled[i - 1] + k) = y
             /\ RowAt(y) = i /\ y \in Int
             /\ CuNumSampled[i - 1] \in Nat
             /\ CuNumSampled[i] = CuNumSampled[i - 1] + (plan.d[batch[i]] + 1)
<1> DEFINE tok == [j \in Rows |-> plan.n[batch[j]]]
           smp == [j \in Rows |-> DraftsOf(j) + 1]
           d == plan.d[batch[i]]
<1>1. \A j \in Rows : batch[j] \in Req /\ plan.n[batch[j]] \in Nat /\ plan.d[batch[j]] \in Nat
  BY RowTokens
<1>2. smp \in [Rows -> Nat] /\ smp[i] = d + 1
  BY <1>1 DEF DraftsOf
<1>3. CuNumSampled = CumSum(smp)
  BY DEF CuNumSampled
<1> HIDE DEF smp
<1>4. i \in 1 .. Len(batch) /\ Len(batch) \in Nat /\ i - 1 \in 0 .. Len(batch)
  BY DEF Rows
<1>5. /\ CuNumSampled[i] = CuNumSampled[i - 1] + smp[i] /\ CuNumSampled[i - 1] \in Nat
      /\ CuNumTokens[i] = CuNumTokens[i - 1] + plan.n[batch[i]] /\ CuNumTokens[i - 1] \in Nat
  <2>1. CumSum(smp)[i] = CumSum(smp)[i - 1] + smp[i] /\ CumSum(smp) \in [0 .. Len(batch) -> Nat]
    BY <1>2, CumSumIs
  <2> QED BY <1>3, <1>4, <2>1, RowTokens
<1> DEFINE before == CuNumSampled[i - 1]
           above == CuNumTokens[i - 1]
           below == CuNumTokens[i]
           n == plan.n[batch[i]]
           x == before + k
           y == below - (d + 1) + k
<1>6. d \in Nat /\ k \in Nat /\ 1 <= k /\ k <= d + 1 /\ n \in Nat /\ d + 1 <= n
  BY <1>1
<1>7. RowIn(CuNumSampled, x) = i
  <2>1. x \in Int /\ before < x /\ x <= CumSum(smp)[i]
    <3>1. CumSum(smp)[i] = before + (d + 1) /\ before \in Nat
      BY <1>2, <1>3, <1>5
    <3> HIDE DEF d, before
    <3> QED BY <1>6, <3>1
  <2> HIDE DEF x
  <2> QED BY <1>2, <1>3, <2>1, RowInIs
<1>8. LogitsIndex(x) = y
  <2>1. LogitsIndex(x) = below - (d + 1) + x - before
    BY <1>7 DEF LogitsIndex, DraftsOf
  <2>2. below \in Nat /\ before \in Nat
    BY <1>5, <1>6
  <2> HIDE DEF d, before, below
  <2> QED BY <1>6, <2>1, <2>2
<1>9. y \in Int /\ above < y /\ y <= below
  <2>1. below = above + n /\ above \in Nat
    BY <1>5
  <2> HIDE DEF d, above, below, n
  <2> QED BY <1>6, <2>1
<1>10. RowAt(y) = i
  <2> HIDE DEF y
  <2> QED BY <1>9, RowAtOf
<1> QED BY <1>2, <1>5, <1>8, <1>9, <1>10

\* What the k-th token of a row is sampled after: the k-th of its last ids. The draft after
\* that is the one it is compared with.
LEMMA ResultIs ==
  ASSUME batch \in Seq(Req), plan \in Plans, NEW i \in Rows,
         plan.d[batch[i]] + 1 <= plan.n[batch[i]], NEW k \in 1 .. plan.d[batch[i]] + 1
  PROVE  LET y == CuNumTokens[i] - (plan.d[batch[i]] + 1) + k
         IN  /\ ResultIndex(i, k) = y /\ RowAt(y) = i
             /\ k <= plan.d[batch[i]] => DraftId(i, k) = ids[y + 1]
<1> DEFINE d == plan.d[batch[i]]
           before == CuNumSampled[i - 1]
           below == CuNumTokens[i]
<1>0. d \in Nat /\ below \in Nat
  BY RowTokens
<1>1. /\ LogitsIndex(before + k) = below - (d + 1) + k
      /\ RowAt(below - (d + 1) + k) = i
      /\ before \in Nat /\ CuNumSampled[i] = before + (d + 1)
  BY LogitsAre
<1>2. TargetIndex(i, k) = before + k
  <2>1. TargetIndex(i, k) = CuNumSampled[i] - (d + 1) + k
    BY DEF TargetIndex, DraftsOf
  <2> HIDE DEF d, before
  <2> QED BY <1>0, <1>1, <2>1
<1>3. ~(k <= d) => BonusIndex(i) = before + k
  <2>1. k \in Int /\ k <= d + 1
    BY <1>0
  <2> HIDE DEF d, before
  <2> QED BY <1>0, <1>1, <2>1 DEF BonusIndex
<1>4. ResultIndex(i, k) = below - (d + 1) + k
  <2>1. CASE k <= d
    BY <1>1, <1>2, <2>1 DEF ResultIndex, DraftsOf
  <2>2. CASE ~(k <= d)
    BY <1>1, <1>3, <2>2 DEF ResultIndex, DraftsOf
  <2> QED BY <2>1, <2>2
<1>5. ASSUME k <= d PROVE DraftId(i, k) = ids[below - (d + 1) + k + 1]
  <2>1. k + 1 \in 1 .. plan.d[batch[i]] + 1
    BY <1>0, <1>5
  <2>2. LogitsIndex(before + (k + 1)) = below - (d + 1) + (k + 1)
    BY <2>1, LogitsAre
  <2>3. before + k + 1 = before + (k + 1)
        /\ below - (d + 1) + (k + 1) = below - (d + 1) + k + 1
    <3> HIDE DEF before, d, below
    <3> QED BY <1>0, <1>1
  <2>4. TargetIndex(i, k) + 1 = before + (k + 1)
    BY <1>2, <2>3
  <2> QED BY <2>2, <2>3, <2>4 DEF DraftId
<1> QED BY <1>1, <1>4, <1>5

\* The k tokens sampled for a row come right after its last token that is no draft.
LEMMA NewLenIs ==
  ASSUME batch \in Seq(Req), plan \in Plans, start \in [Rows -> Int], NEW i \in Rows,
         plan.d[batch[i]] + 1 <= plan.n[batch[i]], NEW k \in 1 .. plan.d[batch[i]] + 1
  PROVE  NewLen(i, k) = start[i] + plan.n[batch[i]] - plan.d[batch[i]] + k
<1> DEFINE s == start[i]
           n == plan.n[batch[i]]
           d == plan.d[batch[i]]
           above == CuNumTokens[i - 1]
           below == CuNumTokens[i]
           y == below - (d + 1) + k
<1>1. ResultIndex(i, k) = y /\ RowAt(y) = i
  BY ResultIs
<1>2. NewLen(i, k) = s + y - 1 - above + 2
  <2> HIDE DEF y
  <2> QED BY <1>1 DEF NewLen, PositionAt
<1>3. s \in Int /\ n \in Nat /\ d \in Nat /\ above \in Nat /\ below = above + n
  BY RowTokens
<1>4. k \in Int
  BY <1>3
<1> HIDE DEF s, n, d, above, below
<1>5. NewLen(i, k) = s + n - d + k
  BY <1>2, <1>3, <1>4
<1> QED BY <1>5 DEF s, n, d

-----------------------------------------------------------------------------
(* The updates of a request, field by field.                               *)

\* _preempt_request.
LEMMA PreemptedIs ==
  ASSUME NEW q \in Jobs
  PROVE  /\ PreemptedJob(q) \in Jobs
         /\ PreemptedJob(q).status = "preempted" /\ PreemptedJob(q).spec = 0
         /\ PreemptedJob(q).known = q.known /\ PreemptedJob(q).ph = q.ph
<1> DEFINE p1 == [q EXCEPT !.status = "preempted"]
           p2 == [p1 EXCEPT !.computed = 0]
           p3 == [p2 EXCEPT !.spec = 0]
<1>1. p1 \in Jobs
  BY DEF Jobs
<1> HIDE DEF p1
<1>2. p2 \in Jobs
  BY <1>1 DEF Jobs
<1> HIDE DEF p2
<1>3. p3 \in Jobs
  BY <1>2 DEF Jobs
<1> USE DEF p1, p2
<1>4. PreemptedJob(q) = p3
  BY DEF PreemptedJob
<1>5. p3.status = "preempted" /\ p3.spec = 0 /\ p3.known = q.known /\ p3.ph = q.ph
  BY DEF Jobs
<1> QED BY <1>3, <1>4, <1>5

\* A request taken from the waiting queues.
AdmittedWith(q, hit) == [q EXCEPT !.status = "running", !.computed = hit]

\* What it is then.
LEMMA AdmittedIs ==
  ASSUME NEW q \in Jobs, NEW hit \in Nat
  PROVE  LET new == AdmittedWith(q, hit)
         IN  /\ new \in Jobs /\ new.status = "running" /\ new.computed = hit
             /\ new.spec = q.spec /\ new.known = q.known /\ new.ph = q.ph
<1> DEFINE p1 == [q EXCEPT !.status = "running"]
           p2 == [p1 EXCEPT !.computed = hit]
<1>1. p1 \in Jobs
  BY DEF Jobs
<1> HIDE DEF p1
<1>2. p2 \in Jobs
  BY <1>1 DEF Jobs
<1> USE DEF p1
<1>3. AdmittedWith(q, hit) = p2
  BY DEF AdmittedWith
<1>4. /\ p2.status = "running" /\ p2.computed = hit
      /\ p2.spec = q.spec /\ p2.known = q.known /\ p2.ph = q.ph
  BY DEF Jobs
<1> QED BY <1>2, <1>3, <1>4

\* A request after n of its tokens, d of them drafts, were sent to the worker.
LEMMA AdvancedIs ==
  ASSUME NEW r \in Req, job[r] \in Jobs, plan.n[r] \in Nat, plan.d[r] \in Nat, NumSpec \in Nat
  PROVE  /\ Advanced(r) \in Jobs
         /\ Advanced(r).status = job[r].status /\ Advanced(r).known = job[r].known
         /\ Advanced(r).computed = job[r].computed + plan.n[r]
         /\ Advanced(r).chunk = StaysPrefill(r)
         /\ Advanced(r).ph = IF StaysPrefill(r) THEN job[r].ph ELSE job[r].ph + 1 + plan.d[r]
         /\ Advanced(r).spec = IF StaysPrefill(r) THEN job[r].spec ELSE NumSpec
<1> DEFINE stays == StaysPrefill(r)
           p1 == [job[r] EXCEPT !.computed = @ + plan.n[r]]
           p2 == [p1 EXCEPT !.chunk = stays]
           p3 == [p2 EXCEPT !.ph = @ + 1 + plan.d[r]]
           p4 == [p3 EXCEPT !.spec = NumSpec]
<1>0. stays \in BOOLEAN
  BY DEF StaysPrefill
<1> HIDE DEF stays
<1>1. p1 \in Jobs /\ job[r].computed + plan.n[r] \in Int /\ job[r].ph + 1 + plan.d[r] \in Int
  BY DEF Jobs
<1>2. p2 \in Jobs /\ p2.ph = job[r].ph
  BY <1>0, <1>1 DEF Jobs
<1> HIDE DEF p2
<1>3. p3 \in Jobs
  BY <1>1, <1>2 DEF Jobs
<1> HIDE DEF p3
<1>4. p4 \in Jobs
  BY <1>3, RunnerAssumption DEF Jobs
<1> USE DEF p2, p3
<1>5. Advanced(r) = IF stays THEN p2 ELSE p4
  BY DEF Advanced, stays
<1>6. /\ p2.status = job[r].status /\ p2.known = job[r].known
      /\ p2.computed = job[r].computed + plan.n[r] /\ p2.chunk = stays /\ p2.spec = job[r].spec
  BY DEF Jobs
<1>7. /\ p4.status = job[r].status /\ p4.known = job[r].known
      /\ p4.computed = job[r].computed + plan.n[r] /\ p4.chunk = stays
      /\ p4.ph = job[r].ph + 1 + plan.d[r] /\ p4.spec = NumSpec
  BY DEF Jobs
<1> QED BY <1>2, <1>4, <1>5, <1>6, <1>7 DEF stays

\* A request after k of its 1 + d tokens in flight proved valid, and after the drafter said
\* how many drafts the next step has.
AfterOutput(q, d, k, length) == Resized(Corrected(q, d, k), length)

\* What it is then.
LEMMA AfterOutputIs ==
  ASSUME NEW q \in Jobs, NEW d \in Nat, NEW k \in Nat, NEW length \in Nat
  PROVE  /\ AfterOutput(q, d, k, length) \in Jobs
         /\ AfterOutput(q, d, k, length).status = q.status
         /\ AfterOutput(q, d, k, length).chunk = q.chunk
         /\ AfterOutput(q, d, k, length).computed =
              IF q.computed > 0 THEN q.computed - (d + 1 - k) ELSE q.computed
         /\ AfterOutput(q, d, k, length).ph = q.ph - (d + 1)
         /\ AfterOutput(q, d, k, length).known = q.known + k
         /\ AfterOutput(q, d, k, length).spec =
              IF q.status = "running" /\ ~q.chunk THEN length ELSE q.spec
<1> DEFINE p1 == IF q.computed > 0 THEN [q EXCEPT !.computed = @ - (d + 1 - k)] ELSE q
           p2 == [p1 EXCEPT !.ph = @ - (d + 1)]
           p3 == [p2 EXCEPT !.known = @ + k]
           p4 == [p3 EXCEPT !.spec = length]
<1>1. p1 \in Jobs /\ p1.ph = q.ph /\ p1.known = q.known /\ p1.status = q.status
      /\ p1.chunk = q.chunk /\ p1.spec = q.spec
      /\ p1.computed = IF q.computed > 0 THEN q.computed - (d + 1 - k) ELSE q.computed
  BY DEF Jobs
<1> HIDE DEF p1
<1>2. p2 \in Jobs /\ p2.known = q.known
  BY <1>1 DEF Jobs
<1> HIDE DEF p2
<1>3. p3 \in Jobs
  BY <1>2 DEF Jobs
<1> HIDE DEF p3
<1>4. p4 \in Jobs
  BY <1>3 DEF Jobs
<1> USE DEF p2, p3
<1>5. Corrected(q, d, k) = p3
  BY DEF Corrected, p1
<1>6. /\ p3.status = q.status /\ p3.chunk = q.chunk /\ p3.computed = p1.computed
      /\ p3.ph = q.ph - (d + 1) /\ p3.known = q.known + k /\ p3.spec = q.spec
  BY <1>1 DEF Jobs
<1>7. /\ p4.status = p3.status /\ p4.chunk = p3.chunk /\ p4.computed = p3.computed
      /\ p4.ph = p3.ph /\ p4.known = p3.known /\ p4.spec = length
  BY <1>3 DEF Jobs
<1> HIDE DEF p3, p4
<1>8. AfterOutput(q, d, k, length) = IF q.status = "running" /\ ~q.chunk THEN p4 ELSE p3
  BY <1>5, <1>6 DEF AfterOutput, Resized, p4
<1> QED BY <1>1, <1>3, <1>4, <1>6, <1>7, <1>8

-----------------------------------------------------------------------------
(* Facts that the proofs of several steps share.                           *)

\* What is in flight depends on the outputs alone.
LEMMA SameOutputs ==
  ASSUME NEW r \in Req, outputs' = outputs
  PROVE  /\ OwedTo(r)' = OwedTo(r) /\ LostOf(r)' = LostOf(r)
         /\ InFlight(r)' <=> InFlight(r)
BY DEF OwedTo, LostOf, InFlight, Owed, Lost

\* How much is in flight is a number, and nothing if no step in flight gives tokens.
LEMMA InFlightTypes ==
  ASSUME NEW r \in Req, RunnerTypes, OutputsAccount
  PROVE  /\ OwedTo(r) \in Nat /\ LostOf(r) \in Nat
         /\ ~InFlight(r) => OwedTo(r) = 0 /\ LostOf(r) = 0
<1>1. outputs \in Seq(Outputs) /\ Len(outputs) \in Nat
  BY DEF RunnerTypes
<1>2. ASSUME NEW i \in DOMAIN outputs
      PROVE  /\ Owed(outputs[i], r) \in Nat /\ Lost(outputs[i], r) \in Nat
             /\ outputs[i].k[r] = 0 => Owed(outputs[i], r) = 0 /\ Lost(outputs[i], r) = 0
  <2>1. outputs[i] \in Outputs
    BY <1>1
  <2>2. outputs[i].d[r] \in Nat /\ outputs[i].k[r] \in Nat
    BY <2>1 DEF Outputs, Counts
  <2>3. outputs[i].k[r] <= outputs[i].d[r] + 1
    BY DEF OutputsAccount
  <2> QED BY <2>2, <2>3 DEF Owed, Lost
<1>3. (1 \in DOMAIN outputs <=> Len(outputs) >= 1) /\ (Len(outputs) = 2 => 2 \in DOMAIN outputs)
  BY <1>1
<1>4. OwedTo(r) \in Nat /\ LostOf(r) \in Nat
  <2>1. Len(outputs) >= 1 => Owed(outputs[1], r) \in Nat /\ Lost(outputs[1], r) \in Nat
    BY <1>2, <1>3
  <2>2. Len(outputs) = 2 => Owed(outputs[2], r) \in Nat /\ Lost(outputs[2], r) \in Nat
    BY <1>2, <1>3
  <2> DEFINE a1 == IF Len(outputs) >= 1 THEN Owed(outputs[1], r) ELSE 0
             a2 == IF Len(outputs) = 2 THEN Owed(outputs[2], r) ELSE 0
             b1 == IF Len(outputs) >= 1 THEN Lost(outputs[1], r) ELSE 0
             b2 == IF Len(outputs) = 2 THEN Lost(outputs[2], r) ELSE 0
  <2>3. a1 \in Nat /\ a2 \in Nat /\ b1 \in Nat /\ b2 \in Nat
    BY <2>1, <2>2
  <2>4. OwedTo(r) = a1 + a2 /\ LostOf(r) = b1 + b2
    BY DEF OwedTo, LostOf
  <2> HIDE DEF a1, a2, b1, b2
  <2> QED BY <2>3, <2>4
<1>5. ASSUME ~InFlight(r) PROVE OwedTo(r) = 0 /\ LostOf(r) = 0
  <2>1. \A i \in DOMAIN outputs : Owed(outputs[i], r) = 0 /\ Lost(outputs[i], r) = 0
    BY <1>2, <1>5 DEF InFlight
  <2> QED BY <1>3, <2>1 DEF OwedTo, LostOf
<1> QED BY <1>4, <1>5

\* While a step is planned, a request it does not touch stays as it is.
LEMMA PlanKeepsJob ==
  ASSUME NEW r \in Req, JobAccount(r), pc = "plan", pc' = "plan", outputs' = outputs,
         job'[r] = job[r], kv'[r] = kv[r],
         plan'.n[r] = plan.n[r], plan'.d[r] = plan.d[r],
         r \in plan'.new <=> r \in plan.new, r \in plan'.resumed <=> r \in plan.resumed,
         r \in plan.preempted => r \in plan'.preempted
  PROVE  JobAccount(r)'
<1>1. OwedTo(r)' = OwedTo(r) /\ LostOf(r)' = LostOf(r) /\ (InFlight(r)' <=> InFlight(r))
  BY SameOutputs
<1>2. OwedByPlan(r) = 0 /\ OwedByPlan(r)' = 0
  BY DEF OwedByPlan, Working
<1>3. (r \in Admitted)' <=> r \in Admitted
  BY DEF Admitted
<1>4. (r \in Planned)' <=> r \in Planned
  BY DEF Planned
<1>5. RunningJob(r) => RunningJob(r)'
  BY <1>1, <1>3, <1>4 DEF RunningJob, AdmittedJob, LacksTokens, PlannedJob, DraftsAmong,
     Greater, Lesser, Working
<1> QED BY <1>1, <1>2, <1>5 DEF JobAccount, WaitingAccount, PreemptedAccount

\* While the worker works on a step, the requests stay as they are.
LEMMA WorkKeepsJob ==
  ASSUME NEW r \in Req, JobAccount(r), pc \in Working, pc' \in Working,
         UNCHANGED <<job, kv, plan, outputs>>
  PROVE  JobAccount(r)'
<1>1. OwedTo(r)' = OwedTo(r) /\ LostOf(r)' = LostOf(r) /\ (InFlight(r)' <=> InFlight(r))
  BY SameOutputs
<1>2. OwedByPlan(r)' = OwedByPlan(r)
  BY DEF OwedByPlan, Planned
<1>3. (r \in Admitted)' <=> r \in Admitted
  BY DEF Admitted
<1>4. (r \in Planned)' <=> r \in Planned
  BY DEF Planned
<1>5. pc # "plan" /\ pc' # "plan" /\ pc # "idle" /\ pc' # "idle"
  BY DEF Working
<1>6. RunningJob(r) => RunningJob(r)'
  BY <1>1, <1>2, <1>3, <1>4, <1>5 DEF RunningJob, SentJob, LacksTokens, PlannedJob, DraftsAmong,
     Greater, Lesser
<1> QED BY <1>1, <1>2, <1>5, <1>6 DEF JobAccount, WaitingAccount, PreemptedAccount

\* Between two steps the worker's state stays as it is; what it says of a request
\* is true as long as the request goes on.
LEMMA LastStepKept ==
  ASSUME NEW r \in Req, InLastStep(r), pc \in {"idle", "plan"}, pc' \in {"idle", "plan"},
         UNCHANGED <<cache, last, outputs>>,
         job'[r].status # "waiting", r \notin plan'.new,
         job'[r].status # "done" =>
           job[r].status # "done" /\ job'[r].known = job[r].known /\ job'[r].ph = job[r].ph,
         job'[r].status = "running" /\ r \notin Admitted' =>
           job[r].status = "running" /\ r \notin Admitted /\ kv'[r] = kv[r]
  PROVE  InLastStep(r)'
<1>1. OwedByPlan(r) = 0 /\ OwedByPlan(r)' = 0
  BY DEF OwedByPlan, Working
<1> QED BY <1>1 DEF InLastStep

\* So is what it says of the output that came last.
LEMMA ReportedKept ==
  ASSUME NEW r \in Req, Reported(r), UNCHANGED <<cache, last, batch, outputs>>
  PROVE  Reported(r)'
BY DEF Reported

-----------------------------------------------------------------------------
(* The scheduler plans a step.                                             *)

\* Nothing is known of any request, and the worker has none.
LEMMA InitRunner == ASSUME Init PROVE RunnerInv
<1> USE DEF Init
<1>1. RunnerTypes
  BY RunnerAssumption DEF RunnerTypes, Jobs, Plans, Cached, Counts, None, NoPlan,
     NotCached, NothingLast, Rows
<1>2. OutputsAccount /\ PlanAccount
  BY DEF OutputsAccount, PlanAccount, Planned, NoPlan, None, Admitted
<1>3. ASSUME NEW r \in Req PROVE JobAccount(r)
  BY <1>3, RunnerAssumption DEF JobAccount, WaitingAccount, OwedTo, OwedByPlan, InFlight, Working
<1>4. WorkerAccount
  BY DEF WorkerAccount, InLastStep, Reported, ToSet
<1> QED BY <1>1, <1>2, <1>3, <1>4 DEF RunnerInv

\* A step is planned when the plan is empty: a preempted request whose tokens are in flight
\* has had the step of its preemption answered, without them.
LEMMA StartPlanRunner ==
  ASSUME RunnerInv, StartPlan
  PROVE  RunnerInv'
<1> USE DEF StartPlan, schedVars, hostVars, promptVars, gpuVars, history
<1>1. plan = NoPlan /\ Planned = {} /\ Admitted = {} /\ plan.finished = {} /\ plan.chunk = {}
  BY DEF RunnerInv, PlanAccount, NoPlan, Planned, None, Admitted
<1>2. RunnerTypes' /\ OutputsAccount' /\ Rows' = Rows
  BY DEF RunnerInv, RunnerTypes, OutputsAccount, Rows
<1>3. PlanAccount'
  BY <1>1 DEF RunnerInv, PlanAccount, Planned, Admitted
<1>4. ASSUME NEW r \in Req PROVE JobAccount(r)'
  <2>1. JobAccount(r) /\ Len(outputs) < 2
    BY DEF RunnerInv
  <2>2. OwedTo(r)' = OwedTo(r) /\ LostOf(r)' = LostOf(r) /\ (InFlight(r)' <=> InFlight(r))
    BY SameOutputs
  <2>3. OwedByPlan(r) = 0 /\ OwedByPlan(r)' = 0
    BY DEF OwedByPlan, Working
  <2>4. Admitted' = {} /\ Planned' = {}
    BY <1>1 DEF Admitted, Planned
  <2>5. RunningJob(r) => RunningJob(r)'
    BY <1>1, <2>2, <2>4 DEF RunningJob, LacksTokens, Working
  <2> QED BY <2>1, <2>2, <2>3, <2>5 DEF JobAccount, WaitingAccount, PreemptedAccount
<1>5. WorkerAccount'
  <2>1. ASSUME NEW r \in ToSet(batch), r \in Req PROVE InLastStep(r)'
    <3>1. InLastStep(r)
      BY <2>1 DEF RunnerInv, WorkerAccount
    <3>2. job[r].status # "waiting" /\ r \notin plan.new
      BY <3>1 DEF InLastStep
    <3> QED BY <2>1, <3>1, <3>2, LastStepKept DEF Admitted
  <2>2. ASSUME NEW r \in Req PROVE Reported(r)'
    BY <2>2, ReportedKept DEF RunnerInv, WorkerAccount
  <2>3. ToSet(batch) \subseteq Req
    BY DEF RunnerInv, RunnerTypes, ToSet
  <2> QED BY <2>1, <2>2, <2>3 DEF WorkerAccount
<1> QED BY <1>2, <1>3, <1>4, <1>5 DEF RunnerInv

\* What a running request that is not planned yet may get: at least one token, and with
\* drafts among them, the drafts and the token before.
LEMMA PlanRunningRunner ==
  ASSUME NEW r \in Req, RunnerInv, PlanRunning(r)
  PROVE  RunnerInv'
<1> USE DEF schedVars, hostVars, promptVars, gpuVars, history
<1>1. /\ pc = "plan" /\ pc' = "plan" /\ job[r].status = "running" /\ r \notin Planned
      /\ UNCHANGED <<job, finishedIds, outputs, cache, batch, assumed, logprobs, last, start,
                     discards, kv>>
  BY DEF PlanRunning
<1>2. PICK n \in 1 .. NumNewTokens(r) :
        plan' = [plan EXCEPT !.n[r] = n, !.d[r] = DraftsAmong(r, n)]
  BY DEF PlanRunning
<1>3. /\ job[r].known \in Int /\ job[r].computed \in Int /\ job[r].ph \in Int /\ job[r].spec \in Int
      /\ MaxModelLen \in Int
  <2>1. job[r] \in Jobs
    BY DEF RunnerInv, RunnerTypes
  <2>2. MaxModelLen \in Int
    BY RunnerAssumption
  <2> QED BY <2>1, <2>2 DEF Jobs
<1>4. /\ n \in Nat \ {0} /\ n <= job[r].known + job[r].spec + job[r].ph - job[r].computed
      /\ DraftsAmong(r, n) \in Nat
  BY <1>2, <1>3 DEF NumNewTokens, Lesser, DraftsAmong, Greater
<1>5. /\ plan' \in Plans
      /\ plan'.n = [plan.n EXCEPT ![r] = n] /\ plan'.d = [plan.d EXCEPT ![r] = DraftsAmong(r, n)]
      /\ plan'.new = plan.new /\ plan'.resumed = plan.resumed /\ plan'.finished = plan.finished
      /\ plan'.chunk = plan.chunk /\ plan'.preempted = plan.preempted
      /\ plan.n \in [Req -> Nat] /\ plan.d \in [Req -> Nat]
  BY <1>2, <1>4 DEF RunnerInv, RunnerTypes, Plans, Counts
<1>6. Planned' = Planned \cup {r} /\ Admitted' = Admitted
  BY <1>4, <1>5 DEF Planned, Admitted
<1>7. RunnerTypes' /\ OutputsAccount'
  BY <1>1, <1>5 DEF RunnerInv, RunnerTypes, OutputsAccount, Rows
<1>8. PlanAccount'
  BY <1>1, <1>5, <1>6 DEF RunnerInv, PlanAccount
<1>9. ASSUME NEW q \in Req PROVE JobAccount(q)'
  <2>1. JobAccount(q)
    BY DEF RunnerInv
  <2>2. CASE q # r
    BY <1>1, <1>5, <2>1, <2>2, PlanKeepsJob
  <2>3. CASE q = r
    <3>1. OwedTo(r)' = OwedTo(r) /\ LostOf(r)' = LostOf(r) /\ (InFlight(r)' <=> InFlight(r))
      BY <1>1, SameOutputs
    <3>2. OwedByPlan(r) = 0 /\ OwedByPlan(r)' = 0
      BY <1>1 DEF OwedByPlan, Working
    <3>3. r \notin Admitted
      BY <1>1 DEF RunnerInv, PlanAccount
    <3>4. LacksTokens(r)'
      BY <1>1, <2>1, <2>3, <3>3 DEF JobAccount, RunningJob, LacksTokens
    <3>5. PlannedJob(r)'
      BY <1>1, <1>4, <1>5 DEF PlannedJob, DraftsAmong
    <3>6. RunningJob(r)'
      BY <1>1, <1>6, <2>1, <2>3, <3>1, <3>3, <3>4, <3>5 DEF JobAccount, RunningJob, Working
    <3> QED BY <1>1, <2>1, <2>3, <3>1, <3>2, <3>6 DEF JobAccount
  <2> QED BY <2>2, <2>3
<1>10. WorkerAccount'
  <2>1. ASSUME NEW q \in ToSet(batch), q \in Req PROVE InLastStep(q)'
    <3>1. InLastStep(q)
      BY <1>1, <2>1 DEF RunnerInv, WorkerAccount
    <3>2. job[q].status # "waiting" /\ q \notin plan.new
      BY <3>1 DEF InLastStep
    <3> QED BY <1>1, <1>5, <1>6, <2>1, <3>1, <3>2, LastStepKept
  <2>2. ASSUME NEW q \in Req PROVE Reported(q)'
    BY <1>1, <2>2, ReportedKept DEF RunnerInv, WorkerAccount
  <2>3. ToSet(batch) \subseteq Req
    BY DEF RunnerInv, RunnerTypes, ToSet
  <2> QED BY <1>1, <2>1, <2>2, <2>3 DEF WorkerAccount
<1> QED BY <1>7, <1>8, <1>9, <1>10 DEF RunnerInv

\* A preempted request may have tokens in flight: it cannot be admitted in the step that
\* preempts it, and by the next one the output with those tokens has been taken.
LEMMA PreemptRunner ==
  ASSUME NEW r \in Req, RunnerInv, Preempt(r)
  PROVE  RunnerInv'
<1> USE DEF schedVars, hostVars, promptVars, gpuVars, history
<1>1. /\ pc = "plan" /\ pc' = "plan" /\ job[r].status = "running" /\ r \notin Planned
      /\ Admitted = {}
      /\ job' = [job EXCEPT ![r] = PreemptedJob(@)]
      /\ plan' = [plan EXCEPT !.preempted = @ \cup {r}]
      /\ UNCHANGED <<finishedIds, outputs, cache, batch, assumed, logprobs, last, start,
                     discards, kv>>
  BY DEF Preempt, Admitted
<1>2. /\ job' \in [Req -> Jobs]
      /\ job'[r].status = "preempted" /\ job'[r].spec = 0
      /\ job'[r].known = job[r].known /\ job'[r].ph = job[r].ph
      /\ \A q \in Req : q # r => job'[q] = job[q]
  <2>1. job \in [Req -> Jobs] /\ job[r] \in Jobs
    BY DEF RunnerInv, RunnerTypes
  <2> DEFINE new == PreemptedJob(job[r])
  <2>2. /\ new \in Jobs /\ new.status = "preempted" /\ new.spec = 0
        /\ new.known = job[r].known /\ new.ph = job[r].ph
    BY <2>1, PreemptedIs
  <2>3. job' = [job EXCEPT ![r] = new]
    BY <1>1
  <2> HIDE DEF new
  <2> QED BY <2>1, <2>2, <2>3
<1>3. /\ plan' \in Plans
      /\ plan'.n = plan.n /\ plan'.d = plan.d
      /\ plan'.new = plan.new /\ plan'.resumed = plan.resumed /\ plan'.finished = plan.finished
      /\ plan'.chunk = plan.chunk /\ plan'.preempted = plan.preempted \cup {r}
  BY <1>1 DEF RunnerInv, RunnerTypes, Plans
<1>4. Planned' = Planned /\ Admitted' = {}
  BY <1>1, <1>3 DEF Planned, Admitted
<1>5. RunnerTypes' /\ OutputsAccount'
  BY <1>1, <1>2, <1>3 DEF RunnerInv, RunnerTypes, OutputsAccount, Rows
<1>6. PlanAccount'
  <2>1. \A q \in Planned : q # r
    BY <1>1
  <2>2. \A q \in Req : job[q].status = "done" => job'[q].status = "done"
    BY <1>1, <1>2
  <2>3. finishedIds \subseteq Req /\ plan.finished \subseteq Req /\ Planned \subseteq Req
    BY DEF RunnerInv, RunnerTypes, Plans, Planned
  <2> QED BY <1>1, <1>2, <1>3, <1>4, <2>1, <2>2, <2>3 DEF RunnerInv, PlanAccount
<1>7. ASSUME NEW q \in Req PROVE JobAccount(q)'
  <2>1. JobAccount(q)
    BY DEF RunnerInv
  <2>2. CASE q # r
    BY <1>1, <1>2, <1>3, <2>1, <2>2, PlanKeepsJob
  <2>3. CASE q = r
    <3>1. OwedTo(r)' = OwedTo(r)
      BY <1>1, SameOutputs
    <3>2. OwedByPlan(r) = 0 /\ OwedByPlan(r)' = 0
      BY <1>1 DEF OwedByPlan, Working
    <3>3. PreemptedAccount(r)'
      BY <1>1, <1>2, <1>3 DEF PreemptedAccount
    <3> QED BY <1>1, <1>2, <2>1, <2>3, <3>1, <3>2, <3>3 DEF JobAccount
  <2> QED BY <2>2, <2>3
<1>8. WorkerAccount'
  <2>1. ASSUME NEW q \in ToSet(batch), q \in Req PROVE InLastStep(q)'
    <3>1. InLastStep(q)
      BY <1>1, <2>1 DEF RunnerInv, WorkerAccount
    <3>4. job[q].status # "waiting" /\ q \notin plan.new
      BY <3>1 DEF InLastStep
    <3>2. CASE q # r
      BY <1>1, <1>2, <1>3, <1>4, <2>1, <3>1, <3>2, <3>4, LastStepKept
    <3>3. CASE q = r
      BY <1>1, <1>2, <1>3, <1>4, <2>1, <3>1, <3>3, <3>4, LastStepKept
    <3> QED BY <3>2, <3>3
  <2>2. ASSUME NEW q \in Req PROVE Reported(q)'
    BY <1>1, <2>2, ReportedKept DEF RunnerInv, WorkerAccount
  <2>3. ToSet(batch) \subseteq Req
    BY DEF RunnerInv, RunnerTypes, ToSet
  <2> QED BY <1>1, <2>1, <2>2, <2>3 DEF WorkerAccount
<1> QED BY <1>5, <1>6, <1>7, <1>8 DEF RunnerInv

\* A request is admitted with nothing in flight and starts where its cached prefix ends.
LEMMA AdmitRunner ==
  ASSUME NEW r \in Req, RunnerInv, Admit(r)
  PROVE  RunnerInv'
<1> USE DEF schedVars, hostVars, promptVars, gpuVars, history
<1>1. /\ pc = "plan" /\ pc' = "plan" /\ job[r].status \in {"waiting", "preempted"}
      /\ plan.preempted = {}
      /\ UNCHANGED <<finishedIds, outputs, cache, batch, assumed, logprobs, last, start,
                     discards>>
  BY DEF Admit
<1>2. PICK hit \in 0 .. Greater(0, Lesser(MaxPrefixHit, job[r].known - 1)), n \in Nat \ {0} :
       /\ n <= job[r].known - hit
       /\ job' = [job EXCEPT ![r].status = "running", ![r].computed = hit]
       /\ plan' = [plan EXCEPT
                     !.n[r] = n,
                     !.new = IF job[r].status = "waiting" THEN @ \cup {r} ELSE @,
                     !.resumed = IF job[r].status = "preempted" THEN @ \cup {r} ELSE @]
       /\ kv' = [kv EXCEPT ![r] = hit]
  <2>1. /\ {0} \subseteq 0 .. Greater(0, Lesser(MaxPrefixHit, job[r].known - 1))
        /\ 0 .. Lesser(MaxPrefixHit, job[r].known - 1)
             \subseteq 0 .. Greater(0, Lesser(MaxPrefixHit, job[r].known - 1))
    <3> DEFINE l == Lesser(MaxPrefixHit, job[r].known - 1)
    <3>1. job[r].known \in Int /\ MaxPrefixHit \in Int
      <4>1. job[r] \in Jobs
        BY DEF RunnerInv, RunnerTypes
      <4> QED BY <4>1, RunnerAssumption DEF Jobs
    <3>2. l \in Int
      BY <3>1 DEF Lesser
    <3> HIDE DEF l
    <3>3. Greater(0, l) \in Int /\ 0 <= Greater(0, l) /\ l <= Greater(0, l)
      BY <3>2 DEF Greater
    <3>4. 0 \in 0 .. Greater(0, l) /\ 0 .. l \subseteq 0 .. Greater(0, l)
      BY <3>2, <3>3
    <3> QED BY <3>4 DEF l
  <2>2. PICK hit \in 0 .. Greater(0, Lesser(MaxPrefixHit, job[r].known - 1)) :
        \E n \in 1 .. job[r].known - hit :
          /\ job' = [job EXCEPT ![r].status = "running", ![r].computed = hit]
          /\ plan' = [plan EXCEPT
                        !.n[r] = n,
                        !.new = IF job[r].status = "waiting" THEN @ \cup {r} ELSE @,
                        !.resumed = IF job[r].status = "preempted" THEN @ \cup {r} ELSE @]
          /\ kv' = [kv EXCEPT ![r] = hit]
    BY <2>1 DEF Admit
  <2>3. job[r].known \in Int
    BY DEF RunnerInv, RunnerTypes, Jobs
  <2>4. PICK n \in 1 .. job[r].known - hit :
          /\ job' = [job EXCEPT ![r].status = "running", ![r].computed = hit]
          /\ plan' = [plan EXCEPT
                        !.n[r] = n,
                        !.new = IF job[r].status = "waiting" THEN @ \cup {r} ELSE @,
                        !.resumed = IF job[r].status = "preempted" THEN @ \cup {r} ELSE @]
          /\ kv' = [kv EXCEPT ![r] = hit]
    BY <2>2
  <2>5. n \in Nat \ {0} /\ n <= job[r].known - hit
    BY <2>3, <2>4
  <2> QED BY <2>4, <2>5
<1>3. job[r].known \in Int /\ hit \in Nat /\ n \in Nat \ {0} /\ n <= job[r].known - hit
  BY <1>2 DEF RunnerInv, RunnerTypes, Jobs
<1>4. /\ job' \in [Req -> Jobs]
      /\ job'[r].status = "running" /\ job'[r].computed = hit /\ job'[r].spec = job[r].spec
      /\ job'[r].known = job[r].known /\ job'[r].ph = job[r].ph
      /\ \A q \in Req : q # r => job'[q] = job[q]
  <2>1. job \in [Req -> Jobs] /\ job[r] \in Jobs
    BY DEF RunnerInv, RunnerTypes
  <2> DEFINE new == AdmittedWith(job[r], hit)
  <2>2. /\ new \in Jobs /\ new.status = "running" /\ new.computed = hit /\ new.spec = job[r].spec
        /\ new.known = job[r].known /\ new.ph = job[r].ph
    BY <1>3, <2>1, AdmittedIs
  <2>3. job' = [job EXCEPT ![r] = new]
    BY <1>2, <2>1 DEF AdmittedWith
  <2> HIDE DEF new
  <2> QED BY <2>1, <2>2, <2>3
<1>5. /\ plan' \in Plans
      /\ plan'.n = [plan.n EXCEPT ![r] = n] /\ plan'.d = plan.d
      /\ plan'.new = IF job[r].status = "waiting" THEN plan.new \cup {r} ELSE plan.new
      /\ plan'.resumed = IF job[r].status = "preempted" THEN plan.resumed \cup {r} ELSE plan.resumed
      /\ plan'.finished = plan.finished
      /\ plan'.chunk = plan.chunk /\ plan'.preempted = plan.preempted
      /\ plan.n \in [Req -> Nat] /\ plan.d \in [Req -> Nat]
  BY <1>2, <1>3 DEF RunnerInv, RunnerTypes, Plans, Counts
<1>6. /\ kv \in [Req -> Nat] /\ kv' \in [Req -> Nat] /\ kv'[r] = hit
      /\ \A q \in Req : q # r => kv'[q] = kv[q]
  BY <1>2, <1>3 DEF RunnerInv, RunnerTypes
<1>7. Planned' = Planned \cup {r} /\ Admitted' = Admitted \cup {r}
  BY <1>1, <1>3, <1>5 DEF Planned, Admitted
<1>8. r \notin Planned
  BY <1>1 DEF RunnerInv, PlanAccount
<1>9. RunnerTypes' /\ OutputsAccount'
  BY <1>1, <1>4, <1>5, <1>6 DEF RunnerInv, RunnerTypes, OutputsAccount, Rows
<1>10. PlanAccount'
  <2>1. \A q \in Req : job[q].status = "done" => q # r
    BY <1>1
  <2>2. finishedIds \subseteq Req /\ plan.finished \subseteq Req /\ Planned \subseteq Req
    BY DEF RunnerInv, RunnerTypes, Plans, Planned
  <2>3. \A q \in Planned \cup {r} : job'[q].status = "running"
    BY <1>4, <2>2 DEF RunnerInv, PlanAccount
  <2>4. \A q \in finishedIds \cup plan.finished : job'[q].status = "done"
    BY <1>4, <2>1, <2>2 DEF RunnerInv, PlanAccount
  <2> QED BY <1>1, <1>5, <1>7, <2>3, <2>4 DEF RunnerInv, PlanAccount
<1>11. ASSUME NEW q \in Req PROVE JobAccount(q)'
  <2>1. JobAccount(q)
    BY DEF RunnerInv
  <2>2. CASE q # r
    <3>1. q \in plan'.new <=> q \in plan.new
      BY <1>5, <2>2
    <3>2. q \in plan'.resumed <=> q \in plan.resumed
      BY <1>5, <2>2
    <3> QED BY <1>1, <1>4, <1>5, <1>6, <2>1, <2>2, <3>1, <3>2, PlanKeepsJob
  <2>3. CASE q = r
    <3>1. OwedTo(r)' = OwedTo(r) /\ (InFlight(r)' <=> InFlight(r))
      BY <1>1, SameOutputs
    <3>2. OwedByPlan(r) = 0 /\ OwedByPlan(r)' = 0
      BY <1>1 DEF OwedByPlan, Working
    <3>3. /\ ~InFlight(r) /\ job[r].spec = 0
          /\ (job[r].status = "waiting" => job[r].known = PromptLen[r])
      BY <1>1, <2>1, <2>3 DEF JobAccount, WaitingAccount, PreemptedAccount
    <3>4. plan.d[r] = 0 /\ r \notin plan.new
      BY <1>8 DEF RunnerInv, PlanAccount, Admitted
    <3>5. AdmittedJob(r)'
      BY <1>3, <1>4, <1>5, <1>6, <3>1, <3>3, <3>4 DEF AdmittedJob
    <3>6. RunningJob(r)'
      BY <1>1, <1>7, <3>5 DEF RunningJob
    <3> QED BY <1>1, <1>4, <2>1, <2>3, <3>1, <3>2, <3>6 DEF JobAccount
  <2> QED BY <2>2, <2>3
<1>12. WorkerAccount'
  <2>1. ASSUME NEW q \in ToSet(batch), q \in Req PROVE InLastStep(q)'
    <3>1. InLastStep(q)
      BY <1>1, <2>1 DEF RunnerInv, WorkerAccount
    <3>4. job[q].status # "waiting" /\ q \notin plan.new
      BY <3>1 DEF InLastStep
    <3>2. CASE q # r
      <4>1. q \notin plan'.new
        BY <1>5, <3>2, <3>4
      <4> QED BY <1>1, <1>4, <1>6, <1>7, <2>1, <3>1, <3>2, <3>4, <4>1, LastStepKept
    <3>3. CASE q = r
      <4>1. q \notin plan'.new
        BY <1>5, <3>3, <3>4
      <4> QED BY <1>1, <1>4, <1>7, <2>1, <3>1, <3>3, <4>1, LastStepKept
    <3> QED BY <3>2, <3>3
  <2>2. ASSUME NEW q \in Req PROVE Reported(q)'
    BY <1>1, <2>2, ReportedKept DEF RunnerInv, WorkerAccount
  <2>3. ToSet(batch) \subseteq Req
    BY DEF RunnerInv, RunnerTypes, ToSet
  <2> QED BY <1>1, <2>1, <2>2, <2>3 DEF WorkerAccount
<1> QED BY <1>9, <1>10, <1>11, <1>12 DEF RunnerInv

\* What is sent of a request: the tokens up to its last known one and, for a prompt that
\* is done, one placeholder for each draft and one for the token after them.
LEMMA SendStepRunner ==
  ASSUME RunnerInv, SendStep
  PROVE  RunnerInv'
<1> USE DEF schedVars, hostVars, promptVars, gpuVars, history
<1>1. /\ pc = "plan" /\ pc' = "update" /\ finishedIds' = {}
      /\ job' = [r \in Req |-> IF r \in Planned THEN Advanced(r) ELSE job[r]]
      /\ UNCHANGED <<outputs, cache, batch, assumed, logprobs, last, start, discards, kv>>
  BY DEF SendStep
<1>2. /\ job \in [Req -> Jobs] /\ plan \in Plans
      /\ plan.n \in [Req -> Nat] /\ plan.d \in [Req -> Nat]
      /\ NumSpec \in Nat /\ PromptLen \in [Req -> Nat]
      /\ finishedIds \subseteq Req /\ Planned \subseteq Req
  BY RunnerAssumption DEF RunnerInv, RunnerTypes, Plans, Counts, Planned
<1>3. \A r \in Req :
        /\ job[r].chunk \in BOOLEAN /\ job[r].known \in Int /\ job[r].computed \in Int
        /\ job[r].ph \in Int /\ job[r].spec \in Int
  BY <1>2 DEF Jobs
<1>4. /\ plan'.n = plan.n /\ plan'.d = plan.d /\ plan'.new = plan.new
      /\ plan'.resumed = plan.resumed
      /\ plan'.finished = finishedIds /\ plan'.preempted = plan.preempted
      /\ plan'.computed = [r \in Req |-> IF r \in Planned THEN job[r].computed ELSE 0]
      /\ plan'.out = [r \in Req |-> IF r \in Planned
                                    THEN job[r].known - PromptLen[r] + job[r].ph ELSE 0]
      /\ plan'.sent = [r \in Req |-> IF r \in Planned \ prevStep THEN job[r].known ELSE 0]
      /\ plan'.chunk = {r \in Planned : StaysPrefill(r)}
  BY <1>2 DEF SendStep, Plans
<1>5. plan' \in Plans
  <2> DEFINE c == [r \in Req |-> IF r \in Planned THEN job[r].computed ELSE 0]
             o == [r \in Req |-> IF r \in Planned
                                 THEN job[r].known - PromptLen[r] + job[r].ph ELSE 0]
             s == [r \in Req |-> IF r \in Planned \ prevStep THEN job[r].known ELSE 0]
             ch == {r \in Planned : StaysPrefill(r)}
             p1 == [plan EXCEPT !.finished = finishedIds]
             p2 == [p1 EXCEPT !.computed = c]
             p3 == [p2 EXCEPT !.out = o]
             p4 == [p3 EXCEPT !.sent = s]
             p5 == [p4 EXCEPT !.chunk = ch]
  <2>1. c \in [Req -> Int] /\ o \in [Req -> Int] /\ s \in [Req -> Int] /\ ch \subseteq Req
    BY <1>2, <1>3
  <2>2. plan' = p5
    BY DEF SendStep
  <2> HIDE DEF c, o, s, ch
  <2>3. p1 \in Plans
    BY <1>2 DEF Plans
  <2> HIDE DEF p1
  <2>4. p2 \in Plans
    BY <2>1, <2>3 DEF Plans
  <2> HIDE DEF p2
  <2>5. p3 \in Plans
    BY <2>1, <2>4 DEF Plans
  <2> HIDE DEF p3
  <2>6. p4 \in Plans
    BY <2>1, <2>5 DEF Plans
  <2> HIDE DEF p4
  <2>7. p5 \in Plans
    BY <2>1, <2>6 DEF Plans
  <2> QED BY <2>2, <2>7
<1>6. Planned' = Planned /\ Admitted' = Admitted
  BY <1>4 DEF Planned, Admitted
<1>7. /\ job' \in [Req -> Jobs]
      /\ \A r \in Req \ Planned : job'[r] = job[r]
      /\ \A r \in Planned :
           /\ job'[r].status = job[r].status /\ job'[r].known = job[r].known
           /\ job'[r].computed = job[r].computed + plan.n[r]
           /\ job'[r].chunk = StaysPrefill(r)
           /\ job'[r].ph = IF StaysPrefill(r) THEN job[r].ph ELSE job[r].ph + 1 + plan.d[r]
           /\ job'[r].spec = IF StaysPrefill(r) THEN job[r].spec ELSE NumSpec
  <2>1. ASSUME NEW r \in Req
        PROVE  /\ Advanced(r) \in Jobs
               /\ Advanced(r).status = job[r].status /\ Advanced(r).known = job[r].known
               /\ Advanced(r).computed = job[r].computed + plan.n[r]
               /\ Advanced(r).chunk = StaysPrefill(r)
               /\ Advanced(r).ph = IF StaysPrefill(r) THEN job[r].ph ELSE job[r].ph + 1 + plan.d[r]
               /\ Advanced(r).spec = IF StaysPrefill(r) THEN job[r].spec ELSE NumSpec
    BY <1>2, <2>1, AdvancedIs
  <2> QED BY <1>1, <1>2, <2>1
<1>8. RunnerTypes' /\ OutputsAccount'
  BY <1>1, <1>5, <1>7 DEF RunnerInv, RunnerTypes, OutputsAccount, Rows, Working
<1>9. PlanAccount'
  <2>1. plan'.chunk \subseteq Planned'
    BY <1>4, <1>6
  <2>2. \A r \in Planned' : job'[r].status = "running"
    BY <1>6, <1>7 DEF RunnerInv, PlanAccount
  <2>3. \A r \in finishedIds' \cup plan'.finished : job'[r].status = "done"
    <3>1. \A r \in finishedIds : r \in Req /\ job[r].status = "done" /\ r \notin Planned
      BY <1>2 DEF RunnerInv, PlanAccount
    <3> QED BY <1>1, <1>4, <1>7, <3>1
  <2> QED BY <1>1, <1>4, <1>6, <2>1, <2>2, <2>3 DEF RunnerInv, PlanAccount
<1>10. ASSUME NEW r \in Req PROVE JobAccount(r)'
  <2>1. JobAccount(r)
    BY DEF RunnerInv
  <2>2. OwedTo(r)' = OwedTo(r) /\ LostOf(r)' = LostOf(r) /\ (InFlight(r)' <=> InFlight(r))
    BY <1>1, SameOutputs
  <2>3. /\ OwedByPlan(r) = 0
        /\ OwedByPlan(r)' = IF r \in Planned /\ ~StaysPrefill(r) THEN plan.d[r] + 1 ELSE 0
    BY <1>1, <1>4, <1>6 DEF OwedByPlan, Working
  <2>4. CASE r \notin Planned
    <3>1. r \notin Admitted
      BY <2>4 DEF RunnerInv, PlanAccount
    <3>2. job'[r] = job[r] /\ kv'[r] = kv[r]
      BY <1>1, <1>7, <2>4
    <3>3. RunningJob(r) => RunningJob(r)'
      BY <1>1, <1>6, <2>2, <2>4, <3>1, <3>2 DEF RunningJob, LacksTokens, Working
    <3> QED BY <1>1, <2>1, <2>2, <2>3, <2>4, <3>2, <3>3 DEF JobAccount,
           WaitingAccount, PreemptedAccount
  <2>5. CASE r \in Planned
    <3> DEFINE n == plan.n[r]
               d == plan.d[r]
               end == job[r].known + job[r].ph
    <3>1. /\ n \in Nat \ {0} /\ d \in Nat /\ job[r].status = "running"
          /\ job[r].ph = OwedTo(r) /\ RunningJob(r)
      <4>1. OwedTo(r) \in Nat
        BY InFlightTypes DEF RunnerInv
      <4> QED BY <1>2, <2>1, <2>3, <2>5, <4>1 DEF RunnerInv, PlanAccount, Planned, JobAccount
    <3>2. /\ d + 1 <= n /\ (d > 0 => n = d + 1)
          /\ StaysPrefill(r) => d = 0
          /\ ~StaysPrefill(r) => job[r].computed + n = end + d
          /\ job[r].spec > 0 => ~StaysPrefill(r)
          /\ r \in Admitted => ~InFlight(r)
          /\ r \in plan.new => end = PromptLen[r]
          /\ job[r].computed = kv[r] + LostOf(r)
          /\ InFlight(r) => kv[r] > 0
      <4>1. CASE r \in Admitted
        <5>1. AdmittedJob(r)
          BY <1>1, <3>1, <4>1 DEF RunningJob
        <5>2. OwedTo(r) = 0 /\ LostOf(r) = 0
          BY <5>1, InFlightTypes DEF AdmittedJob, RunnerInv
        <5>3. kv[r] \in Nat
          BY DEF RunnerInv, RunnerTypes
        <5> QED BY <1>3, <3>1, <5>1, <5>2, <5>3 DEF AdmittedJob, StaysPrefill
      <4>2. CASE r \notin Admitted
        <5>1. /\ LacksTokens(r) /\ PlannedJob(r) /\ job[r].computed = kv[r] + LostOf(r)
              /\ InFlight(r) => kv[r] > 0
          BY <1>1, <2>5, <3>1, <4>2 DEF RunningJob, Working
        <5>2. d = Greater(0, Lesser(job[r].spec, n + job[r].computed - job[r].known - job[r].ph))
              /\ n <= job[r].known + job[r].spec + job[r].ph - job[r].computed
          BY <5>1 DEF PlannedJob, DraftsAmong
        <5>3. r \notin plan.new
          BY <4>2 DEF Admitted
        <5>4. job[r].computed < end /\ (job[r].spec > 0 => job[r].computed = end - 1)
          BY <1>3, <5>1 DEF LacksTokens
        <5>5. /\ d + 1 <= n /\ (d > 0 => n = d + 1)
              /\ StaysPrefill(r) => d = 0
              /\ ~StaysPrefill(r) => job[r].computed + n = end + d
              /\ job[r].spec > 0 => ~StaysPrefill(r)
          <6> DEFINE over == n + job[r].computed - job[r].known - job[r].ph
          <6>1. over \in Int /\ over = n + job[r].computed - end /\ end \in Int
                /\ job[r].computed \in Int /\ job[r].spec \in Int /\ n \in Nat /\ d \in Nat
            BY <1>3, <3>1
          <6>2. over <= job[r].spec
            BY <1>3, <3>1, <5>2
          <6>3. d = IF over >= 0 THEN over ELSE 0
            <7> HIDE DEF over
            <7> QED BY <1>3, <5>2, <6>1, <6>2 DEF Greater, Lesser, over
          <6>4. StaysPrefill(r) <=> job[r].computed + n < end
            BY DEF StaysPrefill
          <6> HIDE DEF over, n, d, end
          <6> QED BY <3>1, <5>4, <6>1, <6>2, <6>3, <6>4
        <5> QED BY <4>2, <5>1, <5>3, <5>5
      <4> QED BY <4>1, <4>2
    <3>3. /\ plan'.computed[r] = job[r].computed /\ plan'.out[r] = end - PromptLen[r]
          /\ plan'.n[r] = n /\ plan'.d[r] = d
          /\ r \in plan'.chunk <=> StaysPrefill(r)
      BY <1>2, <1>3, <1>4, <2>5
    <3>4. /\ job'[r].status = "running" /\ job'[r].known = job[r].known
          /\ job'[r].computed = job[r].computed + n
          /\ job'[r].chunk = StaysPrefill(r)
          /\ job'[r].ph = IF StaysPrefill(r) THEN job[r].ph ELSE job[r].ph + 1 + d
          /\ job'[r].spec = IF StaysPrefill(r) THEN job[r].spec ELSE NumSpec
      BY <1>7, <2>5, <3>1
    <3>5. PromptLen[r] \in Nat
      BY <1>2
    <3>6. StaysPrefill(r) <=> job[r].computed + n < end
      BY DEF StaysPrefill
    <3>7. SentJob(r)'
      <4>1. PromptLen[r] + (end - PromptLen[r]) = end
        BY <1>3, <3>5
      <4>2. end = job'[r].known + job'[r].ph - OwedByPlan(r)'
        BY <1>3, <2>3, <2>5, <3>1, <3>4
      <4> HIDE DEF n, d, end
      <4> QED BY <1>1, <1>4, <1>6, <2>2, <3>2, <3>3, <3>4, <3>5, <3>6, <4>1, <4>2 DEF SentJob, end
    <3>8. LacksTokens(r)'
      <4>1. job'[r].chunk \in BOOLEAN
        BY <1>7 DEF Jobs
      <4>2. CASE StaysPrefill(r)
        BY <1>3, <3>1, <3>2, <3>4, <3>6, <4>1, <4>2 DEF LacksTokens
      <4>3. CASE ~StaysPrefill(r)
        BY <1>3, <3>1, <3>2, <3>4, <3>6, <4>1, <4>3 DEF LacksTokens
      <4> QED BY <4>2, <4>3
    <3>9. RunningJob(r)'
      BY <1>1, <1>6, <2>2, <2>5, <3>2, <3>7, <3>8 DEF RunningJob, Working
    <3>10. job'[r].ph = OwedTo(r)' + OwedByPlan(r)'
      BY <1>3, <2>2, <2>3, <2>5, <3>1, <3>4
    <3> QED BY <3>4, <3>9, <3>10 DEF JobAccount
  <2> QED BY <2>4, <2>5
<1>11. WorkerAccount'
  <2>1. ASSUME NEW r \in ToSet(batch), r \in Req PROVE InLastStep(r)'
    <3>1. InLastStep(r)
      BY <1>1, <2>1 DEF RunnerInv, WorkerAccount
    <3>2. /\ OwedByPlan(r) = 0
          /\ OwedByPlan(r)' = IF r \in Planned /\ ~StaysPrefill(r) THEN plan.d[r] + 1 ELSE 0
      BY <1>1, <1>4, <1>6 DEF OwedByPlan, Working
    <3>3. job'[r].status = job[r].status /\ job'[r].known = job[r].known
          /\ job'[r].ph = job[r].ph + OwedByPlan(r)'
      <4>1. CASE r \in Planned
        <5>1. /\ job'[r].status = job[r].status /\ job'[r].known = job[r].known
              /\ job'[r].ph = IF StaysPrefill(r) THEN job[r].ph ELSE job[r].ph + 1 + plan.d[r]
          BY <1>7, <4>1
        <5>2. OwedByPlan(r)' = IF StaysPrefill(r) THEN 0 ELSE plan.d[r] + 1
          BY <3>2, <4>1
        <5>3. job[r].ph \in Int /\ plan.d[r] \in Int
          BY <1>2, <1>3, <2>1
        <5>4. job'[r].ph = job[r].ph + OwedByPlan(r)'
          BY <5>1, <5>2, <5>3
        <5> QED BY <5>1, <5>4
      <4>2. CASE r \notin Planned
        <5>1. job'[r] = job[r] /\ OwedByPlan(r)' = 0 /\ job[r].ph \in Int
          BY <1>3, <1>7, <2>1, <3>2, <4>2
        <5> QED BY <5>1
      <4> QED BY <4>1, <4>2
    <3>4. OwedByPlan(r)' \in Int
      BY <1>2, <2>1, <3>2
    <3>5. job'[r].known - PromptLen[r] + job'[r].ph - OwedByPlan(r)' =
            job[r].known - PromptLen[r] + job[r].ph - OwedByPlan(r)
      BY <1>2, <1>3, <2>1, <3>2, <3>3, <3>4
    <3> QED BY <1>1, <1>4, <1>6, <2>1, <3>1, <3>3, <3>5 DEF InLastStep
  <2>2. ASSUME NEW r \in Req PROVE Reported(r)'
    BY <1>1, <2>2, ReportedKept DEF RunnerInv, WorkerAccount
  <2>3. ToSet(batch) \subseteq Req
    BY DEF RunnerInv, RunnerTypes, ToSet
  <2> QED BY <1>1, <2>1, <2>2, <2>3 DEF WorkerAccount
<1> QED BY <1>8, <1>9, <1>10, <1>11 DEF RunnerInv

\* A set put into rows, in some order: each of its members has one row.
LEMMA RowsOf ==
  ASSUME NEW S \in SUBSET Req, NEW b \in SetToSeqs(S)
  PROVE  /\ b \in Seq(Req) /\ ToSet(b) = S
         /\ \A i, j \in 1 .. Len(b) : b[i] = b[j] => i = j
<1>1. IsFiniteSet(S)
  BY FS_Subset, RunnerAssumption
<1>2. Cardinality(S) \in Nat
  BY <1>1, FS_CardinalityType
<1> DEFINE D == 1 .. Cardinality(S)
<1>3. b \in [D -> S] /\ \A i, j \in D : i # j => b[i] # b[j]
  BY DEF SetToSeqs
<1>4. b \in Injection(D, S)
  BY <1>3 DEF Injection, IsInjective
<1>5. Cardinality(D) = Cardinality(S)
  BY <1>2, FS_Interval
<1>6. b \in Surjection(D, S)
  <2> HIDE DEF D
  <2> QED BY <1>1, <1>4, <1>5, FS_Injection
<1>7. b \in Seq(S) /\ Len(b) = Cardinality(S) /\ DOMAIN b = D
  BY <1>2, <1>3
<1>8. \A s \in S : \E i \in D : b[i] = s
  BY <1>6 DEF Surjection
<1>9. ToSet(b) = S
  BY <1>3, <1>7, <1>8 DEF ToSet
<1> QED BY <1>3, <1>7, <1>9

\* What is in flight while the worker has a step: at most one output.
LEMMA OneInFlight ==
  ASSUME NEW r \in Req, RunnerTypes, OutputsAccount, pc # "idle"
  PROVE  /\ outputs = <<>> => OwedTo(r) = 0 /\ LostOf(r) = 0 /\ ~InFlight(r)
         /\ outputs # <<>> =>
              /\ Len(outputs) = 1 /\ Last(outputs) = outputs[1]
              /\ outputs[1].k[r] \in Nat /\ outputs[1].d[r] \in Nat
              /\ outputs[1].k[r] <= outputs[1].d[r] + 1
              /\ OwedTo(r) = Owed(outputs[1], r) /\ LostOf(r) = Lost(outputs[1], r)
              /\ InFlight(r) <=> outputs[1].k[r] # 0
<1>1. outputs \in Seq(Outputs) /\ Len(outputs) \in Nat /\ Len(outputs) <= 1
  BY DEF RunnerTypes
<1>2. ASSUME outputs = <<>> PROVE OwedTo(r) = 0 /\ LostOf(r) = 0 /\ ~InFlight(r)
  <2>1. ~InFlight(r)
    BY <1>2 DEF InFlight
  <2> QED BY <2>1, InFlightTypes
<1>3. ASSUME outputs # <<>>
      PROVE  /\ Len(outputs) = 1 /\ Last(outputs) = outputs[1]
             /\ outputs[1].k[r] \in Nat /\ outputs[1].d[r] \in Nat
             /\ outputs[1].k[r] <= outputs[1].d[r] + 1
             /\ OwedTo(r) = Owed(outputs[1], r) /\ LostOf(r) = Lost(outputs[1], r)
             /\ InFlight(r) <=> outputs[1].k[r] # 0
  <2>00. Len(outputs) \in Nat \ {0}
    <3>1. \A s \in Seq(Outputs) : s # <<>> => Len(s) \in Nat \ {0}
      BY EmptySeq, Zenon
    <3> QED BY <1>1, <1>3, <3>1, Zenon
  <2> DEFINE m == Len(outputs)
  <2>01. m \in Nat \ {0} /\ m <= 1
    BY <1>1, <2>00
  <2> HIDE DEF m
  <2>02. m = 1
    BY <2>01
  <2>0. Len(outputs) = 1
    BY <2>02 DEF m
  <2>1. DOMAIN outputs = {1} /\ outputs[1] \in Outputs
    BY <1>1, <2>0
  <2>2. outputs[1].k[r] \in Nat /\ outputs[1].d[r] \in Nat
    BY <2>1 DEF Outputs, Counts
  <2>3. outputs[1].k[r] <= outputs[1].d[r] + 1
    BY <2>1 DEF OutputsAccount
  <2>4. Owed(outputs[1], r) \in Int /\ Lost(outputs[1], r) \in Int
    BY <2>2 DEF Owed, Lost
  <2>5. OwedTo(r) = Owed(outputs[1], r) + 0 /\ LostOf(r) = Lost(outputs[1], r) + 0
    BY <2>0 DEF OwedTo, LostOf
  <2>6. InFlight(r) <=> outputs[1].k[r] # 0
    BY <2>1 DEF InFlight
  <2> QED BY <2>0, <2>2, <2>3, <2>4, <2>5, <2>6 DEF Last
<1> QED BY <1>2, <1>3

\* The cached state that the message leaves.
LEMMA CachedStateIs ==
  ASSUME NEW r \in Req, RunnerTypes, PlanAccount
  PROVE  /\ CachedState(r) \in Cached
         /\ r \in Planned =>
              /\ CachedState(r).computed = plan.computed[r] /\ CachedState(r).drafts = plan.d[r]
              /\ CachedState(r).out = IF r \in plan.new THEN 0 ELSE CachedOut(r)
<1>1. /\ cache[r] \in Cached /\ PromptLen[r] \in Int
      /\ plan.n[r] \in Nat /\ plan.d[r] \in Nat /\ plan.computed[r] \in Int /\ plan.out[r] \in Int
      /\ plan.sent[r] \in Int
  BY RunnerAssumption DEF RunnerTypes, Plans, Counts
<1>2. CachedOut(r) \in Int /\ (IF r \in Kept THEN cache[r].real ELSE plan.sent[r]) \in Int
  BY <1>1 DEF CachedOut, Lesser, Cached
<1> DEFINE fresh == [there |-> TRUE, out |-> 0, real |-> PromptLen[r],
                     computed |-> plan.computed[r], drafts |-> plan.d[r]]
           known == [there |-> TRUE, out |-> CachedOut(r),
                     real |-> IF r \in Kept THEN cache[r].real ELSE plan.sent[r],
                     computed |-> plan.computed[r], drafts |-> plan.d[r]]
<1>3. fresh \in Cached /\ known \in Cached /\ NotCached \in Cached
  BY <1>1, <1>2 DEF Cached, NotCached
<1>4. /\ fresh.computed = plan.computed[r] /\ fresh.drafts = plan.d[r] /\ fresh.out = 0
      /\ known.computed = plan.computed[r] /\ known.drafts = plan.d[r] /\ known.out = CachedOut(r)
  OBVIOUS
<1> HIDE DEF fresh, known
<1>5. CachedState(r) = CASE r \in plan.new -> fresh
                         [] r \in Planned \ plan.new -> known
                         [] r \in plan.finished -> NotCached
                         [] OTHER -> cache[r]
  BY DEF CachedState, fresh, known
<1>6. CASE r \in plan.new
  <2>0. r \notin plan.finished /\ r \in Planned
    BY <1>6 DEF PlanAccount, Admitted
  <2>1. CachedState(r) = fresh
    BY <1>5, <1>6, <2>0, Zenon
  <2> QED BY <1>3, <1>4, <1>6, <2>1
<1>7. CASE r \in Planned \ plan.new
  <2>0. r \notin plan.finished
    BY <1>7 DEF PlanAccount
  <2>1. CachedState(r) = known
    BY <1>5, <1>7, <2>0, Zenon
  <2> QED BY <1>3, <1>4, <1>7, <2>1
<1>8. CASE r \notin plan.new /\ r \notin Planned
  <2>1. CachedState(r) = NotCached \/ CachedState(r) = cache[r]
    BY <1>5, <1>8, Zenon
  <2> QED BY <1>1, <1>3, <1>8, <2>1
<1> QED BY <1>6, <1>7, <1>8

\* What a planned request is, for the worker.
LEMMA PlannedIsSent ==
  ASSUME NEW r \in Planned, RunnerInv, pc \in Working
  PROVE  /\ r \in Req /\ job[r].status = "running" /\ SentJob(r) /\ r \notin plan.finished
         /\ plan.n[r] \in Nat /\ plan.d[r] \in Nat /\ kv[r] \in Nat /\ PromptLen[r] \in Nat
         /\ plan.computed[r] \in Int /\ plan.out[r] \in Int
         /\ LacksTokens(r) /\ (InFlight(r) => kv[r] > 0)
<1>1. r \in Req
  BY DEF Planned
<1>2. job[r].status = "running" /\ JobAccount(r) /\ r \notin plan.finished
  BY <1>1 DEF RunnerInv, PlanAccount
<1>3. RunningJob(r)
  BY <1>2 DEF JobAccount
<1>4. SentJob(r) /\ LacksTokens(r) /\ (InFlight(r) => kv[r] > 0)
  BY <1>3 DEF RunningJob, Working
<1>5. /\ plan.n[r] \in Nat /\ plan.d[r] \in Nat /\ kv[r] \in Nat /\ PromptLen[r] \in Nat
      /\ plan.computed[r] \in Int /\ plan.out[r] \in Int
  BY <1>1, RunnerAssumption DEF RunnerInv, RunnerTypes, Plans, Counts
<1> QED BY <1>1, <1>2, <1>4, <1>5

\* When the batch follows the message: what the worker keeps of a planned request is what
\* the message says of it, and its count of tokens is off by the drafts the last step
\* rejected and the scheduler has not heard of.
LEMMA UpdateStatesRunner ==
  ASSUME RunnerInv, UpdateStates
  PROVE  RunnerInv'
<1> USE DEF schedVars, gpuVars, history
<1>1. /\ pc = "update" /\ pc' = IF Planned = {} THEN "answer" ELSE "prepare"
      /\ cache' = [r \in Req |-> CachedState(r)]
      /\ assumed' = [r \in Req |-> OptimisticallyAccepted(r)]
      /\ batch' \in SetToSeqs(Planned)
      /\ UNCHANGED <<job, finishedIds, outputs, plan, start, discards, kv>>
  BY DEF UpdateStates
<1>2. pc \in Working /\ pc' \in Working
  BY <1>1 DEF Working
<1>3. RunnerTypes /\ OutputsAccount /\ PlanAccount /\ WorkerAccount
  BY DEF RunnerInv
<1>4. /\ batch' \in Seq(Req) /\ ToSet(batch') = Planned
      /\ \A i, j \in 1 .. Len(batch') : batch'[i] = batch'[j] => i = j
  <2>1. Planned \in SUBSET Req
    BY DEF Planned
  <2> QED BY <1>1, <2>1, RowsOf
<1>5. Planned' = Planned /\ Admitted' = Admitted
  BY <1>1 DEF Planned, Admitted
<1>6. /\ last'.index \in [Req -> Nat]
      /\ last' = [index |-> last'.index, sampled |-> last'.sampled, proposed |-> last'.proposed,
                  valid |-> last'.valid, computed |-> last'.computed]
      /\ last'.valid = last.valid /\ last'.computed = last.computed
      /\ \A r \in Req \ Removed : last'.index[r] = last.index[r]
      /\ \A r \in Req : last'.index[r] \in {0, last.index[r]}
  <2> DEFINE kept == [r \in Req |-> IF r \in Removed THEN 0 ELSE last.index[r]]
             forgets == [last EXCEPT !.index = kept]
  <2>1. kept \in [Req -> Nat] /\ (\A r \in Req \ Removed : kept[r] = last.index[r])
        /\ \A r \in Req : kept[r] \in {0, last.index[r]}
    BY <1>3 DEF RunnerTypes
  <2>2. last' = forgets \/ last' = last
    BY DEF UpdateStates
  <2>3. last.index \in [Req -> Nat]
        /\ last = [index |-> last.index, sampled |-> last.sampled, proposed |-> last.proposed,
                   valid |-> last.valid, computed |-> last.computed]
    BY <1>3 DEF RunnerTypes
  <2> DEFINE i == last.index
             s == last.sampled
             p == last.proposed
             v == last.valid
             c == last.computed
  <2>4. last = [index |-> i, sampled |-> s, proposed |-> p, valid |-> v, computed |-> c]
    BY <2>3
  <2> HIDE DEF kept, i, s, p, v, c
  <2>5. forgets = [index |-> kept, sampled |-> s, proposed |-> p, valid |-> v, computed |-> c]
    BY <2>4
  <2> HIDE DEF forgets
  <2>6. CASE last' = forgets
    <3>1. /\ last'.index = kept /\ last'.valid = v /\ last'.computed = c
          /\ last' = [index |-> last'.index, sampled |-> last'.sampled, proposed |-> last'.proposed,
                      valid |-> last'.valid, computed |-> last'.computed]
      BY <2>5, <2>6
    <3> QED BY <2>1, <3>1 DEF v, c
  <2>7. CASE last' = last
    BY <2>3, <2>7
  <2> QED BY <2>2, <2>6, <2>7
<1>7. RunnerTypes'
  <2>1. cache' \in [Req -> Cached]
    BY <1>1, <1>3, CachedStateIs
  <2>2. assumed' \in [Req -> Nat]
    <3>1. \A r \in Req : OptimisticallyAccepted(r) \in Nat
      BY <1>3 DEF OptimisticallyAccepted, RunnerTypes, Cached
    <3> QED BY <1>1, <3>1
  <2>3. logprobs' \in [Req -> SUBSET Int]
    BY <1>3 DEF UpdateStates, RunnerTypes
  <2>4. Len(outputs) <= 1
    BY <1>1, <1>3 DEF RunnerTypes
  <2>5. \A r \in Req : last'.index[r] # 0 => last'.valid[last'.index[r]] \in Nat
    BY <1>3, <1>6 DEF RunnerTypes
  <2> QED BY <1>1, <1>2, <1>3, <1>4, <1>6, <2>1, <2>2, <2>3, <2>4, <2>5 DEF RunnerTypes, Rows,
         Working
<1>8. OutputsAccount'
  BY <1>1, <1>3 DEF OutputsAccount
<1>9. PlanAccount'
  BY <1>1, <1>3, <1>5 DEF PlanAccount
<1>10. ASSUME NEW r \in Req PROVE JobAccount(r)'
  BY <1>1, <1>2, <1>10, WorkKeepsJob DEF RunnerInv
<1>11. ASSUME NEW r \in Planned PROVE InThisStep(r)'
  <2>1. /\ r \in Req /\ job[r].status = "running" /\ SentJob(r) /\ r \notin plan.finished
        /\ plan.d[r] \in Nat /\ kv[r] \in Nat /\ PromptLen[r] \in Nat
        /\ plan.computed[r] \in Int /\ plan.out[r] \in Int
    BY <1>2, PlannedIsSent
  <2>2. /\ cache'[r].computed = plan.computed[r] /\ cache'[r].drafts = plan.d[r]
        /\ cache'[r].out = IF r \in plan.new THEN 0 ELSE CachedOut(r)
    BY <1>1, <1>3, <2>1, CachedStateIs
  <2>3. r \in ToSet(batch) => InLastStep(r)
    BY <1>1, <1>3 DEF WorkerAccount
  <2>4. Reported(r)
    BY <1>1, <1>3, <2>1 DEF WorkerAccount
  <2>5. r \in Kept =>
          /\ r \in ToSet(batch) /\ r \notin Admitted /\ InLastStep(r)
          /\ last'.index[r] = last.index[r]
    <3> SUFFICES ASSUME r \in Kept
                 PROVE  /\ r \in ToSet(batch) /\ r \notin Admitted /\ InLastStep(r)
                        /\ last'.index[r] = last.index[r]
      OBVIOUS
    <3>1. r \in ToSet(batch) /\ r \notin plan.resumed /\ r \notin Removed
      BY DEF Kept, Removed
    <3> QED BY <1>6, <2>1, <2>3, <3>1 DEF InLastStep, Admitted
  <2>6. cache'[r].out = plan.out[r]
    <3>1. CASE r \in plan.new
      BY <2>1, <2>2, <3>1 DEF SentJob
    <3>2. CASE r \notin plan.new /\ r \in Kept
      <4>1. PromptLen[r] + plan.out[r] = job[r].known + job[r].ph - OwedByPlan(r)
        BY <2>1 DEF SentJob
      <4>2. cache[r].out + cache[r].drafts >=
              job[r].known - PromptLen[r] + job[r].ph - OwedByPlan(r)
        BY <2>1, <2>5, <3>2 DEF InLastStep
      <4>3. /\ job[r].known \in Int /\ job[r].ph \in Int /\ OwedByPlan(r) \in Int
            /\ cache[r].out \in Int /\ cache[r].drafts \in Int
        <5>1. job[r] \in Jobs /\ cache[r] \in Cached
          BY <1>3, <2>1 DEF RunnerTypes
        <5>2. OwedByPlan(r) \in Int
          BY <2>1 DEF OwedByPlan
        <5> QED BY <5>1, <5>2 DEF Jobs, Cached
      <4>4. cache[r].out + cache[r].drafts >= plan.out[r]
        <5> DEFINE known == job[r].known
                   ph == job[r].ph
                   owed == OwedByPlan(r)
                   len0 == PromptLen[r]
                   out == plan.out[r]
                   has == cache[r].out + cache[r].drafts
        <5>1. /\ known \in Int /\ ph \in Int /\ owed \in Int
              /\ len0 \in Int /\ out \in Int /\ has \in Int
          BY <2>1, <4>3
        <5>2. len0 + out = known + ph - owed /\ has >= known - len0 + ph - owed
          BY <4>1, <4>2
        <5> HIDE DEF known, ph, owed, len0, out, has
        <5>3. has >= out
          BY <5>1, <5>2
        <5> QED BY <5>3 DEF has, out
      <4>5. CachedOut(r) = Lesser(cache[r].out + cache[r].drafts, plan.out[r])
        BY <3>2 DEF CachedOut
      <4> QED BY <2>1, <2>2, <3>2, <4>3, <4>4, <4>5 DEF Lesser
    <3>3. CASE r \notin plan.new /\ r \notin Kept
      BY <2>2, <3>3 DEF CachedOut
    <3> QED BY <3>1, <3>2, <3>3
  <2>7. assumed'[r] = IF r \in Kept THEN cache[r].drafts ELSE 0
    BY <1>1, <2>1 DEF OptimisticallyAccepted
  <2>8. plan.computed[r] = kv[r] + LostOf(r) /\ LostOf(r) \in Nat
    BY <1>3, <2>1, InFlightTypes DEF SentJob
  <2>9. ASSUME CorrectsLast(r)'
        PROVE  /\ kv[r] = last'.computed[last'.index[r]] + last'.valid[last'.index[r]]
               /\ outputs # <<>> => plan.computed[r] - Correction(r)' = kv[r]
    <3>1. last'.index[r] # 0 /\ assumed'[r] > 0
      BY <2>9 DEF CorrectsLast
    <3>2. r \in Kept /\ cache[r].drafts > 0 /\ assumed'[r] = cache[r].drafts
      BY <2>7, <3>1
    <3>3. /\ kv[r] = last.computed[last.index[r]] + last.valid[last.index[r]]
          /\ outputs # <<>> => Last(outputs).k[r] # 0
      BY <2>1, <2>5, <3>2 DEF InLastStep
    <3>4. ASSUME outputs # <<>> PROVE plan.computed[r] - Correction(r)' = kv[r]
      <4>1. /\ Last(outputs) = outputs[1] /\ LostOf(r) = Lost(outputs[1], r)
            /\ outputs[1].k[r] \in Nat /\ outputs[1].d[r] \in Nat
        BY <1>1, <1>3, <2>1, <3>4, OneInFlight
      <4>2. /\ cache[r].drafts = outputs[1].d[r]
            /\ last.valid[last.index[r]] = outputs[1].k[r]
        BY <2>4, <3>3, <3>4, <4>1 DEF Reported
      <4>3. LostOf(r) = outputs[1].d[r] + 1 - outputs[1].k[r]
        BY <3>3, <3>4, <4>1 DEF Lost
      <4>4. Correction(r)' = assumed'[r] - (last'.valid[last'.index[r]] - 1)
        BY DEF Correction
      <4>5. Correction(r)' = outputs[1].d[r] - (outputs[1].k[r] - 1)
        BY <1>6, <2>5, <3>2, <4>2, <4>4
      <4> QED BY <2>1, <2>8, <4>1, <4>3, <4>5
    <3> QED BY <1>6, <2>5, <3>2, <3>3, <3>4
  <2>10. ASSUME ~CorrectsLast(r)' PROVE plan.computed[r] = kv[r]
    <3>1. CASE outputs = <<>>
      BY <1>1, <1>3, <2>1, <2>8, <3>1, OneInFlight
    <3>2. CASE outputs # <<>>
      <4>1. /\ Last(outputs) = outputs[1] /\ LostOf(r) = Lost(outputs[1], r)
            /\ outputs[1].k[r] \in Nat /\ outputs[1].d[r] \in Nat
            /\ outputs[1].k[r] <= outputs[1].d[r] + 1
            /\ InFlight(r) <=> outputs[1].k[r] # 0
        BY <1>1, <1>3, <2>1, <3>2, OneInFlight
      <4>2. CASE outputs[1].k[r] = 0
        BY <2>1, <2>8, <4>1, <4>2 DEF Lost
      <4>3. CASE outputs[1].k[r] # 0
        <5>1. /\ r \in ToSet(batch) /\ cache[r].drafts = outputs[1].d[r] /\ last.index[r] # 0
          BY <2>4, <3>2, <4>1, <4>3 DEF Reported
        <5>2. r \notin Admitted
          BY <2>1, <4>1, <4>3 DEF SentJob
        <5>3. r \in Kept
          BY <1>11, <2>1, <5>1, <5>2 DEF Kept, Admitted
        <5>4. ~(assumed'[r] > 0)
          BY <2>5, <2>10, <5>1, <5>3 DEF CorrectsLast
        <5>5. outputs[1].d[r] = 0
          BY <2>7, <4>1, <5>1, <5>3, <5>4
        <5> QED BY <2>1, <2>8, <4>1, <4>3, <5>5 DEF Lost
      <4> QED BY <4>2, <4>3
    <3> QED BY <3>1, <3>2
  <2>11. pc' # "sample"
    BY <1>1
  <2> QED BY <1>1, <2>2, <2>6, <2>9, <2>10, <2>11 DEF InThisStep
<1>12. WorkerAccount'
  <2>1. pc' \notin {"idle", "plan", "update", "forward", "sample"}
    BY <1>1
  <2> QED BY <1>4, <1>5, <1>11, <2>1 DEF WorkerAccount
<1> QED BY <1>7, <1>8, <1>9, <1>10, <1>12 DEF RunnerInv

\* The GPU goes on where the valid KV ends, and the worker throws away the samples that the
\* scheduler does not count.
LEMMA PrepareInputsRunner ==
  ASSUME RunnerInv, PrepareInputs
  PROVE  RunnerInv'
<1> USE DEF schedVars, hostVars, promptVars, history
<1>1. /\ pc = "prepare" /\ pc' = "forward"
      /\ start' = [i \in Rows |-> StartOf(i)]
      /\ discards' = {i \in Rows : Discarded(i)}
      /\ UNCHANGED <<job, finishedIds, outputs, plan, cache, batch, assumed, logprobs, last, kv>>
  BY DEF PrepareInputs
<1>2. pc \in Working /\ pc' \in Working
  BY <1>1 DEF Working
<1>3. RunnerTypes /\ OutputsAccount /\ PlanAccount /\ WorkerAccount
  BY DEF RunnerInv
<1>4. Planned' = Planned /\ Admitted' = Admitted /\ Rows' = Rows
  BY <1>1 DEF Planned, Admitted, Rows
<1>5. RunnerTypes'
  BY <1>1, <1>2, <1>3, <1>4 DEF RunnerTypes
<1>6. OutputsAccount' /\ PlanAccount'
  BY <1>1, <1>3, <1>4 DEF OutputsAccount, PlanAccount
<1>7. ASSUME NEW r \in Req PROVE JobAccount(r)'
  BY <1>1, <1>2, <1>7, WorkKeepsJob DEF RunnerInv
<1>8. ToSet(batch) = Planned /\ \A r \in Planned : InThisStep(r)
  BY <1>1, <1>3 DEF WorkerAccount
<1>9. ASSUME NEW r \in Planned PROVE InThisStep(r)'
  BY <1>1, <1>8 DEF InThisStep, CorrectsLast, Correction
<1>10. ASSUME NEW i \in Rows
       PROVE  StartOf(i) = kv[batch[i]] /\ (Discarded(i) <=> batch[i] \in plan.chunk)
  <2>1. batch[i] \in Planned
    BY <1>3, <1>8 DEF RunnerTypes, ToSet, Rows
  <2>2. InThisStep(batch[i])
    BY <1>8, <2>1
  <2>3. /\ cache[batch[i]].computed = plan.computed[batch[i]]
        /\ cache[batch[i]].out = plan.out[batch[i]]
    BY <1>1, <2>2 DEF InThisStep
  <2>4. StartOf(i) = kv[batch[i]]
    BY <1>1, <2>2, <2>3 DEF InThisStep, CorrectsLast, StartOf, PrevPosition
  <2>5. SentJob(batch[i])
    BY <1>2, <2>1, PlannedIsSent
  <2> QED BY <2>3, <2>4, <2>5 DEF SentJob, Discarded
<1>11. start' = [i \in Rows |-> kv[batch[i]]] /\ discards' = {i \in Rows : batch[i] \in plan.chunk}
  BY <1>1, <1>10
<1>12. WorkerAccount'
  BY <1>1, <1>4, <1>8, <1>9, <1>11 DEF WorkerAccount
<1> QED BY <1>5, <1>6, <1>7, <1>12 DEF RunnerInv

\* correct_spec_decode_token_counts takes back what the last step rejected.
LEMMA CorrectCountsRunner ==
  ASSUME RunnerInv, CorrectCounts
  PROVE  RunnerInv'
<1> USE DEF schedVars, promptVars, gpuVars, history
<1>1. /\ pc = "forward" /\ pc' = "sample"
      /\ cache' = [r \in Req |->
                 IF assumed[r] > 0 /\ last.index[r] # 0
                 THEN [cache[r] EXCEPT !.computed = @ - Correction(r)] ELSE cache[r]]
      /\ UNCHANGED <<job, finishedIds, outputs, plan, batch, assumed, logprobs, last, start,
                     discards, kv>>
  BY DEF CorrectCounts
<1>2. pc \in Working /\ pc' \in Working
  BY <1>1 DEF Working
<1>3. RunnerTypes /\ OutputsAccount /\ PlanAccount /\ WorkerAccount
  BY DEF RunnerInv
<1>4. Planned' = Planned /\ Admitted' = Admitted /\ Rows' = Rows
  BY <1>1 DEF Planned, Admitted, Rows
<1>5. ASSUME NEW r \in Req
      PROVE  /\ cache'[r] \in Cached
             /\ cache'[r].out = cache[r].out /\ cache'[r].drafts = cache[r].drafts
             /\ cache'[r].computed = IF CorrectsLast(r) THEN cache[r].computed - Correction(r)
                                     ELSE cache[r].computed
  <2>1. cache[r] \in Cached
    BY <1>3 DEF RunnerTypes
  <2>2. CASE CorrectsLast(r)
    <3> DEFINE c == Correction(r)
    <3>1. c \in Int
      <4>1. last.valid[last.index[r]] \in Nat /\ assumed[r] \in Nat
        BY <1>3, <2>2 DEF RunnerTypes, CorrectsLast
      <4> QED BY <4>1 DEF Correction
    <3>2. cache'[r] = [cache[r] EXCEPT !.computed = @ - c]
      BY <1>1, <2>2 DEF CorrectsLast
    <3> HIDE DEF c
    <3>3. /\ cache'[r] \in Cached /\ cache'[r].out = cache[r].out
          /\ cache'[r].drafts = cache[r].drafts
          /\ cache'[r].computed = cache[r].computed - c
      BY <2>1, <3>1, <3>2 DEF Cached
    <3> QED BY <2>2, <3>3 DEF c
  <2>3. CASE ~CorrectsLast(r)
    BY <1>1, <2>1, <2>3 DEF CorrectsLast
  <2> QED BY <2>2, <2>3
<1>6. RunnerTypes'
  <2>1. cache' \in [Req -> Cached]
    BY <1>1, <1>5
  <2> QED BY <1>1, <1>2, <1>3, <1>4, <2>1 DEF RunnerTypes
<1>7. OutputsAccount' /\ PlanAccount'
  BY <1>1, <1>3, <1>4 DEF OutputsAccount, PlanAccount
<1>8. ASSUME NEW r \in Req PROVE JobAccount(r)'
  BY <1>1, <1>2, <1>8, WorkKeepsJob DEF RunnerInv
<1>9. ToSet(batch) = Planned /\ \A r \in Planned : InThisStep(r)
  BY <1>1, <1>3 DEF WorkerAccount
<1>10. ASSUME NEW r \in Planned PROVE InThisStep(r)'
  <2>1. r \in Req
    BY DEF Planned
  <2>2. InThisStep(r)
    BY <1>9
  <2>3. outputs # <<>> => cache'[r].computed = kv[r]
    <3>1. cache'[r].computed = IF CorrectsLast(r) THEN cache[r].computed - Correction(r)
                               ELSE cache[r].computed
      BY <1>5, <2>1
    <3>2. pc = "forward"
      BY <1>1
    <3> QED BY <2>2, <3>1, <3>2 DEF InThisStep
  <2> QED BY <1>1, <1>5, <2>1, <2>2, <2>3 DEF InThisStep
<1>11. WorkerAccount'
  BY <1>1, <1>3, <1>4, <1>9, <1>10 DEF WorkerAccount
<1> QED BY <1>6, <1>7, <1>8, <1>11 DEF RunnerInv

\* An output that joins those the scheduler has not taken yet.
LEMMA Answered ==
  ASSUME NEW r \in Req, NEW o \in Outputs, RunnerTypes, OutputsAccount, pc # "idle",
         outputs' = Append(outputs, o), o.k[r] <= o.d[r] + 1
  PROVE  /\ outputs' \in Seq(Outputs) /\ Len(outputs') = Len(outputs) + 1 /\ Len(outputs') <= 2
         /\ outputs' # <<>> /\ Last(outputs') = o /\ outputs'[Len(outputs')] = o
         /\ DOMAIN outputs' = DOMAIN outputs \cup {Len(outputs')}
         /\ \A i \in DOMAIN outputs : outputs'[i] = outputs[i]
         /\ OwedTo(r)' = OwedTo(r) + Owed(o, r) /\ LostOf(r)' = LostOf(r) + Lost(o, r)
         /\ InFlight(r)' <=> InFlight(r) \/ o.k[r] # 0
         /\ InFlight(r) => Len(outputs') = 2
<1>1. outputs \in Seq(Outputs) /\ Len(outputs) \in Nat /\ Len(outputs) <= 1
  BY DEF RunnerTypes
<1>2. /\ outputs' \in Seq(Outputs) /\ Len(outputs') = Len(outputs) + 1 /\ Len(outputs') <= 2
      /\ outputs' # <<>> /\ outputs'[Len(outputs')] = o
      /\ \A i \in DOMAIN outputs : outputs'[i] = outputs[i]
  BY <1>1, AppendProperties
<1>3. DOMAIN outputs' = DOMAIN outputs \cup {Len(outputs')} /\ Last(outputs') = o
  BY <1>1, <1>2 DEF Last
<1>4. o.k[r] \in Nat /\ o.d[r] \in Nat
  BY DEF Outputs, Counts
<1>5. Owed(o, r) \in Int /\ Lost(o, r) \in Int
  BY <1>4 DEF Owed, Lost
<1>6. InFlight(r)' <=> InFlight(r) \/ o.k[r] # 0
  BY <1>1, <1>2, <1>3 DEF InFlight
<1>7. CASE Len(outputs) = 0
  <2>1. outputs = <<>> /\ Len(outputs') = 1 /\ outputs'[1] = o
    BY <1>1, <1>2, <1>7
  <2>2. OwedTo(r) = 0 /\ LostOf(r) = 0 /\ ~InFlight(r)
    BY <2>1, OneInFlight
  <2>3. OwedTo(r)' = Owed(o, r) + 0 /\ LostOf(r)' = Lost(o, r) + 0
    BY <2>1 DEF OwedTo, LostOf
  <2> QED BY <1>2, <1>3, <1>5, <1>6, <2>2, <2>3
<1>8. CASE Len(outputs) = 1
  <2>1. outputs # <<>> /\ Len(outputs') = 2 /\ outputs'[1] = outputs[1] /\ outputs'[2] = o
    BY <1>1, <1>2, <1>8
  <2>2. OwedTo(r) = Owed(outputs[1], r) /\ LostOf(r) = Lost(outputs[1], r)
    BY <2>1, OneInFlight
  <2>3. /\ OwedTo(r)' = Owed(outputs[1], r) + Owed(o, r)
        /\ LostOf(r)' = Lost(outputs[1], r) + Lost(o, r)
    BY <2>1 DEF OwedTo, LostOf
  <2> QED BY <1>2, <1>3, <1>6, <2>1, <2>2, <2>3
<1>9. Len(outputs) = 0 \/ Len(outputs) = 1
  <2> DEFINE m == Len(outputs)
  <2>1. m \in Nat /\ m <= 1
    BY <1>1
  <2> HIDE DEF m
  <2>2. m = 0 \/ m = 1
    BY <2>1
  <2> QED BY <2>2 DEF m
<1> QED BY <1>7, <1>8, <1>9

\* A step without tokens.
LEMMA AnswerEmptyRunner ==
  ASSUME RunnerInv, AnswerEmpty
  PROVE  RunnerInv'
<1> USE DEF schedVars, hostVars, promptVars, gpuVars, history
<1> DEFINE empty == [n |-> None, d |-> None, prompt |-> <<>>, k |-> None]
<1>1. /\ pc = "answer" /\ pc' = "idle" /\ plan' = NoPlan
      /\ outputs' = Append(outputs, empty)
      /\ UNCHANGED <<job, finishedIds, cache, batch, assumed, logprobs, last, start, discards, kv>>
  BY DEF AnswerEmpty
<1>2. RunnerTypes /\ OutputsAccount /\ PlanAccount /\ WorkerAccount
  BY DEF RunnerInv
<1>3. Planned = {} /\ ToSet(batch) = {}
  BY <1>1, <1>2 DEF PlanAccount, WorkerAccount
<1>4. /\ empty \in Outputs
      /\ \A r \in Req : empty.k[r] = 0 /\ empty.d[r] = 0
  <2>1. None \in Counts /\ \A r \in Req : None[r] = 0
    BY DEF None, Counts
  <2>2. <<>> \in [{} -> SUBSET Int]
    OBVIOUS
  <2> DEFINE P == UNION {[S -> SUBSET Int] : S \in SUBSET Req}
  <2>3. <<>> \in P
    BY <2>2
  <2> HIDE DEF P
  <2>4. empty \in [n : Counts, d : Counts, prompt : P, k : Counts]
    BY <2>1, <2>3
  <2> QED BY <2>1, <2>4 DEF Outputs, P
<1> HIDE DEF empty
<1>5. /\ outputs' \in Seq(Outputs) /\ Len(outputs') = Len(outputs) + 1 /\ Len(outputs') <= 2
      /\ outputs' # <<>> /\ Last(outputs') = empty /\ outputs'[Len(outputs')] = empty
      /\ DOMAIN outputs' = DOMAIN outputs \cup {Len(outputs')}
      /\ \A i \in DOMAIN outputs : outputs'[i] = outputs[i]
  <2>1. outputs \in Seq(Outputs) /\ Len(outputs) \in Nat /\ Len(outputs) <= 1
    BY <1>1, <1>2 DEF RunnerTypes
  <2>2. /\ outputs' \in Seq(Outputs) /\ Len(outputs') = Len(outputs) + 1 /\ Len(outputs') <= 2
        /\ outputs' # <<>> /\ outputs'[Len(outputs')] = empty
        /\ \A i \in DOMAIN outputs : outputs'[i] = outputs[i]
    BY <1>1, <1>4, <2>1, AppendProperties
  <2>3. DOMAIN outputs' = DOMAIN outputs \cup {Len(outputs')} /\ Last(outputs') = empty
    BY <2>1, <2>2 DEF Last
  <2> QED BY <2>2, <2>3
<1>6. NoPlan \in Plans /\ Planned' = {} /\ Admitted' = {}
  BY <1>1 DEF NoPlan, Plans, Counts, None, Planned, Admitted
<1>7. RunnerTypes'
  BY <1>1, <1>2, <1>5, <1>6 DEF RunnerTypes, Rows
<1>8. OutputsAccount'
  BY <1>2, <1>4, <1>5 DEF OutputsAccount
<1>9. PlanAccount'
  BY <1>1, <1>2, <1>6 DEF PlanAccount, NoPlan, None
<1>10. ASSUME NEW r \in Req PROVE JobAccount(r)'
  <2>1. JobAccount(r)
    BY DEF RunnerInv
  <2>2. empty.k[r] = 0 /\ empty.d[r] = 0
    BY <1>4
  <2>3. Owed(empty, r) = 0 /\ Lost(empty, r) = 0 /\ OwedTo(r) \in Nat /\ LostOf(r) \in Nat
    BY <1>2, <2>2, InFlightTypes DEF Owed, Lost
  <2>4. /\ OwedTo(r)' = OwedTo(r) /\ LostOf(r)' = LostOf(r)
        /\ InFlight(r)' <=> InFlight(r)
        /\ InFlight(r) => Len(outputs') = 2
    BY <1>1, <1>2, <1>4, <2>2, <2>3, Answered
  <2>5. OwedByPlan(r) = 0 /\ OwedByPlan(r)' = 0
    BY <1>1, <1>3 DEF OwedByPlan, Working
  <2>6. RunningJob(r) => RunningJob(r)'
    BY <1>1, <1>3, <1>6, <2>4 DEF RunningJob, LacksTokens, Working
  <2>7. PreemptedAccount(r) => PreemptedAccount(r)'
    BY <1>1, <1>5, <2>2, <2>4 DEF PreemptedAccount
  <2> QED BY <1>1, <2>1, <2>4, <2>5, <2>6, <2>7 DEF JobAccount, WaitingAccount
<1>11. WorkerAccount'
  <2>1. ASSUME NEW r \in Req PROVE Reported(r)'
    BY <1>4, <1>5 DEF Reported
  <2> QED BY <1>1, <1>3, <2>1 DEF WorkerAccount
<1> QED BY <1>7, <1>8, <1>9, <1>10, <1>11 DEF RunnerInv

\* The row of a request in the batch.
RowOf(r) == CHOOSE i \in Rows : batch[i] = r

\* A request of the batch has a row, and one only.
LEMMA RowOfIs ==
  ASSUME NEW r \in ToSet(batch), RunnerTypes
  PROVE  /\ RowOf(r) \in Rows /\ batch[RowOf(r)] = r
         /\ \A i \in Rows : batch[i] = r => i = RowOf(r)
<1>1. \E i \in Rows : batch[i] = r
  <2>1. DOMAIN batch = 1 .. Len(batch)
    BY DEF RunnerTypes
  <2> QED BY <2>1 DEF ToSet, Rows
<1>2. RowOf(r) \in Rows /\ batch[RowOf(r)] = r
  BY <1>1 DEF RowOf
<1> QED BY <1>2 DEF RunnerTypes

\* What a step that sampled k[i] tokens for row i reports.
LEMMA OutputOfIs ==
  ASSUME RunnerInv, pc = "sample", NEW k \in SampleCounts
  PROVE  /\ OutputOf(k) \in Outputs
         /\ \A r \in Req \ Planned : OutputOf(k).k[r] = 0
         /\ \A r \in Planned :
              /\ OutputOf(k).k[r] = k[RowOf(r)] /\ OutputOf(k).d[r] = plan.d[r]
              /\ r \in plan.chunk => k[RowOf(r)] = 0
              /\ r \notin plan.chunk => k[RowOf(r)] \in 1 .. plan.d[r] + 1
         /\ \A r \in Req : OutputOf(k).k[r] <= OutputOf(k).d[r] + 1
<1>1. /\ RunnerTypes /\ plan \in Plans /\ plan.n \in Counts /\ plan.d \in [Req -> Nat]
      /\ logprobs \in [Req -> SUBSET Int]
  BY DEF RunnerInv, RunnerTypes, Plans, Counts
<1>2. ToSet(batch) = Planned /\ discards = {i \in Rows : batch[i] \in plan.chunk}
  BY DEF RunnerInv, WorkerAccount
<1>3. k \in [Rows -> 0 .. NumSpec + 1]
      /\ \A i \in Rows : IF i \in discards THEN k[i] = 0 ELSE k[i] \in 1 .. plan.d[batch[i]] + 1
  BY DEF SampleCounts
<1> DEFINE counts == [r \in Req |-> IF r \in ToSet(batch) THEN k[RowOf(r)] ELSE 0]
           prompts == [r \in Complete |-> FilledIn[r]]
<1>4. OutputOf(k) = [n |-> plan.n, d |-> plan.d, prompt |-> prompts, k |-> counts]
  BY DEF OutputOf, RowOf
<1>5. ASSUME NEW r \in Planned
      PROVE  /\ r \in Req /\ counts[r] = k[RowOf(r)]
             /\ r \in plan.chunk => k[RowOf(r)] = 0
             /\ r \notin plan.chunk => k[RowOf(r)] \in 1 .. plan.d[r] + 1
             /\ counts[r] \in Nat /\ counts[r] <= plan.d[r] + 1
  <2>1. RowOf(r) \in Rows /\ batch[RowOf(r)] = r
    BY <1>1, <1>2, RowOfIs
  <2>2. r \in Req /\ plan.d[r] \in Nat
    BY <1>1 DEF Planned
  <2>3. counts[r] = k[RowOf(r)]
    BY <1>2, <2>2
  <2>4. RowOf(r) \in discards <=> r \in plan.chunk
    BY <1>2, <2>1
  <2>5. IF r \in plan.chunk THEN k[RowOf(r)] = 0 ELSE k[RowOf(r)] \in 1 .. plan.d[r] + 1
    BY <1>3, <2>1, <2>4
  <2> HIDE DEF counts
  <2> QED BY <2>2, <2>3, <2>5
<1>6. \A r \in Req \ Planned : counts[r] = 0
  BY <1>2
<1>7. counts \in Counts
  <2>1. \A r \in Req : counts[r] \in Nat
    <3>1. \A r \in Planned : counts[r] \in Nat
      BY <1>5
    <3> HIDE DEF counts
    <3> QED BY <1>6, <3>1
  <2>2. counts = [r \in Req |-> counts[r]]
    OBVIOUS
  <2> HIDE DEF counts
  <2> QED BY <2>1, <2>2 DEF Counts
<1>8. prompts \in UNION {[S -> SUBSET Int] : S \in SUBSET Req}
  <2>1. Complete \in SUBSET Req
    BY DEF Complete, Planned
  <2>2. ASSUME NEW r \in Complete PROVE FilledIn[r] \in SUBSET Int
    <3>1. r \in Req /\ r \in awaited \cap Planned
      BY <2>1 DEF Complete
    <3>2. FilledIn[r] = logprobs[r] \cup FilledBy(r)
      BY <3>1 DEF FilledIn
    <3>3. FilledBy(r) \subseteq Int
      BY DEF FilledBy
    <3> QED BY <1>1, <3>1, <3>2, <3>3
  <2>3. prompts \in [Complete -> SUBSET Int]
    BY <2>2
  <2> HIDE DEF prompts
  <2> QED BY <2>1, <2>3
<1> HIDE DEF counts, prompts
<1>9. OutputOf(k) \in Outputs /\ OutputOf(k).k = counts /\ OutputOf(k).d = plan.d
  BY <1>1, <1>4, <1>7, <1>8 DEF Outputs, Counts
<1>10. \A r \in Req : counts[r] <= plan.d[r] + 1
  <2>1. \A r \in Planned : counts[r] <= plan.d[r] + 1
    BY <1>5
  <2>2. \A r \in Req \ Planned : counts[r] <= plan.d[r] + 1
    BY <1>1, <1>6
  <2> QED BY <2>1, <2>2
<1> QED BY <1>5, <1>6, <1>9, <1>10

\* What a step leaves of each of its requests: KV up to its last sampled token, or up to the
\* end of its chunk; the row to look the samples up by.
LEMMA SampledIs ==
  ASSUME RunnerInv, pc = "sample", NEW r \in Planned, NEW k \in SampleCounts
  PROVE  LET i == RowOf(r)
         IN  /\ i \in Rows /\ batch[i] = r /\ start[i] = kv[r]
             /\ i \in discards <=> r \in plan.chunk
             /\ r \in plan.chunk => IndexOf(r) = 0
             /\ r \notin plan.chunk =>
                  /\ IndexOf(r) = i
                  /\ NewLen(i, k[i]) = kv[r] + plan.n[r] - plan.d[r] + k[i]
<1>1. /\ RunnerTypes /\ plan \in Plans /\ batch \in Seq(Req)
      /\ kv \in [Req -> Nat] /\ plan.d \in [Req -> Nat]
  BY DEF RunnerInv, RunnerTypes, Plans, Counts
<1>2. ToSet(batch) = Planned /\ discards = {i \in Rows : batch[i] \in plan.chunk}
      /\ start = [i \in Rows |-> kv[batch[i]]]
  BY DEF RunnerInv, WorkerAccount
<1>3. RowOf(r) \in Rows /\ batch[RowOf(r)] = r /\ \A i \in Rows : batch[i] = r => i = RowOf(r)
  BY <1>1, <1>2, RowOfIs
<1>4. start[RowOf(r)] = kv[r] /\ (RowOf(r) \in discards <=> r \in plan.chunk)
  BY <1>2, <1>3
<1>5. r \in plan.chunk => IndexOf(r) = 0
  BY <1>2 DEF IndexOf
<1>6. ASSUME r \notin plan.chunk
      PROVE  /\ IndexOf(r) = RowOf(r)
             /\ NewLen(RowOf(r), k[RowOf(r)]) = kv[r] + plan.n[r] - plan.d[r] + k[RowOf(r)]
  <2>1. IndexOf(r) = RowOf(r)
    BY <1>3, <1>4, <1>6 DEF IndexOf, RowOf
  <2>2. SentJob(r)
    BY PlannedIsSent DEF Working
  <2>3. plan.d[r] + 1 <= plan.n[r]
    BY <2>2 DEF SentJob
  <2>4. k[RowOf(r)] \in 1 .. plan.d[r] + 1
    BY <1>6, OutputOfIs
  <2>5. start \in [Rows -> Int]
    <3>1. \A i \in Rows : batch[i] \in Req
      BY <1>1 DEF Rows
    <3>2. \A i \in Rows : kv[batch[i]] \in Int
      BY <1>1, <3>1
    <3> QED BY <1>2, <3>2
  <2> QED BY <1>1, <1>3, <1>4, <2>1, <2>3, <2>4, <2>5, NewLenIs
<1> QED BY <1>3, <1>4, <1>5, <1>6

\* sample_tokens: the step's output is what the scheduler counted on, less the drafts that
\* were rejected.
LEMMA SampleTokensRunner ==
  ASSUME RunnerInv, SampleTokens
  PROVE  RunnerInv'
<1>1. /\ pc = "sample" /\ pc' = "idle" /\ plan' = NoPlan
      /\ UNCHANGED <<job, finishedIds, batch>>
  BY DEF SampleTokens
<1>2. RunnerTypes /\ OutputsAccount /\ PlanAccount /\ WorkerAccount
  BY DEF RunnerInv
<1>3. PICK k \in SampleCounts :
        /\ last'.index = [r \in Req |-> IndexOf(r)]
        /\ last'.valid = k /\ last'.computed = start
        /\ last' = [index |-> last'.index, sampled |-> last'.sampled, proposed |-> last'.proposed,
                    valid |-> last'.valid, computed |-> last'.computed]
        /\ cache' = [r \in Req |-> IF r \in Planned /\ RowOf(r) \notin discards
                                   THEN [cache[r] EXCEPT !.out = @ + 1] ELSE cache[r]]
        /\ kv' = [r \in Req |->
                    IF r \notin Planned THEN kv[r]
                    ELSE IF RowOf(r) \in discards THEN start[RowOf(r)] + plan.n[r]
                    ELSE NewLen(RowOf(r), k[RowOf(r)]) - 1]
        /\ outputs' = Append(outputs, OutputOf(k))
  BY DEF SampleTokens, RowOf
<1> DEFINE o == OutputOf(k)
           K(r) == k[RowOf(r)]
<1>4. /\ o \in Outputs
      /\ \A r \in Req \ Planned : o.k[r] = 0
      /\ \A r \in Planned :
           /\ o.k[r] = K(r) /\ o.d[r] = plan.d[r]
           /\ r \in plan.chunk => K(r) = 0
           /\ r \notin plan.chunk => K(r) \in 1 .. plan.d[r] + 1
      /\ \A r \in Req : o.k[r] <= o.d[r] + 1
  BY <1>1, OutputOfIs
<1>5. ToSet(batch) = Planned /\ \A r \in Planned : InThisStep(r)
  BY <1>1, <1>2 DEF WorkerAccount
<1>6. ASSUME NEW r \in Planned
      PROVE  /\ r \in Req /\ job[r].status = "running" /\ SentJob(r) /\ LacksTokens(r)
             /\ plan.n[r] \in Nat /\ plan.d[r] \in Nat /\ kv[r] \in Nat
             /\ plan.d[r] + 1 <= plan.n[r]
             /\ RowOf(r) \in Rows /\ batch[RowOf(r)] = r /\ start[RowOf(r)] = kv[r]
             /\ RowOf(r) \in discards <=> r \in plan.chunk
             /\ r \in plan.chunk =>
                  /\ last'.index[r] = 0 /\ cache'[r] = cache[r] /\ kv'[r] = kv[r] + plan.n[r]
             /\ r \notin plan.chunk =>
                  /\ last'.index[r] = RowOf(r) /\ cache'[r] = [cache[r] EXCEPT !.out = @ + 1]
                  /\ kv'[r] = kv[r] + plan.n[r] - plan.d[r] + K(r) - 1
             /\ kv'[r] \in Nat \ {0}
  <2>1. /\ r \in Req /\ job[r].status = "running" /\ SentJob(r) /\ LacksTokens(r)
        /\ plan.n[r] \in Nat /\ plan.d[r] \in Nat /\ kv[r] \in Nat
    BY <1>1, PlannedIsSent DEF Working
  <2>2. plan.d[r] + 1 <= plan.n[r]
    BY <2>1 DEF SentJob
  <2>3. /\ RowOf(r) \in Rows /\ batch[RowOf(r)] = r /\ start[RowOf(r)] = kv[r]
        /\ RowOf(r) \in discards <=> r \in plan.chunk
        /\ r \in plan.chunk => IndexOf(r) = 0
        /\ r \notin plan.chunk =>
             /\ IndexOf(r) = RowOf(r)
             /\ NewLen(RowOf(r), K(r)) = kv[r] + plan.n[r] - plan.d[r] + K(r)
    BY <1>1, SampledIs
  <2>4. last'.index[r] = IndexOf(r)
    BY <1>3, <2>1
  <2>5. CASE r \in plan.chunk
    <3>1. cache'[r] = cache[r] /\ kv'[r] = kv[r] + plan.n[r]
      BY <1>3, <2>1, <2>3, <2>5
    <3> QED BY <2>1, <2>2, <2>3, <2>4, <2>5, <3>1
  <2>6. CASE r \notin plan.chunk
    <3>1. cache'[r] = [cache[r] EXCEPT !.out = @ + 1] /\ kv'[r] = NewLen(RowOf(r), K(r)) - 1
      BY <1>3, <2>1, <2>3, <2>6
    <3>2. K(r) \in 1 .. plan.d[r] + 1
      BY <1>4, <2>6
    <3>3. kv'[r] = kv[r] + plan.n[r] - plan.d[r] + K(r) - 1
      <4>1. NewLen(RowOf(r), K(r)) = kv[r] + plan.n[r] - plan.d[r] + K(r)
        BY <2>3, <2>6
      <4>2. kv'[r] = NewLen(RowOf(r), K(r)) - 1
        BY <3>1
      <4> DEFINE a == kv[r]
                 n == plan.n[r]
                 d == plan.d[r]
                 s == K(r)
                 end == NewLen(RowOf(r), K(r))
      <4>3. a \in Int /\ n \in Int /\ d \in Int /\ s \in Int
        BY <2>1, <3>2
      <4>4. end = a + n - d + s /\ kv'[r] = end - 1
        BY <4>1, <4>2
      <4> HIDE DEF a, n, d, s, end
      <4>5. kv'[r] = a + n - d + s - 1
        BY <4>3, <4>4
      <4> QED BY <4>5 DEF a, n, d, s
    <3>4. kv'[r] \in Nat \ {0}
      <4> DEFINE a == kv[r]
                 n == plan.n[r]
                 d == plan.d[r]
                 s == K(r)
      <4>1. /\ a \in Nat /\ n \in Nat /\ d \in Nat /\ s \in Int /\ 1 <= s /\ d + 1 <= n
            /\ kv'[r] = a + n - d + s - 1
        BY <2>1, <2>2, <3>2, <3>3
      <4> HIDE DEF a, n, d, s
      <4> QED BY <4>1
    <3> QED BY <2>1, <2>2, <2>3, <2>4, <2>6, <3>1, <3>3, <3>4
  <2> QED BY <2>5, <2>6
<1>7. ASSUME NEW r \in Req
      PROVE  /\ cache'[r] \in Cached /\ cache'[r].drafts = cache[r].drafts
             /\ cache'[r].out = IF r \in Planned \ plan.chunk
                                THEN cache[r].out + 1 ELSE cache[r].out
  <2>1. cache[r] \in Cached
    BY <1>2 DEF RunnerTypes
  <2> DEFINE c == [cache[r] EXCEPT !.out = @ + 1]
  <2>2. c \in Cached /\ c.drafts = cache[r].drafts /\ c.out = cache[r].out + 1
    BY <2>1 DEF Cached
  <2>3. cache'[r] = IF r \in Planned \ plan.chunk THEN c ELSE cache[r]
    <3>1. CASE r \in Planned
      BY <1>6, <3>1
    <3>2. CASE r \notin Planned
      BY <1>3, <3>2
    <3> QED BY <3>1, <3>2
  <2> HIDE DEF c
  <2> QED BY <2>1, <2>2, <2>3
<1>8. \A r \in Req \ Planned : kv'[r] = kv[r]
  BY <1>3
<1> HIDE DEF K
<1>9. /\ outputs' \in Seq(Outputs) /\ Len(outputs') <= 2
      /\ outputs' # <<>> /\ Last(outputs') = o /\ outputs'[Len(outputs')] = o
      /\ DOMAIN outputs' = DOMAIN outputs \cup {Len(outputs')}
      /\ \A i \in DOMAIN outputs : outputs'[i] = outputs[i]
  <2> HIDE DEF o
  <2>0. outputs' = Append(outputs, o)
    BY <1>3 DEF o
  <2>1. outputs \in Seq(Outputs) /\ Len(outputs) \in Nat /\ Len(outputs) <= 1
    BY <1>1, <1>2 DEF RunnerTypes
  <2>2. /\ outputs' \in Seq(Outputs) /\ Len(outputs') = Len(outputs) + 1 /\ Len(outputs') <= 2
        /\ outputs' # <<>> /\ outputs'[Len(outputs')] = o
        /\ \A i \in DOMAIN outputs : outputs'[i] = outputs[i]
    BY <1>4, <2>0, <2>1, AppendProperties
  <2>3. DOMAIN outputs' = DOMAIN outputs \cup {Len(outputs')} /\ Last(outputs') = o
    BY <2>1, <2>2 DEF Last
  <2> QED BY <2>2, <2>3
<1>10. ASSUME NEW r \in Req
       PROVE  /\ OwedTo(r)' = OwedTo(r) + Owed(o, r) /\ LostOf(r)' = LostOf(r) + Lost(o, r)
              /\ InFlight(r)' <=> InFlight(r) \/ o.k[r] # 0
              /\ InFlight(r) => Len(outputs') = 2
              /\ OwedTo(r) \in Nat /\ LostOf(r) \in Nat
  <2>1. outputs' = Append(outputs, o) /\ o \in Outputs /\ o.k[r] <= o.d[r] + 1 /\ pc # "idle"
    BY <1>1, <1>3, <1>4
  <2> HIDE DEF o
  <2> QED BY <1>2, <2>1, Answered, InFlightTypes
<1> HIDE DEF o
<1>11. NoPlan \in Plans /\ Planned' = {} /\ Admitted' = {}
  BY <1>1 DEF NoPlan, Plans, Counts, None, Planned, Admitted
<1>12. RunnerTypes'
  <2>1. cache' \in [Req -> Cached]
    BY <1>3, <1>7
  <2>2. kv' \in [Req -> Nat]
    <3>1. ASSUME NEW r \in Req PROVE kv'[r] \in Nat
      <4>1. CASE r \in Planned
        BY <1>6, <4>1
      <4>2. CASE r \notin Planned
        BY <1>2, <1>8, <4>2 DEF RunnerTypes
      <4> QED BY <4>1, <4>2
    <3> QED BY <1>3, <3>1
  <2>3. last'.index \in [Req -> Nat]
    <3>1. ASSUME NEW r \in Req PROVE IndexOf(r) \in Nat
      <4>1. ASSUME NEW i \in Rows, batch[i] = r PROVE (CHOOSE j \in Rows : batch[j] = r) \in Nat
        <5>1. (CHOOSE j \in Rows : batch[j] = r) \in Rows
          BY <4>1
        <5>2. Rows \subseteq Nat
          BY DEF Rows
        <5> QED BY <5>1, <5>2
      <4> QED BY <4>1 DEF IndexOf
    <3> QED BY <1>3, <3>1
  <2>4. ASSUME NEW r \in Req, last'.index[r] # 0 PROVE last'.valid[last'.index[r]] \in Nat
    <3>1. last'.index[r] \in Rows
      <4>1. IndexOf(r) # 0
        BY <1>3, <2>4
      <4>2. \E i \in Rows : batch[i] = r
        BY <4>1 DEF IndexOf
      <4>3. (CHOOSE j \in Rows : batch[j] = r) \in Rows
        BY <4>2
      <4> QED BY <1>3, <4>1, <4>3 DEF IndexOf
    <3>2. k \in [Rows -> 0 .. NumSpec + 1]
      BY DEF SampleCounts
    <3> QED BY <1>3, <3>1, <3>2
  <2>5. logprobs' \in [Req -> SUBSET Int] /\ assumed' \in [Req -> Nat]
    <3>1. ASSUME NEW r \in Req PROVE FilledIn[r] \in SUBSET Int
      <4>1. FilledBy(r) \subseteq Int /\ logprobs[r] \subseteq Int
        BY <1>2 DEF FilledBy, RunnerTypes
      <4> QED BY <4>1 DEF FilledIn
    <3>2. logprobs' = [r \in Req |-> IF r \in Complete THEN {} ELSE FilledIn[r]] /\ assumed' = None
      BY DEF SampleTokens
    <3> QED BY <3>1, <3>2 DEF None
  <2> QED BY <1>1, <1>2, <1>3, <1>9, <1>11, <2>1, <2>2, <2>3, <2>4, <2>5 DEF RunnerTypes, Rows
<1>13. OutputsAccount'
  BY <1>2, <1>4, <1>9 DEF OutputsAccount
<1>14. PlanAccount'
  BY <1>1, <1>2, <1>11 DEF PlanAccount, NoPlan, None
<1>15. ASSUME NEW r \in Req PROVE JobAccount(r)'
  <2>1. JobAccount(r)
    BY DEF RunnerInv
  <2>2. /\ OwedByPlan(r)' = 0
        /\ OwedByPlan(r) = IF r \in Planned \ plan.chunk THEN plan.d[r] + 1 ELSE 0
    BY <1>1 DEF OwedByPlan, Working
  <2>3. CASE r \notin Planned
    <3>1. o.k[r] = 0 /\ OwedByPlan(r) = 0
      BY <1>4, <2>2, <2>3
    <3>2. Owed(o, r) = 0 /\ Lost(o, r) = 0
      BY <3>1 DEF Owed, Lost
    <3>3. /\ OwedTo(r)' = OwedTo(r) /\ LostOf(r)' = LostOf(r)
          /\ InFlight(r)' <=> InFlight(r)
          /\ InFlight(r) => Len(outputs') = 2
      BY <1>10, <3>1, <3>2
    <3>4. RunningJob(r) => RunningJob(r)'
      BY <1>1, <1>8, <1>11, <2>3, <3>3 DEF RunningJob, LacksTokens, Working
    <3>5. PreemptedAccount(r) => PreemptedAccount(r)'
      BY <1>1, <1>9, <3>1, <3>3 DEF PreemptedAccount
    <3> QED BY <1>1, <2>1, <2>2, <3>1, <3>3, <3>4, <3>5 DEF JobAccount, WaitingAccount
  <2>4. CASE r \in Planned
    <3>1. /\ job[r].status = "running" /\ SentJob(r) /\ LacksTokens(r)
          /\ plan.n[r] \in Nat /\ plan.d[r] \in Nat /\ kv[r] \in Nat /\ plan.d[r] + 1 <= plan.n[r]
          /\ kv'[r] \in Nat \ {0}
      BY <1>6, <2>4
    <3>2. Owed(o, r) = OwedByPlan(r)
      <4>1. CASE r \in plan.chunk
        BY <1>4, <2>2, <2>4, <4>1 DEF Owed
      <4>2. CASE r \notin plan.chunk
        BY <1>4, <2>2, <2>4, <4>2 DEF Owed
      <4> QED BY <4>1, <4>2
    <3>3. job'[r].ph = OwedTo(r)' + OwedByPlan(r)'
      BY <1>1, <1>10, <2>1, <2>2, <3>1, <3>2 DEF JobAccount
    <3>4. job[r].computed = kv[r] + LostOf(r) + plan.n[r]
      BY <3>1 DEF SentJob
    <3>5. kv'[r] + Lost(o, r) = kv[r] + plan.n[r] /\ Lost(o, r) \in Nat
      <4>1. CASE r \in plan.chunk
        <5>1. Lost(o, r) = 0
          BY <1>4, <2>4, <4>1 DEF Lost
        <5>2. kv'[r] = kv[r] + plan.n[r]
          BY <1>6, <2>4, <4>1
        <5> QED BY <3>1, <5>1, <5>2
      <4>2. CASE r \notin plan.chunk
        <5>1. K(r) \in 1 .. plan.d[r] + 1 /\ o.k[r] = K(r) /\ o.d[r] = plan.d[r]
          BY <1>4, <2>4, <4>2
        <5>2. Lost(o, r) = plan.d[r] + 1 - K(r)
          BY <3>1, <5>1 DEF Lost
        <5>3. kv'[r] = kv[r] + plan.n[r] - plan.d[r] + K(r) - 1
          BY <1>6, <2>4, <4>2
        <5> QED BY <3>1, <5>1, <5>2, <5>3
      <4> QED BY <4>1, <4>2
    <3>6. job'[r].computed = kv'[r] + LostOf(r)'
      <4> DEFINE a == kv[r]
                 b == kv'[r]
                 l == LostOf(r)
                 m == Lost(o, r)
                 n == plan.n[r]
      <4>1. a \in Int /\ b \in Int /\ l \in Int /\ m \in Int /\ n \in Int
        BY <1>10, <3>1, <3>5
      <4>2. job'[r].computed = a + l + n /\ b + m = a + n /\ LostOf(r)' = l + m
        BY <1>1, <1>10, <3>4, <3>5
      <4> HIDE DEF a, b, l, m, n
      <4>3. job'[r].computed = b + (l + m)
        BY <4>1, <4>2
      <4> QED BY <4>2, <4>3 DEF b
    <3>7. LacksTokens(r)'
      BY <1>1, <3>1 DEF LacksTokens
    <3>8. RunningJob(r)'
      BY <1>1, <1>11, <3>1, <3>6, <3>7 DEF RunningJob, Working
    <3> QED BY <1>1, <3>1, <3>3, <3>8 DEF JobAccount
  <2> QED BY <2>3, <2>4
<1>16. ASSUME NEW r \in Planned PROVE InLastStep(r)'
  <2>1. /\ r \in Req /\ job[r].status = "running" /\ SentJob(r)
        /\ plan.n[r] \in Nat /\ plan.d[r] \in Nat /\ kv[r] \in Nat
    BY <1>6
  <2>2. cache[r].out = plan.out[r] /\ cache[r].drafts = plan.d[r]
    BY <1>5 DEF InThisStep
  <2>3. /\ cache'[r].drafts = plan.d[r]
        /\ cache'[r].out = IF r \notin plan.chunk THEN plan.out[r] + 1 ELSE plan.out[r]
    BY <1>7, <2>1, <2>2
  <2>4. OwedByPlan(r)' = 0 /\ OwedByPlan(r) = IF r \notin plan.chunk THEN plan.d[r] + 1 ELSE 0
    BY <1>1 DEF OwedByPlan, Working
  <2>5. PromptLen[r] + plan.out[r] = job[r].known + job[r].ph - OwedByPlan(r)
    BY <2>1 DEF SentJob
  <2>6. cache'[r].out + cache'[r].drafts >=
          job'[r].known - PromptLen[r] + job'[r].ph - OwedByPlan(r)'
    <3>1. /\ job[r].known \in Int /\ job[r].ph \in Int
          /\ PromptLen[r] \in Int /\ plan.out[r] \in Int
      <4>1. job[r] \in Jobs /\ plan \in Plans
        BY <1>2, <2>1 DEF RunnerTypes
      <4> QED BY <2>1, <4>1, RunnerAssumption DEF Jobs, Plans
    <3> DEFINE a == job[r].known
               p == job[r].ph
               l == PromptLen[r]
               w == plan.out[r]
               d == plan.d[r]
               owed == OwedByPlan(r)
    <3>2. a \in Int /\ p \in Int /\ l \in Int /\ w \in Int /\ d \in Nat /\ l + w = a + p - owed
      BY <2>1, <2>5, <3>1
    <3>3. CASE r \in plan.chunk
      <4>1. cache'[r].out + cache'[r].drafts = w + d /\ owed = 0
        BY <2>3, <2>4, <3>3
      <4> HIDE DEF a, p, l, w, d, owed
      <4>2. w + d >= a - l + p - 0
        BY <3>2, <4>1
      <4> QED BY <1>1, <2>4, <4>1, <4>2 DEF a, p, l
    <3>4. CASE r \notin plan.chunk
      <4>1. cache'[r].out + cache'[r].drafts = w + 1 + d /\ owed = d + 1
        BY <2>3, <2>4, <3>4
      <4> HIDE DEF a, p, l, w, d, owed
      <4>2. w + 1 + d >= a - l + p - 0
        BY <3>2, <4>1
      <4> QED BY <1>1, <2>4, <4>1, <4>2 DEF a, p, l
    <3> QED BY <3>3, <3>4
  <2>7. ASSUME plan.d[r] > 0
        PROVE  /\ last'.index[r] # 0
               /\ kv'[r] = last'.computed[last'.index[r]] + last'.valid[last'.index[r]]
               /\ o.k[r] # 0
    <3>1. r \notin plan.chunk /\ plan.n[r] = plan.d[r] + 1
      BY <2>1, <2>7 DEF SentJob
    <3>2. /\ last'.index[r] = RowOf(r) /\ RowOf(r) \in Rows /\ start[RowOf(r)] = kv[r]
          /\ kv'[r] = kv[r] + plan.n[r] - plan.d[r] + K(r) - 1
      BY <1>6, <3>1
    <3>3. K(r) \in 1 .. plan.d[r] + 1 /\ o.k[r] = K(r)
      BY <1>4, <3>1
    <3>4. last'.computed[last'.index[r]] = kv[r] /\ last'.valid[last'.index[r]] = K(r)
      BY <1>3, <3>2 DEF K
    <3>5. kv'[r] = kv[r] + K(r)
      BY <2>1, <3>1, <3>2, <3>3
    <3>6. RowOf(r) # 0
      BY <3>2 DEF Rows
    <3> QED BY <3>2, <3>3, <3>4, <3>5, <3>6
  <2>8. r \notin NoPlan.new
    BY DEF NoPlan
  <2> QED BY <1>1, <1>9, <1>11, <2>1, <2>3, <2>6, <2>7, <2>8 DEF InLastStep
<1>17. ASSUME NEW r \in Req PROVE Reported(r)'
  <2> SUFFICES ASSUME o.k[r] # 0
               PROVE  /\ r \in ToSet(batch) /\ cache'[r].drafts = o.d[r] /\ last'.index[r] # 0
                      /\ last'.valid[last'.index[r]] = o.k[r]
    BY <1>1, <1>9 DEF Reported
  <2>1. r \in Planned /\ r \notin plan.chunk
    BY <1>4
  <2>2. /\ last'.index[r] = RowOf(r) /\ RowOf(r) \in Rows
    BY <1>6, <2>1
  <2>3. last'.valid[last'.index[r]] = o.k[r]
    BY <1>3, <1>4, <2>1, <2>2 DEF K
  <2>4. cache'[r].drafts = o.d[r]
    BY <1>4, <1>5, <1>7, <2>1 DEF InThisStep
  <2>5. RowOf(r) # 0
    BY <2>2 DEF Rows
  <2> QED BY <1>5, <2>1, <2>2, <2>3, <2>4, <2>5
<1>18. WorkerAccount'
  BY <1>1, <1>5, <1>16, <1>17 DEF WorkerAccount
<1> QED BY <1>12, <1>13, <1>14, <1>15, <1>18 DEF RunnerInv

-----------------------------------------------------------------------------
(* The scheduler takes an output; clients and control calls.               *)

\* Between steps, a request nothing happens to stays as it is.
LEMMA IdleKeepsJob ==
  ASSUME NEW r \in Req, JobAccount(r), pc = "idle", pc' = "idle", job'[r] = job[r],
         UNCHANGED <<plan, outputs, kv>>
  PROVE  JobAccount(r)'
<1>1. OwedTo(r)' = OwedTo(r) /\ LostOf(r)' = LostOf(r) /\ (InFlight(r)' <=> InFlight(r))
  BY SameOutputs
<1>2. OwedByPlan(r) = 0 /\ OwedByPlan(r)' = 0
  BY DEF OwedByPlan, Working
<1>3. (r \in Planned)' <=> r \in Planned
  BY DEF Planned
<1>4. RunningJob(r) => RunningJob(r)'
  BY <1>1, <1>3 DEF RunningJob, LacksTokens, PlannedJob, DraftsAmong, Greater, Lesser, Working
<1> QED BY <1>1, <1>2, <1>4 DEF JobAccount, WaitingAccount, PreemptedAccount

\* The oldest output leaves.
LEMMA OldestTaken ==
  ASSUME NEW r \in Req, RunnerTypes, OutputsAccount, pc = "idle", outputs # <<>>,
         outputs' = Tail(outputs)
  PROVE  /\ Head(outputs) = outputs[1] /\ 1 \in DOMAIN outputs
         /\ outputs' \in Seq(Outputs) /\ Len(outputs') <= 1
         /\ \A i \in DOMAIN outputs' : i + 1 \in DOMAIN outputs /\ outputs'[i] = outputs[i + 1]
         /\ outputs' # <<>> => Last(outputs') = Last(outputs)
         /\ outputs[1].k[r] \in Nat /\ outputs[1].d[r] \in Nat
         /\ outputs[1].k[r] <= outputs[1].d[r] + 1
         /\ OwedTo(r) = Owed(outputs[1], r) + OwedTo(r)' /\ OwedTo(r)' \in Nat
         /\ LostOf(r) = Lost(outputs[1], r) + LostOf(r)' /\ LostOf(r)' \in Nat
         /\ InFlight(r) <=> outputs[1].k[r] # 0 \/ InFlight(r)'
         /\ Len(outputs) = 2 /\ outputs[2].k[r] = 0 => ~InFlight(r)'
<1>1. outputs \in Seq(Outputs) /\ Len(outputs) \in Nat /\ Len(outputs) <= 2
  BY DEF RunnerTypes
<1>2. Len(outputs) = 1 \/ Len(outputs) = 2
  <2> DEFINE m == Len(outputs)
  <2>1. m # 0
    BY <1>1
  <2>2. m \in Nat /\ m <= 2
    BY <1>1
  <2> HIDE DEF m
  <2>3. m = 1 \/ m = 2
    BY <2>1, <2>2
  <2> QED BY <2>3 DEF m
<1>3. /\ Head(outputs) = outputs[1] /\ 1 \in DOMAIN outputs
      /\ outputs' \in Seq(Outputs) /\ Len(outputs') = Len(outputs) - 1
      /\ \A i \in 1 .. Len(outputs) - 1 : outputs'[i] = outputs[i + 1]
  BY <1>1, <1>2, HeadTailProperties
<1>4. ASSUME NEW i \in DOMAIN outputs
      PROVE  /\ outputs[i].k[r] \in Nat /\ outputs[i].d[r] \in Nat
             /\ outputs[i].k[r] <= outputs[i].d[r] + 1
             /\ Owed(outputs[i], r) \in Nat /\ Lost(outputs[i], r) \in Nat
  <2>1. outputs[i] \in Outputs
    BY <1>1
  <2>2. outputs[i].d[r] \in Nat /\ outputs[i].k[r] \in Nat
    BY <2>1 DEF Outputs, Counts
  <2>3. outputs[i].k[r] <= outputs[i].d[r] + 1
    BY DEF OutputsAccount
  <2> QED BY <2>2, <2>3 DEF Owed, Lost
<1>5. CASE Len(outputs) = 1
  <2>1. DOMAIN outputs = {1} /\ outputs' = <<>> /\ Len(outputs') = 0 /\ DOMAIN outputs' = {}
    BY <1>1, <1>3, <1>5
  <2>2. OwedTo(r)' = 0 /\ LostOf(r)' = 0 /\ ~InFlight(r)'
    <3> DEFINE m == Len(outputs')
    <3>1. m = 0
      BY <2>1, Zenon
    <3> HIDE DEF m
    <3>2. ~(m >= 1) /\ m # 2
      BY <3>1
    <3>3. ~(Len(outputs') >= 1) /\ Len(outputs') # 2
      BY <3>2, Zenon DEF m
    <3>4. OwedTo(r)' = 0 + 0 /\ LostOf(r)' = 0 + 0
      BY <3>3 DEF OwedTo, LostOf
    <3>5. ~InFlight(r)'
      BY <2>1 DEF InFlight
    <3> QED BY <3>4, <3>5
  <2>3. OwedTo(r) = Owed(outputs[1], r) + 0 /\ LostOf(r) = Lost(outputs[1], r) + 0
    BY <1>5 DEF OwedTo, LostOf
  <2>4. InFlight(r) <=> outputs[1].k[r] # 0
    BY <2>1 DEF InFlight
  <2>5. Owed(outputs[1], r) \in Nat /\ Lost(outputs[1], r) \in Nat
    BY <1>3, <1>4
  <2>6. OwedTo(r) = Owed(outputs[1], r) + OwedTo(r)' /\ LostOf(r) = Lost(outputs[1], r) + LostOf(r)'
    BY <2>2, <2>3
  <2>7. outputs[1].k[r] \in Nat /\ outputs[1].d[r] \in Nat /\ outputs[1].k[r] <= outputs[1].d[r] + 1
    BY <1>3, <1>4
  <2>8. Len(outputs') <= 1 /\ OwedTo(r)' \in Nat /\ LostOf(r)' \in Nat
    BY <2>1, <2>2
  <2> QED BY <1>3, <2>1, <2>2, <2>4, <2>6, <2>7, <2>8
<1>6. CASE Len(outputs) = 2
  <2>1. /\ DOMAIN outputs = {1, 2} /\ Len(outputs') = 1 /\ DOMAIN outputs' = {1}
        /\ outputs'[1] = outputs[2]
    <3>1. DOMAIN outputs = 1 .. 2
      BY <1>1, <1>6
    <3>2. 1 .. 2 = {1, 2} /\ 1 .. 1 = {1} /\ 2 - 1 = 1 /\ 1 + 1 = 2 /\ 1 \in 1 .. 1
      OBVIOUS
    <3>3. Len(outputs') = 1
      BY <1>3, <1>6, <3>2, Zenon
    <3>4. DOMAIN outputs' = 1 .. Len(outputs')
      BY <1>3
    <3>5. outputs'[1] = outputs[2]
      BY <1>3, <1>6, <3>2, Zenon
    <3> QED BY <3>1, <3>2, <3>3, <3>4, <3>5, Zenon
  <2>2. OwedTo(r)' = Owed(outputs[2], r) + 0 /\ LostOf(r)' = Lost(outputs[2], r) + 0
    <3> DEFINE m == Len(outputs')
    <3>1. m = 1 /\ outputs'[1] = outputs[2]
      BY <2>1, Zenon
    <3> HIDE DEF m
    <3>2. m >= 1 /\ m # 2
      BY <3>1
    <3> QED BY <3>1, <3>2, Zenon DEF OwedTo, LostOf, m
  <2>3. /\ OwedTo(r) = Owed(outputs[1], r) + Owed(outputs[2], r)
        /\ LostOf(r) = Lost(outputs[1], r) + Lost(outputs[2], r)
    BY <1>6 DEF OwedTo, LostOf
  <2>4. /\ InFlight(r) <=> outputs[1].k[r] # 0 \/ outputs[2].k[r] # 0
        /\ InFlight(r)' <=> outputs[2].k[r] # 0
    BY <2>1 DEF InFlight
  <2>5. Last(outputs') = Last(outputs)
    BY <1>6, <2>1 DEF Last
  <2>6. /\ Owed(outputs[1], r) \in Nat /\ Owed(outputs[2], r) \in Nat
        /\ Lost(outputs[1], r) \in Nat /\ Lost(outputs[2], r) \in Nat
    BY <1>4, <2>1
  <2>7. /\ OwedTo(r) = Owed(outputs[1], r) + OwedTo(r)' /\ OwedTo(r)' \in Nat
        /\ LostOf(r) = Lost(outputs[1], r) + LostOf(r)' /\ LostOf(r)' \in Nat
    BY <2>2, <2>3, <2>6
  <2>8. outputs[1].k[r] \in Nat /\ outputs[1].d[r] \in Nat /\ outputs[1].k[r] <= outputs[1].d[r] + 1
    BY <1>3, <1>4
  <2>9. \A i \in DOMAIN outputs' : i + 1 \in DOMAIN outputs /\ outputs'[i] = outputs[i + 1]
    BY <2>1
  <2> QED BY <1>3, <2>1, <2>4, <2>5, <2>7, <2>8, <2>9
<1> QED BY <1>2, <1>5, <1>6

\* What is left to count on, once an output is taken, is what the output did not bring.
LEMMA UpdateFromOutputRunner ==
  ASSUME RunnerInv, UpdateFromOutput
  PROVE  RunnerInv'
<1> USE DEF hostVars, promptVars, gpuVars, history
<1>1. /\ pc = "idle" /\ pc' = "idle" /\ outputs # <<>> /\ outputs' = Tail(outputs)
      /\ finishedIds' =
           finishedIds \cup {r \in Req : job[r].status # "done" /\ job'[r].status = "done"}
      /\ UNCHANGED <<plan, cache, batch, assumed, logprobs, last, start, discards, kv>>
  BY DEF UpdateFromOutput
<1>2. RunnerTypes /\ OutputsAccount /\ PlanAccount /\ WorkerAccount
  BY DEF RunnerInv
<1> DEFINE h == outputs[1]
<1>3. ASSUME NEW r \in Req
      PROVE  /\ Head(outputs) = h /\ 1 \in DOMAIN outputs
             /\ outputs' \in Seq(Outputs) /\ Len(outputs') <= 1
             /\ \A i \in DOMAIN outputs' : i + 1 \in DOMAIN outputs /\ outputs'[i] = outputs[i + 1]
             /\ outputs' # <<>> => Last(outputs') = Last(outputs)
             /\ h.k[r] \in Nat /\ h.d[r] \in Nat /\ h.k[r] <= h.d[r] + 1
             /\ OwedTo(r) = Owed(h, r) + OwedTo(r)' /\ OwedTo(r)' \in Nat
             /\ LostOf(r) = Lost(h, r) + LostOf(r)' /\ LostOf(r)' \in Nat
             /\ InFlight(r) <=> h.k[r] # 0 \/ InFlight(r)'
             /\ Len(outputs) = 2 /\ outputs[2].k[r] = 0 => ~InFlight(r)'
  BY <1>1, <1>2, OldestTaken
<1>4. plan = NoPlan /\ Planned = {} /\ Admitted = {} /\ Planned' = {} /\ Admitted' = {}
  BY <1>1, <1>2 DEF PlanAccount, NoPlan, Planned, None, Admitted
<1>5. PICK stops \in SUBSET Req, length \in 0 .. NumSpec :
        job' = [r \in Req |-> IF r \in stops THEN Ended ELSE Taken(r, Head(outputs), length)]
  <2>1. \E stops \in SUBSET {r \in Req : Head(outputs).k[r] # 0}, length \in 0 .. NumSpec :
          job' = [r \in Req |-> IF r \in stops THEN Ended ELSE Taken(r, Head(outputs), length)]
    BY DEF UpdateFromOutput
  <2> QED BY <2>1
<1>6. Ended \in Jobs /\ Ended.status = "done"
  BY DEF Ended, Jobs
<1>7. ASSUME NEW r \in Req
      PROVE  \/ job'[r] = Ended
             \/ job'[r] = job[r] /\ (job[r].status = "done" \/ h.k[r] = 0)
             \/ /\ job[r].status # "done" /\ h.k[r] # 0
                /\ job'[r] = AfterOutput(job[r], h.d[r], h.k[r], length)
  <2>1. job'[r] = IF r \in stops THEN Ended ELSE Taken(r, h, length)
    BY <1>3, <1>5
  <2> HIDE DEF h
  <2> QED BY <2>1 DEF Taken, AfterOutput
<1> HIDE DEF h
<1>8. ASSUME NEW r \in Req
      PROVE  LET new == AfterOutput(job[r], h.d[r], h.k[r], length)
             IN  /\ new \in Jobs /\ new.status = job[r].status /\ new.chunk = job[r].chunk
                 /\ new.computed = IF job[r].computed > 0
                                   THEN job[r].computed - (h.d[r] + 1 - h.k[r])
                                   ELSE job[r].computed
                 /\ new.ph = job[r].ph - (h.d[r] + 1) /\ new.known = job[r].known + h.k[r]
                 /\ new.spec = IF job[r].status = "running" /\ ~job[r].chunk
                               THEN length ELSE job[r].spec
  <2>1. job[r] \in Jobs /\ h.d[r] \in Nat /\ h.k[r] \in Nat /\ length \in Nat
    BY <1>2, <1>3, RunnerAssumption DEF RunnerTypes
  <2> DEFINE q == job[r]
             d == h.d[r]
             k == h.k[r]
  <2>2. q \in Jobs /\ d \in Nat /\ k \in Nat /\ length \in Nat
    BY <2>1
  <2> HIDE DEF q, d, k
  <2> DEFINE new == AfterOutput(q, d, k, length)
  <2>3. /\ new \in Jobs /\ new.status = q.status /\ new.chunk = q.chunk
        /\ new.computed = IF q.computed > 0 THEN q.computed - (d + 1 - k) ELSE q.computed
        /\ new.ph = q.ph - (d + 1) /\ new.known = q.known + k
        /\ new.spec = IF q.status = "running" /\ ~q.chunk THEN length ELSE q.spec
    BY <2>2, AfterOutputIs
  <2> QED BY <2>3 DEF q, d, k
<1>9. job' \in [Req -> Jobs]
  <2>1. \A r \in Req : job'[r] \in Jobs
    BY <1>2, <1>6, <1>7, <1>8 DEF RunnerTypes
  <2> QED BY <1>5, <2>1
<1>10. RunnerTypes'
  <2>1. outputs' \in Seq(Outputs) /\ Len(outputs') <= 1
    <3>1. outputs \in Seq(Outputs) /\ Len(outputs) \in Nat /\ Len(outputs) <= 2
      BY <1>1, <1>2 DEF RunnerTypes
    <3>2. outputs' \in Seq(Outputs) /\ Len(outputs') = Len(outputs) - 1
      BY <1>1, <3>1, HeadTailProperties
    <3> QED BY <3>1, <3>2
  <2>2. Len(outputs') <= 2
    <3>1. Len(outputs') \in Nat
      BY <2>1
    <3> QED BY <2>1, <3>1
  <2> QED BY <1>1, <1>2, <1>9, <2>1, <2>2 DEF RunnerTypes, Rows
<1>11. OutputsAccount'
  BY <1>2, <1>3 DEF OutputsAccount
<1>12. PlanAccount'
  <2>1. ASSUME NEW r \in Req, job[r].status = "done" PROVE job'[r].status = "done"
    BY <1>6, <1>7, <2>1
  <2>2. \A r \in finishedIds' \cup plan'.finished : job'[r].status = "done"
    <3>1. finishedIds \subseteq Req /\ \A r \in finishedIds : job[r].status = "done"
      BY <1>2 DEF RunnerTypes, PlanAccount
    <3>2. plan'.finished = {}
      BY <1>1, <1>4 DEF NoPlan
    <3> QED BY <1>1, <2>1, <3>1, <3>2
  <2> QED BY <1>1, <1>2, <1>4, <2>2 DEF PlanAccount
<1>13. ASSUME NEW r \in Req PROVE JobAccount(r)'
  <2>1. JobAccount(r)
    BY DEF RunnerInv
  <2>2. OwedByPlan(r) = 0 /\ OwedByPlan(r)' = 0
    BY <1>1 DEF OwedByPlan, Working
  <2>3. CASE job'[r].status = "done"
    BY <2>3 DEF JobAccount
  <2>4. CASE job'[r] = job[r] /\ h.k[r] = 0
    <3>1. Owed(h, r) = 0 /\ Lost(h, r) = 0
      BY <2>4 DEF Owed, Lost
    <3>2. OwedTo(r)' = OwedTo(r) /\ LostOf(r)' = LostOf(r) /\ (InFlight(r)' <=> InFlight(r))
      BY <1>3, <2>4, <3>1
    <3>3. RunningJob(r) => RunningJob(r)'
      BY <1>1, <1>4, <2>4, <3>2 DEF RunningJob, LacksTokens, Working
    <3>4. PreemptedAccount(r) => PreemptedAccount(r)'
      BY <1>1, <1>3, <2>4, <3>2 DEF PreemptedAccount
    <3> QED BY <2>1, <2>2, <2>4, <3>2, <3>3, <3>4 DEF JobAccount, WaitingAccount
  <2>5. CASE /\ job[r].status # "done" /\ h.k[r] # 0
             /\ job'[r] = AfterOutput(job[r], h.d[r], h.k[r], length)
    <3> DEFINE d == h.d[r]
               k == h.k[r]
    <3>1. d \in Nat /\ k \in Nat /\ k <= d + 1 /\ Owed(h, r) = d + 1 /\ Lost(h, r) = d + 1 - k
      BY <1>3, <2>5 DEF Owed, Lost
    <3>2. InFlight(r)
      BY <1>3, <2>5
    <3>3. /\ job'[r].status = job[r].status /\ job'[r].chunk = job[r].chunk
          /\ job'[r].computed = IF job[r].computed > 0 THEN job[r].computed - (d + 1 - k)
                                ELSE job[r].computed
          /\ job'[r].ph = job[r].ph - (d + 1) /\ job'[r].known = job[r].known + k
          /\ job'[r].spec = IF job[r].status = "running" /\ ~job[r].chunk
                            THEN length ELSE job[r].spec
      BY <1>8, <2>5
    <3>4. /\ job[r] \in Jobs /\ job[r].computed \in Int /\ job[r].ph \in Int /\ job[r].known \in Int
          /\ job[r].chunk \in BOOLEAN /\ job[r].spec \in Int /\ kv[r] \in Nat
      BY <1>2 DEF RunnerTypes, Jobs
    <3> HIDE DEF d, k
    <3>5. job'[r].ph = OwedTo(r)' + OwedByPlan(r)'
      <4>1. job[r].ph = OwedTo(r) + OwedByPlan(r)
        BY <2>1, <2>5 DEF JobAccount
      <4> QED BY <1>3, <2>2, <3>1, <3>3, <4>1
    <3>6. job'[r].status # "waiting"
      BY <2>1, <3>2, <3>3 DEF JobAccount, WaitingAccount
    <3>7. job'[r].status = "preempted" => PreemptedAccount(r)'
      <4> SUFFICES ASSUME job'[r].status = "preempted" PROVE PreemptedAccount(r)'
        OBVIOUS
      <4>1. PreemptedAccount(r)
        BY <2>1, <3>3 DEF JobAccount
      <4>2. Len(outputs) = 2 /\ outputs[2].k[r] = 0 /\ job'[r].spec = 0
        BY <1>1, <3>2, <3>3, <4>1 DEF PreemptedAccount
      <4>3. ~InFlight(r)'
        BY <1>3, <4>2
      <4> QED BY <4>2, <4>3 DEF PreemptedAccount
    <3>8. job'[r].status = "running" => RunningJob(r)'
      <4> SUFFICES ASSUME job'[r].status = "running" PROVE RunningJob(r)'
        OBVIOUS
      <4>1. LacksTokens(r) /\ kv[r] > 0 /\ job[r].computed = kv[r] + LostOf(r)
        BY <1>1, <1>4, <2>1, <3>2, <3>3 DEF JobAccount, RunningJob, Working
      <4>2. LostOf(r) = d + 1 - k + LostOf(r)' /\ LostOf(r)' \in Nat
        BY <1>3, <3>1
      <4>3. job'[r].computed = job[r].computed - (d + 1 - k)
        <5>1. job[r].computed > 0
          BY <3>1, <3>4, <4>1, <4>2
        <5> QED BY <3>3, <5>1
      <4>4. job'[r].computed = kv[r] + LostOf(r)'
        <5> DEFINE c == job[r].computed
                   a == kv[r]
                   l == LostOf(r)
                   m == LostOf(r)'
        <5>1. c \in Int /\ a \in Int /\ l \in Int /\ m \in Int /\ c = a + l /\ l = d + 1 - k + m
          BY <3>1, <3>4, <4>1, <4>2
        <5> HIDE DEF c, a, l, m
        <5>2. c - (d + 1 - k) = a + m
          BY <3>1, <5>1
        <5> QED BY <4>3, <5>2 DEF c, a, m
      <4>5. LacksTokens(r)'
        <5> DEFINE c == job[r].computed
                   a == job[r].known
                   p == job[r].ph
        <5>1. c \in Int /\ a \in Int /\ p \in Int
          BY <3>4
        <5>2. /\ job'[r].computed = c - (d + 1 - k)
              /\ job'[r].known = a + k /\ job'[r].ph = p - (d + 1)
          BY <3>3, <4>3
        <5>3. c < a + p /\ (~job[r].chunk \/ job[r].spec > 0 => c = a + p - 1)
          BY <4>1 DEF LacksTokens
        <5>4. ~job'[r].chunk \/ job'[r].spec > 0 => ~job[r].chunk \/ job[r].spec > 0
          BY <3>3, <3>4
        <5> HIDE DEF c, a, p
        <5>5. /\ c - (d + 1 - k) < (a + k) + (p - (d + 1))
              /\ ~job'[r].chunk \/ job'[r].spec > 0 => c - (d + 1 - k) = (a + k) + (p - (d + 1)) - 1
          BY <3>1, <5>1, <5>3, <5>4
        <5>6. /\ c - (d + 1 - k) < (a + k) + (p - (d + 1))
              /\ ~job'[r].chunk \/ job'[r].spec > 0 => c - (d + 1 - k) = (a + k) + (p - (d + 1) - 1)
          BY <3>1, <5>1, <5>5
        <5> QED BY <5>2, <5>6 DEF LacksTokens
      <4> QED BY <1>1, <1>4, <4>1, <4>4, <4>5 DEF RunningJob, Working
    <3> QED BY <3>5, <3>6, <3>7, <3>8 DEF JobAccount
  <2> QED BY <1>6, <1>7, <2>3, <2>4, <2>5
<1>14. ASSUME NEW r \in ToSet(batch), r \in Req PROVE InLastStep(r)'
  <2>1. InLastStep(r)
    BY <1>1, <1>2, <1>14 DEF WorkerAccount
  <2>2. OwedByPlan(r) = 0 /\ OwedByPlan(r)' = 0
    BY <1>1 DEF OwedByPlan, Working
  <2>3. \/ job'[r].status = "done"
        \/ /\ job'[r].status = job[r].status
           /\ job[r].status # "done" =>
                job'[r].known - PromptLen[r] + job'[r].ph - OwedByPlan(r)'
                  <= job[r].known - PromptLen[r] + job[r].ph - OwedByPlan(r)
    <3>0. job[r].known \in Int /\ job[r].ph \in Int /\ PromptLen[r] \in Int
      <4>1. job[r] \in Jobs
        BY <1>2, <1>14 DEF RunnerTypes
      <4>2. PromptLen[r] \in Int
        BY <1>14, RunnerAssumption
      <4> QED BY <4>1, <4>2 DEF Jobs
    <3>1. CASE job'[r] = job[r]
      BY <2>2, <3>0, <3>1
    <3>2. CASE job'[r] = AfterOutput(job[r], h.d[r], h.k[r], length)
      <4> DEFINE d == h.d[r]
                 k == h.k[r]
                 a == job[r].known
                 p == job[r].ph
                 l == PromptLen[r]
      <4>1. d \in Nat /\ k \in Nat /\ k <= d + 1
        BY <1>3, <1>14
      <4>2. job'[r].status = job[r].status /\ job'[r].ph = p - (d + 1) /\ job'[r].known = a + k
        BY <1>8, <1>14, <3>2
      <4> HIDE DEF d, k, a, p, l
      <4>3. (a + k) - l + (p - (d + 1)) - 0 <= a - l + p - 0
        BY <3>0, <4>1 DEF a, p, l
      <4> QED BY <2>2, <4>2, <4>3 DEF a, p, l
    <3> QED BY <1>6, <1>7, <1>14, <3>1, <3>2
  <2>4. job'[r].status # "done" =>
          cache'[r].out + cache'[r].drafts >=
            job'[r].known - PromptLen[r] + job'[r].ph - OwedByPlan(r)'
    <3> SUFFICES ASSUME job'[r].status # "done"
                 PROVE  cache'[r].out + cache'[r].drafts >=
                          job'[r].known - PromptLen[r] + job'[r].ph - OwedByPlan(r)'
      OBVIOUS
    <3> DEFINE has == cache[r].out + cache[r].drafts
               old == job[r].known - PromptLen[r] + job[r].ph - OwedByPlan(r)
               new == job'[r].known - PromptLen[r] + job'[r].ph - OwedByPlan(r)'
    <3>1. has >= old /\ new <= old
      BY <2>1, <2>3 DEF InLastStep
    <3>2. has \in Int
      BY <1>2, <1>14 DEF RunnerTypes, Cached
    <3>3. PromptLen[r] \in Int
      BY <1>14, RunnerAssumption
    <3>4. old \in Int
      <4>1. job[r] \in Jobs
        BY <1>2, <1>14 DEF RunnerTypes
      <4>2. job[r].known \in Int /\ job[r].ph \in Int
        BY <4>1 DEF Jobs
      <4> QED BY <2>2, <3>3, <4>2
    <3>5. new \in Int
      <4>1. job'[r] \in Jobs
        BY <1>9, <1>14
      <4>2. job'[r].known \in Int /\ job'[r].ph \in Int
        BY <4>1 DEF Jobs
      <4> QED BY <2>2, <3>3, <4>2
    <3> HIDE DEF has, old, new
    <3>6. has >= new
      BY <3>1, <3>2, <3>4, <3>5
    <3> QED BY <1>1, <3>6 DEF has, new
  <2>5. outputs' # <<>> => outputs # <<>> /\ Last(outputs') = Last(outputs)
    BY <1>1, <1>3, <1>14
  <2> QED BY <1>1, <1>4, <2>1, <2>3, <2>4, <2>5 DEF InLastStep
<1>15. ASSUME NEW r \in Req PROVE Reported(r)'
  BY <1>1, <1>2, <1>3 DEF Reported, WorkerAccount
<1>16. WorkerAccount'
  <2>1. ToSet(batch) \subseteq Req
    BY <1>2 DEF RunnerTypes, ToSet
  <2> QED BY <1>1, <1>14, <1>15, <2>1 DEF WorkerAccount
<1> QED BY <1>10, <1>11, <1>12, <1>13, <1>16 DEF RunnerInv

\* A client ends a request, whatever it has in flight.
LEMMA FinishRequestRunner ==
  ASSUME NEW r \in Req, RunnerInv, FinishRequest(r)
  PROVE  RunnerInv'
<1> USE DEF hostVars, promptVars, gpuVars, history
<1>1. /\ pc = "idle" /\ pc' = "idle" /\ job' = [job EXCEPT ![r] = Ended]
      /\ finishedIds' = finishedIds \cup {r}
      /\ UNCHANGED <<plan, outputs, cache, batch, assumed, logprobs, last, start, discards, kv>>
  BY DEF FinishRequest
<1>2. RunnerTypes /\ OutputsAccount /\ PlanAccount /\ WorkerAccount
  BY DEF RunnerInv
<1>3. /\ job' \in [Req -> Jobs] /\ job'[r] = Ended /\ Ended.status = "done"
      /\ \A q \in Req : q # r => job'[q] = job[q]
  BY <1>1, <1>2 DEF RunnerTypes, Ended, Jobs
<1>4. plan = NoPlan /\ Planned = {} /\ Admitted = {} /\ Planned' = {} /\ Admitted' = {}
  BY <1>1, <1>2 DEF PlanAccount, NoPlan, Planned, None, Admitted
<1>5. RunnerTypes' /\ OutputsAccount'
  BY <1>1, <1>2, <1>3 DEF RunnerTypes, OutputsAccount, Rows
<1>6. PlanAccount'
  <2>1. \A q \in finishedIds' \cup plan'.finished : job'[q].status = "done"
    <3>1. finishedIds \subseteq Req /\ \A q \in finishedIds : job[q].status = "done"
      BY <1>2 DEF RunnerTypes, PlanAccount
    <3>2. plan'.finished = {}
      BY <1>1, <1>4 DEF NoPlan
    <3> QED BY <1>1, <1>3, <3>1, <3>2
  <2> QED BY <1>1, <1>2, <1>4, <2>1 DEF PlanAccount
<1>7. ASSUME NEW q \in Req PROVE JobAccount(q)'
  <2>1. CASE q = r
    BY <1>3, <2>1 DEF JobAccount
  <2>2. CASE q # r
    BY <1>1, <1>3, <2>2, IdleKeepsJob DEF RunnerInv
  <2> QED BY <2>1, <2>2
<1>8. WorkerAccount'
  <2>1. ASSUME NEW q \in ToSet(batch), q \in Req PROVE InLastStep(q)'
    <3>1. InLastStep(q)
      BY <1>1, <1>2, <2>1 DEF WorkerAccount
    <3>2. job[q].status # "waiting" /\ q \notin plan.new
      BY <3>1 DEF InLastStep
    <3>3. CASE q = r
      BY <1>1, <1>3, <1>4, <2>1, <3>1, <3>2, <3>3, LastStepKept
    <3>4. CASE q # r
      BY <1>1, <1>3, <1>4, <2>1, <3>1, <3>2, <3>4, LastStepKept
    <3> QED BY <3>3, <3>4
  <2>2. ASSUME NEW q \in Req PROVE Reported(q)'
    BY <1>1, <1>2, <2>2, ReportedKept DEF WorkerAccount
  <2>3. ToSet(batch) \subseteq Req
    BY <1>2 DEF RunnerTypes, ToSet
  <2> QED BY <1>1, <2>1, <2>2, <2>3 DEF WorkerAccount
<1> QED BY <1>5, <1>6, <1>7, <1>8 DEF RunnerInv

\* With nothing in flight every running request starts anew.
LEMMA ResetRunner ==
  ASSUME RunnerInv, ResetPrefixCache
  PROVE  RunnerInv'
<1> USE DEF hostVars, promptVars, gpuVars, history
<1>1. /\ pc = "idle" /\ pc' = "idle" /\ outputs = <<>>
      /\ job' = [r \in Req |-> IF job[r].status = "running" THEN PreemptedJob(job[r]) ELSE job[r]]
      /\ UNCHANGED <<finishedIds, plan, outputs, cache, batch, assumed, logprobs, last, start,
                     discards, kv>>
  BY DEF ResetPrefixCache
<1>2. RunnerTypes /\ OutputsAccount /\ PlanAccount /\ WorkerAccount
  BY DEF RunnerInv
<1>3. ASSUME NEW r \in Req
      PROVE  /\ job'[r] \in Jobs
             /\ job[r].status # "running" => job'[r] = job[r]
             /\ job[r].status = "running" =>
                  /\ job'[r].status = "preempted" /\ job'[r].spec = 0
                  /\ job'[r].known = job[r].known /\ job'[r].ph = job[r].ph
  <2>1. job[r] \in Jobs
    BY <1>2 DEF RunnerTypes
  <2>2. CASE job[r].status = "running"
    <3> DEFINE new == PreemptedJob(job[r])
    <3>1. /\ new \in Jobs /\ new.status = "preempted" /\ new.spec = 0
          /\ new.known = job[r].known /\ new.ph = job[r].ph
      BY <2>1, PreemptedIs
    <3>2. job'[r] = new
      BY <1>1, <2>2
    <3> HIDE DEF new
    <3> QED BY <2>2, <3>1, <3>2
  <2>3. CASE job[r].status # "running"
    BY <1>1, <2>1, <2>3
  <2> QED BY <2>2, <2>3
<1>4. plan = NoPlan /\ Planned = {} /\ Admitted = {} /\ Planned' = {} /\ Admitted' = {}
  BY <1>1, <1>2 DEF PlanAccount, NoPlan, Planned, None, Admitted
<1>5. RunnerTypes' /\ OutputsAccount'
  <2>1. job' \in [Req -> Jobs]
    BY <1>1, <1>3
  <2> QED BY <1>1, <1>2, <2>1 DEF RunnerTypes, OutputsAccount, Rows
<1>6. PlanAccount'
  <2>1. \A q \in finishedIds' \cup plan'.finished : job'[q].status = "done"
    <3>1. finishedIds \subseteq Req /\ \A q \in finishedIds : job[q].status = "done"
      BY <1>2 DEF RunnerTypes, PlanAccount
    <3>2. plan'.finished = {}
      BY <1>1, <1>4 DEF NoPlan
    <3> QED BY <1>1, <1>3, <3>1, <3>2
  <2> QED BY <1>1, <1>2, <1>4, <2>1 DEF PlanAccount
<1>7. ASSUME NEW r \in Req PROVE JobAccount(r)'
  <2>1. JobAccount(r)
    BY DEF RunnerInv
  <2>2. CASE job[r].status # "running"
    BY <1>1, <1>3, <2>1, <2>2, IdleKeepsJob
  <2>3. CASE job[r].status = "running"
    <3>1. OwedTo(r)' = OwedTo(r)
      BY <1>1, SameOutputs
    <3>2. OwedByPlan(r) = 0 /\ OwedByPlan(r)' = 0
      BY <1>1 DEF OwedByPlan, Working
    <3>3. ~InFlight(r)'
      BY <1>1 DEF InFlight
    <3> QED BY <1>3, <2>1, <2>3, <3>1, <3>2, <3>3 DEF JobAccount, PreemptedAccount
  <2> QED BY <2>2, <2>3
<1>8. WorkerAccount'
  <2>1. ASSUME NEW q \in ToSet(batch), q \in Req PROVE InLastStep(q)'
    <3>1. InLastStep(q)
      BY <1>1, <1>2, <2>1 DEF WorkerAccount
    <3>2. job[q].status # "waiting" /\ q \notin plan.new
      BY <3>1 DEF InLastStep
    <3>3. CASE job[q].status = "running"
      BY <1>1, <1>3, <1>4, <2>1, <3>1, <3>2, <3>3, LastStepKept
    <3>4. CASE job[q].status # "running"
      BY <1>1, <1>3, <1>4, <2>1, <3>1, <3>2, <3>4, LastStepKept
    <3> QED BY <3>3, <3>4
  <2>2. ASSUME NEW q \in Req PROVE Reported(q)'
    BY <1>1, <1>2, <2>2, ReportedKept DEF WorkerAccount
  <2>3. ToSet(batch) \subseteq Req
    BY <1>2 DEF RunnerTypes, ToSet
  <2> QED BY <1>1, <2>1, <2>2, <2>3 DEF WorkerAccount
<1> QED BY <1>5, <1>6, <1>7, <1>8 DEF RunnerInv

-----------------------------------------------------------------------------
(* The theorems.                                                           *)

\* The invariant survives every step.
LEMMA NextRunner ==
  ASSUME RunnerInv, [Next]_vars
  PROVE  RunnerInv'
<1>1. CASE StartPlan
  BY <1>1, StartPlanRunner
<1>2. CASE SendStep
  BY <1>2, SendStepRunner
<1>3. CASE UpdateStates
  BY <1>3, UpdateStatesRunner
<1>4. CASE PrepareInputs
  BY <1>4, PrepareInputsRunner
<1>5. CASE CorrectCounts
  BY <1>5, CorrectCountsRunner
<1>6. CASE SampleTokens
  BY <1>6, SampleTokensRunner
<1>7. CASE AnswerEmpty
  BY <1>7, AnswerEmptyRunner
<1>8. CASE UpdateFromOutput
  BY <1>8, UpdateFromOutputRunner
<1>9. CASE ResetPrefixCache
  BY <1>9, ResetRunner
<1>10. CASE \E r \in Req : PlanRunning(r) \/ Preempt(r) \/ Admit(r) \/ FinishRequest(r)
  BY <1>10, PlanRunningRunner, PreemptRunner, AdmitRunner, FinishRequestRunner
<1>11. CASE UNCHANGED vars
  <2> USE <1>11 DEF vars, schedVars, hostVars, promptVars, gpuVars, history
  <2>1. RunnerTypes' /\ OutputsAccount' /\ PlanAccount' /\ Planned' = Planned
    BY DEF RunnerInv, RunnerTypes, OutputsAccount, PlanAccount, Rows, Planned, Admitted
  <2>2. ASSUME NEW r \in Req
        PROVE  /\ OwedTo(r)' = OwedTo(r) /\ LostOf(r)' = LostOf(r) /\ (InFlight(r)' <=> InFlight(r))
               /\ OwedByPlan(r)' = OwedByPlan(r)
    BY SameOutputs DEF OwedByPlan, Planned
  <2>3. ASSUME NEW r \in Req PROVE JobAccount(r)'
    <3>1. JobAccount(r)
      BY DEF RunnerInv
    <3>2. RunningJob(r) => RunningJob(r)'
      BY <2>1, <2>2 DEF RunningJob, AdmittedJob, LacksTokens, SentJob, PlannedJob, DraftsAmong,
         Greater, Lesser, Admitted
    <3> QED BY <2>2, <3>1, <3>2 DEF JobAccount, WaitingAccount, PreemptedAccount
  <2>4. WorkerAccount'
    <3>1. ToSet(batch) \subseteq Req
      BY DEF RunnerInv, RunnerTypes, ToSet
    <3>2. ASSUME NEW r \in Req
          PROVE  /\ InLastStep(r)' <=> InLastStep(r)
                 /\ Reported(r)' <=> Reported(r)
                 /\ InThisStep(r)' <=> InThisStep(r)
      BY <2>2 DEF InLastStep, Reported, InThisStep, CorrectsLast, Correction, Admitted
    <3>3. Planned \subseteq Req
      BY DEF Planned
    <3> QED BY <2>1, <3>1, <3>2, <3>3 DEF RunnerInv, WorkerAccount, Rows
  <2> QED BY <2>1, <2>3, <2>4 DEF RunnerInv
<1> QED BY <1>1, <1>2, <1>3, <1>4, <1>5, <1>6, <1>7, <1>8, <1>9, <1>10, <1>11 DEF Next

\* The invariant holds always: what the scheduler has sent and not yet heard of, and what the
\* worker has of it on the host and on the GPU, are the same account.
THEOREM RunnerInvariant == Spec => []RunnerInv
<1>1. Init => RunnerInv
  BY InitRunner
<1>2. RunnerInv /\ [Next]_vars => RunnerInv'
  BY NextRunner
<1> QED BY <1>1, <1>2, PTL DEF Spec

\* The GPU goes on exactly where the valid KV of a request ends, whatever was rejected,
\* reordered, preempted or admitted since (update_num_computed_tokens_for_batch_change).
THEOREM StartsRight == Spec => []StartsWhereKvEnds
<1>1. RunnerInv => StartsWhereKvEnds
  BY DEF RunnerInv, WorkerAccount, StartsWhereKvEnds
<1> QED BY <1>1, RunnerInvariant, PTL

\* The worker throws away the samples of exactly the requests that the scheduler takes for
\* prefills (discard_request_mask).
THEOREM DiscardsRight == Spec => []DiscardsAgree
<1>1. RunnerInv => DiscardsAgree
  <2> SUFFICES ASSUME RunnerInv, pc \in {"forward", "sample"}
               PROVE  {batch[i] : i \in discards} = plan.chunk
    BY DEF DiscardsAgree
  <2>1. discards = {i \in Rows : batch[i] \in plan.chunk} /\ ToSet(batch) = Planned
    BY DEF RunnerInv, WorkerAccount
  <2>2. plan.chunk \subseteq Planned
    BY DEF RunnerInv, PlanAccount
  <2>3. DOMAIN batch = Rows
    BY DEF RunnerInv, RunnerTypes, Rows
  <2>4. \A r \in plan.chunk : \E i \in Rows : batch[i] = r
    BY <2>1, <2>2, <2>3 DEF ToSet
  <2> QED BY <2>1, <2>4
<1> QED BY <1>1, RunnerInvariant, PTL

\* Once corrected, the host's count of computed tokens is the GPU's, while an output is in
\* flight (correct_spec_decode_token_counts).
THEOREM CorrectionRight == Spec => []CorrectionMeetsGpu
<1>1. RunnerInv => CorrectionMeetsGpu
  <2> SUFFICES ASSUME RunnerInv, pc = "sample", outputs # <<>>, NEW i \in Rows
               PROVE  cache[batch[i]].computed = start[i]
    BY DEF CorrectionMeetsGpu
  <2>1. start[i] = kv[batch[i]] /\ ToSet(batch) = Planned
    BY DEF RunnerInv, WorkerAccount
  <2>2. batch[i] \in Planned
    BY <2>1 DEF RunnerInv, RunnerTypes, ToSet, Rows
  <2>3. InThisStep(batch[i])
    BY <2>2 DEF RunnerInv, WorkerAccount
  <2> QED BY <2>1, <2>3 DEF InThisStep
<1> QED BY <1>1, RunnerInvariant, PTL

-----------------------------------------------------------------------------
(* The ids themselves. What the worker looks up by the row of the last step *)
(* is there as long as a request that left the batch has no row.           *)

\* The history runs ahead of the scheduler by what the outputs in flight give.
LenAccount(r) == job[r].status # "done" => len[r] = job[r].known + OwedTo(r) - LostOf(r)

\* A row of the last step has the last token of its request, and drafts for the tokens
\* after it.
LeftBehind(r) ==
  last.index[r] # 0 =>
    /\ r \in ToSet(batch)
    /\ last.sampled[last.index[r]] = Token(r, len[r] - 1)
    /\ \A j \in 1 .. NumSpec :
         last.proposed[last.index[r]][j] \in {Draft(r, len[r] + j - 1), Zero}

\* A request in the batch lacks the KV of its last token if that was sampled by the last
\* step; if the last step sampled nothing for it, the host has all its tokens.
RowKnows(r) == IF last.index[r] = 0 THEN cache[r].real = len[r] ELSE kv[r] = len[r] - 1

\* The batch is that of the last step, which the scheduler remembers but after a reset.
StepsAccount ==
  /\ prevStep \subseteq ToSet(batch)
  /\ \A r \in ToSet(batch) : job[r].status = "running" /\ r \notin Admitted => r \in prevStep
  /\ \A r \in prevStep :
       r \notin Admitted /\ (job[r].status = "preempted" => r \in plan.preempted)

\* The message brings the tokens of the requests that have no row.
Brought(r) ==
  /\ r \notin ToSet(batch) \/ r \in plan.resumed => plan.sent[r] = len[r]
  /\ r \in plan.new => PromptLen[r] = len[r]

\* A step reads to the end of the known tokens and its drafts, or stops before that end.
ReadsTo(r) ==
  /\ IF r \in plan.chunk THEN kv[r] + plan.n[r] < len[r]
     ELSE kv[r] + plan.n[r] - plan.d[r] = len[r]
  /\ plan.d[r] <= NumSpec

TokensInv ==
  /\ len \in [Req -> Int]
  /\ \A r \in Req : LenAccount(r) /\ LeftBehind(r) /\ job[r].spec <= NumSpec
  /\ pc \in {"idle", "plan"} => StepsAccount
  /\ pc \in Working => prevStep = Planned /\ \A r \in Planned : ReadsTo(r)
  /\ pc \in {"idle", "plan", "update"} =>
       \A r \in ToSet(batch) : job[r].status = "running" /\ r \notin Admitted => RowKnows(r)
  /\ pc = "update" => \A r \in Planned : Brought(r)
  /\ pc \in {"prepare", "forward", "sample"} => \A r \in Planned : RowKnows(r)
  /\ pc \in {"forward", "sample"} =>
       DOMAIN ids = 1 .. TotalTokens /\ \A x \in 1 .. TotalTokens : RightId(x)

\* At the start there is nothing but the prompts.
LEMMA InitTokens == ASSUME Init PROVE TokensInv
<1> USE DEF Init
<1>1. ToSet(batch) = {} /\ Len(outputs) = 0
  BY DEF ToSet
<1>2. \A r \in Req : OwedTo(r) = 0 /\ LostOf(r) = 0 /\ PromptLen[r] \in Int
  BY <1>1, RunnerAssumption DEF OwedTo, LostOf
<1>3. \A r \in Req : LenAccount(r) /\ LeftBehind(r) /\ job[r].spec <= NumSpec
  BY <1>2, RunnerAssumption DEF LenAccount, LeftBehind, NothingLast, None
<1> QED BY <1>1, <1>2, <1>3, RunnerAssumption DEF TokensInv, StepsAccount, Working

\* Between two steps the worker's state stays as it is; what it has of a request is
\* there as long as the request goes on.
LEMMA BetweenSteps ==
  ASSUME RunnerInv, TokensInv, pc \in {"idle", "plan"}, pc' \in {"idle", "plan"},
         UNCHANGED <<len, last, batch, cache>>, prevStep' \subseteq prevStep,
         \A r \in Req :
           /\ LenAccount(r)'
           /\ job'[r].spec <= NumSpec
           /\ job'[r].status = "running" /\ r \notin Admitted' =>
                /\ job[r].status = "running" /\ r \notin Admitted /\ kv'[r] = kv[r]
                /\ r \in prevStep => r \in prevStep'
           /\ r \in prevStep' =>
                /\ r \notin Admitted'
                /\ job'[r].status = "preempted" => r \in plan'.preempted
  PROVE  TokensInv'
<1>1. ToSet(batch) \subseteq Req /\ ToSet(batch)' = ToSet(batch)
  BY DEF RunnerInv, RunnerTypes, ToSet
<1>2. StepsAccount
  BY DEF TokensInv
<1>3. StepsAccount'
  BY <1>1, <1>2 DEF StepsAccount
<1>4. ASSUME NEW r \in Req PROVE LeftBehind(r)'
  <2>1. LeftBehind(r)
    BY DEF TokensInv
  <2> QED BY <1>1, <2>1 DEF LeftBehind
<1>5. ASSUME NEW r \in ToSet(batch), job'[r].status = "running", r \notin Admitted'
      PROVE  RowKnows(r)'
  <2>1. r \in Req /\ job[r].status = "running" /\ r \notin Admitted /\ kv'[r] = kv[r]
    BY <1>1, <1>5
  <2>2. RowKnows(r)
    BY <2>1 DEF TokensInv
  <2> QED BY <2>1, <2>2 DEF RowKnows
<1>6. len' \in [Req -> Int]
  BY DEF TokensInv
<1>7. pc' \notin Working \cup {"update", "prepare", "forward", "sample"}
  BY DEF Working
<1> QED BY <1>1, <1>3, <1>4, <1>5, <1>6, <1>7 DEF TokensInv

\* The plan does not touch what is known of a request.
LEMMA SameLen ==
  ASSUME NEW r \in Req, LenAccount(r), UNCHANGED <<len, outputs>>,
         job'[r].status # "done" => job[r].status # "done" /\ job'[r].known = job[r].known
  PROVE  LenAccount(r)'
<1>1. OwedTo(r)' = OwedTo(r) /\ LostOf(r)' = LostOf(r)
  BY SameOutputs
<1> QED BY <1>1 DEF LenAccount

\* A plan is begun.
LEMMA StartPlanTokens ==
  ASSUME RunnerInv, TokensInv, StartPlan
  PROVE  TokensInv'
<1> USE DEF schedVars, hostVars, promptVars, gpuVars, history
<1>1. /\ pc = "idle" /\ pc' = "plan"
      /\ UNCHANGED <<job, prevStep, outputs, plan, len, last, batch, cache, kv>>
  BY DEF StartPlan
<1>2. Admitted' = Admitted
  BY <1>1 DEF Admitted
<1>3. ASSUME NEW r \in Req PROVE LenAccount(r)' /\ job[r].spec <= NumSpec
  BY <1>1, <1>3, SameLen DEF TokensInv
<1>4. StepsAccount
  BY <1>1 DEF TokensInv
<1> QED BY <1>1, <1>2, <1>3, <1>4, BetweenSteps DEF StepsAccount

\* A running request gets tokens.
LEMMA PlanRunningTokens ==
  ASSUME NEW r \in Req, RunnerInv, TokensInv, PlanRunning(r)
  PROVE  TokensInv'
<1> USE DEF schedVars, hostVars, promptVars, gpuVars, history
<1>1. /\ pc = "plan" /\ pc' = "plan"
      /\ UNCHANGED <<job, prevStep, outputs, len, last, batch, cache, kv>>
      /\ \E n \in 1 .. NumNewTokens(r) :
           plan' = [plan EXCEPT !.n[r] = n, !.d[r] = DraftsAmong(r, n)]
  BY DEF PlanRunning
<1>2. plan'.new = plan.new /\ plan'.resumed = plan.resumed /\ plan'.preempted = plan.preempted
  BY <1>1 DEF RunnerInv, RunnerTypes, Plans
<1>3. Admitted' = Admitted
  BY <1>2 DEF Admitted
<1>4. ASSUME NEW q \in Req PROVE LenAccount(q)' /\ job[q].spec <= NumSpec
  BY <1>1, <1>4, SameLen DEF TokensInv
<1>5. StepsAccount
  BY <1>1 DEF TokensInv
<1> QED BY <1>1, <1>2, <1>3, <1>4, <1>5, BetweenSteps DEF StepsAccount

\* A running request is preempted.
LEMMA PreemptTokens ==
  ASSUME NEW r \in Req, RunnerInv, TokensInv, Preempt(r)
  PROVE  TokensInv'
<1> USE DEF schedVars, hostVars, promptVars, gpuVars, history
<1>1. /\ pc = "plan" /\ pc' = "plan" /\ job[r].status = "running"
      /\ job' = [job EXCEPT ![r] = PreemptedJob(@)]
      /\ plan' = [plan EXCEPT !.preempted = @ \cup {r}]
      /\ UNCHANGED <<prevStep, outputs, len, last, batch, cache, kv>>
  BY DEF Preempt
<1>2. plan'.new = plan.new /\ plan'.resumed = plan.resumed
      /\ plan'.preempted = plan.preempted \cup {r}
  BY <1>1 DEF RunnerInv, RunnerTypes, Plans
<1>3. Admitted' = Admitted
  BY <1>2 DEF Admitted
<1>4. /\ job'[r].status = "preempted" /\ job'[r].spec = 0 /\ job'[r].known = job[r].known
      /\ \A q \in Req : q # r => job'[q] = job[q]
  <2>1. job \in [Req -> Jobs] /\ job[r] \in Jobs
    BY DEF RunnerInv, RunnerTypes
  <2> DEFINE new == PreemptedJob(job[r])
  <2>2. new.status = "preempted" /\ new.spec = 0 /\ new.known = job[r].known
    BY <2>1, PreemptedIs
  <2>3. job' = [job EXCEPT ![r] = new]
    BY <1>1
  <2> HIDE DEF new
  <2> QED BY <2>1, <2>2, <2>3
<1>5. NumSpec \in Nat
  BY RunnerAssumption
<1>6. ASSUME NEW q \in Req PROVE LenAccount(q)' /\ job'[q].spec <= NumSpec
  BY <1>1, <1>4, <1>5, <1>6, SameLen DEF TokensInv
<1>7. StepsAccount
  BY <1>1 DEF TokensInv
<1>8. ASSUME NEW q \in Req
      PROVE  /\ job'[q].status = "running" => job[q].status = "running"
             /\ q \in prevStep /\ job'[q].status = "preempted" => q \in plan'.preempted
  BY <1>2, <1>4, <1>7, <1>8 DEF StepsAccount
<1> QED BY <1>1, <1>3, <1>6, <1>7, <1>8, BetweenSteps DEF StepsAccount

\* A request is admitted that was not in the last step.
LEMMA AdmitTokens ==
  ASSUME NEW r \in Req, RunnerInv, TokensInv, Admit(r)
  PROVE  TokensInv'
<1> USE DEF schedVars, hostVars, promptVars, gpuVars, history
<1>1. /\ pc = "plan" /\ pc' = "plan" /\ job[r].status \in {"waiting", "preempted"}
      /\ plan.preempted = {}
      /\ UNCHANGED <<prevStep, outputs, len, last, batch, cache>>
  BY DEF Admit
<1>2. PICK hit, n :
       /\ job' = [job EXCEPT ![r].status = "running", ![r].computed = hit]
       /\ plan' = [plan EXCEPT
                     !.n[r] = n,
                     !.new = IF job[r].status = "waiting" THEN @ \cup {r} ELSE @,
                     !.resumed = IF job[r].status = "preempted" THEN @ \cup {r} ELSE @]
       /\ kv' = [kv EXCEPT ![r] = hit]
  BY DEF Admit
<1>3. /\ job'[r].known = job[r].known /\ job'[r].spec = job[r].spec
      /\ \A q \in Req : q # r => job'[q] = job[q] /\ kv'[q] = kv[q]
  BY <1>2 DEF RunnerInv, RunnerTypes, Jobs
<1>4. /\ plan'.preempted = {} /\ r \in Admitted' /\ Admitted' \subseteq Admitted \cup {r}
      /\ Admitted \subseteq Admitted'
  BY <1>1, <1>2 DEF RunnerInv, RunnerTypes, Plans, Admitted
<1>5. StepsAccount
  BY <1>1 DEF TokensInv
<1>6. r \notin prevStep
  <2>1. r \in prevStep => r \in ToSet(batch) /\ job[r].status = "waiting"
    BY <1>1, <1>5 DEF StepsAccount
  <2>2. r \in ToSet(batch) => job[r].status # "waiting"
    BY <1>1 DEF RunnerInv, WorkerAccount, InLastStep
  <2> QED BY <2>1, <2>2
<1>7. ASSUME NEW q \in Req PROVE LenAccount(q)' /\ job'[q].spec <= NumSpec
  <2>1. LenAccount(q) /\ job[q].spec <= NumSpec
    BY DEF TokensInv
  <2>2. job[r].status # "done"
    BY <1>1
  <2> QED BY <1>1, <1>3, <2>1, <2>2, SameLen
<1>8. ASSUME NEW q \in Req, job'[q].status = "running", q \notin Admitted'
      PROVE  job[q].status = "running" /\ q \notin Admitted /\ kv'[q] = kv[q]
  BY <1>3, <1>4, <1>8
<1>9. ASSUME NEW q \in Req, q \in prevStep
      PROVE  q \notin Admitted' /\ job'[q].status # "preempted"
  BY <1>1, <1>3, <1>4, <1>5, <1>6, <1>9 DEF StepsAccount
<1> QED BY <1>1, <1>7, <1>8, <1>9, BetweenSteps

\* A request is finished from outside.
LEMMA FinishRequestTokens ==
  ASSUME NEW r \in Req, RunnerInv, TokensInv, FinishRequest(r)
  PROVE  TokensInv'
<1> USE DEF schedVars, hostVars, promptVars, gpuVars, history
<1>1. /\ pc = "idle" /\ pc' = "idle" /\ job' = [job EXCEPT ![r] = Ended]
      /\ UNCHANGED <<prevStep, outputs, plan, len, last, batch, cache, kv>>
  BY DEF FinishRequest
<1>2. Admitted' = Admitted
  BY <1>1 DEF Admitted
<1>3. /\ job'[r].status = "done" /\ job'[r].spec = 0
      /\ \A q \in Req : q # r => job'[q] = job[q]
  BY <1>1 DEF RunnerInv, RunnerTypes, Ended
<1>4. NumSpec \in Nat
  BY RunnerAssumption
<1>5. ASSUME NEW q \in Req PROVE LenAccount(q)' /\ job'[q].spec <= NumSpec
  BY <1>1, <1>3, <1>4, <1>5, SameLen DEF TokensInv
<1>6. StepsAccount
  BY <1>1 DEF TokensInv
<1>7. ASSUME NEW q \in Req
      PROVE  /\ job'[q].status = "running" => job[q].status = "running"
             /\ job'[q].status = "preempted" => job[q].status = "preempted"
  BY <1>3, <1>7
<1> QED BY <1>1, <1>2, <1>5, <1>6, <1>7, BetweenSteps DEF StepsAccount

\* Nothing is running after a reset.
LEMMA ResetTokens ==
  ASSUME RunnerInv, TokensInv, ResetPrefixCache
  PROVE  TokensInv'
<1> USE DEF schedVars, hostVars, promptVars, gpuVars, history
<1>1. /\ pc = "idle" /\ pc' = "idle" /\ prevStep' = {}
      /\ job' = [r \in Req |-> IF job[r].status = "running" THEN PreemptedJob(job[r])
                               ELSE job[r]]
      /\ UNCHANGED <<outputs, plan, len, last, batch, cache, kv>>
  BY DEF ResetPrefixCache
<1>2. NumSpec \in Nat
  BY RunnerAssumption
<1>3. ASSUME NEW q \in Req
      PROVE  /\ LenAccount(q)' /\ job'[q].spec <= NumSpec
             /\ job'[q].status # "running"
  <2>1. LenAccount(q) /\ job[q].spec <= NumSpec /\ job[q] \in Jobs
    BY DEF TokensInv, RunnerInv, RunnerTypes
  <2> DEFINE new == PreemptedJob(job[q])
  <2>2. new.status = "preempted" /\ new.spec = 0 /\ new.known = job[q].known
    BY <2>1, PreemptedIs
  <2>3. job'[q] = IF job[q].status = "running" THEN new ELSE job[q]
    BY <1>1
  <2> HIDE DEF new
  <2>4. CASE job[q].status = "running"
    BY <1>1, <1>2, <2>1, <2>2, <2>3, <2>4, SameLen
  <2>5. CASE job[q].status # "running"
    BY <1>1, <1>2, <2>1, <2>3, <2>5, SameLen
  <2> QED BY <2>4, <2>5
<1> QED BY <1>1, <1>3, BetweenSteps

\* An output that is taken becomes known.
LEMMA UpdateFromOutputTokens ==
  ASSUME RunnerInv, TokensInv, UpdateFromOutput
  PROVE  TokensInv'
<1> USE DEF schedVars, hostVars, promptVars, gpuVars, history
<1>1. /\ pc = "idle" /\ pc' = "idle" /\ outputs # <<>> /\ outputs' = Tail(outputs)
      /\ UNCHANGED <<prevStep, plan, len, last, batch, cache, kv>>
  BY DEF UpdateFromOutput
<1>2. RunnerTypes /\ OutputsAccount /\ NumSpec \in Nat
  BY RunnerAssumption DEF RunnerInv
<1>3. PICK stops \in SUBSET Req, length \in 0 .. NumSpec :
        job' = [r \in Req |-> IF r \in stops THEN Ended ELSE Taken(r, Head(outputs), length)]
  <2>1. \E stops \in SUBSET {r \in Req : Head(outputs).k[r] # 0}, length \in 0 .. NumSpec :
          job' = [r \in Req |-> IF r \in stops THEN Ended ELSE Taken(r, Head(outputs), length)]
    BY DEF UpdateFromOutput
  <2> QED BY <2>1
<1>4. Admitted' = Admitted
  BY <1>1 DEF Admitted
<1>5. StepsAccount
  BY <1>1 DEF TokensInv
<1>6. ASSUME NEW r \in Req
      PROVE  /\ LenAccount(r)' /\ job'[r].spec <= NumSpec
             /\ job'[r].status = job[r].status \/ job'[r].status = "done"
  <2> DEFINE h == outputs[1]
             q == job[r]
             d == h.d[r]
             k == h.k[r]
  <2>1. /\ Head(outputs) = h /\ k \in Nat /\ d \in Nat /\ k <= d + 1
        /\ OwedTo(r) = Owed(h, r) + OwedTo(r)' /\ OwedTo(r)' \in Nat
        /\ LostOf(r) = Lost(h, r) + LostOf(r)' /\ LostOf(r)' \in Nat
    BY <1>1, <1>2, OldestTaken
  <2>2. /\ LenAccount(r) /\ job[r].spec <= NumSpec /\ q \in Jobs /\ q.known \in Int
        /\ len[r] \in Int
    BY <1>2 DEF TokensInv, RunnerTypes, Jobs
  <2>3. job'[r] = IF r \in stops THEN Ended ELSE Taken(r, h, length)
    BY <1>3, <2>1
  <2>4. \/ job'[r] = Ended
        \/ job'[r] = job[r] /\ (job[r].status = "done" \/ k = 0)
        \/ /\ job[r].status # "done" /\ k # 0
           /\ job'[r] = AfterOutput(q, d, k, length)
    BY <2>3 DEF Taken, AfterOutput
  <2>5. Owed(h, r) = (IF k = 0 THEN 0 ELSE d + 1) /\ Lost(h, r) = IF k = 0 THEN 0 ELSE d + 1 - k
    BY DEF Owed, Lost
  <2>6. CASE job'[r] = Ended
    BY <1>2, <2>6 DEF Ended, LenAccount
  <2>7. CASE job'[r] = job[r] /\ (job[r].status = "done" \/ k = 0)
    <3>1. k = 0 => OwedTo(r)' = OwedTo(r) /\ LostOf(r)' = LostOf(r)
      BY <2>1, <2>5
    <3> HIDE DEF q, d, k, h
    <3> QED BY <1>1, <2>2, <2>7, <3>1 DEF LenAccount
  <2>8. CASE job[r].status # "done" /\ k # 0 /\ job'[r] = AfterOutput(q, d, k, length)
    <3>0. q \in Jobs /\ d \in Nat /\ k \in Nat /\ length \in Nat
      BY <1>2, <2>1, <2>2
    <3> HIDE DEF q, d, k, h
    <3> DEFINE new == AfterOutput(q, d, k, length)
    <3>1. /\ new.status = q.status /\ new.known = q.known + k
          /\ new.spec = IF q.status = "running" /\ ~q.chunk THEN length ELSE q.spec
      BY <3>0, AfterOutputIs
    <3>2. new.spec <= NumSpec
      BY <1>2, <2>2, <3>1 DEF q
    <3>3. len[r] = q.known + OwedTo(r) - LostOf(r)
      BY <2>2, <2>8 DEF LenAccount, q
    <3> DEFINE o == OwedTo(r)
               o2 == OwedTo(r)'
               l == LostOf(r)
               l2 == LostOf(r)'
               s == q.known
    <3>4. o = d + 1 + o2 /\ l = (d + 1 - k) + l2 /\ o2 \in Nat /\ l2 \in Nat
      BY <2>1, <2>5, <2>8
    <3>5. len[r] = s + o - l /\ s \in Int /\ new.known = s + k
      BY <2>2, <3>1, <3>3
    <3> HIDE DEF o, o2, l, l2, s, new
    <3>6. len[r] = new.known + o2 - l2
      BY <2>1, <3>4, <3>5
    <3>7. len'[r] = job'[r].known + OwedTo(r)' - LostOf(r)'
      BY <1>1, <2>8, <3>6 DEF new, o2, l2
    <3> QED BY <2>8, <3>1, <3>2, <3>7 DEF LenAccount, new, q
  <2> QED BY <2>4, <2>6, <2>7, <2>8
<1> QED BY <1>1, <1>4, <1>5, <1>6, BetweenSteps DEF StepsAccount

\* A request whose last sample the scheduler has not taken was in the last step.
LEMMA OnlyLastStepInFlight ==
  ASSUME RunnerInv, TokensInv, pc = "plan", NEW r \in Req, job[r].status = "running",
         r \notin prevStep
  PROVE  ~InFlight(r)
<1>1. StepsAccount /\ Reported(r) /\ RunningJob(r)
  BY DEF TokensInv, RunnerInv, WorkerAccount, JobAccount
<1>2. CASE r \in Admitted
  BY <1>1, <1>2 DEF RunningJob, AdmittedJob
<1>3. CASE r \notin Admitted
  <2>1. r \notin ToSet(batch)
    BY <1>1, <1>3 DEF StepsAccount
  <2>2. outputs # <<>> => Last(outputs).k[r] = 0
    BY <1>1, <2>1 DEF Reported
  <2> QED BY <2>2, OneInFlight DEF RunnerInv
<1> QED BY <1>2, <1>3

\* How far a planned step reads.
LEMMA PlannedReadsTo ==
  ASSUME RunnerInv, TokensInv, pc = "plan", NEW r \in Planned
  PROVE  /\ IF StaysPrefill(r) THEN kv[r] + plan.n[r] < len[r]
            ELSE kv[r] + plan.n[r] - plan.d[r] = len[r]
         /\ plan.d[r] <= NumSpec
<1>1. r \in Req /\ job[r].status = "running"
  BY DEF Planned, RunnerInv, PlanAccount
<1>2. JobAccount(r) /\ LenAccount(r) /\ job[r].spec <= NumSpec /\ NumSpec \in Nat
  BY <1>1, RunnerAssumption DEF RunnerInv, TokensInv
<1>3. RunningJob(r) /\ job[r].ph = OwedTo(r) /\ len[r] = job[r].known + OwedTo(r) - LostOf(r)
  <2>1. OwedByPlan(r) = 0
    BY DEF OwedByPlan, Working
  <2>2. OwedTo(r) \in Nat
    BY <1>1, InFlightTypes DEF RunnerInv
  <2> QED BY <1>1, <1>2, <2>1, <2>2 DEF JobAccount, LenAccount
<1> DEFINE known == job[r].known
           computed == job[r].computed
           ph == job[r].ph
           spec == job[r].spec
           n == plan.n[r]
           d == plan.d[r]
           lost == LostOf(r)
           held == kv[r]
<1>4. /\ known \in Int /\ computed \in Int /\ ph \in Int /\ spec \in Int
      /\ n \in Nat /\ d \in Nat /\ held \in Nat
  <2>1. job[r] \in Jobs
    BY <1>1 DEF RunnerInv, RunnerTypes
  <2> QED BY <1>1, <2>1 DEF RunnerInv, RunnerTypes, Jobs, Plans, Counts
<1>5. ph \in Nat /\ lost \in Nat /\ (~InFlight(r) => ph = 0 /\ lost = 0)
  BY <1>1, <1>3, InFlightTypes DEF RunnerInv
<1>6. len[r] = known + ph - lost
  BY <1>3
<1>7. StaysPrefill(r) <=> computed + n < known + ph
  BY DEF StaysPrefill
<1>8. CASE r \in Admitted
  <2>1. ~InFlight(r) /\ computed = held /\ d = 0 /\ n <= known - computed
    BY <1>3, <1>8 DEF RunningJob, AdmittedJob
  <2> HIDE DEF known, computed, ph, spec, n, d, lost, held
  <2>2. IF StaysPrefill(r) THEN held + n < len[r] ELSE held + n - d = len[r]
    BY <1>4, <1>5, <1>6, <1>7, <2>1
  <2>3. d <= NumSpec
    BY <1>2, <2>1
  <2> QED BY <2>2, <2>3 DEF held, n, d
<1>9. CASE r \notin Admitted
  <2>1. computed = held + lost /\ PlannedJob(r)
    BY <1>3, <1>9 DEF RunningJob, Working
  <2>2. n <= known + spec + ph - computed /\ d = Greater(0, Lesser(spec, n + computed - known - ph))
    BY <2>1 DEF PlannedJob, DraftsAmong
  <2>3. spec <= NumSpec
    BY <1>2
  <2> HIDE DEF known, computed, ph, spec, n, d, lost, held
  <2> DEFINE over == n + computed - known - ph
  <2>4. over \in Int /\ over <= spec /\ over = n + computed - known - ph
    BY <1>4, <2>2
  <2>5. d = Greater(0, Lesser(spec, over))
    BY <2>2
  <2> HIDE DEF over
  <2>6. d = IF over <= 0 THEN 0 ELSE over
    BY <1>4, <2>4, <2>5 DEF Greater, Lesser
  <2>7. IF StaysPrefill(r) THEN held + n < len[r] ELSE held + n - d = len[r]
    BY <1>4, <1>5, <1>6, <1>7, <2>1, <2>4, <2>6
  <2>8. d <= NumSpec
    BY <1>2, <1>4, <2>3, <2>4, <2>6
  <2> QED BY <2>7, <2>8 DEF held, n, d
<1> QED BY <1>8, <1>9

\* The message is sent: whatever the worker has no row for comes along.
LEMMA SendStepTokens ==
  ASSUME RunnerInv, TokensInv, SendStep
  PROVE  TokensInv'
<1> USE DEF schedVars, hostVars, promptVars, gpuVars, history
<1>1. /\ pc = "plan" /\ pc' = "update" /\ prevStep' = Planned
      /\ job' = [r \in Req |-> IF r \in Planned THEN Advanced(r) ELSE job[r]]
      /\ UNCHANGED <<outputs, len, last, batch, cache, kv>>
  BY DEF SendStep
<1>2. plan \in Plans /\ plan.n \in [Req -> Nat] /\ plan.d \in [Req -> Nat]
      /\ NumSpec \in Nat /\ Planned \subseteq Req
  BY RunnerAssumption DEF RunnerInv, RunnerTypes, Plans, Counts, Planned
<1>3. /\ plan'.n = plan.n /\ plan'.d = plan.d /\ plan'.new = plan.new
      /\ plan'.resumed = plan.resumed
      /\ plan'.sent = [r \in Req |-> IF r \in Planned \ prevStep THEN job[r].known ELSE 0]
      /\ plan'.chunk = {r \in Planned : StaysPrefill(r)}
  BY <1>2 DEF SendStep, Plans
<1>4. Planned' = Planned /\ Admitted' = Admitted
  BY <1>3 DEF Planned, Admitted
<1>5. StepsAccount /\ ToSet(batch) \subseteq Req /\ ToSet(batch)' = ToSet(batch)
  BY <1>1 DEF TokensInv, RunnerInv, RunnerTypes, ToSet
<1>6. ASSUME NEW r \in Req
      PROVE  /\ job'[r].status = job[r].status /\ job'[r].known = job[r].known
             /\ job'[r].spec <= NumSpec
  <2>1. job[r].spec <= NumSpec /\ job[r] \in Jobs /\ plan.n[r] \in Nat /\ plan.d[r] \in Nat
    BY <1>2 DEF TokensInv, RunnerInv, RunnerTypes
  <2>2. /\ Advanced(r).status = job[r].status /\ Advanced(r).known = job[r].known
        /\ Advanced(r).spec = IF StaysPrefill(r) THEN job[r].spec ELSE NumSpec
    BY <1>2, <2>1, AdvancedIs
  <2>3. job'[r] = IF r \in Planned THEN Advanced(r) ELSE job[r]
    BY <1>1
  <2> QED BY <1>2, <2>1, <2>2, <2>3
<1>7. ASSUME NEW r \in Req PROVE LenAccount(r)' /\ LeftBehind(r)'
  <2>1. LenAccount(r) /\ LeftBehind(r)
    BY DEF TokensInv
  <2>2. LenAccount(r)'
    BY <1>1, <1>6, <2>1, SameLen
  <2> QED BY <1>1, <1>5, <2>1, <2>2 DEF LeftBehind
<1>8. ASSUME NEW r \in Planned PROVE ReadsTo(r)'
  <2>1. /\ IF StaysPrefill(r) THEN kv[r] + plan.n[r] < len[r]
           ELSE kv[r] + plan.n[r] - plan.d[r] = len[r]
        /\ plan.d[r] <= NumSpec
    BY <1>1, PlannedReadsTo
  <2>2. r \in plan'.chunk <=> StaysPrefill(r)
    BY <1>3
  <2> HIDE DEF schedVars, hostVars, promptVars, gpuVars, history
  <2> QED BY <1>1, <1>3, <2>1, <2>2 DEF ReadsTo
<1>9. ASSUME NEW r \in ToSet(batch), job'[r].status = "running", r \notin Admitted'
      PROVE  RowKnows(r)'
  <2>1. RowKnows(r)
    BY <1>1, <1>4, <1>5, <1>6, <1>9 DEF TokensInv
  <2> QED BY <1>1, <2>1 DEF RowKnows
<1>10. ASSUME NEW r \in Planned PROVE Brought(r)'
  <2>1. r \in Req /\ job[r].status = "running" /\ LenAccount(r)
    BY <1>2 DEF RunnerInv, PlanAccount, TokensInv
  <2>2. r \notin prevStep => len[r] = job[r].known
    <3>1. r \notin prevStep => OwedTo(r) = 0 /\ LostOf(r) = 0
      BY <1>1, <2>1, OnlyLastStepInFlight, InFlightTypes DEF RunnerInv
    <3>2. job[r].known \in Int
      BY <2>1 DEF RunnerInv, RunnerTypes, Jobs
    <3> QED BY <2>1, <3>1, <3>2 DEF LenAccount
  <2>3. r \notin ToSet(batch) \/ r \in plan.resumed \/ r \in plan.new => r \notin prevStep
    BY <1>5 DEF StepsAccount, Admitted
  <2>4. r \notin prevStep => plan'.sent[r] = len[r]
    BY <1>3, <2>1, <2>2
  <2>5. r \in plan.new => PromptLen[r] = len[r]
    <3>1. r \in plan.new => job[r].known = PromptLen[r]
      BY <1>1, <2>1 DEF RunnerInv, JobAccount, RunningJob, AdmittedJob, Admitted
    <3> QED BY <2>2, <2>3, <3>1
  <2> QED BY <1>1, <1>3, <1>5, <2>3, <2>4, <2>5 DEF Brought
<1>11. len' \in [Req -> Int]
  BY <1>1 DEF TokensInv
<1> QED BY <1>1, <1>4, <1>5, <1>6, <1>7, <1>8, <1>9, <1>10, <1>11 DEF TokensInv, Working

\* The batch follows the message: a request without a row gets its tokens from the message,
\* and no other keeps the row it had.
LEMMA UpdateStatesTokens ==
  ASSUME RemoveForgets, RunnerInv, TokensInv, UpdateStates
  PROVE  TokensInv'
<1> USE DEF schedVars, gpuVars, history
<1>1. /\ pc = "update" /\ pc' = IF Planned = {} THEN "answer" ELSE "prepare"
      /\ cache' = [r \in Req |-> CachedState(r)]
      /\ batch' \in SetToSeqs(Planned)
      /\ last' = [last EXCEPT !.index = [r \in Req |-> IF r \in Removed THEN 0 ELSE @[r]]]
      /\ UNCHANGED <<job, prevStep, outputs, plan, kv, len>>
  BY DEF UpdateStates
<1>2. RunnerTypes /\ PlanAccount /\ Planned \subseteq Req /\ Planned' = Planned
  BY <1>1 DEF RunnerInv, Planned
<1>3. ToSet(batch') = Planned
  BY <1>1, <1>2, RowsOf
<1>4. /\ last'.sampled = last.sampled /\ last'.proposed = last.proposed
      /\ last'.index = [r \in Req |-> IF r \in Removed THEN 0 ELSE last.index[r]]
  <2> DEFINE index == [r \in Req |-> IF r \in Removed THEN 0 ELSE last.index[r]]
  <2>1. last = [index |-> last.index, sampled |-> last.sampled, proposed |-> last.proposed,
                valid |-> last.valid, computed |-> last.computed]
    BY <1>2 DEF RunnerTypes
  <2>2. last' = [last EXCEPT !.index = index]
    BY <1>1
  <2> HIDE DEF index
  <2>3. last'.sampled = last.sampled /\ last'.proposed = last.proposed /\ last'.index = index
    BY <2>1, <2>2
  <2> QED BY <2>3 DEF index
<1>5. ToSet(batch) \subseteq Req
  BY <1>2 DEF RunnerTypes, ToSet
<1>6. ASSUME NEW r \in Req, last'.index[r] # 0
      PROVE  last'.index[r] = last.index[r] /\ r \in Kept
  <2>1. r \notin Removed /\ last'.index[r] = last.index[r] /\ LeftBehind(r)
    BY <1>4, <1>6 DEF TokensInv
  <2>2. r \in ToSet(batch)
    BY <1>6, <2>1 DEF LeftBehind
  <2> QED BY <2>1, <2>2 DEF Removed
<1>7. ASSUME NEW r \in Req PROVE LenAccount(r)' /\ LeftBehind(r)'
  <2>1. LenAccount(r) /\ LeftBehind(r)
    BY DEF TokensInv
  <2>2. LenAccount(r)'
    BY <1>1, <2>1, SameLen
  <2>3. last'.index[r] # 0 => r \in ToSet(batch')
    BY <1>3, <1>6 DEF Kept
  <2> QED BY <1>1, <1>4, <1>6, <2>1, <2>2, <2>3 DEF LeftBehind
<1>8. ASSUME NEW r \in Planned PROVE RowKnows(r)'
  <2>1. r \in Req /\ job[r].status = "running" /\ Brought(r) /\ r \notin plan.finished
    BY <1>1, <1>2 DEF PlanAccount, TokensInv
  <2>2. r \in Kept => r \notin plan.new /\ r \notin plan.resumed /\ RowKnows(r)
    <3>1. r \in Kept => r \in ToSet(batch) /\ r \notin plan.resumed
      BY DEF Kept
    <3>2. r \in ToSet(batch) => r \notin plan.new
      BY <1>1 DEF RunnerInv, WorkerAccount, InLastStep
    <3> QED BY <1>1, <2>1, <3>1, <3>2 DEF TokensInv, Admitted
  <2>3. r \notin Kept => r \notin ToSet(batch) \/ r \in plan.resumed
    BY <2>1 DEF Kept
  <2>4. last'.index[r] = IF r \in Kept THEN last.index[r] ELSE 0
    <3>1. r \in Kept => r \notin Removed
      BY DEF Removed
    <3> QED BY <1>4, <1>6, <2>1, <3>1
  <2>5. cache'[r].real = IF r \in plan.new THEN PromptLen[r]
                         ELSE IF r \in Kept THEN cache[r].real ELSE plan.sent[r]
    <3>1. cache'[r] = CachedState(r)
      BY <1>1, <2>1
    <3>2. CASE r \in plan.new
      <4>1. CachedState(r) = [there |-> TRUE, out |-> 0, real |-> PromptLen[r],
                              computed |-> plan.computed[r], drafts |-> plan.d[r]]
        BY <2>1, <3>2, Zenon DEF CachedState
      <4> QED BY <3>1, <3>2, <4>1
    <3>3. CASE r \notin plan.new
      <4>1. CachedState(r) =
              [there |-> TRUE, out |-> CachedOut(r),
               real |-> IF r \in Kept THEN cache[r].real ELSE plan.sent[r],
               computed |-> plan.computed[r], drafts |-> plan.d[r]]
        BY <2>1, <3>3, Zenon DEF CachedState
      <4> QED BY <3>1, <3>3, <4>1
    <3> QED BY <3>2, <3>3
  <2> QED BY <1>1, <2>1, <2>2, <2>3, <2>4, <2>5 DEF RowKnows, Brought
<1>9. ASSUME NEW r \in Planned PROVE ReadsTo(r)'
  <2>1. ReadsTo(r)
    BY <1>1 DEF TokensInv, Working
  <2> QED BY <1>1, <2>1 DEF ReadsTo
<1>10. len' \in [Req -> Int] /\ \A r \in Req : job'[r].spec <= NumSpec
  BY <1>1 DEF TokensInv
<1>11. prevStep' = Planned
  BY <1>1 DEF TokensInv, Working
<1> QED BY <1>1, <1>2, <1>7, <1>8, <1>9, <1>10, <1>11 DEF TokensInv, Working

\* What the worker relies on when it puts the ids together: every row has a token, and a row
\* of the last step its sampled token and drafts only.
RowsOfStep ==
  /\ batch \in Seq(Req) /\ plan \in Plans
  /\ \A i \in Rows : plan.n[batch[i]] # 0
  /\ \A i \in Common : plan.n[batch[i]] = plan.d[batch[i]] + 1

\* If a row is new to the worker, the host's ids are copied.
LEMMA HostIdsCopied ==
  ASSUME RowsOfStep, NEW new \in Rows, new \notin Common
  PROVE  CopiesHostIds
<1> DEFINE dr == [i \in Rows |-> IF i \in Common THEN plan.d[batch[i]] ELSE 0]
           L == Len(batch)
           upTo(i) == {j \in Common : j <= i}
           known(i) == Cardinality(upTo(i))
           lacks(i) == CuNumTokens[i] - CumSum(dr)[i] - known(i)
<1>0. batch \in Seq(Req) /\ plan \in Plans
  BY DEF RowsOfStep
<1>1. /\ L \in Nat /\ Rows = 1 .. L /\ CuNumTokens[0] = 0
      /\ \A i \in 0 .. L : CuNumTokens[i] \in Nat
      /\ \A i \in Rows :
           /\ batch[i] \in Req /\ plan.n[batch[i]] \in Nat /\ plan.d[batch[i]] \in Nat
           /\ i - 1 \in 0 .. L /\ i \in 0 .. L
           /\ CuNumTokens[i] = CuNumTokens[i - 1] + plan.n[batch[i]]
  BY <1>0, RowTokens
<1>2. dr \in [Rows -> Nat]
  BY <1>1
<1>3. /\ CumSum(dr)[0] = 0 /\ \A i \in 0 .. L : CumSum(dr)[i] \in Nat
      /\ \A i \in Rows : CumSum(dr)[i] = CumSum(dr)[i - 1] + dr[i]
  <2> HIDE DEF dr
  <2>1. TotalsTo(CumSum(dr), dr, L) /\ CumSum(dr) \in [0 .. L -> Nat]
        /\ \A i \in Rows : CumSum(dr)[i] = CumSum(dr)[i - 1] + dr[i]
    BY <1>0, <1>2, CumSumIs
  <2>2. 0 \in 0 .. L
    BY <1>1
  <2>3. CumSum(dr)[0] = 0
    BY <2>1, <2>2 DEF TotalsTo
  <2>4. \A i \in 0 .. L : CumSum(dr)[i] \in Nat
    BY <2>1
  <2> QED BY <2>1, <2>3, <2>4
<1>4. ASSUME NEW i \in 0 .. L PROVE IsFiniteSet(upTo(i)) /\ known(i) \in Nat
  <2>1. upTo(i) \subseteq 1 .. L
    BY <1>1 DEF Common
  <2>2. IsFiniteSet(1 .. L)
    BY <1>1, FS_Interval
  <2> HIDE DEF upTo
  <2> QED BY <2>1, <2>2, FS_Subset, FS_CardinalityType
<1>5. known(0) = 0
  <2>1. upTo(0) = {}
    BY <1>1 DEF Common
  <2> HIDE DEF upTo
  <2> QED BY <2>1, FS_EmptySet
<1>6. ASSUME NEW i \in Rows
      PROVE  known(i) = known(i - 1) + IF i \in Common THEN 1 ELSE 0
  <2>1. i - 1 \in 0 .. L /\ i \in Nat
    BY <1>1
  <2>2. IsFiniteSet(upTo(i - 1)) /\ known(i - 1) \in Nat
    BY <1>4, <2>1
  <2>3. \A j \in Common : j \in Nat
    BY <1>1 DEF Common
  <2>4. CASE i \in Common
    <3>0. ~(i <= i - 1) /\ i <= i /\ \A j \in Common : j <= i <=> j <= i - 1 \/ j = i
      BY <2>1, <2>3
    <3>1. upTo(i) = upTo(i - 1) \cup {i} /\ i \notin upTo(i - 1)
      BY <2>4, <3>0
    <3> HIDE DEF upTo
    <3>2. Cardinality(upTo(i - 1) \cup {i}) = Cardinality(upTo(i - 1)) + 1
      BY <2>2, <3>1, FS_AddElement
    <3> QED BY <2>4, <3>1, <3>2
  <2>5. CASE i \notin Common
    <3>1. upTo(i) = upTo(i - 1)
      BY <2>1, <2>3, <2>5
    <3> HIDE DEF upTo
    <3> QED BY <2>2, <2>5, <3>1
  <2> QED BY <2>4, <2>5
<1>7. ASSUME NEW i \in Rows
      PROVE  lacks(i) - lacks(i - 1) >= 0 /\ (i \notin Common => lacks(i) - lacks(i - 1) >= 1)
  <2>1. i - 1 \in 0 .. L /\ i \in 0 .. L
    BY <1>1
  <2> DEFINE n == plan.n[batch[i]]
             a1 == CuNumTokens[i]
             a0 == CuNumTokens[i - 1]
             b1 == CumSum(dr)[i]
             b0 == CumSum(dr)[i - 1]
             c1 == known(i)
             c0 == known(i - 1)
             e == dr[i]
  <2>2. a1 = a0 + n /\ a0 \in Nat /\ n \in Nat /\ n # 0
    BY <1>1, <2>1 DEF RowsOfStep
  <2>3. b1 = b0 + e /\ b0 \in Nat /\ e \in Nat
    BY <1>2, <1>3, <2>1
  <2>4. c1 = c0 + (IF i \in Common THEN 1 ELSE 0) /\ c0 \in Nat
    <3> HIDE DEF known
    <3> QED BY <1>4, <1>6, <2>1
  <2>5. IF i \in Common THEN n = e + 1 ELSE e = 0
    BY DEF RowsOfStep
  <2>6. lacks(i) = a1 - b1 - c1 /\ lacks(i - 1) = a0 - b0 - c0
    OBVIOUS
  <2> HIDE DEF n, a1, a0, b1, b0, c1, c0, e, lacks
  <2> QED BY <2>2, <2>3, <2>4, <2>5, <2>6
<1>8. /\ lacks(0) = 0
      /\ \A i \in 0 .. L : lacks(i) \in Int
  <2>1. 0 \in 0 .. L
    BY <1>1
  <2> HIDE DEF known, dr
  <2>2. lacks(0) = 0
    BY <1>1, <1>3, <1>5
  <2>3. ASSUME NEW i \in 0 .. L PROVE lacks(i) \in Int
    <3>1. CuNumTokens[i] \in Nat /\ CumSum(dr)[i] \in Nat /\ known(i) \in Nat
      BY <1>1, <1>3, <1>4
    <3> QED BY <3>1
  <2> QED BY <2>2, <2>3
<1> DEFINE T == {i \in 0 .. L : ~(lacks(i) >= 0 /\ (new <= i => lacks(i) >= 1))}
<1> HIDE DEF lacks
<1>9. T = {}
  <2> SUFFICES ASSUME T # {} PROVE FALSE
    OBVIOUS
  <2>1. PICK i \in T : \A m \in T : i <= m
    <3> T \subseteq Nat
      OBVIOUS
    <3> HIDE DEF T
    <3> QED BY LeastNumber
  <2>2. i \in Nat /\ i \in 0 .. L /\ new \in Nat /\ 1 <= new
    BY <1>1, <2>1
  <2>3. i # 0
    BY <1>8, <2>1, <2>2
  <2>4. i \in Rows /\ i - 1 \in 0 .. L /\ ~(i <= i - 1)
    BY <1>1, <2>2, <2>3
  <2>5. i - 1 \notin T
    BY <2>1, <2>4
  <2>6. lacks(i - 1) >= 0 /\ (new <= i - 1 => lacks(i - 1) >= 1)
    BY <2>4, <2>5
  <2>7. lacks(i) - lacks(i - 1) >= 0 /\ (i \notin Common => lacks(i) - lacks(i - 1) >= 1)
    BY <1>7, <2>4
  <2>8. lacks(i) \in Int /\ lacks(i - 1) \in Int
    BY <1>8, <2>2, <2>4
  <2>9. new <= i => new = i \/ new <= i - 1
    BY <2>2
  <2>10. lacks(i) >= 0
    BY <2>6, <2>7, <2>8
  <2>11. new <= i - 1 => lacks(i) >= 1
    BY <2>6, <2>7, <2>8
  <2>12. new = i => lacks(i) >= 1
    BY <2>6, <2>7, <2>8
  <2> QED BY <2>1, <2>9, <2>10, <2>11, <2>12
<1>10. lacks(L) >= 1
  <2>1. L \in 0 .. L /\ new <= L
    BY <1>1
  <2> QED BY <1>9, <2>1
<1>11. known(L) = Cardinality(Common)
  <2>1. upTo(L) = Common
    BY <1>1 DEF Common
  <2> HIDE DEF upTo
  <2> QED BY <2>1
<1>12. CommonDrafts = CumSum(dr)[L] /\ TotalTokens = CuNumTokens[L]
  BY DEF CommonDrafts, TotalTokens
<1>13. lacks(L) = TotalTokens - CommonDrafts - Cardinality(Common)
  <2> HIDE DEF known, dr
  <2> QED BY <1>11, <1>12 DEF lacks
<1>14. TotalTokens \in Nat /\ CommonDrafts \in Nat /\ Cardinality(Common) \in Nat
  <2>1. L \in 0 .. L
    BY <1>1
  <2> HIDE DEF known, dr
  <2> QED BY <1>1, <1>3, <1>4, <1>11, <1>12, <2>1
<1> DEFINE t == TotalTokens
           s == CommonDrafts
           c == Cardinality(Common)
<1>15. t \in Nat /\ s \in Nat /\ c \in Nat /\ t - s - c >= 1
  BY <1>10, <1>13, <1>14
<1> HIDE DEF t, s, c
<1>16. c < t - s
  BY <1>15
<1> QED BY <1>16 DEF CopiesHostIds, t, s, c

\* One slice is copied only if each of its ids is the sole id of a row that had the same
\* place in the last step.
LEMMA SliceIsRight ==
  ASSUME RowsOfStep, CommonIndicesMatch, NEW x \in 1 .. Cardinality(Common)
  PROVE  /\ RowAt(x) \in Common /\ PrevPosition(RowAt(x)) = x
         /\ CuNumTokens[RowAt(x) - 1] = x - 1
<1> DEFINE c == Cardinality(Common)
           end == [i \in Common |-> CuNumTokens[i]]
<1>0. batch \in Seq(Req) /\ plan \in Plans
  BY DEF RowsOfStep
<1>1. /\ Len(batch) \in Nat /\ Rows = 1 .. Len(batch) /\ CuNumTokens[0] = 0
      /\ \A i \in 0 .. Len(batch) : CuNumTokens[i] \in Nat
      /\ \A i \in Rows :
           /\ plan.n[batch[i]] \in Nat
           /\ i - 1 \in 0 .. Len(batch) /\ i \in 0 .. Len(batch)
           /\ CuNumTokens[i] = CuNumTokens[i - 1] + plan.n[batch[i]]
      /\ \A i \in 0 .. Len(batch) : \A j \in i .. Len(batch) : CuNumTokens[i] <= CuNumTokens[j]
  BY <1>0, RowTokens
<1>2. IsFiniteSet(Common) /\ c \in Nat
  <2>0. Len(batch) \in Nat /\ Rows = 1 .. Len(batch)
    BY <1>1
  <2>1. IsFiniteSet(1 .. Len(batch))
    BY <2>0, FS_Interval
  <2>2. Common \subseteq 1 .. Len(batch)
    BY <2>0 DEF Common
  <2> QED BY <2>1, <2>2, FS_Subset, FS_CardinalityType
<1>3. ASSUME NEW i \in Rows PROVE CuNumTokens[i - 1] + 1 <= CuNumTokens[i]
  <2> DEFINE n == plan.n[batch[i]]
             a == CuNumTokens[i - 1]
  <2>1. CuNumTokens[i] = a + n /\ n \in Nat /\ n # 0 /\ a \in Nat
    BY <1>1, <1>3 DEF RowsOfStep
  <2> HIDE DEF n, a
  <2>2. a + 1 <= CuNumTokens[i]
    BY <2>1
  <2> QED BY <2>2 DEF a
<1>4. ASSUME NEW i \in Common, NEW j \in Common, i < j PROVE CuNumTokens[i] <= CuNumTokens[j - 1]
  <2>1. i \in Rows /\ j \in Rows
    BY DEF Common
  <2>2. i \in 0 .. Len(batch) /\ j - 1 \in i .. Len(batch)
    BY <1>1, <1>4, <2>1
  <2> QED BY <1>1, <2>2
<1>5. ASSUME NEW i \in Common PROVE end[i] = CuNumTokens[i] /\ end[i] \in 1 .. c
  <2>1. i \in Rows /\ CuNumTokens[i] <= c
    BY DEF CommonIndicesMatch, Common
  <2>2. CuNumTokens[i] \in Nat /\ CuNumTokens[i - 1] \in Nat
    BY <1>1, <2>1
  <2>3. CuNumTokens[i - 1] + 1 <= CuNumTokens[i]
    BY <1>3, <2>1
  <2> HIDE DEF c
  <2> QED BY <1>2, <2>1, <2>2, <2>3
<1>6. ASSUME NEW i \in Common, NEW j \in Common, i # j PROVE end[i] # end[j]
  <2>1. i \in Nat /\ j \in Nat
    BY <1>1 DEF Common
  <2>2. ASSUME NEW a \in Common, NEW b \in Common, a < b PROVE CuNumTokens[a] # CuNumTokens[b]
    <3>1. a \in Rows /\ b \in Rows
      BY DEF Common
    <3>2. CuNumTokens[a] <= CuNumTokens[b - 1]
      BY <1>4, <2>2
    <3>3. CuNumTokens[b - 1] + 1 <= CuNumTokens[b]
      BY <1>3, <3>1
    <3>4. CuNumTokens[a] \in Nat /\ CuNumTokens[b] \in Nat /\ CuNumTokens[b - 1] \in Nat
      BY <1>1, <3>1
    <3> QED BY <3>2, <3>3, <3>4
  <2>3. i < j \/ j < i
    BY <1>6, <2>1
  <2> QED BY <2>2, <2>3
<1>7. end \in Injection(Common, 1 .. c)
  <2>1. end \in [Common -> 1 .. c]
    BY <1>5
  <2> HIDE DEF c, end
  <2> QED BY <1>6, <2>1 DEF Injection, IsInjective
<1>8. Cardinality(1 .. c) = c /\ IsFiniteSet(1 .. c)
  BY <1>2, FS_Interval
<1>9. end \in Surjection(Common, 1 .. c)
  <2> HIDE DEF end
  <2>1. Cardinality(Common) = Cardinality(1 .. c)
    BY <1>8
  <2> HIDE DEF c
  <2> QED BY <1>2, <1>7, <1>8, <2>1, FS_Injection
<1>10. \A y \in 1 .. c : \E i \in Common : CuNumTokens[i] = y
  <2>1. \A y \in 1 .. c : \E i \in Common : end[i] = y
    <3> HIDE DEF end, c
    <3> QED BY <1>9 DEF Surjection
  <2> QED BY <1>5, <2>1
<1>11. x \in 1 .. c /\ x \in Nat /\ 1 <= x
  BY <1>2
<1>12. PICK i \in Common : CuNumTokens[i] = x
  BY <1>10, <1>11
<1>13. i \in Rows /\ PrevPosition(i) = x
  BY <1>12 DEF CommonIndicesMatch, Common
<1>14. CuNumTokens[i - 1] \in Nat /\ CuNumTokens[i - 1] + 1 <= x
  BY <1>1, <1>3, <1>12, <1>13
<1>15. RowAt(x) = i
  <2>1. CuNumTokens[i - 1] < x /\ x <= CuNumTokens[i]
    BY <1>11, <1>12, <1>14
  <2> QED BY <1>0, <1>11, <1>13, <2>1, RowAtOf
<1>16. x - 1 <= CuNumTokens[i - 1]
  <2>1. CASE x = 1
    BY <1>14, <2>1
  <2>2. CASE x # 1
    <3>1. x - 1 \in 1 .. c
      <4> HIDE DEF c
      <4> QED BY <1>2, <1>11, <2>2
    <3>2. PICK j \in Common : CuNumTokens[j] = x - 1
      BY <1>10, <3>1
    <3>3. j \in Rows /\ i \in Nat /\ j \in Nat
      BY <1>1, <1>13 DEF Common
    <3>4. ~(i < j) /\ i # j
      <4>1. i # j
        BY <1>11, <1>12, <3>2
      <4>2. i < j => x <= CuNumTokens[j - 1] /\ CuNumTokens[j - 1] + 1 <= x - 1
        BY <1>3, <1>4, <1>12, <3>2, <3>3
      <4>3. CuNumTokens[j - 1] \in Nat
        BY <1>1, <3>3
      <4> QED BY <1>11, <4>1, <4>2, <4>3
    <3>5. j < i
      BY <3>3, <3>4
    <3> QED BY <1>4, <3>2, <3>5
  <2> QED BY <2>1, <2>2
<1>17. CuNumTokens[i - 1] = x - 1
  BY <1>11, <1>14, <1>16
<1> QED BY <1>12, <1>13, <1>15, <1>17

\* What the worker puts together: the host's ids for the rows it did not sample in the last
\* step, for the others the token sampled and the drafts, in their order.
LEMMA PreparedIdIs ==
  ASSUME RowsOfStep, NEW x \in 1 .. TotalTokens
  PROVE  LET i == RowAt(x)
             o == x - 1 - CuNumTokens[i - 1]
         IN  /\ i \notin Common => PreparedId(x) = HostId(x)
             /\ i \in Common =>
                  /\ o \in 0 .. plan.d[batch[i]]
                  /\ PreparedId(x) = IF o = 0 THEN last.sampled[PrevPosition(i)]
                                     ELSE last.proposed[PrevPosition(i)][o]
<1> DEFINE i == RowAt(x)
           above == CuNumTokens[i - 1]
           below == CuNumTokens[i]
           n == plan.n[batch[i]]
           d == plan.d[batch[i]]
           o == x - 1 - above
           c == Cardinality(Common)
<1>0. batch \in Seq(Req) /\ plan \in Plans
  BY DEF RowsOfStep
<1>1. i \in Rows /\ above < x /\ x <= below
  BY <1>0, RowAtIs
<1> HIDE DEF i
<1>2. /\ batch[i] \in Req /\ n \in Nat /\ d \in Nat /\ above \in Nat
      /\ below = above + n
      /\ \A j \in Rows : CuNumTokens[j] \in Nat
  BY <1>0, <1>1, RowTokens
<1>3. TotalTokens \in Nat /\ x \in Nat /\ 1 <= x
  <2>1. Len(batch) \in 0 .. Len(batch) /\ Len(batch) \in Nat
    BY <1>0, RowTokens
  <2>2. TotalTokens \in Nat
    BY <1>0, <2>1, RowTokens DEF TotalTokens
  <2> QED BY <2>2
<1>4. c \in Nat
  <2>1. Len(batch) \in Nat /\ Rows = 1 .. Len(batch)
    BY <1>0, RowTokens
  <2>2. IsFiniteSet(1 .. Len(batch)) /\ Common \subseteq 1 .. Len(batch)
    BY <2>1, FS_Interval DEF Common
  <2> QED BY <2>2, FS_Subset, FS_CardinalityType
<1>5. CommonIndicesMatch /\ x <= c =>
        i \in Common /\ PrevPosition(i) = x /\ above = x - 1
  <2>1. x <= c => x \in 1 .. c
    BY <1>3, <1>4
  <2> QED BY <2>1, SliceIsRight DEF i
<1>6. CommonIndicesMatch /\ i \in Common => x <= c
  <2>1. CommonIndicesMatch /\ i \in Common => below <= c
    BY DEF CommonIndicesMatch
  <2> HIDE DEF c, below, above, n, d
  <2> QED BY <1>1, <1>2, <1>3, <1>4, <2>1
<1>7. /\ last = NothingLast \/ Common = {} => PreparedId(x) = BaseId(x)
      /\ ~(last = NothingLast \/ Common = {}) /\ CommonIndicesMatch =>
           PreparedId(x) = IF x <= c THEN last.sampled[x] ELSE BaseId(x)
      /\ ~(last = NothingLast \/ Common = {}) /\ ~CommonIndicesMatch =>
           PreparedId(x) =
             IF IsSampleIndex(x) THEN last.sampled[PrevPosition(i)]
             ELSE IF IsDraftIndex(x)
             THEN last.proposed[PrevPosition(i)][x - SampleIndex(i)]
             ELSE BaseId(x)
  <2> DEFINE slice == IF x <= c THEN last.sampled[x] ELSE BaseId(x)
             scattered == IF IsSampleIndex(x) THEN last.sampled[PrevPosition(i)]
                          ELSE IF IsDraftIndex(x)
                          THEN last.proposed[PrevPosition(i)][x - SampleIndex(i)]
                          ELSE BaseId(x)
             base == BaseId(x)
             nothing == last = NothingLast \/ Common = {}
             some == Common # {} /\ CommonIndicesMatch
  <2>1. PreparedId(x) = CASE nothing -> base
                          [] some -> slice
                          [] OTHER -> scattered
    BY DEF PreparedId, i
  <2> HIDE DEF slice, scattered, base
  <2>2. /\ nothing => ~some \/ last = NothingLast
        /\ ~nothing => (some <=> CommonIndicesMatch)
    OBVIOUS
  <2>3. last = NothingLast => Common = {}
    <3>1. \A j \in Rows : batch[j] \in Req
      BY <1>0, RowTokens
    <3> QED BY <3>1 DEF NothingLast, None, Common, PrevPosition
  <2>4. nothing => ~some
    BY <2>3
  <2> HIDE DEF nothing, some
  <2>5. nothing => PreparedId(x) = base
    BY <2>1, <2>4
  <2>6. ~nothing /\ some => PreparedId(x) = slice
    BY <2>1
  <2>7. ~nothing /\ ~some => PreparedId(x) = scattered
    BY <2>1
  <2> USE DEF nothing, some
  <2> QED BY <2>2, <2>5, <2>6, <2>7 DEF slice, scattered, base
<1>8. CASE i \notin Common
  <2>1. BaseId(x) = HostId(x)
    BY <1>1, <1>8, HostIdsCopied DEF BaseId
  <2>2. ~IsSampleIndex(x) /\ ~IsDraftIndex(x)
    BY <1>8 DEF IsSampleIndex, IsDraftIndex, i
  <2> QED BY <1>5, <1>7, <1>8, <2>1, <2>2 DEF i
<1>9. CASE i \in Common
  <2>1. ~(last = NothingLast \/ Common = {})
    BY <1>1, <1>2, <1>9 DEF NothingLast, None, Common, PrevPosition
  <2>2. n = d + 1
    BY <1>9 DEF RowsOfStep
  <2>3. o \in 0 .. d
    <3> HIDE DEF above, below, n, d
    <3> QED BY <1>1, <1>2, <1>3, <2>2
  <2>4. SampleIndex(i) = above + 1
    <3>1. SampleIndex(i) = below - d
      BY DEF SampleIndex
    <3> HIDE DEF above, below, n, d
    <3> QED BY <1>2, <2>2, <3>1
  <2>5. /\ IsSampleIndex(x) <=> o = 0
        /\ IsDraftIndex(x) <=> o # 0
        /\ x - SampleIndex(i) = o
    <3>1. /\ IsSampleIndex(x) <=> x = SampleIndex(i)
          /\ IsDraftIndex(x) <=> x > SampleIndex(i)
      BY <1>9 DEF IsSampleIndex, IsDraftIndex, i
    <3> HIDE DEF above, below, n, d
    <3> QED BY <1>1, <1>2, <1>3, <2>3, <2>4, <3>1
  <2>6. PreparedId(x) = IF o = 0 THEN last.sampled[PrevPosition(i)]
                        ELSE last.proposed[PrevPosition(i)][o]
    <3>1. CASE CommonIndicesMatch
      <4>1. x <= c /\ PrevPosition(i) = x /\ above = x - 1
        BY <1>5, <1>6, <1>9, <3>1
      <4>2. o = 0
        BY <1>2, <1>3, <4>1
      <4>3. PreparedId(x) = last.sampled[x]
        BY <1>7, <2>1, <3>1, <4>1
      <4> QED BY <4>1, <4>2, <4>3
    <3>2. CASE ~CommonIndicesMatch
      <4> HIDE DEF o
      <4> QED BY <1>7, <2>1, <2>5, <3>2
    <3> QED BY <3>1, <3>2
  <2> QED BY <1>9, <2>3, <2>6 DEF i
<1> QED BY <1>8, <1>9

\* The ids a step is given are right.
LEMMA PrepareInputsTokens ==
  ASSUME RunnerInv, TokensInv, PrepareInputs
  PROVE  TokensInv'
<1> USE DEF schedVars, hostVars, promptVars, history
<1>1. /\ pc = "prepare" /\ pc' = "forward"
      /\ ids' = [x \in 1 .. TotalTokens |-> PreparedId(x)]
      /\ UNCHANGED <<job, prevStep, outputs, plan, cache, batch, last, len, kv>>
  BY DEF PrepareInputs
<1>2. pc \in Working
  BY <1>1 DEF Working
<1>3. /\ RunnerTypes /\ batch \in Seq(Req) /\ plan \in Plans /\ len \in [Req -> Int]
      /\ NumSpec \in Nat
  BY RunnerAssumption DEF RunnerInv, RunnerTypes, TokensInv
<1>4. ToSet(batch) = Planned /\ \A r \in Planned : InThisStep(r)
  BY <1>1 DEF RunnerInv, WorkerAccount
<1>5. start' = [i \in Rows |-> kv[batch[i]]]
  <2>1. RunnerInv'
    BY PrepareInputsRunner
  <2> QED BY <1>1, <2>1 DEF RunnerInv, WorkerAccount, Rows
<1>6. ASSUME NEW i \in Rows
      PROVE  LET r == batch[i]
             IN  /\ r \in Planned /\ r \in Req /\ kv[r] \in Nat /\ len[r] \in Int
                 /\ plan.n[r] \in Nat \ {0} /\ plan.d[r] \in Nat
                 /\ plan.d[r] <= NumSpec /\ RowKnows(r) /\ LeftBehind(r)
                 /\ last.index[r] # 0 => kv[r] = len[r] - 1 /\ plan.n[r] = plan.d[r] + 1
                 /\ last.index[r] = 0 => cache[r].real = len[r] /\ cache[r].computed = kv[r]
  <2> DEFINE r == batch[i]
  <2>1. r \in Planned
    BY <1>3, <1>4, <1>6 DEF ToSet, Rows
  <2> HIDE DEF r
  <2>2. /\ r \in Req /\ kv[r] \in Nat /\ len[r] \in Int /\ plan.n[r] \in Nat /\ plan.d[r] \in Nat
        /\ plan.n[r] # 0
    <3>1. plan.n[r] # 0
      BY <2>1 DEF Planned
    <3> QED BY <1>2, <1>3, <2>1, <3>1, PlannedIsSent
  <2>3. RowKnows(r) /\ LeftBehind(r) /\ ReadsTo(r) /\ InThisStep(r)
    BY <1>1, <1>2, <1>4, <2>1, <2>2 DEF TokensInv
  <2>4. last.index[r] # 0 => kv[r] = len[r] - 1 /\ plan.n[r] = plan.d[r] + 1
    <3>1. last.index[r] # 0 => kv[r] = len[r] - 1
      BY <2>3 DEF RowKnows
    <3>2. kv[r] = len[r] - 1 => plan.n[r] = plan.d[r] + 1
      BY <2>2, <2>3 DEF ReadsTo
    <3> QED BY <3>1, <3>2
  <2>5. last.index[r] = 0 => cache[r].real = len[r] /\ cache[r].computed = kv[r]
    BY <1>1, <2>3 DEF RowKnows, InThisStep, CorrectsLast
  <2> QED BY <2>1, <2>2, <2>3, <2>4, <2>5 DEF r, ReadsTo
<1>7. RowsOfStep
  BY <1>3, <1>6 DEF RowsOfStep, Common, PrevPosition
<1>8. UNCHANGED <<TotalTokens, CuNumTokens, Rows>>
  BY <1>1 DEF TotalTokens, CuNumTokens, CumSum, Rows
<1>9. ASSUME NEW x \in 1 .. TotalTokens PROVE RightId(x)'
  <2> DEFINE i == RowAt(x)
             r == batch[i]
             above == CuNumTokens[i - 1]
             o == x - 1 - above
             p == kv[r] + o
  <2>1. i \in Rows /\ above < x
    BY <1>3, RowAtIs
  <2>2. /\ i \notin Common => PreparedId(x) = HostId(x)
        /\ i \in Common =>
             /\ o \in 0 .. plan.d[r]
             /\ PreparedId(x) = IF o = 0 THEN last.sampled[PrevPosition(i)]
                                ELSE last.proposed[PrevPosition(i)][o]
    BY <1>7, PreparedIdIs
  <2>3. RowAt(x)' = i /\ PositionAt(x)' = start'[i] + x - 1 - above
    <3>1. RowAt(x)' = i
      BY <1>1, <1>8 DEF RowAt, RowIn
    <3> QED BY <1>1, <1>8, <3>1 DEF PositionAt
  <2>4. ids'[x] = PreparedId(x)
    BY <1>1
  <2> HIDE DEF i
  <2>5. /\ r \in Req /\ kv[r] \in Nat /\ len[r] \in Int /\ plan.d[r] <= NumSpec /\ plan.d[r] \in Nat
        /\ LeftBehind(r)
        /\ last.index[r] # 0 => kv[r] = len[r] - 1
        /\ last.index[r] = 0 => cache[r].real = len[r] /\ cache[r].computed = kv[r]
        /\ start'[i] = kv[r]
    BY <1>5, <1>6, <2>1
  <2>6. x \in Int /\ above \in Nat
    <3>1. above \in Nat
      BY <1>3, <2>1, RowTokens
    <3> QED BY <3>1
  <2>7. PositionAt(x)' = p
    <3>1. PositionAt(x)' = kv[r] + x - 1 - above
      BY <2>3, <2>5
    <3> HIDE DEF above, r
    <3> QED BY <2>5, <2>6, <3>1
  <2>8. (i \in Common) <=> last.index[r] # 0
    BY <2>1 DEF Common, PrevPosition
  <2> DEFINE right == IF p < len[r] THEN ids'[x] = Token(r, p)
                      ELSE \/ ids'[x] \in {Draft(r, p), Zero}
                           \/ last.index[r] = 0 /\ ids'[x] = Hole
  <2>9. ASSUME i \notin Common PROVE right
    <3>1. HostId(x) = IF cache[r].computed + x - 1 - above < cache[r].real
                      THEN Token(r, cache[r].computed + x - 1 - above) ELSE Hole
      BY DEF HostId, i
    <3>2. kv[r] + x - 1 - above = p
      <4> HIDE DEF above, r
      <4> QED BY <2>5, <2>6
    <3>3. cache[r].computed = kv[r] /\ cache[r].real = len[r] /\ last.index[r] = 0
      BY <2>5, <2>8, <2>9
    <3>4. HostId(x) = IF p < len[r] THEN Token(r, p) ELSE Hole
      <4> HIDE DEF p, above, r
      <4> QED BY <3>1, <3>2, <3>3
    <3> HIDE DEF p, r
    <3> QED BY <2>2, <2>4, <2>9, <3>3, <3>4
  <2>10. ASSUME i \in Common PROVE right
    <3>1. last.index[r] # 0 /\ PrevPosition(i) = last.index[r] /\ kv[r] = len[r] - 1
      BY <2>5, <2>8, <2>10 DEF PrevPosition
    <3>2. o \in 0 .. plan.d[r] /\ p = len[r] - 1 + o
      BY <2>2, <2>10, <3>1
    <3>3. CASE o = 0
      <4>1. p = len[r] - 1 /\ p < len[r]
        <5> HIDE DEF p, o, r
        <5> QED BY <2>5, <3>2, <3>3
      <4>2. last.sampled[last.index[r]] = Token(r, len[r] - 1)
        BY <2>5, <3>1 DEF LeftBehind
      <4>3. PreparedId(x) = last.sampled[PrevPosition(i)]
        BY <2>2, <2>10, <3>3
      <4> HIDE DEF p, o, r
      <4> QED BY <2>4, <3>1, <4>1, <4>2, <4>3
    <3>4. CASE o # 0
      <4>1. /\ o \in 1 .. NumSpec /\ p = len[r] + o - 1 /\ ~(p < len[r])
        <5> HIDE DEF p, o, r
        <5> QED BY <1>3, <2>5, <3>2, <3>4
      <4>2. last.proposed[last.index[r]][o] \in {Draft(r, len[r] + o - 1), Zero}
        BY <2>5, <3>1, <4>1 DEF LeftBehind
      <4>3. PreparedId(x) = last.proposed[PrevPosition(i)][o]
        BY <2>2, <2>10, <3>4
      <4> HIDE DEF p, o, r
      <4> QED BY <2>4, <3>1, <4>1, <4>2, <4>3
    <3> QED BY <3>3, <3>4
  <2>11. right
    BY <2>9, <2>10
  <2>12. /\ (batch[RowAt(x)])' = r /\ PositionAt(x)' = p
         /\ len' = len /\ last' = last
    BY <1>1, <2>3, <2>7
  <2> HIDE DEF p, r, o, above
  <2> QED BY <2>11, <2>12 DEF RightId, Token, Draft, Zero, Hole, Nothing
<1>10. ASSUME NEW r \in Req PROVE LenAccount(r)' /\ LeftBehind(r)'
  <2>1. LenAccount(r) /\ LeftBehind(r)
    BY DEF TokensInv
  <2> QED BY <1>1, <2>1, SameLen DEF LeftBehind
<1>11. Planned' = Planned
  BY <1>1 DEF Planned
<1>12. ASSUME NEW r \in Planned PROVE RowKnows(r)' /\ ReadsTo(r)'
  <2>1. RowKnows(r) /\ ReadsTo(r)
    BY <1>1, <1>2 DEF TokensInv
  <2> QED BY <1>1, <2>1 DEF RowKnows, ReadsTo
<1>13. DOMAIN ids' = 1 .. TotalTokens /\ TotalTokens' = TotalTokens
  BY <1>1, <1>8
<1>14. len' \in [Req -> Int] /\ \A r \in Req : job'[r].spec <= NumSpec
  BY <1>1 DEF TokensInv
<1>15. prevStep' = Planned
  BY <1>1, <1>2 DEF TokensInv
<1> QED BY <1>1, <1>9, <1>10, <1>11, <1>12, <1>13, <1>14, <1>15 DEF TokensInv

\* Correcting the host's counts leaves the ids, and what the host has of them.
LEMMA CorrectCountsTokens ==
  ASSUME RunnerInv, TokensInv, CorrectCounts
  PROVE  TokensInv'
<1> USE DEF schedVars, hostVars, promptVars, gpuVars, history
<1>1. /\ pc = "forward" /\ pc' = "sample"
      /\ cache' = [r \in Req |->
                     IF assumed[r] > 0 /\ last.index[r] # 0
                     THEN [cache[r] EXCEPT !.computed = @ - Correction(r)] ELSE cache[r]]
      /\ UNCHANGED <<job, prevStep, outputs, plan, batch, last, ids, start, len, kv>>
  BY DEF CorrectCounts
<1>2. Planned' = Planned /\ Planned \subseteq Req
  BY <1>1 DEF Planned
<1>3. ASSUME NEW r \in Req PROVE cache'[r].real = cache[r].real
  BY <1>1, <1>3 DEF RunnerInv, RunnerTypes, Cached
<1>4. ASSUME NEW r \in Req PROVE LenAccount(r)' /\ LeftBehind(r)'
  <2>1. LenAccount(r) /\ LeftBehind(r)
    BY DEF TokensInv
  <2> QED BY <1>1, <2>1, SameLen DEF LeftBehind
<1>5. ASSUME NEW r \in Planned PROVE RowKnows(r)' /\ ReadsTo(r)'
  <2>1. RowKnows(r) /\ ReadsTo(r) /\ r \in Req
    BY <1>1, <1>2 DEF TokensInv, Working
  <2> QED BY <1>1, <1>3, <2>1 DEF RowKnows, ReadsTo
<1>6. TotalTokens' = TotalTokens /\ CuNumTokens' = CuNumTokens /\ Rows' = Rows
  BY <1>1 DEF TotalTokens, CuNumTokens, CumSum, Rows
<1>7. ASSUME NEW x \in 1 .. TotalTokens PROVE RightId(x)'
  <2>1. RightId(x)
    BY <1>1 DEF TokensInv
  <2>2. RowAt(x)' = RowAt(x) /\ PositionAt(x)' = PositionAt(x)
    BY <1>1, <1>6 DEF RowAt, RowIn, PositionAt
  <2> QED BY <1>1, <2>1, <2>2 DEF RightId, Token, Draft, Zero, Hole, Nothing
<1>8. len' \in [Req -> Int] /\ \A r \in Req : job'[r].spec <= NumSpec
  BY <1>1 DEF TokensInv
<1>9. prevStep' = Planned /\ DOMAIN ids' = 1 .. TotalTokens
  BY <1>1 DEF TokensInv, Working
<1> QED BY <1>1, <1>2, <1>4, <1>5, <1>6, <1>7, <1>8, <1>9 DEF TokensInv

\* A step that samples leaves for each of its rows what the next one looks up.
LEMMA SampleTokensTokens ==
  ASSUME RunnerInv, TokensInv, SampleTokens
  PROVE  TokensInv'
<1>1. /\ pc = "sample" /\ pc' = "idle" /\ plan' = NoPlan
      /\ UNCHANGED <<job, prevStep, batch>>
  BY DEF SampleTokens
<1>2. /\ RunnerTypes /\ OutputsAccount /\ PlanAccount /\ plan \in Plans
      /\ len \in [Req -> Int] /\ kv \in [Req -> Nat] /\ cache \in [Req -> Cached]
  BY DEF RunnerInv, RunnerTypes, TokensInv
<1> DEFINE L(k) == [i \in Rows |-> IF i \in discards THEN len[batch[i]] ELSE NewLen(i, k[i])]
<1>3. PICK k \in SampleCounts :
        LET lens == L(k)
        IN  /\ last' = [index |-> [r \in Req |-> IndexOf(r)],
                        sampled |-> [i \in Rows |-> IF i \in discards THEN Stale
                                                    ELSE Token(batch[i], lens[i] - 1)],
                        proposed |-> Proposals(lens), valid |-> k, computed |-> start]
            /\ cache' = [r \in Req |-> IF r \in Planned /\ RowOf(r) \notin discards
                                       THEN [cache[r] EXCEPT !.out = @ + 1] ELSE cache[r]]
            /\ len' = [r \in Req |-> IF r \in Planned THEN lens[RowOf(r)] ELSE len[r]]
            /\ kv' = [r \in Req |->
                        IF r \notin Planned THEN kv[r]
                        ELSE IF RowOf(r) \in discards THEN start[RowOf(r)] + plan.n[r]
                        ELSE NewLen(RowOf(r), k[RowOf(r)]) - 1]
            /\ outputs' = Append(outputs, OutputOf(k))
  BY DEF SampleTokens, RowOf
<1> DEFINE o == OutputOf(k)
           lens == L(k)
           K(r) == k[RowOf(r)]
<1>4. /\ o \in Outputs
      /\ \A r \in Req \ Planned : o.k[r] = 0
      /\ \A r \in Planned :
           /\ o.k[r] = K(r) /\ o.d[r] = plan.d[r]
           /\ r \in plan.chunk => K(r) = 0
           /\ r \notin plan.chunk => K(r) \in 1 .. plan.d[r] + 1
      /\ \A r \in Req : o.k[r] <= o.d[r] + 1
  BY <1>1, OutputOfIs
<1>5. ToSet(batch) = Planned /\ Planned \subseteq Req
  BY <1>1 DEF RunnerInv, WorkerAccount, Planned
<1>6. /\ last'.index = [r \in Req |-> IndexOf(r)]
      /\ last'.sampled = [i \in Rows |-> IF i \in discards THEN Stale
                                         ELSE Token(batch[i], lens[i] - 1)]
      /\ last'.proposed = Proposals(lens)
      /\ len' = [r \in Req |-> IF r \in Planned THEN lens[RowOf(r)] ELSE len[r]]
  <2> HIDE DEF L
  <2> QED BY <1>3
<1>7. ASSUME NEW r \in Planned
      PROVE  /\ r \in Req /\ job[r].status = "running" /\ LenAccount(r)
             /\ RowOf(r) \in Rows /\ batch[RowOf(r)] = r
             /\ RowOf(r) \in discards <=> r \in plan.chunk
             /\ r \in plan.chunk =>
                  /\ last'.index[r] = 0 /\ len'[r] = len[r] /\ cache'[r].real = len'[r]
             /\ r \notin plan.chunk =>
                  /\ last'.index[r] = RowOf(r)
                  /\ len'[r] = len[r] + K(r) /\ lens[RowOf(r)] = len'[r]
                  /\ kv'[r] = len'[r] - 1
  <2>1. /\ r \in Req /\ job[r].status = "running" /\ LenAccount(r) /\ RowKnows(r) /\ ReadsTo(r)
        /\ plan.n[r] \in Nat /\ plan.n[r] # 0 /\ plan.d[r] \in Nat /\ kv[r] \in Nat
        /\ len[r] \in Int
    <3>1. plan.n[r] # 0
      BY DEF Planned
    <3>2. r \in Req /\ LenAccount(r) /\ RowKnows(r) /\ ReadsTo(r) /\ len[r] \in Int
      BY <1>1, <1>2, <1>5 DEF TokensInv, Working
    <3> QED BY <1>1, <3>1, <3>2, PlannedIsSent DEF Working
  <2>2. /\ RowOf(r) \in Rows /\ batch[RowOf(r)] = r /\ start[RowOf(r)] = kv[r]
        /\ RowOf(r) \in discards <=> r \in plan.chunk
        /\ r \in plan.chunk => IndexOf(r) = 0
        /\ r \notin plan.chunk =>
             /\ IndexOf(r) = RowOf(r)
             /\ NewLen(RowOf(r), K(r)) = kv[r] + plan.n[r] - plan.d[r] + K(r)
    BY <1>1, SampledIs
  <2>3. last'.index[r] = IndexOf(r) /\ len'[r] = lens[RowOf(r)]
    <3> HIDE DEF L
    <3> QED BY <1>6, <2>1
  <2>4. lens[RowOf(r)] = IF RowOf(r) \in discards THEN len[r] ELSE NewLen(RowOf(r), K(r))
    BY <2>2
  <2>5. CASE r \in plan.chunk
    <3>1. cache'[r] = cache[r]
      <4> HIDE DEF L
      <4> QED BY <1>3, <2>1, <2>2, <2>5
    <3>2. kv[r] + plan.n[r] < len[r]
      BY <2>1, <2>5 DEF ReadsTo
    <3>3. kv[r] # len[r] - 1
      BY <2>1, <3>2
    <3>4. cache[r].real = len[r]
      BY <2>1, <3>3 DEF RowKnows
    <3> QED BY <2>1, <2>2, <2>3, <2>4, <2>5, <3>1, <3>4
  <2>6. CASE r \notin plan.chunk
    <3>1. K(r) \in Int
      BY <1>4, <2>6
    <3>2. kv[r] + plan.n[r] - plan.d[r] = len[r]
      BY <2>1, <2>6 DEF ReadsTo
    <3>3. len'[r] = NewLen(RowOf(r), K(r))
      BY <2>2, <2>3, <2>4, <2>6
    <3>4. len'[r] = len[r] + K(r)
      BY <2>2, <2>6, <3>2, <3>3
    <3>5. kv'[r] = len'[r] - 1
      <4> HIDE DEF L
      <4> QED BY <1>3, <2>1, <2>2, <2>6, <3>3
    <3> QED BY <2>1, <2>2, <2>3, <2>6, <3>4, <3>5
  <2> QED BY <2>5, <2>6
<1>8. ASSUME NEW r \in Req, r \notin Planned
      PROVE  last'.index[r] = 0 /\ len'[r] = len[r]
  <2>1. IndexOf(r) = 0
    <3>1. ASSUME NEW i \in Rows PROVE batch[i] # r
      <4>0. batch \in Seq(Req) /\ i \in DOMAIN batch
        BY <1>2 DEF RunnerTypes, Rows
      <4>1. batch[i] \in ToSet(batch)
        BY <4>0 DEF ToSet
      <4> QED BY <1>5, <1>8, <4>1
    <3> QED BY <3>1 DEF IndexOf
  <2> HIDE DEF L
  <2> QED BY <1>6, <1>8, <2>1
<1>9. ASSUME NEW r \in Req PROVE LenAccount(r)'
  <2> HIDE DEF o, L
  <2>1. LenAccount(r) /\ o.k[r] <= o.d[r] + 1
    BY <1>4 DEF TokensInv
  <2>2. OwedTo(r)' = OwedTo(r) + Owed(o, r) /\ LostOf(r)' = LostOf(r) + Lost(o, r)
    <3>1. outputs' = Append(outputs, o)
      BY <1>3 DEF o
    <3> QED BY <1>1, <1>2, <1>4, <2>1, <3>1, Answered
  <2>3. OwedTo(r) \in Nat /\ LostOf(r) \in Nat /\ job[r].known \in Int
        /\ o.k[r] \in Nat /\ o.d[r] \in Nat
    <3>1. o.k[r] \in Nat /\ o.d[r] \in Nat
      BY <1>4 DEF Outputs, Counts
    <3> QED BY <1>2, <3>1, InFlightTypes DEF RunnerTypes, Jobs
  <2>4. Owed(o, r) - Lost(o, r) = o.k[r] /\ Owed(o, r) \in Int /\ Lost(o, r) \in Int
    BY <2>3 DEF Owed, Lost
  <2>5. len'[r] = len[r] + o.k[r]
    <3>1. CASE r \notin Planned
      BY <1>2, <1>4, <1>8, <3>1
    <3>2. CASE r \in Planned
      BY <1>2, <1>4, <1>7, <3>2
    <3> QED BY <3>1, <3>2
  <2> DEFINE a == OwedTo(r)
             b == LostOf(r)
             e == Owed(o, r)
             f == Lost(o, r)
             g == o.k[r]
             s == job[r].known
  <2>6. ASSUME job[r].status # "done" PROVE len'[r] = job[r].known + OwedTo(r)' - LostOf(r)'
    <3>1. len[r] = s + a - b /\ len'[r] = len[r] + g
      BY <2>1, <2>5, <2>6 DEF LenAccount
    <3>2. a \in Int /\ b \in Int /\ e \in Int /\ f \in Int /\ g \in Int /\ s \in Int /\ e - f = g
      BY <2>3, <2>4
    <3>3. OwedTo(r)' = a + e /\ LostOf(r)' = b + f
      BY <2>2
    <3> HIDE DEF a, b, e, f, g, s
    <3>4. len'[r] = s + (a + e) - (b + f)
      BY <3>1, <3>2
    <3> QED BY <3>3, <3>4 DEF s
  <2> QED BY <1>1, <2>6 DEF LenAccount
<1>10. ASSUME NEW r \in Req PROVE LeftBehind(r)'
  <2>1. CASE r \notin Planned \/ r \in plan.chunk
    <3>1. last'.index[r] = 0
      BY <1>7, <1>8, <2>1
    <3> QED BY <3>1 DEF LeftBehind
  <2>2. CASE r \in Planned /\ r \notin plan.chunk
    <3> DEFINE i == RowOf(r)
    <3>1. /\ i \in Rows /\ batch[i] = r /\ i \notin discards
          /\ last'.index[r] = i /\ lens[i] = len'[r]
      BY <1>7, <2>2
    <3> HIDE DEF i, L
    <3>2. last'.sampled[i] = Token(r, len'[r] - 1)
      BY <1>6, <3>1
    <3>3. \A j \in 1 .. NumSpec : last'.proposed[i][j] \in {Draft(r, len'[r] + j - 1), Zero}
      BY <1>6, <3>1 DEF Proposals
    <3>4. r \in ToSet(batch')
      BY <1>1, <1>5, <2>2
    <3> QED BY <3>1, <3>2, <3>3, <3>4 DEF LeftBehind, Token, Draft, Zero, Nothing
  <2> QED BY <2>1, <2>2
<1>11. ASSUME NEW r \in Planned PROVE RowKnows(r)'
  <2>1. CASE r \in plan.chunk
    BY <1>7, <2>1 DEF RowKnows
  <2>2. CASE r \notin plan.chunk
    <3>0. \A i \in Rows : i # 0
      BY DEF Rows
    <3>1. RowOf(r) # 0
      <4> HIDE DEF L
      <4> QED BY <1>7, <3>0
    <3> QED BY <1>7, <2>2, <3>1 DEF RowKnows
  <2> QED BY <2>1, <2>2
<1>12. len' \in [Req -> Int]
  <2>1. \A r \in Req : len'[r] \in Int
    <3>1. \A r \in Planned : r \in plan.chunk => len'[r] = len[r]
      BY <1>7
    <3>2. ASSUME NEW r \in Planned, r \notin plan.chunk
          PROVE  len'[r] = len[r] + K(r) /\ K(r) \in Int
      <4>1. K(r) \in 1 .. plan.d[r] + 1
        BY <1>4, <3>2
      <4>2. K(r) \in Int
        BY <4>1
      <4> HIDE DEF L
      <4> QED BY <1>7, <3>2, <4>2
    <3> QED BY <1>2, <1>8, <3>1, <3>2
  <2> HIDE DEF L
  <2> QED BY <1>6, <2>1
<1>13. StepsAccount'
  <2>1. prevStep = Planned
    BY <1>1 DEF TokensInv, Working
  <2>2. Admitted' = {}
    BY <1>1 DEF NoPlan, Admitted
  <2>3. \A r \in Planned : job[r].status = "running"
    BY <1>7
  <2> QED BY <1>1, <1>5, <2>1, <2>2, <2>3 DEF StepsAccount
<1>14. \A r \in Req : job'[r].spec <= NumSpec
  BY <1>1 DEF TokensInv
<1> QED BY <1>1, <1>5, <1>9, <1>10, <1>11, <1>12, <1>13, <1>14 DEF TokensInv, Working

\* A step without tokens leaves no row.
LEMMA AnswerEmptyTokens ==
  ASSUME RunnerInv, TokensInv, AnswerEmpty
  PROVE  TokensInv'
<1> USE DEF schedVars, hostVars, promptVars, gpuVars, history
<1> DEFINE empty == [n |-> None, d |-> None, prompt |-> <<>>, k |-> None]
<1>1. /\ pc = "answer" /\ pc' = "idle" /\ plan' = NoPlan
      /\ outputs' = Append(outputs, empty)
      /\ UNCHANGED <<job, prevStep, cache, batch, last, len, kv>>
  BY DEF AnswerEmpty
<1>2. RunnerTypes /\ OutputsAccount /\ PlanAccount
  BY DEF RunnerInv
<1>3. Planned = {} /\ ToSet(batch) = {} /\ prevStep = {}
  BY <1>1, <1>2 DEF RunnerInv, PlanAccount, WorkerAccount, TokensInv, Working
<1>4. /\ empty \in Outputs
      /\ \A r \in Req : empty.k[r] = 0 /\ empty.d[r] = 0
  <2>1. None \in Counts /\ \A r \in Req : None[r] = 0
    BY DEF None, Counts
  <2>2. <<>> \in [{} -> SUBSET Int]
    OBVIOUS
  <2> DEFINE P == UNION {[S -> SUBSET Int] : S \in SUBSET Req}
  <2>3. <<>> \in P
    BY <2>2
  <2> HIDE DEF P
  <2>4. empty \in [n : Counts, d : Counts, prompt : P, k : Counts]
    BY <2>1, <2>3
  <2> QED BY <2>1, <2>4 DEF Outputs, P
<1> HIDE DEF empty
<1>5. ASSUME NEW r \in Req PROVE LenAccount(r)' /\ LeftBehind(r)'
  <2>1. LenAccount(r) /\ LeftBehind(r)
    BY DEF TokensInv
  <2>2. empty.k[r] = 0 /\ empty.d[r] = 0
    BY <1>4
  <2>3. Owed(empty, r) = 0 /\ Lost(empty, r) = 0 /\ OwedTo(r) \in Nat /\ LostOf(r) \in Nat
    BY <1>2, <2>2, InFlightTypes DEF Owed, Lost
  <2>4. OwedTo(r)' = OwedTo(r) /\ LostOf(r)' = LostOf(r)
    BY <1>1, <1>2, <1>4, <2>2, <2>3, Answered
  <2> QED BY <1>1, <2>1, <2>4 DEF LenAccount, LeftBehind
<1>6. len' \in [Req -> Int] /\ \A r \in Req : job'[r].spec <= NumSpec
  BY <1>1 DEF TokensInv
<1> QED BY <1>1, <1>3, <1>5, <1>6 DEF TokensInv, StepsAccount, Working

\* Every step keeps the ids right.
LEMMA NextTokens ==
  ASSUME RemoveForgets, RunnerInv, TokensInv, [Next]_vars
  PROVE  TokensInv'
<1>1. CASE UNCHANGED vars
  <2> USE DEF vars, schedVars, hostVars, promptVars, gpuVars, history
  <2>1. \A r \in Req : (LenAccount(r)' <=> LenAccount(r)) /\ (LeftBehind(r)' <=> LeftBehind(r))
    BY <1>1, SameOutputs DEF LenAccount, LeftBehind
  <2>2. TotalTokens' = TotalTokens /\ CuNumTokens' = CuNumTokens /\ Rows' = Rows
        /\ Planned' = Planned /\ Admitted' = Admitted /\ (StepsAccount' <=> StepsAccount)
    BY <1>1 DEF TotalTokens, CuNumTokens, CumSum, Rows, Planned, Admitted, StepsAccount
  <2>3. ASSUME NEW x PROVE RightId(x)' <=> RightId(x)
    <3>1. RowAt(x)' = RowAt(x) /\ PositionAt(x)' = PositionAt(x)
      BY <1>1, <2>2 DEF RowAt, RowIn, PositionAt
    <3> QED BY <1>1, <3>1 DEF RightId, Token, Draft, Zero, Hole, Nothing
  <2>4. \A r : /\ RowKnows(r)' <=> RowKnows(r)
               /\ ReadsTo(r)' <=> ReadsTo(r)
               /\ Brought(r)' <=> Brought(r)
    BY <1>1 DEF RowKnows, ReadsTo, Brought
  <2>5. /\ len' = len /\ job' = job /\ pc' = pc /\ batch' = batch /\ prevStep' = prevStep
        /\ ids' = ids
    BY <1>1
  <2> HIDE DEF vars, schedVars, hostVars, promptVars, gpuVars, history
  <2> QED BY <2>1, <2>2, <2>3, <2>4, <2>5 DEF TokensInv
<1>2. CASE StartPlan
  BY <1>2, StartPlanTokens
<1>3. CASE SendStep
  BY <1>3, SendStepTokens
<1>4. CASE UpdateStates
  BY <1>4, UpdateStatesTokens
<1>5. CASE PrepareInputs
  BY <1>5, PrepareInputsTokens
<1>6. CASE CorrectCounts
  BY <1>6, CorrectCountsTokens
<1>7. CASE SampleTokens
  BY <1>7, SampleTokensTokens
<1>8. CASE AnswerEmpty
  BY <1>8, AnswerEmptyTokens
<1>9. CASE UpdateFromOutput
  BY <1>9, UpdateFromOutputTokens
<1>10. CASE ResetPrefixCache
  BY <1>10, ResetTokens
<1>11. CASE \E r \in Req : PlanRunning(r) \/ Preempt(r) \/ Admit(r) \/ FinishRequest(r)
  BY <1>11, PlanRunningTokens, PreemptTokens, AdmitTokens, FinishRequestTokens
<1> QED BY <1>1, <1>2, <1>3, <1>4, <1>5, <1>6, <1>7, <1>8, <1>9, <1>10, <1>11 DEF Next

\* Right ids, and each draft judged by the logits of the token before it.
LEMMA TokensAreFed ==
  ASSUME RunnerInv, TokensInv
  PROVE  FeedsRightTokens
<1> SUFFICES ASSUME pc = "sample"
             PROVE  /\ \A x \in DOMAIN ids : RightId(x)
                    /\ \A i \in Rows \ discards : \A j \in 1 .. DraftsOf(i) :
                         LET x == ResultIndex(i, j) IN
                         /\ RowAt(x) = i /\ PositionAt(x) = len[batch[i]] - 2 + j
                         /\ DraftId(i, j) = ids[x + 1]
  BY DEF FeedsRightTokens
<1>1. \A x \in DOMAIN ids : RightId(x)
  BY DEF TokensInv
<1>2. ASSUME NEW i \in Rows \ discards, NEW j \in 1 .. DraftsOf(i)
      PROVE  /\ RowAt(ResultIndex(i, j)) = i
             /\ PositionAt(ResultIndex(i, j)) = len[batch[i]] - 2 + j
             /\ DraftId(i, j) = ids[ResultIndex(i, j) + 1]
  <2> DEFINE r == batch[i]
             n == plan.n[r]
             d == plan.d[r]
             above == CuNumTokens[i - 1]
             below == CuNumTokens[i]
             y == below - (d + 1) + j
  <2>1. batch \in Seq(Req) /\ plan \in Plans /\ RunnerTypes /\ i \in Rows
    BY DEF RunnerInv, RunnerTypes
  <2>2. ToSet(batch) = Planned /\ discards = {m \in Rows : batch[m] \in plan.chunk}
        /\ start = [m \in Rows |-> kv[batch[m]]]
    BY DEF RunnerInv, WorkerAccount
  <2>3. r \in Planned /\ r \notin plan.chunk /\ start[i] = kv[r]
    BY <2>1, <2>2 DEF ToSet, Rows
  <2>4. /\ r \in Req /\ n \in Nat /\ d \in Nat /\ kv[r] \in Nat /\ d + 1 <= n
        /\ kv[r] + n - d = len[r] /\ len[r] \in Int
    <3>1. SentJob(r) /\ r \in Req /\ n \in Nat /\ d \in Nat /\ kv[r] \in Nat
      BY <2>3, PlannedIsSent DEF Working
    <3>2. ReadsTo(r) /\ len[r] \in Int
      BY <2>3, <3>1 DEF TokensInv, Working
    <3> QED BY <2>3, <3>1, <3>2 DEF SentJob, ReadsTo
  <2>5. j \in 1 .. d + 1 /\ j \in Int /\ j <= d
    BY <2>4 DEF DraftsOf
  <2>6. ResultIndex(i, j) = y /\ RowAt(y) = i /\ DraftId(i, j) = ids[y + 1]
    BY <2>1, <2>4, <2>5, ResultIs
  <2>7. below = above + n /\ above \in Nat
    BY <2>1, RowTokens
  <2>8. PositionAt(y) = start[i] + y - 1 - above
    BY <2>6 DEF PositionAt
  <2>9. PositionAt(y) = len[r] - 2 + j
    <3>1. start[i] \in Nat
      BY <2>3, <2>4
    <3>2. start[i] + n - d = len[r]
      BY <2>3, <2>4
    <3>3. y = below - (d + 1) + j
      OBVIOUS
    <3> HIDE DEF y, n, d, above, below, r
    <3> QED BY <2>4, <2>5, <2>7, <2>8, <3>1, <3>2, <3>3
  <2> HIDE DEF y
  <2> QED BY <2>6, <2>9
<1> QED BY <1>1, <1>2

\* Whatever is preempted, reset, rejected or reordered, and however far the host is behind:
\* every id a step reads is the token of its request at its position, or a draft made for
\* it, if a request that is removed from the batch loses its row (_prepare_input_ids).
THEOREM TokensRight == RemoveForgets => (Spec => []FeedsRightTokens)
<1> SUFFICES ASSUME RemoveForgets PROVE Spec => []FeedsRightTokens
  OBVIOUS
<1>1. Init => RunnerInv /\ TokensInv
  BY InitRunner, InitTokens
<1>2. RunnerInv /\ TokensInv /\ [Next]_vars => RunnerInv' /\ TokensInv'
  BY NextRunner, NextTokens
<1>3. RunnerInv /\ TokensInv => FeedsRightTokens
  BY TokensAreFed
<1> QED BY <1>1, <1>2, <1>3, PTL DEF Spec

-----------------------------------------------------------------------------
(* Prompt logprobs: what is filled in of a prompt is what its KV covers, and *)
(* nobody knows a token of a request before its prompt logprobs are sent.   *)

\* A request that waits for its prompt logprobs has sampled nothing.
Unsampled(r) ==
  r \in awaited =>
    /\ r \in WantsLogprobs
    /\ job[r].status # "done" => job[r].known = PromptLen[r] /\ ~InFlight(r)

\* Nor has it a row to take a sample from.
NoRow(r) == r \in awaited \/ job[r].status = "waiting" \/ r \in plan.new => last.index[r] = 0

\* What a prompt has been computed to is filled in.
Filled(r) ==
  /\ logprobs[r] \subseteq 0 .. PromptLen[r] - 2
  /\ r \in awaited \/ r \in plan.new \cap WantsLogprobs =>
       \A p \in 0 .. PromptLen[r] - 2 : p < kv[r] => p \in logprobs[r]

\* The first output in flight that has tokens of r.
FirstOf(r, i) == outputs[i].k[r] # 0 /\ \A j \in 1 .. i - 1 : outputs[j].k[r] = 0

\* Prompt logprobs come with the first token, or are still waited for.
Promised(r) ==
  IF job[r].status = "done" THEN job[r].known = 0
  ELSE /\ job[r].known >= PromptLen[r]
       /\ r \in WantsLogprobs /\ job[r].known = PromptLen[r] =>
            /\ \A i \in DOMAIN outputs : FirstOf(r, i) => r \in DOMAIN outputs[i].prompt
            /\ \/ InFlight(r) \/ r \in awaited \/ job[r].status = "waiting"
               \/ pc \in {"plan", "update"} /\ r \in plan.new

PromptAccount(r) == Unsampled(r) /\ NoRow(r) /\ Filled(r) /\ Promised(r)

\* What is sent is whole, and comes with a token.
SentWhole ==
  \A i \in DOMAIN outputs : \A r \in DOMAIN outputs[i].prompt :
    outputs[i].prompt[r] = 0 .. PromptLen[r] - 2 /\ outputs[i].k[r] # 0

PromptInv ==
  /\ \A r \in Req : PromptAccount(r)
  /\ pc = "sample" => \A r \in awaited \cap Planned : cache[r].computed = kv[r]
  /\ SentWhole

\* At the start everything waits.
LEMMA InitPrompts == ASSUME Init PROVE PromptInv
<1> USE DEF Init
<1>1. DOMAIN outputs = {}
  OBVIOUS
<1>2. ASSUME NEW r \in Req PROVE PromptAccount(r)
  <2>1. /\ job[r].status = "waiting" /\ job[r].known = PromptLen[r] /\ PromptLen[r] \in Nat
        /\ r \notin awaited /\ logprobs[r] = {} /\ r \notin plan.new
        /\ last.index[r] = 0
    BY RunnerAssumption DEF NoPlan, NothingLast, None
  <2> QED BY <1>1, <2>1 DEF PromptAccount, Unsampled, NoRow, Filled, Promised
<1>3. SentWhole
  BY <1>1 DEF SentWhole
<1> QED BY <1>2, <1>3 DEF PromptInv

\* A request ends, or keeps what it knows; one that is admitted starts from the beginning.
GoesOn(r) ==
  /\ \/ job'[r].status = "done" /\ job'[r].known = 0
     \/ /\ job'[r].status # "done" /\ job[r].status # "done" /\ job'[r].known = job[r].known
        /\ job[r].status = "waiting" =>
             job'[r].status = "waiting" \/ (pc' \in {"plan", "update"} /\ r \in plan'.new)
        /\ pc \in {"plan", "update"} /\ r \in plan.new =>
             pc' \in {"plan", "update"} /\ r \in plan'.new
  /\ job'[r].status = "waiting" => job[r].status = "waiting"
  /\ r \in plan'.new => r \in plan.new \/ (job[r].status = "waiting" /\ kv'[r] = 0)
  /\ r \in WantsLogprobs => kv'[r] \in {0, kv[r]}

\* A step that sends nothing and fills nothing in.
LEMMA PromptsKept ==
  ASSUME PromptInv, outputs' = outputs, awaited' = awaited, logprobs' = logprobs,
         last' = last, NEW r \in Req, GoesOn(r)
  PROVE  PromptAccount(r)'
<1>1. Unsampled(r) /\ NoRow(r) /\ Filled(r) /\ Promised(r) /\ (InFlight(r)' <=> InFlight(r))
  BY SameOutputs DEF PromptInv, PromptAccount
<1>2. Unsampled(r)'
  BY <1>1 DEF Unsampled, GoesOn
<1>3. NoRow(r)'
  <2>1. r \in awaited' \/ job'[r].status = "waiting" \/ r \in plan'.new =>
          r \in awaited \/ job[r].status = "waiting" \/ r \in plan.new
    BY DEF GoesOn
  <2> QED BY <1>1, <2>1 DEF NoRow
<1>4. Filled(r)'
  <2>1. PromptLen[r] \in Nat /\ \A p \in 0 .. PromptLen[r] - 2 : ~(p < 0)
    BY RunnerAssumption
  <2>2. r \in awaited => r \in WantsLogprobs
    BY <1>1 DEF Unsampled
  <2>3. r \in plan'.new => r \in plan.new \/ kv'[r] = 0
    BY DEF GoesOn
  <2>4. r \in WantsLogprobs => kv'[r] = 0 \/ kv'[r] = kv[r]
    BY DEF GoesOn
  <2>5. ASSUME r \in awaited' \/ r \in plan'.new \cap WantsLogprobs,
               NEW p \in 0 .. PromptLen[r] - 2, p < kv'[r]
        PROVE  p \in logprobs'[r]
    <3>1. kv'[r] = kv[r] /\ (r \in awaited \/ r \in plan.new \cap WantsLogprobs)
      BY <2>1, <2>2, <2>3, <2>4, <2>5
    <3> QED BY <1>1, <2>5, <3>1 DEF Filled
  <2> QED BY <1>1, <2>5 DEF Filled
<1>5. Promised(r)'
  <2>1. CASE job'[r].status = "done"
    BY <2>1 DEF Promised, GoesOn
  <2>2. CASE job'[r].status # "done"
    <3>1. /\ job[r].status # "done" /\ job'[r].known = job[r].known
          /\ job[r].status = "waiting" =>
               job'[r].status = "waiting" \/ (pc' \in {"plan", "update"} /\ r \in plan'.new)
          /\ pc \in {"plan", "update"} /\ r \in plan.new =>
               pc' \in {"plan", "update"} /\ r \in plan'.new
      BY <2>2 DEF GoesOn
    <3>2. \A i : FirstOf(r, i)' <=> FirstOf(r, i)
      BY DEF FirstOf
    <3> QED BY <1>1, <2>2, <3>1, <3>2 DEF Promised
  <2> QED BY <2>1, <2>2
<1> QED BY <1>2, <1>3, <1>4, <1>5 DEF PromptAccount

\* The same for all requests, in the stages that neither sample nor answer.
LEMMA PromptsStay ==
  ASSUME PromptInv, pc' # "sample", UNCHANGED outputs,
         \A r \in Req : PromptAccount(r)'
  PROVE  PromptInv'
<1>1. SentWhole'
  BY DEF PromptInv, SentWhole
<1> QED BY <1>1 DEF PromptInv

\* A plan is begun, running requests get tokens.
LEMMA PlanPrompts ==
  ASSUME RunnerInv, PromptInv, StartPlan \/ \E r \in Req : PlanRunning(r)
  PROVE  PromptInv'
<1> USE DEF schedVars, hostVars, promptVars, gpuVars, history
<1>1. /\ pc' = "plan" /\ UNCHANGED <<job, outputs, last, awaited, logprobs, kv>>
      /\ plan'.new = plan.new
  <2>1. CASE StartPlan
    BY <2>1 DEF StartPlan
  <2>2. CASE \E r \in Req : PlanRunning(r)
    <3>1. PICK r \in Req : PlanRunning(r)
      BY <2>2
    <3>2. PICK n : plan' = [plan EXCEPT !.n[r] = n, !.d[r] = DraftsAmong(r, n)]
      BY <3>1 DEF PlanRunning
    <3>3. plan'.new = plan.new
      BY <3>2 DEF RunnerInv, RunnerTypes, Plans
    <3> QED BY <3>1, <3>3 DEF PlanRunning
  <2> QED BY <2>1, <2>2
<1>2. ASSUME NEW r \in Req PROVE PromptAccount(r)'
  <2>1. PromptAccount(r)
    BY DEF PromptInv
  <2>2. job[r].status = "done" => job[r].known = 0
    BY <2>1 DEF PromptAccount, Promised
  <2>3. GoesOn(r)
    BY <1>1, <2>2 DEF GoesOn
  <2> QED BY <1>1, <2>3, PromptsKept
<1> QED BY <1>1, <1>2, PromptsStay

\* Preempted, by a step or by a reset.
LEMMA PreemptPrompts ==
  ASSUME RunnerInv, PromptInv, ResetPrefixCache \/ \E r \in Req : Preempt(r)
  PROVE  PromptInv'
<1> USE DEF schedVars, hostVars, promptVars, gpuVars, history
<1>1. job \in [Req -> Jobs] /\ plan \in Plans
  BY DEF RunnerInv, RunnerTypes
<1>2. ASSUME NEW q \in Req
      PROVE  LET new == PreemptedJob(job[q])
             IN  new.status = "preempted" /\ new.known = job[q].known
  BY <1>1, PreemptedIs
<1>3. /\ pc' = pc /\ pc' # "sample" /\ UNCHANGED <<outputs, last, awaited, logprobs, kv>>
      /\ plan'.new = plan.new
      /\ \A q \in Req : \/ job'[q] = job[q]
                        \/ job[q].status = "running" /\ job'[q] = PreemptedJob(job[q])
  <2>1. CASE ResetPrefixCache
    <3>1. job' = [q \in Req |-> IF job[q].status = "running" THEN PreemptedJob(job[q])
                                ELSE job[q]]
      BY <2>1 DEF ResetPrefixCache
    <3>2. \A q \in Req : \/ job'[q] = job[q]
                         \/ job[q].status = "running" /\ job'[q] = PreemptedJob(job[q])
      BY <3>1
    <3>3. pc' = "idle" /\ pc = "idle" /\ plan' = plan
          /\ UNCHANGED <<outputs, last, awaited, logprobs, kv>>
      BY <2>1 DEF ResetPrefixCache
    <3> QED BY <3>2, <3>3
  <2>2. CASE \E r \in Req : Preempt(r)
    <3>1. PICK r \in Req : Preempt(r)
      BY <2>2
    <3>2. plan'.new = plan.new
      BY <1>1, <3>1 DEF Preempt, Plans
    <3>3. job[r].status = "running" /\ job' = [job EXCEPT ![r] = PreemptedJob(job[r])]
      BY <3>1 DEF Preempt
    <3>4. \A q \in Req : \/ job'[q] = job[q]
                         \/ job[q].status = "running" /\ job'[q] = PreemptedJob(job[q])
      BY <1>1, <3>3
    <3>5. pc' = "plan" /\ pc = "plan" /\ UNCHANGED <<outputs, last, awaited, logprobs, kv>>
      BY <3>1 DEF Preempt
    <3> QED BY <3>2, <3>4, <3>5
  <2> QED BY <2>1, <2>2
<1>4. ASSUME NEW q \in Req PROVE PromptAccount(q)'
  <2>1. PromptAccount(q)
    BY DEF PromptInv
  <2>2. job[q].status = "done" => job[q].known = 0
    BY <2>1 DEF PromptAccount, Promised
  <2>3. \/ job'[q] = job[q]
        \/ /\ job[q].status = "running" /\ job'[q].status = "preempted"
           /\ job'[q].known = job[q].known
    BY <1>2, <1>3
  <2> HIDE DEF schedVars, hostVars, promptVars, gpuVars, history
  <2>4. GoesOn(q)
    BY <1>3, <2>2, <2>3 DEF GoesOn
  <2> QED BY <1>3, <2>4, PromptsKept
<1> QED BY <1>3, <1>4, PromptsStay

\* Ended from outside.
LEMMA FinishPrompts ==
  ASSUME NEW r \in Req, RunnerInv, PromptInv, FinishRequest(r)
  PROVE  PromptInv'
<1> USE DEF schedVars, hostVars, promptVars, gpuVars, history
<1>1. /\ pc = "idle" /\ pc' = "idle" /\ job' = [job EXCEPT ![r] = Ended]
      /\ UNCHANGED <<outputs, plan, last, awaited, logprobs, kv>>
  BY DEF FinishRequest
<1>2. /\ job'[r].status = "done" /\ job'[r].known = 0
      /\ \A q \in Req : q # r => job'[q] = job[q]
  BY <1>1 DEF RunnerInv, RunnerTypes, Ended
<1>3. ASSUME NEW q \in Req PROVE PromptAccount(q)'
  <2>1. PromptAccount(q)
    BY DEF PromptInv
  <2>2. job[q].status = "done" => job[q].known = 0
    BY <2>1 DEF PromptAccount, Promised
  <2> HIDE DEF schedVars, hostVars, promptVars, gpuVars, history
  <2>3. GoesOn(q)
    BY <1>1, <1>2, <2>2 DEF GoesOn
  <2> QED BY <1>1, <2>3, PromptsKept
<1> QED BY <1>1, <1>3, PromptsStay

\* A request that asks for prompt logprobs is admitted without a prefix hit.
LEMMA AdmitPrompts ==
  ASSUME NEW r \in Req, RunnerInv, PromptInv, Admit(r)
  PROVE  PromptInv'
<1> USE DEF schedVars, hostVars, promptVars, gpuVars, history
<1>1. /\ pc = "plan" /\ pc' = "plan" /\ job[r].status \in {"waiting", "preempted"}
      /\ UNCHANGED <<outputs, last, awaited, logprobs>>
  BY DEF Admit
<1>2. PICK hit, n :
       /\ r \in WantsLogprobs => hit = 0
       /\ job' = [job EXCEPT ![r].status = "running", ![r].computed = hit]
       /\ plan' = [plan EXCEPT
                     !.n[r] = n,
                     !.new = IF job[r].status = "waiting" THEN @ \cup {r} ELSE @,
                     !.resumed = IF job[r].status = "preempted" THEN @ \cup {r} ELSE @]
       /\ kv' = [kv EXCEPT ![r] = hit]
  BY DEF Admit
<1>3. /\ job'[r].known = job[r].known /\ job'[r].status = "running" /\ kv'[r] = hit
      /\ \A q \in Req : q # r => job'[q] = job[q] /\ kv'[q] = kv[q]
  BY <1>2 DEF RunnerInv, RunnerTypes, Jobs
<1>4. plan'.new = IF job[r].status = "waiting" THEN plan.new \cup {r} ELSE plan.new
  BY <1>2 DEF RunnerInv, RunnerTypes, Plans
<1>5. ASSUME NEW q \in Req PROVE PromptAccount(q)'
  <2>1. PromptAccount(q)
    BY DEF PromptInv
  <2>2. job[q].status = "done" => job[q].known = 0
    BY <2>1 DEF PromptAccount, Promised
  <2>3. CASE q # r
    <3>1. (q \in plan'.new <=> q \in plan.new) /\ job'[q] = job[q] /\ kv'[q] = kv[q]
      BY <1>3, <1>4, <2>3
    <3> HIDE DEF schedVars, hostVars, promptVars, gpuVars, history
    <3>2. GoesOn(q)
      BY <1>1, <2>2, <3>1 DEF GoesOn
    <3> QED BY <1>1, <3>2, PromptsKept
  <2>4. CASE q = r /\ r \in WantsLogprobs
    <3>1. kv'[r] = 0
      BY <1>2, <1>3, <2>4
    <3>2. /\ job'[r].status # "done" /\ job[r].status # "done" /\ job'[r].known = job[r].known
          /\ job'[r].status # "waiting"
          /\ job[r].status = "waiting" => r \in plan'.new
          /\ r \in plan.new => r \in plan'.new
          /\ r \in plan'.new => r \in plan.new \/ job[r].status = "waiting"
      BY <1>1, <1>3, <1>4
    <3> HIDE DEF schedVars, hostVars, promptVars, gpuVars, history
    <3>3. GoesOn(q)
      BY <1>1, <2>4, <3>1, <3>2 DEF GoesOn
    <3> QED BY <1>1, <3>3, PromptsKept
  <2>5. CASE q = r /\ r \notin WantsLogprobs
    <3>1. r \notin awaited
      BY <2>1, <2>5 DEF PromptAccount, Unsampled
    <3>2. Unsampled(r)'
      BY <1>1, <3>1 DEF Unsampled
    <3>3. NoRow(r)'
      BY <1>1, <1>3, <1>4, <2>1, <2>5 DEF PromptAccount, NoRow
    <3>4. Filled(r)'
      BY <1>1, <2>1, <2>5, <3>1 DEF PromptAccount, Filled
    <3>5. Promised(r)'
      BY <1>1, <1>3, <2>1, <2>5 DEF PromptAccount, Promised
    <3> QED BY <2>5, <3>2, <3>3, <3>4, <3>5 DEF PromptAccount
  <2> QED BY <2>3, <2>4, <2>5
<1> QED BY <1>1, <1>5, PromptsStay

\* The message is sent.
LEMMA SendStepPrompts ==
  ASSUME RunnerInv, PromptInv, SendStep
  PROVE  PromptInv'
<1> USE DEF schedVars, hostVars, promptVars, gpuVars, history
<1>1. /\ pc = "plan" /\ pc' = "update"
      /\ job' = [r \in Req |-> IF r \in Planned THEN Advanced(r) ELSE job[r]]
      /\ UNCHANGED <<outputs, last, awaited, logprobs, kv>>
  BY DEF SendStep
<1>2. plan \in Plans /\ plan.n \in [Req -> Nat] /\ plan.d \in [Req -> Nat] /\ NumSpec \in Nat
  BY RunnerAssumption DEF RunnerInv, RunnerTypes, Plans, Counts
<1>3. plan'.new = plan.new
  BY <1>2 DEF SendStep, Plans
<1>4. ASSUME NEW r \in Req PROVE PromptAccount(r)'
  <2>1. PromptAccount(r) /\ job[r] \in Jobs /\ plan.n[r] \in Nat /\ plan.d[r] \in Nat
    BY <1>2 DEF PromptInv, RunnerInv, RunnerTypes
  <2>2. job[r].status = "done" => job[r].known = 0
    BY <2>1 DEF PromptAccount, Promised
  <2>3. Advanced(r).status = job[r].status /\ Advanced(r).known = job[r].known
    BY <1>2, <2>1, AdvancedIs
  <2>4. job'[r].status = job[r].status /\ job'[r].known = job[r].known
    BY <1>1, <2>3
  <2> HIDE DEF schedVars, hostVars, promptVars, gpuVars, history
  <2>5. GoesOn(r)
    BY <1>1, <1>3, <2>2, <2>4 DEF GoesOn
  <2> QED BY <1>1, <2>5, PromptsKept
<1> QED BY <1>1, <1>4, PromptsStay

\* The batch follows the message: a new request that asks for them awaits its prompt logprobs.
LEMMA UpdateStatesPrompts ==
  ASSUME RunnerInv, PromptInv, UpdateStates
  PROVE  PromptInv'
<1> USE DEF schedVars, gpuVars, history
<1>1. /\ pc = "update" /\ pc' # "sample"
      /\ awaited' = (awaited \ plan.finished) \cup (plan.new \cap WantsLogprobs)
      /\ logprobs' = [r \in Req |-> IF r \in plan.finished THEN {} ELSE logprobs[r]]
      /\ UNCHANGED <<job, plan, outputs, kv>>
  BY DEF UpdateStates
<1>2. /\ RunnerTypes /\ OutputsAccount /\ PlanAccount /\ pc \in Working
      /\ last.index \in [Req -> Nat]
  BY <1>1 DEF RunnerInv, RunnerTypes, Working
<1>3. ASSUME NEW r \in Req PROVE last'.index[r] \in {0, last.index[r]}
  <2>1. CASE RemoveForgets
    <3>1. last' = [last EXCEPT !.index = [q \in Req |-> IF q \in Removed THEN 0 ELSE @[q]]]
      BY <2>1 DEF UpdateStates
    <3>2. last'.index = [q \in Req |-> IF q \in Removed THEN 0 ELSE last.index[q]]
      <4>1. last = [index |-> last.index, sampled |-> last.sampled, proposed |-> last.proposed,
                    valid |-> last.valid, computed |-> last.computed]
        BY <1>2 DEF RunnerTypes
      <4> DEFINE new == [q \in Req |-> IF q \in Removed THEN 0 ELSE last.index[q]]
      <4>2. last' = [last EXCEPT !.index = new]
        BY <3>1
      <4> HIDE DEF new
      <4>3. last'.index = new
        BY <4>1, <4>2
      <4> QED BY <4>3 DEF new
    <3> QED BY <3>2
  <2>2. CASE ~RemoveForgets
    BY <2>2 DEF UpdateStates
  <2> QED BY <2>1, <2>2
<1>4. ASSUME NEW r \in plan.new
      PROVE  /\ r \in Req /\ r \notin plan.finished /\ job[r].status = "running"
             /\ job[r].known = PromptLen[r] /\ ~InFlight(r)
  <2>1. r \in Planned
    BY <1>2 DEF PlanAccount, Admitted
  <2>2. /\ r \in Req /\ job[r].status = "running" /\ SentJob(r) /\ r \notin plan.finished
        /\ PromptLen[r] \in Nat
    BY <1>2, <2>1, PlannedIsSent
  <2>3. ~InFlight(r) /\ plan.out[r] = 0
        /\ PromptLen[r] + plan.out[r] = job[r].known + job[r].ph - OwedByPlan(r)
    BY <2>2 DEF SentJob, Admitted
  <2>4. OwedTo(r) = 0
    BY <1>2, <2>2, <2>3, InFlightTypes
  <2>5. job[r].ph = OwedTo(r) + OwedByPlan(r) /\ job[r].known \in Int /\ OwedByPlan(r) \in Int
    <3>1. JobAccount(r)
      BY <2>2 DEF RunnerInv
    <3>2. plan.d[r] \in Nat
      BY <1>2, <2>1, PlannedIsSent
    <3>3. job[r].known \in Int
      BY <1>2, <2>2 DEF RunnerTypes, Jobs
    <3>4. OwedByPlan(r) \in Int
      BY <3>2 DEF OwedByPlan
    <3> QED BY <2>2, <3>1, <3>3, <3>4 DEF JobAccount
  <2> QED BY <2>2, <2>3, <2>4, <2>5
<1>5. ASSUME NEW r \in Req PROVE PromptAccount(r)'
  <2>1. PromptAccount(r) /\ (InFlight(r)' <=> InFlight(r))
    BY <1>1, SameOutputs DEF PromptInv
  <2>2. r \in plan.finished => job[r].status = "done"
    BY <1>2 DEF PlanAccount
  <2>3. Unsampled(r)'
    BY <1>1, <1>4, <2>1 DEF PromptAccount, Unsampled
  <2>4. NoRow(r)'
    BY <1>1, <1>3, <2>1 DEF PromptAccount, NoRow
  <2>5. Filled(r)'
    <3>1. logprobs'[r] = IF r \in plan.finished THEN {} ELSE logprobs[r]
      BY <1>1
    <3>2. r \in awaited' \/ r \in plan'.new \cap WantsLogprobs =>
            r \notin plan.finished /\ (r \in awaited \/ r \in plan.new \cap WantsLogprobs)
      BY <1>1, <1>4
    <3> QED BY <1>1, <2>1, <3>1, <3>2 DEF PromptAccount, Filled
  <2>6. Promised(r)'
    BY <1>1, <2>1, <2>2 DEF PromptAccount, Promised, FirstOf
  <2> QED BY <2>3, <2>4, <2>5, <2>6 DEF PromptAccount
<1> QED BY <1>1, <1>5, PromptsStay

\* The input ids are prepared.
LEMMA PrepareInputsPrompts ==
  ASSUME RunnerInv, PromptInv, PrepareInputs
  PROVE  PromptInv'
<1> USE DEF schedVars, hostVars, promptVars, history
<1>1. /\ pc = "prepare" /\ pc' = "forward"
      /\ UNCHANGED <<job, plan, outputs, last, awaited, logprobs, kv>>
  BY DEF PrepareInputs
<1>2. ASSUME NEW r \in Req PROVE PromptAccount(r)'
  <2>1. PromptAccount(r)
    BY DEF PromptInv
  <2>2. job[r].status = "done" => job[r].known = 0
    BY <2>1 DEF PromptAccount, Promised
  <2> HIDE DEF schedVars, hostVars, promptVars, history
  <2>3. GoesOn(r)
    BY <1>1, <2>2 DEF GoesOn
  <2> QED BY <1>1, <2>3, PromptsKept
<1> QED BY <1>1, <1>2, PromptsStay

\* A request that awaits its prompt logprobs has no count to correct.
LEMMA CorrectCountsPrompts ==
  ASSUME RunnerInv, PromptInv, CorrectCounts
  PROVE  PromptInv'
<1> USE DEF schedVars, promptVars, gpuVars, history
<1>1. /\ pc = "forward" /\ pc' = "sample"
      /\ cache' = [r \in Req |->
                     IF assumed[r] > 0 /\ last.index[r] # 0
                     THEN [cache[r] EXCEPT !.computed = @ - Correction(r)] ELSE cache[r]]
      /\ UNCHANGED <<job, plan, outputs, last, awaited, logprobs, kv>>
  BY DEF CorrectCounts
<1>2. ASSUME NEW r \in Req PROVE PromptAccount(r)'
  <2>1. PromptAccount(r)
    BY DEF PromptInv
  <2>2. job[r].status = "done" => job[r].known = 0
    BY <2>1 DEF PromptAccount, Promised
  <2> HIDE DEF schedVars, promptVars, gpuVars, history
  <2>3. GoesOn(r)
    BY <1>1, <2>2 DEF GoesOn
  <2> QED BY <1>1, <2>3, PromptsKept
<1>3. Planned' = Planned
  BY <1>1 DEF Planned
<1>4. ASSUME NEW r \in awaited \cap Planned PROVE cache'[r].computed = kv[r]
  <2>1. r \in Req /\ PromptAccount(r) /\ InThisStep(r)
    BY <1>1 DEF PromptInv, RunnerInv, WorkerAccount, Planned
  <2>2. last.index[r] = 0
    BY <2>1 DEF PromptAccount, NoRow
  <2>3. cache'[r] = cache[r]
    BY <1>1, <2>1, <2>2
  <2>4. ~CorrectsLast(r)
    BY <2>2 DEF CorrectsLast
  <2>5. cache[r].computed = plan.computed[r] /\ plan.computed[r] = kv[r]
    BY <1>1, <2>1, <2>4 DEF InThisStep
  <2> QED BY <2>3, <2>5
<1>5. SentWhole'
  BY <1>1 DEF PromptInv, SentWhole
<1> QED BY <1>1, <1>2, <1>3, <1>4, <1>5 DEF PromptInv

\* What one chunk fills in of a prompt, and whether it is the last one.
LEMMA ChunkFills ==
  ASSUME RunnerInv, PromptInv, pc = "sample", NEW r \in awaited \cap Planned
  PROVE  LET end == kv[r] + plan.n[r]
         IN  /\ r \in Complete <=> r \notin plan.chunk
             /\ r \in Complete <=> end >= PromptLen[r]
             /\ FilledBy(r) = kv[r] .. Lesser(end, PromptLen[r] - 1) - 1
             /\ kv[r] \in Nat /\ plan.n[r] \in Nat /\ PromptLen[r] \in Nat
<1> DEFINE n == plan.n[r]
           L == PromptLen[r]
           a == kv[r]
           i == RowOf(r)
           b == CuNumTokens[i - 1]
<1>1. RunnerTypes /\ OutputsAccount /\ plan \in Plans /\ batch \in Seq(Req) /\ pc \in Working
  BY DEF RunnerInv, RunnerTypes, Working
<1>2. /\ r \in Req /\ job[r].status = "running" /\ SentJob(r)
      /\ n \in Nat /\ a \in Nat /\ L \in Nat
  BY <1>1, PlannedIsSent
<1>3. /\ cache[r].computed = a /\ job[r].known = L /\ ~InFlight(r)
  BY <1>2 DEF PromptInv, PromptAccount, Unsampled
<1>4. r \in plan.chunk <=> a + n < L
  <2>1. OwedTo(r) = 0 /\ LostOf(r) = 0
    BY <1>1, <1>2, <1>3, InFlightTypes
  <2>2. job[r].ph = OwedTo(r) + OwedByPlan(r) /\ OwedByPlan(r) \in Int
    <3>1. JobAccount(r) /\ plan.d[r] \in Nat
      BY <1>1, <1>2, PlannedIsSent DEF RunnerInv
    <3> QED BY <1>2, <3>1 DEF JobAccount, OwedByPlan
  <2>3. /\ plan.computed[r] = a + LostOf(r)
        /\ r \in plan.chunk <=> plan.computed[r] + n < job[r].known + job[r].ph - OwedByPlan(r)
    BY <1>2 DEF SentJob
  <2>4. plan.computed[r] = a
    BY <1>2, <2>1, <2>3
  <2>5. job[r].known + job[r].ph - OwedByPlan(r) = L
    BY <1>2, <1>3, <2>1, <2>2
  <2> QED BY <2>3, <2>4, <2>5
<1>5. r \in Complete <=> a + n >= L
  <2>1. r \in Complete <=> n > L - (a + 1)
    BY <1>3 DEF Complete, CompletesPrompt
  <2> HIDE DEF n, L, a
  <2> QED BY <1>2, <2>1
<1>6. i \in Rows /\ batch[i] = r /\ start[i] = a
  <2>1. r \in ToSet(batch) /\ start = [m \in Rows |-> kv[batch[m]]]
    BY <1>2 DEF RunnerInv, WorkerAccount
  <2>2. i \in Rows /\ batch[i] = r
    BY <1>1, <2>1, RowOfIs
  <2> QED BY <2>1, <2>2
<1>7. b \in Nat /\ CuNumTokens[i] = b + n
  BY <1>1, <1>6, RowTokens
<1>8. ASSUME NEW p \in Int, a <= p, p < a + n
      PROVE  PositionAt(b + 1 + p - a) = p
  <2> DEFINE x == b + 1 + p - a
  <2>1. x \in Int /\ b < x /\ x <= b + n
    BY <1>2, <1>7, <1>8
  <2>2. RowAt(x) = i
    BY <1>1, <1>6, <1>7, <2>1, RowAtOf
  <2>3. PositionAt(x) = a + x - 1 - b
    BY <1>6, <2>2 DEF PositionAt
  <2> HIDE DEF a, n, b, i
  <2> QED BY <1>2, <1>7, <2>3
<1>9. FilledBy(r) = a .. Lesser(a + n, L - 1) - 1
  <2> DEFINE top == Lesser(a + n, L - 1) - 1
  <2>1. FilledBy(r) = {p \in a .. top : PositionAt(b + 1 + p - a) = p}
    BY <1>3 DEF FilledBy, RowOf
  <2>2. top < a + n /\ top \in Int
    <3> HIDE DEF a, n, L
    <3> QED BY <1>2 DEF Lesser
  <2> HIDE DEF top
  <2>3. \A p \in a .. top : PositionAt(b + 1 + p - a) = p
    <3>1. ASSUME NEW p \in a .. top PROVE p \in Int /\ a <= p /\ p < a + n
      <4> HIDE DEF a, n
      <4> QED BY <1>2, <2>2
    <3> QED BY <1>8, <3>1
  <2>4. FilledBy(r) = a .. top
    BY <2>1, <2>3
  <2> QED BY <2>4 DEF top
<1>10. r \in plan.chunk <=> ~(a + n >= L)
  <2> HIDE DEF a, n, L
  <2> QED BY <1>2, <1>4
<1> QED BY <1>2, <1>5, <1>9, <1>10

\* A request's first token takes its prompt logprobs along.
LEMMA SampleTokensPrompts ==
  ASSUME RunnerInv, PromptInv, SampleTokens
  PROVE  PromptInv'
<1>1. /\ pc = "sample" /\ pc' = "idle" /\ plan' = NoPlan /\ job' = job
      /\ awaited' = awaited \ Complete
      /\ logprobs' = [r \in Req |-> IF r \in Complete THEN {} ELSE FilledIn[r]]
  BY DEF SampleTokens
<1>2. RunnerTypes /\ OutputsAccount /\ PlanAccount /\ pc \in Working
      /\ outputs \in Seq(Outputs) /\ Len(outputs) \in Nat /\ ToSet(batch) = Planned
  BY <1>1 DEF RunnerInv, RunnerTypes, Working, WorkerAccount
<1>3. PICK k \in SampleCounts :
        /\ last'.index = [r \in Req |-> IndexOf(r)]
        /\ kv' = [r \in Req |->
                    IF r \notin Planned THEN kv[r]
                    ELSE IF RowOf(r) \in discards THEN start[RowOf(r)] + plan.n[r]
                    ELSE NewLen(RowOf(r), k[RowOf(r)]) - 1]
        /\ outputs' = Append(outputs, OutputOf(k))
  BY DEF SampleTokens, RowOf
<1> DEFINE o == OutputOf(k)
<1>4. o.prompt = [r \in Complete |-> FilledIn[r]]
  BY DEF OutputOf
<1>5. /\ \A r \in Req \ Planned : o.k[r] = 0
      /\ \A r \in Planned : r \in plan.chunk <=> o.k[r] = 0
      /\ o \in Outputs
  <2>1. ASSUME NEW r \in Planned PROVE r \in plan.chunk <=> o.k[r] = 0
    <3>1. /\ o.k[r] = k[RowOf(r)]
          /\ r \in plan.chunk => k[RowOf(r)] = 0
          /\ r \notin plan.chunk => k[RowOf(r)] \in 1 .. plan.d[r] + 1
      BY <1>1, OutputOfIs
    <3>2. ~(0 \in 1 .. plan.d[r] + 1)
      OBVIOUS
    <3> QED BY <3>1, <3>2
  <2> QED BY <1>1, <2>1, OutputOfIs
<1> HIDE DEF o
<1>6. PICK m \in Nat : m = Len(outputs)
  BY <1>2
<1>7. /\ DOMAIN outputs = 1 .. m /\ DOMAIN outputs' = 1 .. m + 1
      /\ outputs'[m + 1] = o /\ \A i \in 1 .. m : outputs'[i] = outputs[i]
      /\ m + 1 \in 1 .. m + 1
      /\ \A i \in 1 .. m + 1 : i \in 1 .. m \/ i = m + 1
  <2>1. outputs' = Append(outputs, o)
    BY <1>3 DEF o
  <2> QED BY <1>2, <1>5, <1>6, <2>1, AppendProperties
<1>8. Complete \subseteq awaited \cap Planned /\ Planned \subseteq Req
  BY DEF Complete, Planned
<1>9. ASSUME NEW r \in Req PROVE InFlight(r)' <=> InFlight(r) \/ o.k[r] # 0
  <2>1. 1 .. m \subseteq 1 .. m + 1
    BY <1>6
  <2>2. InFlight(r)' => InFlight(r) \/ o.k[r] # 0
    BY <1>7 DEF InFlight
  <2>3. InFlight(r) => InFlight(r)'
    BY <1>7, <2>1 DEF InFlight
  <2>4. o.k[r] # 0 => InFlight(r)'
    BY <1>7 DEF InFlight
  <2> QED BY <2>2, <2>3, <2>4
<1>10. ASSUME NEW r \in Req PROVE plan'.new = {} /\ r \notin plan'.new
  BY <1>1 DEF NoPlan
<1>11. ASSUME NEW r \in awaited \cap Planned
       PROVE  LET end == kv[r] + plan.n[r]
              IN  /\ r \in Complete <=> r \notin plan.chunk
                  /\ r \in Complete <=> end >= PromptLen[r]
                  /\ FilledIn[r] \subseteq 0 .. PromptLen[r] - 2
                  /\ \A p \in 0 .. PromptLen[r] - 2 : p < end => p \in FilledIn[r]
  <2> DEFINE end == kv[r] + plan.n[r]
             L == PromptLen[r]
  <2>1. /\ r \in Complete <=> r \notin plan.chunk
        /\ r \in Complete <=> end >= L
        /\ FilledBy(r) = kv[r] .. Lesser(end, L - 1) - 1
        /\ kv[r] \in Nat /\ plan.n[r] \in Nat /\ L \in Nat
    BY <1>1, ChunkFills
  <2>2. r \in Req /\ Filled(r)
    BY <1>8 DEF PromptInv, PromptAccount, Planned
  <2>3. FilledIn[r] = logprobs[r] \cup FilledBy(r)
    BY <2>2 DEF FilledIn
  <2>4. end \in Nat
    BY <2>1
  <2>5. logprobs[r] \subseteq 0 .. L - 2 /\ \A p \in 0 .. L - 2 : p < kv[r] => p \in logprobs[r]
    BY <2>2 DEF Filled
  <2> HIDE DEF end, L
  <2>6. FilledBy(r) \subseteq 0 .. L - 2
    BY <2>1, <2>4 DEF Lesser
  <2>7. \A p \in 0 .. L - 2 : ~(p < kv[r]) /\ p < end => p \in FilledBy(r)
    BY <2>1, <2>4 DEF Lesser
  <2>8. /\ FilledIn[r] \subseteq 0 .. L - 2
        /\ \A p \in 0 .. L - 2 : p < end => p \in FilledIn[r]
    BY <2>3, <2>5, <2>6, <2>7
  <2> QED BY <2>1, <2>8 DEF end, L
<1>12. ASSUME NEW r \in Complete
       PROVE  o.prompt[r] = 0 .. PromptLen[r] - 2 /\ o.k[r] # 0
  <2>1. r \in awaited \cap Planned /\ r \notin plan.chunk
    BY <1>8, <1>11
  <2>2. kv[r] + plan.n[r] >= PromptLen[r] /\ kv[r] + plan.n[r] \in Int /\ PromptLen[r] \in Nat
    BY <1>1, <1>11, <2>1, ChunkFills
  <2>3. \A p \in 0 .. PromptLen[r] - 2 : p < kv[r] + plan.n[r]
    BY <2>2
  <2>4. FilledIn[r] = 0 .. PromptLen[r] - 2
    BY <1>11, <2>1, <2>3
  <2> QED BY <1>4, <1>5, <2>1, <2>4
<1>13. SentWhole'
  <2>1. SentWhole /\ DOMAIN o.prompt = Complete
    BY <1>4 DEF PromptInv
  <2> QED BY <1>7, <1>12, <2>1 DEF SentWhole
<1>14. ASSUME NEW r \in Req PROVE PromptAccount(r)'
  <2>1. Unsampled(r) /\ NoRow(r) /\ Filled(r) /\ Promised(r)
    BY DEF PromptInv, PromptAccount
  <2>2. r \in awaited \ Complete => o.k[r] = 0
    BY <1>5, <1>11
  <2>3. Unsampled(r)'
    BY <1>1, <1>9, <2>1, <2>2 DEF Unsampled
  <2>4. NoRow(r)'
    <3>1. last'.index[r] = IndexOf(r)
      BY <1>3
    <3>2. r \notin Planned => IndexOf(r) = 0
      <4>1. \A i \in Rows : batch[i] \in ToSet(batch)
        <5>1. batch \in Seq(Req)
          BY <1>2 DEF RunnerTypes
        <5> QED BY <5>1 DEF Rows, ToSet
      <4> QED BY <1>2, <4>1 DEF IndexOf
    <3>3. r \in Planned /\ r \in awaited' => IndexOf(r) = 0
      <4>1. r \in Planned /\ r \in awaited' => r \in Planned /\ r \in plan.chunk
        BY <1>1, <1>11
      <4> QED BY <1>1, <1>3, <4>1, SampledIs
    <3>4. job[r].status = "waiting" => r \notin Planned
      BY <1>2 DEF PlanAccount
    <3> QED BY <1>1, <1>10, <3>1, <3>2, <3>3, <3>4 DEF NoRow
  <2>5. Filled(r)'
    <3>1. logprobs'[r] = IF r \in Complete THEN {} ELSE FilledIn[r]
      BY <1>1
    <3>2. CASE r \in awaited \cap Planned
      <4>1. r \notin Complete => kv'[r] = kv[r] + plan.n[r]
        <5>1. r \notin Complete => r \in plan.chunk
          BY <1>11, <3>2
        <5>2. r \in plan.chunk => RowOf(r) \in discards /\ start[RowOf(r)] = kv[r]
          BY <1>1, <1>3, <3>2, SampledIs
        <5> QED BY <1>3, <3>2, <5>1, <5>2
      <4> QED BY <1>1, <1>10, <1>11, <3>1, <3>2, <4>1 DEF Filled
    <3>3. CASE ~(r \in awaited \cap Planned)
      <4>1. logprobs'[r] = logprobs[r] /\ r \notin Complete
        BY <1>8, <3>1, <3>3 DEF FilledIn
      <4>2. r \in awaited' => kv'[r] = kv[r] /\ r \in awaited
        BY <1>1, <1>3, <3>3
      <4> QED BY <1>1, <1>10, <2>1, <4>1, <4>2 DEF Filled
    <3> QED BY <3>2, <3>3
  <2>6. Promised(r)'
    <3> SUFFICES ASSUME job[r].status # "done", r \in WantsLogprobs, job[r].known = PromptLen[r]
                 PROVE  /\ \A i \in 1 .. m + 1 :
                             FirstOf(r, i)' => r \in DOMAIN outputs'[i].prompt
                        /\ InFlight(r)' \/ r \in awaited' \/ job[r].status = "waiting"
      BY <1>1, <1>7, <2>1 DEF Promised
    <3>1. /\ \A i \in 1 .. m : FirstOf(r, i) => r \in DOMAIN outputs[i].prompt
          /\ InFlight(r) \/ r \in awaited \/ job[r].status = "waiting"
      BY <1>1, <1>7, <2>1 DEF Promised
    <3>2. \A i \in 1 .. m : FirstOf(r, i)' => FirstOf(r, i) /\ outputs'[i] = outputs[i]
      <4>1. ASSUME NEW i \in 1 .. m PROVE \A j \in 1 .. i - 1 : j \in 1 .. m
        BY <1>6
      <4> QED BY <1>7, <4>1 DEF FirstOf
    <3>3. FirstOf(r, m + 1)' => ~InFlight(r) /\ o.k[r] # 0
      <4>1. 1 .. (m + 1) - 1 = 1 .. m
        BY <1>6
      <4>2. FirstOf(r, m + 1)' => o.k[r] # 0 /\ \A j \in 1 .. m : outputs[j].k[r] = 0
        <5> SUFFICES ASSUME FirstOf(r, m + 1)'
                     PROVE  o.k[r] # 0 /\ \A j \in 1 .. m : outputs[j].k[r] = 0
          OBVIOUS
        <5>1. outputs'[m + 1].k[r] # 0 /\ \A j \in 1 .. (m + 1) - 1 : outputs'[j].k[r] = 0
          BY DEF FirstOf
        <5> QED BY <1>7, <4>1, <5>1
      <4> QED BY <1>7, <4>2 DEF InFlight
    <3>4. ~InFlight(r) /\ o.k[r] # 0 => r \in Complete
      <4>1. o.k[r] # 0 => r \in Planned /\ r \notin plan.chunk
        BY <1>5
      <4>2. r \in Planned => job[r].status # "waiting"
        BY <1>2 DEF PlanAccount
      <4> QED BY <1>11, <3>1, <4>1, <4>2
    <3>5. DOMAIN o.prompt = Complete
      BY <1>4
    <3>6. r \in Complete => o.k[r] # 0
      BY <1>12
    <3>7. ASSUME NEW i \in 1 .. m + 1, FirstOf(r, i)'
          PROVE  r \in DOMAIN outputs'[i].prompt
      <4>1. CASE i \in 1 .. m
        BY <3>1, <3>2, <3>7, <4>1
      <4>2. CASE i = m + 1
        BY <1>7, <3>3, <3>4, <3>5, <3>7, <4>2
      <4> QED BY <1>7, <4>1, <4>2
    <3>8. r \in awaited => r \in awaited' \/ r \in Complete
      BY <1>1
    <3> QED BY <1>9, <3>1, <3>6, <3>7, <3>8
  <2> QED BY <2>3, <2>4, <2>5, <2>6 DEF PromptAccount
<1> QED BY <1>1, <1>13, <1>14 DEF PromptInv

\* The answer of an empty step.
LEMMA AnswerEmptyPrompts ==
  ASSUME RunnerInv, PromptInv, AnswerEmpty
  PROVE  PromptInv'
<1> USE DEF hostVars, promptVars, gpuVars, history
<1> DEFINE o == [n |-> None, d |-> None, prompt |-> <<>>, k |-> None]
           m == Len(outputs)
<1>1. /\ pc = "answer" /\ pc' = "idle" /\ outputs' = Append(outputs, o)
      /\ plan' = NoPlan /\ UNCHANGED <<job, last, awaited, logprobs, kv>>
  BY DEF AnswerEmpty
<1>2. o.prompt = <<>> /\ DOMAIN o.prompt = {} /\ \A r \in Req : o.k[r] = 0
  BY DEF None
<1> HIDE DEF o
<1>3. outputs \in Seq(Outputs) /\ m \in Nat
  BY DEF RunnerInv, RunnerTypes
<1>4. /\ DOMAIN outputs = 1 .. m /\ DOMAIN outputs' = 1 .. m + 1
      /\ outputs'[m + 1] = o /\ \A i \in 1 .. m : outputs'[i] = outputs[i]
      /\ m + 1 \in 1 .. m + 1
      /\ 1 .. m \subseteq 1 .. m + 1
      /\ \A i \in 1 .. m + 1 : i \in 1 .. m \/ i = m + 1
  BY <1>1, <1>3
<1> HIDE DEF m
<1>5. SentWhole'
  BY <1>2, <1>4 DEF PromptInv, SentWhole
<1>6. plan'.new = {} /\ plan.new = {}
  BY <1>1 DEF NoPlan, RunnerInv, PlanAccount, Admitted
<1>7. ASSUME NEW r \in Req PROVE PromptAccount(r)'
  <2>1. Unsampled(r) /\ NoRow(r) /\ Filled(r) /\ Promised(r)
    BY DEF PromptInv, PromptAccount
  <2>2. InFlight(r)' <=> InFlight(r)
    <3>1. InFlight(r)' => InFlight(r)
      BY <1>2, <1>4 DEF InFlight
    <3>2. InFlight(r) => InFlight(r)'
      BY <1>4 DEF InFlight
    <3> QED BY <3>1, <3>2
  <2>3. \A i \in 1 .. m + 1 : FirstOf(r, i)' => i \in 1 .. m /\ FirstOf(r, i) /\ outputs'[i] = outputs[i]
    <3>1. ASSUME NEW i \in 1 .. m PROVE \A j \in 1 .. i - 1 : j \in 1 .. m
      BY <1>3 DEF m
    <3> QED BY <1>2, <1>4, <3>1 DEF FirstOf
  <2>4. Unsampled(r)' /\ NoRow(r)' /\ Filled(r)'
    BY <1>1, <1>6, <2>1, <2>2 DEF Unsampled, NoRow, Filled
  <2>5. Promised(r)'
    BY <1>1, <1>4, <1>6, <2>1, <2>2, <2>3 DEF Promised
  <2> QED BY <2>4, <2>5 DEF PromptAccount
<1> QED BY <1>1, <1>5, <1>7 DEF PromptInv

\* Once a first token is taken, the scheduler knows more than the prompt.
LEMMA UpdateFromOutputPrompts ==
  ASSUME RunnerInv, PromptInv, UpdateFromOutput
  PROVE  PromptInv'
<1> USE DEF hostVars, promptVars, gpuVars, history
<1>1. /\ pc = "idle" /\ pc' = "idle" /\ outputs # <<>> /\ outputs' = Tail(outputs)
      /\ UNCHANGED <<plan, last, awaited, logprobs, kv>>
  BY DEF UpdateFromOutput
<1>2. RunnerTypes /\ OutputsAccount /\ NumSpec \in Nat /\ plan = NoPlan
  BY <1>1, RunnerAssumption DEF RunnerInv, PlanAccount
<1>3. PICK stops \in SUBSET Req, length \in 0 .. NumSpec :
        job' = [r \in Req |-> IF r \in stops THEN Ended ELSE Taken(r, Head(outputs), length)]
  <2>1. \E stops \in SUBSET {r \in Req : Head(outputs).k[r] # 0}, length \in 0 .. NumSpec :
          job' = [r \in Req |-> IF r \in stops THEN Ended ELSE Taken(r, Head(outputs), length)]
    BY DEF UpdateFromOutput
  <2> QED BY <2>1
<1>4. \A i \in DOMAIN outputs' : i + 1 \in DOMAIN outputs /\ outputs'[i] = outputs[i + 1]
  <2>1. /\ outputs \in Seq(Outputs) /\ Len(outputs) \in Nat /\ outputs' \in Seq(Outputs)
        /\ Len(outputs') = Len(outputs) - 1
        /\ \A i \in 1 .. Len(outputs) - 1 : outputs'[i] = outputs[i + 1]
    BY <1>1, <1>2, HeadTailProperties DEF RunnerTypes
  <2>2. DOMAIN outputs = 1 .. Len(outputs) /\ DOMAIN outputs' = 1 .. Len(outputs) - 1
    BY <2>1
  <2> QED BY <2>1, <2>2
<1>5. SentWhole'
  BY <1>4 DEF PromptInv, SentWhole
<1>6. plan.new = {} /\ plan'.new = {}
  BY <1>1, <1>2 DEF NoPlan
<1>7. ASSUME NEW r \in Req PROVE PromptAccount(r)'
  <2> DEFINE h == outputs[1]
             q == job[r]
             d == h.d[r]
             k == h.k[r]
  <2>1. /\ Head(outputs) = h /\ 1 \in DOMAIN outputs /\ k \in Nat /\ d \in Nat
        /\ InFlight(r) <=> k # 0 \/ InFlight(r)'
    BY <1>1, <1>2, OldestTaken
  <2>2. Unsampled(r) /\ NoRow(r) /\ Filled(r) /\ Promised(r) /\ q \in Jobs
    BY <1>2 DEF PromptInv, PromptAccount, RunnerTypes
  <2>3. job'[r] = IF r \in stops THEN Ended ELSE Taken(r, h, length)
    BY <1>3, <2>1
  <2>4. \/ job'[r] = Ended
        \/ job'[r] = q /\ (q.status = "done" \/ k = 0)
        \/ q.status # "done" /\ k # 0 /\ job'[r] = AfterOutput(q, d, k, length)
    BY <2>3 DEF Taken, AfterOutput
  <2>5. \/ job'[r].status = "done" /\ job'[r].known = 0
        \/ job'[r] = q /\ q.status # "done" /\ k = 0
        \/ /\ q.status # "done" /\ k # 0
           /\ job'[r].status = q.status /\ job'[r].known = q.known + k
    <3>1. Ended.status = "done" /\ Ended.known = 0
      BY DEF Ended
    <3>2. q.status = "done" => q.known = 0
      BY <2>2 DEF Promised
    <3>3. /\ AfterOutput(q, d, k, length).status = q.status
          /\ AfterOutput(q, d, k, length).known = q.known + k
      <4>1. q \in Jobs /\ d \in Nat /\ k \in Nat /\ length \in Nat
        BY <1>2, <2>1, <2>2
      <4> HIDE DEF q, d, k, h
      <4> QED BY <4>1, AfterOutputIs
    <3> HIDE DEF q, d, k, h
    <3> QED BY <2>4, <3>1, <3>2, <3>3
  <2>6. Filled(r)'
    BY <1>1, <1>6, <2>2 DEF Filled
  <2>7. q.known \in Int /\ PromptLen[r] \in Nat
    BY <2>2, RunnerAssumption DEF Jobs
  <2>8. k # 0 /\ q.status # "done" => r \notin awaited /\ q.status # "waiting"
    <3>1. RunnerInv /\ JobAccount(r)
      BY DEF RunnerInv
    <3> QED BY <2>1, <2>2, <3>1 DEF Unsampled, JobAccount, WaitingAccount
  <2>9. CASE job'[r].status = "done" /\ job'[r].known = 0
    <3>1. Unsampled(r)' /\ NoRow(r)' /\ Promised(r)'
      BY <1>1, <1>6, <2>2, <2>9 DEF Unsampled, NoRow, Promised
    <3> QED BY <2>6, <3>1 DEF PromptAccount
  <2>10. CASE job'[r] = q /\ q.status # "done" /\ k = 0
    <3>1. Unsampled(r)' /\ NoRow(r)'
      BY <1>1, <1>6, <2>1, <2>2, <2>10 DEF Unsampled, NoRow
    <3>2. ASSUME NEW i \in DOMAIN outputs', FirstOf(r, i)' PROVE FirstOf(r, i + 1)
      <4>1. i + 1 \in DOMAIN outputs /\ outputs'[i] = outputs[i + 1] /\ i \in Nat \ {0}
            /\ DOMAIN outputs' = 1 .. Len(outputs') /\ Len(outputs') \in Nat
        <5>1. outputs' \in Seq(Outputs)
          BY <1>1, <1>2, OldestTaken
        <5> QED BY <1>4, <3>2, <5>1
      <4>2. ASSUME NEW j \in 1 .. (i + 1) - 1 PROVE outputs[j].k[r] = 0
        <5>1. CASE j = 1
          BY <2>10, <5>1
        <5>2. CASE j # 1
          <6>1. j - 1 \in 1 .. i - 1 /\ j - 1 \in 1 .. Len(outputs') /\ (j - 1) + 1 = j
            BY <4>1, <4>2, <5>2
          <6>2. outputs'[j - 1] = outputs[j]
            BY <1>4, <4>1, <6>1
          <6>3. outputs'[j - 1].k[r] = 0
            BY <3>2, <6>1 DEF FirstOf
          <6> QED BY <6>2, <6>3
        <5> QED BY <5>1, <5>2
      <4> QED BY <3>2, <4>1, <4>2 DEF FirstOf
    <3>3. Promised(r)'
      <4> HIDE DEF h, k, d
      <4> QED BY <1>1, <1>4, <1>6, <2>1, <2>2, <2>10, <3>2 DEF Promised
    <3> QED BY <2>6, <3>1, <3>3 DEF PromptAccount
  <2>11. CASE q.status # "done" /\ k # 0 /\ job'[r].status = q.status /\ job'[r].known = q.known + k
    <3>1. r \notin awaited' /\ job'[r].status # "waiting" /\ r \notin plan'.new
      BY <1>1, <1>6, <2>8, <2>11
    <3>2. Unsampled(r)' /\ NoRow(r)'
      BY <3>1 DEF Unsampled, NoRow
    <3>3. q.known >= PromptLen[r]
      BY <2>2, <2>11 DEF Promised
    <3>4. job'[r].known > PromptLen[r]
      <4> HIDE DEF q, k, h, d
      <4> QED BY <2>1, <2>7, <2>11, <3>3
    <3>5. job'[r].known >= PromptLen[r] /\ job'[r].known # PromptLen[r]
      <4>1. job'[r].known \in Int
        <5> HIDE DEF q, k, h, d
        <5> QED BY <2>1, <2>7, <2>11
      <4> QED BY <2>7, <3>4, <4>1
    <3>6. Promised(r)'
      BY <2>11, <3>5 DEF Promised
    <3> QED BY <2>6, <3>2, <3>6 DEF PromptAccount
  <2> QED BY <2>5, <2>9, <2>10, <2>11
<1> QED BY <1>1, <1>5, <1>7 DEF PromptInv

\* Every step keeps the account of prompt logprobs.
LEMMA NextPrompts ==
  ASSUME RunnerInv, PromptInv, [Next]_vars
  PROVE  PromptInv'
<1>1. CASE UNCHANGED vars
  <2>1. UNCHANGED <<job, plan, pc, outputs, cache, awaited, logprobs, last, kv>>
    BY <1>1 DEF vars, schedVars, hostVars, promptVars, gpuVars, history
  <2>2. Planned' = Planned /\ (SentWhole' <=> SentWhole)
    BY <2>1 DEF Planned, SentWhole
  <2>3. ASSUME NEW r \in Req PROVE PromptAccount(r)' <=> PromptAccount(r)
    BY <2>1, SameOutputs DEF PromptAccount, Unsampled, NoRow, Filled, Promised, FirstOf
  <2> QED BY <2>1, <2>2, <2>3 DEF PromptInv
<1>2. CASE StartPlan \/ \E r \in Req : PlanRunning(r)
  BY <1>2, PlanPrompts
<1>3. CASE ResetPrefixCache \/ \E r \in Req : Preempt(r)
  BY <1>3, PreemptPrompts
<1>4. CASE \E r \in Req : Admit(r) \/ FinishRequest(r)
  BY <1>4, AdmitPrompts, FinishPrompts
<1>5. CASE SendStep
  BY <1>5, SendStepPrompts
<1>6. CASE UpdateStates
  BY <1>6, UpdateStatesPrompts
<1>7. CASE PrepareInputs
  BY <1>7, PrepareInputsPrompts
<1>8. CASE CorrectCounts
  BY <1>8, CorrectCountsPrompts
<1>9. CASE SampleTokens
  BY <1>9, SampleTokensPrompts
<1>10. CASE AnswerEmpty
  BY <1>10, AnswerEmptyPrompts
<1>11. CASE UpdateFromOutput
  BY <1>11, UpdateFromOutputPrompts
<1> QED BY <1>1, <1>2, <1>3, <1>4, <1>5, <1>6, <1>7, <1>8, <1>9, <1>10, <1>11 DEF Next

\* Prompt logprobs come once and whole, with the first token of their request, however the
\* prompt was cut into chunks and however often it was preempted (update_from_output).
THEOREM PromptsWhole == Spec => []PromptLogprobsWhole
<1>1. Init => RunnerInv /\ PromptInv
  BY InitRunner, InitPrompts
<1>2. RunnerInv /\ PromptInv /\ [Next]_vars => RunnerInv' /\ PromptInv'
  BY NextRunner, NextPrompts
<1>3. RunnerInv /\ PromptInv => PromptLogprobsWhole
  <2> SUFFICES ASSUME RunnerInv, PromptInv PROVE PromptLogprobsWhole
    OBVIOUS
  <2>1. ASSUME outputs # <<>>, NEW r \in WantsLogprobs,
               job[r].known = PromptLen[r], Head(outputs).k[r] # 0
        PROVE  r \in DOMAIN Head(outputs).prompt
    <3>1. r \in Req /\ PromptLen[r] \in Nat \ {0}
      BY RunnerAssumption
    <3>2. outputs \in Seq(Outputs)
      BY DEF RunnerInv, RunnerTypes
    <3>3. Head(outputs) = outputs[1] /\ 1 \in DOMAIN outputs
      BY <2>1, <3>2, HeadTailProperties
    <3>4. FirstOf(r, 1)
      BY <2>1, <3>3 DEF FirstOf
    <3>5. Promised(r)
      BY <3>1 DEF PromptInv, PromptAccount
    <3> QED BY <2>1, <3>1, <3>3, <3>4, <3>5 DEF Promised
  <2> QED BY <2>1 DEF PromptLogprobsWhole, PromptInv, SentWhole
<1> QED BY <1>1, <1>2, <1>3, PTL DEF Spec

===============================================================================
