------------------------------ MODULE RemoteKV ------------------------------
(***************************************************************************)
(* The scheduler with a KV connector (v1/core/sched/scheduler.py): blocks   *)
(* whose KV is loaded from elsewhere, in the background or within the step, *)
(* loads that fail, and blocks that stay held until a transfer has ended.  *)
(*                                                                         *)
(* One step is in flight at a time: schedule(), the worker's forward pass,  *)
(* update_from_output().  The loops of schedule() are unrolled as in       *)
(* AsyncScheduler, pc saying which one runs; policy FCFS.  Every request   *)
(* wants one token (max_tokens = 1): what matters here is its prompt.      *)
(*                                                                         *)
(* The connector, the block pool and the worker are external: transfers    *)
(* end in any order and at any time, any of their blocks may fail, and the *)
(* pool hands out any free blocks.  kv says what each block really holds.  *)
(***************************************************************************)
EXTENDS Integers, FiniteSets, SequencesExt

CONSTANTS
  Req,              \* request ids
  Prompt,           \* [Req -> ...]: requests with equal prompts share prefixes
  Length,           \* [Req -> Nat]: num_tokens
  BlockSize,
  Blocks,           \* the KV cache: a set of integers
  MaxNumRunningReqs,
  TokenBudget,      \* max_num_scheduled_tokens
  ReserveFullIsl,   \* scheduler_reserve_full_isl
  LoadModes,        \* subset of {"async", "sync"}: how the connector may load
  Policies,         \* subset of {"recompute", "fail"}: kv_load_failure_policy
  NoLoad

\* A transfer in the background: its blocks, and the span of positions it is about.
Loads ==
  [kind : {"recv", "received", "send", "sent"}, tbl : Seq(Blocks), from : Nat, to : Nat,
   failed : SUBSET Blocks]

ASSUME ConstantsAssumption ==
  /\ IsFiniteSet(Req)
  /\ Length \in [Req -> Nat \ {0}]
  /\ DOMAIN Prompt = Req
  /\ BlockSize \in Nat \ {0}
  /\ Blocks \subseteq Nat /\ IsFiniteSet(Blocks)
  /\ MaxNumRunningReqs \in Nat \ {0}
  /\ TokenBudget \in Nat \ {0}
  /\ ReserveFullIsl \in BOOLEAN
  /\ LoadModes \subseteq {"async", "sync"}
  /\ Policies \subseteq {"recompute", "fail"}
  /\ NoLoad \notin Loads

VARIABLES
  \* The scheduler.
  status,       \* request.status; "HELD" is finished but still in self.requests
  computed,     \* request.num_computed_tokens
  table,        \* the request's blocks, in order
  preemptions,  \* requests with num_preemptions > 0
  waiting, skipped, running,         \* the queues
  finishedRecving, failedRecving,    \* finished_/failed_recving_kv_req_ids
  cached,       \* the prefix cache: the tokens each block is found under
  policy,       \* recompute_kv_load_failures
  \* One call of schedule().
  pc, idx, budget, sched, stepSkipped, preempted,
  \* The worker, its connector and the memory.
  step,         \* what the step in flight was told
  out,          \* its KVConnectorOutput
  load,         \* per request: the transfer in the background, or NoLoad
  errors,       \* blocks that failed and are not reported yet
  kv,           \* the tokens whose KV each block really holds
  \* History.
  syncFailed,   \* a load within a step has failed
  badOutputs    \* requests given a token that was sampled from wrong KV

queueVars  == <<waiting, skipped, running>>
recvVars   == <<finishedRecving, failedRecving>>
planVars   == <<pc, idx, budget, sched, stepSkipped, preempted>>
workerVars == <<step, out, load, errors, kv>>
history    == <<syncFailed, badOutputs>>
vars == <<status, computed, table, preemptions, queueVars, recvVars, cached, policy,
          planVars, workerVars, history>>

-----------------------------------------------------------------------------
InQueues == {"WAITING", "WAITING_FOR_REMOTE_KVS", "PREEMPTED", "RUNNING"}
Status == InQueues \cup {"ABSENT", "HELD", "GONE"}

Lesser(a, b) == IF a <= b THEN a ELSE b
CeilDiv(n) == (n + BlockSize - 1) \div BlockSize

\* The tokens of block number i of r's prompt; in the prefix cache, its hash.
TokensOf(r, i) == {<<Prompt[r], pos>> : pos \in (i - 1) * BlockSize .. i * BlockSize - 1}

Free == Blocks \ UNION {Range(table[r]) : r \in Req}

\* The k blocks the pool may hand out: any, and of free blocks that are alike in what
\* they hold and are cached as, the lowest.
Fresh(k, found) ==
  {set \in kSubset(k, Free \ found) :
     \A b \in set, c \in Free \ (found \cup set) :
       cached[b] = cached[c] /\ kv[b] = kv[c] => b < c}

Ordered(set) ==
  CHOOSE list \in [1 .. Cardinality(set) -> set] :
    \A i, j \in DOMAIN list : i < j => list[i] < list[j]

\* The members of a list that are in a set, in their order.
Only(list, set) ==
  LET places == Ordered({i \in DOMAIN list : list[i] \in set})
  IN  [k \in DOMAIN places |-> list[places[k]]]

\* The KV of r at positions from .. to - 1 is in the blocks of tbl.
Holds(mem, tbl, r, from, to) ==
  \A pos \in from .. to - 1 : <<Prompt[r], pos>> \in mem[tbl[pos \div BlockSize + 1]]

\* r's tokens of a span of positions that belong in block b of tbl.
Written(r, tbl, b, from, to) ==
  {<<Prompt[r], pos>> : pos \in {p \in from .. to - 1 : tbl[p \div BlockSize + 1] = b}}

\* cache_blocks: the full blocks among the first n tokens become findable.
CacheBlocks(map, r, tbl, n) ==
  [b \in Blocks |->
     IF \E i \in 1 .. n \div BlockSize : tbl[i] = b
     THEN TokensOf(r, CHOOSE i \in 1 .. n \div BlockSize : tbl[i] = b)
     ELSE map[b]]

\* Fresh blocks leave the cache, and what is in them belongs to nobody.
Emptied(map, fresh) == [b \in Blocks |-> IF b \in fresh THEN {} ELSE map[b]]

\* get_computed_blocks: chains of cached blocks, never the whole prompt.
Hits(r) ==
  LET most == (Length[r] - 1) \div BlockSize
      Chains(n) == {c \in [1 .. n -> Blocks] : \A i \in 1 .. n : cached[c[i]] = TokensOf(r, i)}
      longest == CHOOSE n \in 0 .. most :
                   Chains(n) # {} /\ (n < most => Chains(n + 1) = {})
  IN  Chains(longest)

NoStep ==
  [n |-> [r \in Req |-> 0], start |-> [r \in Req |-> 0], tbl |-> [r \in Req |-> <<>>],
   ext |-> [r \in Req |-> 0], bad |-> {}]

NoOutput == [invalid |-> {}, recv |-> {}, sent |-> {}]

-----------------------------------------------------------------------------
Init ==
  /\ status = [r \in Req |-> "ABSENT"]
  /\ computed = [r \in Req |-> 0]
  /\ table = [r \in Req |-> <<>>]
  /\ preemptions = {}
  /\ waiting = <<>> /\ skipped = <<>> /\ running = <<>>
  /\ finishedRecving = {} /\ failedRecving = {}
  /\ cached = [b \in Blocks |-> {}]
  /\ policy \in Policies
  /\ pc = "idle" /\ idx = 1 /\ budget = 0
  /\ sched = NoStep.n /\ stepSkipped = <<>> /\ preempted = FALSE
  /\ step = NoStep
  /\ out = NoOutput
  /\ load = [r \in Req |-> NoLoad]
  /\ errors = {}
  /\ kv = cached
  /\ syncFailed = FALSE
  /\ badOutputs = {}

\* add_request; ids are not used again.
AddRequest(r) ==
  /\ pc = "idle"
  /\ status[r] = "ABSENT"
  /\ status' = [status EXCEPT ![r] = "WAITING"]
  /\ waiting' = Append(waiting, r)
  /\ UNCHANGED <<computed, table, preemptions, skipped, running, recvVars, cached, policy,
                 planVars, workerVars, history>>

-----------------------------------------------------------------------------
(* schedule(): the RUNNING loop.                                           *)

\* Mutant: the engine stops when no queue holds a request.
HasUnfinishedRequests == \E r \in Req : status[r] \in InQueues

\* The engine goes on stepping while a request is queued (has_requests) or held
\* for the connector (has_finished_requests).
HasRequests == \E r \in Req : status[r] \in InQueues \cup {"HELD"}

BeginSchedule ==
  /\ pc = "idle"
  /\ HasRequests
  /\ pc' = "running"
  /\ idx' = 1
  /\ budget' = TokenBudget
  /\ UNCHANGED <<status, computed, table, preemptions, queueVars, recvVars, cached, policy,
                 sched, stepSkipped, preempted, workerVars, history>>

NumNewRunning(r) == Lesser(Length[r] - computed[r], budget)

\* Blocks r has yet to get for its first n tokens.
Missing(tbl, n) == LET short == CeilDiv(n) - Len(tbl) IN IF short > 0 THEN short ELSE 0

ScheduleRunning ==
  /\ pc = "running"
  /\ idx <= Len(running) /\ budget > 0
  /\ LET r == running[idx]
         n == computed[r] + NumNewRunning(r)
     IN  \E fresh \in Fresh(Missing(table[r], n), {}) :
           /\ table' = [table EXCEPT ![r] = @ \o Ordered(fresh)]
           /\ cached' = CacheBlocks(Emptied(cached, fresh), r, table'[r], n)
           /\ kv' = Emptied(kv, fresh)
           /\ sched' = [sched EXCEPT ![r] = NumNewRunning(r)]
           /\ budget' = budget - NumNewRunning(r)
  /\ idx' = idx + 1
  /\ UNCHANGED <<status, computed, preemptions, queueVars, recvVars, policy, pc, stepSkipped,
                 preempted, step, out, load, errors, history>>

\* No room: the last running request is forced out; if that is the request
\* itself, the loop ends.
PreemptFor ==
  /\ pc = "running"
  /\ idx <= Len(running) /\ budget > 0
  /\ LET r == running[idx]
         victim == Last(running)
     IN  /\ Missing(table[r], computed[r] + NumNewRunning(r)) > Cardinality(Free)
         /\ running' = Front(running)
         /\ status' = [status EXCEPT ![victim] = "PREEMPTED"]
         /\ computed' = [computed EXCEPT ![victim] = 0]
         /\ table' = [table EXCEPT ![victim] = <<>>]
         /\ preemptions' = preemptions \cup {victim}
         /\ waiting' = <<victim>> \o waiting
         /\ pc' = IF victim = r THEN "commit" ELSE pc
  /\ preempted' = TRUE
  /\ UNCHANGED <<skipped, recvVars, cached, policy, idx, budget, sched, stepSkipped,
                 workerVars, history>>

EndRunning ==
  /\ pc = "running"
  /\ idx > Len(running) \/ budget = 0
  /\ pc' = IF preempted THEN "commit" ELSE "waiting"
  /\ UNCHANGED <<status, computed, table, preemptions, queueVars, recvVars, cached, policy,
                 idx, budget, sched, stepSkipped, preempted, workerVars, history>>

-----------------------------------------------------------------------------
(* schedule(): the WAITING loop.                                           *)

\* _select_waiting_queue_for_scheduling and peek_request.
HeadRequest == Head(skipped \o waiting)

Looking ==
  /\ pc = "waiting"
  /\ skipped \o waiting # <<>>
  /\ budget > 0
  /\ Len(running) < MaxNumRunningReqs

\* pop_request from the queue the request was peeked in.
Popped ==
  /\ skipped' = IF skipped # <<>> THEN Tail(skipped) ELSE skipped
  /\ waiting' = IF skipped # <<>> THEN waiting ELSE Tail(waiting)

\* Skipped in this step: the transfer is not over, or the connector cannot say yet
\* how many tokens it has.
SkipWaiting ==
  /\ Looking
  /\ LET r == HeadRequest
     IN  /\ \/ status[r] = "WAITING_FOR_REMOTE_KVS" /\ r \notin finishedRecving
            \/ status[r] \in {"WAITING", "PREEMPTED"} /\ computed[r] = 0
         /\ stepSkipped' = Append(stepSkipped, r)
  /\ Popped
  /\ UNCHANGED <<status, computed, table, preemptions, running, recvVars, cached, policy,
                 pc, idx, budget, sched, preempted, workerVars, history>>

\* Mutant: after a failed load the whole span is cached, not its valid part.
CachedAfterLoadAll(r) ==
  CacheBlocks(cached, r, table[r], Len(table[r]) * BlockSize)

\* _update_waiting_for_remote_kv: the blocks a load has filled become findable.
CachedAfterLoad(r) == CacheBlocks(cached, r, table[r], computed[r])

\* _try_promote_blocked_waiting_request.
Promote ==
  /\ Looking
  /\ LET r == HeadRequest
         failed == r \in failedRecving
     IN  /\ status[r] = "WAITING_FOR_REMOTE_KVS"
         /\ r \in finishedRecving
         /\ cached' = CachedAfterLoad(r)
         /\ table' = [table EXCEPT ![r] = IF failed /\ computed[r] = 0 THEN <<>> ELSE @]
         /\ computed' = [computed EXCEPT ![r] =
                           IF ~failed /\ @ = Length[r] THEN @ - 1 ELSE @]
         /\ status' = [status EXCEPT ![r] =
                         IF r \in preemptions THEN "PREEMPTED" ELSE "WAITING"]
         /\ finishedRecving' = finishedRecving \ {r}
         /\ failedRecving' = failedRecving \ {r}
  /\ UNCHANGED <<preemptions, queueVars, policy, planVars, workerVars, history>>

\* get_num_new_matched_tokens: up to where the connector may cover the prompt, and
\* how it loads.  A load within the step leaves a token to compute.
Offers(r, local) ==
  {<<local, "none">>} \cup
  {o \in (local + 1 .. Length[r]) \X LoadModes :
     /\ o[1] % BlockSize = 0 \/ o[1] = Length[r]
     /\ o[2] = "sync" => o[1] < Length[r]}

\* Where r may start: what it already has, or what is cached here and elsewhere.
Lookups(r) ==
  IF computed[r] # 0
  THEN {[tbl |-> table[r], local |-> computed[r], total |-> computed[r], mode |-> "none"]}
  ELSE UNION {{[tbl |-> c, local |-> Len(c) * BlockSize, total |-> o[1], mode |-> o[2]] :
                 o \in Offers(r, Len(c) * BlockSize)} : c \in Hits(r)}

\* Mutant: blocks are cached as soon as they are allocated, loaded or not.
CacheAtOnce(mode) == TRUE

\* delay_cache_blocks = load_kv_async
CacheNow(mode) == mode # "async"

NumNewWaiting(r, look) ==
  IF look.mode = "async" THEN 0 ELSE Lesser(Length[r] - look.total, budget)

\* Blocks allocate_slots takes, and with full_sequence_must_fit those it asks for.
Wanted(r, look) == Missing(look.tbl, look.total + NumNewWaiting(r, look))

Fits(r, look) ==
  (IF ReserveFullIsl THEN Missing(look.tbl, Length[r]) ELSE Wanted(r, look))
    <= Cardinality(Free \ Range(look.tbl))

\* Blocks for the request; then it runs, or waits for its KV with the blocks its.
Admit ==
  /\ Looking
  /\ LET r == HeadRequest
     IN  /\ status[r] \in {"WAITING", "PREEMPTED"}
         /\ \E look \in {l \in Lookups(r) : Fits(r, l)} :
            \E fresh \in Fresh(Wanted(r, look), Range(look.tbl)) :
              LET n == NumNewWaiting(r, look)
              IN
              /\ table' = [table EXCEPT ![r] = look.tbl \o Ordered(fresh)]
              /\ kv' = Emptied(kv, fresh)
              /\ cached' = IF CacheNow(look.mode)
                           THEN CacheBlocks(Emptied(cached, fresh), r, table'[r], look.total + n)
                           ELSE Emptied(cached, fresh)
              /\ computed' = [computed EXCEPT ![r] = look.total]
              /\ IF look.mode = "async"
                 THEN /\ status' = [status EXCEPT ![r] = "WAITING_FOR_REMOTE_KVS"]
                      /\ stepSkipped' = Append(stepSkipped, r)
                      /\ load' = [load EXCEPT ![r] =
                           [kind |-> "recv", tbl |-> table'[r], from |-> look.local,
                            to |-> look.total, failed |-> {}]]
                      /\ UNCHANGED <<running, sched, budget, step>>
                 ELSE /\ status' = [status EXCEPT ![r] = "RUNNING"]
                      /\ running' = Append(running, r)
                      /\ sched' = [sched EXCEPT ![r] = n]
                      /\ budget' = budget - n
                      /\ step' = [step EXCEPT !.ext[r] = look.total - look.local]
                      /\ UNCHANGED <<stepSkipped, load>>
  /\ Popped
  /\ UNCHANGED <<preemptions, recvVars, policy, pc, idx, preempted, out, errors, history>>

\* The loop ends: nothing to look at, or no blocks for the head of the queue.
EndWaiting ==
  /\ pc = "waiting"
  /\ Looking => LET r == HeadRequest
                IN  /\ status[r] \in {"WAITING", "PREEMPTED"}
                    /\ \E look \in Lookups(r) : ~Fits(r, look)
  /\ pc' = "commit"
  /\ UNCHANGED <<status, computed, table, preemptions, queueVars, recvVars, cached, policy,
                 idx, budget, sched, stepSkipped, preempted, workerVars, history>>

\* The skipped requests go ahead of older ones, the step is sent, and
\* _update_after_schedule advances the computed tokens.
Commit ==
  /\ pc = "commit"
  /\ pc' = "worker"
  /\ skipped' = stepSkipped \o skipped
  /\ stepSkipped' = <<>>
  /\ computed' = [r \in Req |-> computed[r] + sched[r]]
  /\ step' = [step EXCEPT !.n = sched, !.start = computed, !.tbl = table]
  /\ idx' = 1 /\ budget' = 0 /\ preempted' = FALSE
  /\ sched' = NoStep.n
  /\ UNCHANGED <<status, table, preemptions, waiting, running, recvVars, cached, policy,
                 out, load, errors, kv, history>>

-----------------------------------------------------------------------------
(* The worker and its connector.                                           *)

Loading == {r \in Req : load[r] # NoLoad /\ load[r].kind = "recv"}
Sending == {r \in Req : load[r] # NoLoad /\ load[r].kind = "send"}

\* The blocks a transfer reads or writes.
Target(r) ==
  {load[r].tbl[pos \div BlockSize + 1] : pos \in load[r].from .. load[r].to - 1}

\* A block of a transfer is lost; the next step reports it.  Transfers go on at any
\* time, but nobody sees what they do before the step runs.
BlockFails(r, b) ==
  /\ pc = "worker"
  /\ r \in Loading
  /\ b \in Target(r) \ load[r].failed
  /\ errors' = errors \cup {b}
  /\ load' = [load EXCEPT ![r].failed = @ \cup {b}]
  /\ UNCHANGED <<status, computed, table, preemptions, queueVars, recvVars, cached, policy,
                 planVars, step, out, kv, history>>

\* A transfer ends: what did not fail is there.  The next step reports it.
TransferEnds(r) ==
  /\ pc = "worker"
  /\ r \in Loading \cup Sending
  /\ load' = [load EXCEPT ![r].kind = IF r \in Loading THEN "received" ELSE "sent"]
  /\ kv' = IF r \in Sending THEN kv
           ELSE [b \in Blocks |->
                   IF b \in Target(r) \ load[r].failed
                   THEN kv[b] \cup Written(r, load[r].tbl, b, load[r].from, load[r].to)
                   ELSE kv[b]]
  /\ UNCHANGED <<status, computed, table, preemptions, queueVars, recvVars, cached, policy,
                 planVars, step, out, errors, history>>

\* Tokens the blocks hold after the step, if the loads in lost fail and the
\* requests in bad compute from wrong KV: what these write is wrong too.
AfterStep(lost, bad) ==
  [b \in Blocks |->
     LET touched(r, from) == Written(r, step.tbl[r], b, from, step.start[r] + step.n[r])
         loaded(r) == IF b \in lost THEN {} ELSE
                        Written(r, step.tbl[r], b, step.start[r] - step.ext[r], step.start[r])
         inStep == {r \in Req : step.n[r] # 0}
     IN  (kv[b] \ UNION {touched(r, step.start[r] - step.ext[r]) : r \in inStep})
           \cup (UNION {loaded(r) : r \in inStep})
           \cup (UNION {touched(r, step.start[r]) : r \in inStep \ bad})]

\* Requests of the step that read wrong KV, directly or from one another.
WrongReaders(lost) ==
  LET readers[n \in 0 .. Cardinality(Req)] ==
        IF n = 0 THEN {}
        ELSE {r \in Req : step.n[r] # 0
                /\ ~Holds(AfterStep(lost, readers[n - 1]), step.tbl[r], r, 0, step.start[r])}
  IN  readers[Cardinality(Req)]

\* The blocks this step itself loads.
LoadedInStep ==
  UNION {{step.tbl[r][pos \div BlockSize + 1] :
            pos \in step.start[r] - step.ext[r] .. step.start[r] - 1} :
           r \in {q \in Req : step.n[q] # 0}}

\* The step runs, and the connector reports what failed and what ended.
Execute ==
  /\ pc = "worker"
  /\ pc' = "update"
  /\ \E lost \in SUBSET LoadedInStep :
       /\ step' = [step EXCEPT !.bad = WrongReaders(lost)]
       /\ kv' = AfterStep(lost, step'.bad)
       /\ out' = [invalid |-> errors \cup lost,
                  recv |-> {r \in Req : load[r] # NoLoad /\ load[r].kind = "received"},
                  sent |-> {r \in Req : load[r] # NoLoad /\ load[r].kind = "sent"}]
       /\ syncFailed' = (syncFailed \/ lost # {})
  /\ errors' = {}
  /\ load' = [r \in Req |-> IF r \in out'.recv \cup out'.sent THEN NoLoad ELSE load[r]]
  /\ UNCHANGED <<status, computed, table, preemptions, queueVars, recvVars, cached, policy,
                 idx, budget, sched, stepSkipped, preempted, badOutputs>>

-----------------------------------------------------------------------------
(* update_from_output() and finish_requests().                             *)

\* Mutant: computed tokens are cut at the last failed block, not at the first.
CutAfter(r, fresh) == (CHOOSE i \in fresh : \A j \in fresh : j <= i) * BlockSize - BlockSize

CutAt(r, fresh) == (CHOOSE i \in fresh : \A j \in fresh : i <= j) * BlockSize - BlockSize

\* One request of the loop of _update_requests_with_invalid_blocks.  A failed block
\* that an earlier request has marked counts as computed.
Invalidate(acc, r) ==
  LET done    == acc.computed[r] - step.n[r]
      failing == {i \in 1 .. CeilDiv(done) : table[r][i] \in out.invalid}
      fresh   == {i \in failing : table[r][i] \notin acc.marked}
  IN  IF failing = {} THEN acc
      ELSE [acc EXCEPT
              !.affected = @ \cup {r},
              !.marked   = @ \cup {table[r][i] : i \in fresh},
              !.computed[r] = IF fresh = {} THEN done ELSE CutAt(r, fresh),
              !.evict = IF fresh = {} THEN @
                        ELSE @ \cup {table[r][i] : i \in CutAt(r, fresh) \div BlockSize + 1
                                                          .. Len(table[r])}]

Invalidated(list, counts) ==
  LET after[k \in 0 .. Len(list)] ==
        IF k = 0 THEN [computed |-> counts, affected |-> {}, marked |-> {}, evict |-> {}]
        ELSE Invalidate(after[k - 1], list[k])
  IN  after[Len(list)]

\* delay_free_blocks of a request that is finished from outside: its KV is on its way.
HoldForRecv(r) == status[r] = "WAITING_FOR_REMOTE_KVS" /\ r \notin finishedRecving

\* _free_request for the requests in ended: those in held keep their blocks.
\* The transfers of the requests in sends begin.
Freed(ended, held) ==
  /\ table' = [r \in Req |-> IF r \in ended \ held THEN <<>> ELSE table[r]]
  /\ running' = Only(running, Req \ ended)
  /\ waiting' = Only(waiting, Req \ ended)
  /\ skipped' = Only(skipped, Req \ ended)

\* finish_requests from outside, between two steps or before a step's output is taken.
FinishRequest(r) ==
  /\ pc \in {"idle", "update"}
  /\ status[r] \in InQueues
  /\ status' = [status EXCEPT ![r] = IF HoldForRecv(r) THEN "HELD" ELSE "GONE"]
  /\ Freed({r}, IF HoldForRecv(r) THEN {r} ELSE {})
  /\ finishedRecving' = finishedRecving \ {r}
  /\ failedRecving' = failedRecving \ {r}
  /\ UNCHANGED <<computed, preemptions, cached, policy, planVars, workerVars, history>>

\* _update_from_kv_xfer_finished: blocks held for the connector that it is done with.
Released == {r \in out.recv : status[r] = "HELD"} \cup out.sent

\* _handle_invalid_blocks, then the step's tokens, then the ends of transfers.  A request
\* that stops may have its blocks held while the connector sends them.
UpdateFromOutput ==
  /\ pc = "update"
  /\ pc' = "idle"
  /\ LET remote  == Only(skipped, {r \in Req : status[r] = "WAITING_FOR_REMOTE_KVS"})
         asyncs  == Invalidated(remote, computed)
         syncs   == Invalidated(running, asyncs.computed)
         failed  == asyncs.affected \cup syncs.affected
         errored == IF policy = "fail" THEN failed ELSE {}
         taken   == {r \in Req : step.n[r] # 0 /\ status[r] = "RUNNING"} \ failed
         stopped == {r \in taken : computed[r] = Length[r]}
         ended   == stopped \cup errored
         recving == {r \in ended : HoldForRecv(r)}
     IN  \E sends \in SUBSET stopped :
           LET held == (recving \cup sends) \ out.recv
               gone == (ended \ held) \cup Released
           IN  /\ computed' = syncs.computed
               /\ status' = [r \in Req |-> IF r \in gone THEN "GONE"
                                           ELSE IF r \in held THEN "HELD" ELSE status[r]]
               /\ Freed(ended \cup Released, held)
               /\ load' = [r \in Req |->
                    IF r \in sends
                    THEN [kind |-> "send", tbl |-> table[r], from |-> 0, to |-> Length[r],
                          failed |-> {}]
                    ELSE load[r]]
               /\ finishedRecving' =
                    (finishedRecving \ ended)
                      \cup {r \in out.recv \ ended : status[r] = "WAITING_FOR_REMOTE_KVS"}
               /\ failedRecving' = IF policy = "fail" THEN failedRecving \ ended
                                   ELSE failedRecving \cup asyncs.affected
               /\ cached' = IF policy = "fail" /\ syncs.affected # {}
                            THEN Emptied(cached, syncs.evict) ELSE cached
               /\ badOutputs' = badOutputs \cup (stopped \cap step.bad)
  /\ step' = NoStep
  /\ out' = NoOutput
  /\ UNCHANGED <<preemptions, policy, idx, budget, sched, stepSkipped, preempted, errors, kv,
                 syncFailed>>

-----------------------------------------------------------------------------
Scheduling ==
  \/ BeginSchedule
  \/ ScheduleRunning
  \/ PreemptFor
  \/ EndRunning
  \/ SkipWaiting
  \/ Promote
  \/ Admit
  \/ EndWaiting
  \/ Commit

Next ==
  \/ \E r \in Req : AddRequest(r)
  \/ \E r \in Req : FinishRequest(r)
  \/ Scheduling
  \/ \E r \in Req, b \in Blocks : BlockFails(r, b)
  \/ \E r \in Req : TransferEnds(r)
  \/ Execute
  \/ UpdateFromOutput

Spec == Init /\ [][Next]_vars

\* The engine goes on stepping: this is weak fairness of its actions, one of which can
\* happen unless it is idle without requests; its loops end, so pc keeps changing.
\* The connector ends what it has begun: strongly fair, because here a transfer
\* moves only while a step runs.
FairSpec ==
  /\ Spec
  /\ []<>(pc = "idle" /\ ~HasRequests) \/ []<><<pc' # pc>>_vars
  /\ \A r \in Req : SF_vars(TransferEnds(r))

-----------------------------------------------------------------------------
(* Properties.                                                             *)

\* While a transfer reads or writes blocks they belong to its request alone as far as
\* they are written, and to nobody new as far as they are read: an abort, a failure
\* or a stop must not give them to another request (finish_requests holds them,
\* _update_from_kv_xfer_finished gives them back).
TransferTargetsHeld ==
  \A r \in Loading \cup Sending :
    /\ Target(r) \subseteq Range(table[r])
    /\ r \in Loading => \A q \in Req \ {r} : Target(r) \cap Range(table[q]) = {}

\* What the prefix cache names is really in the block, or the step on its way puts it
\* there, as long as no load within a step has failed: a block that is still being
\* loaded, or whose load failed, is never found by another request.
CacheTellsTruth ==
  pc \in {"idle", "update"} /\ ~syncFailed =>
    \A b \in Blocks : cached[b] \subseteq kv[b]

\* No client gets a token sampled from KV that is not there, as long as no load within
\* a step has failed: a failed transfer in the background is recomputed from its
\* first lost block, or fails the request.
TokensFromValidKv == ~syncFailed => badOutputs = {}

\* Blocks held for a transfer come back: the engine goes on stepping for requests
\* that are in no queue (has_finished_requests), so the end of the transfer is seen.
HeldBlocksComeBack == \A r \in Req : status[r] = "HELD" ~> status[r] = "GONE"

\* What the comments of _update_requests_with_invalid_blocks say of loads within a
\* step under the recompute policy: a request that shares a lost block with an
\* earlier one "can still consider this block as computed when rescheduled", since
\* the first recomputes it.
SharedBlocksRecomputed == badOutputs = {}
=============================================================================
