---------------------------- MODULE DSparkSlots -----------------------------
(***************************************************************************)
(* The cross-step state of the DSpark drafter: which slot of the draft     *)
(* model's main_kv_cache belongs to which request (_row_to_slot of         *)
(* v1/spec_decode/dspark_proposer.py), and what each slot's ring buffer of *)
(* the last Window positions holds (store_main_kv of                       *)
(* models/deepseek_v4/nvidia/dspark.py).                                   *)
(*                                                                         *)
(* A row is <<r, p>>: the target hidden state of request r at position p.  *)
(* One action is one model step of the worker: the target forward advances *)
(* the requests of the batch, then propose() runs, skips or raises.        *)
(***************************************************************************)
EXTENDS Integers, FiniteSets, SequencesExt

CONSTANTS
  Req,           \* request ids, each used once
  PromptLen,     \* [Req -> Nat]  num_prompt_tokens
  MaxBatchSize,  \* max_batch_size: batch rows, and slots of main_kv_cache
  Window,        \* window_size of the draft attention
  NumSpec,       \* num_speculative_tokens
  MaxLen,        \* [Req -> Nat]  the most tokens each request can reach:
                 \* prompt and max_tokens, at most max_model_len
  MaxPrefixHit,  \* bound: longest prefix-cache hit explored
  DrafterLen,    \* effective_drafter_max_model_len
  MaxPreemptions,\* bound: preemptions explored
  GpuMask,       \* VLLM_DSPARK_GPU_REJECTED_CONTEXT_MASK
  NoSlot

ASSUME ConstantsAssumption ==
  /\ PromptLen \in [Req -> Nat \ {0}]
  /\ MaxBatchSize \in Nat \ {0}
  /\ NumSpec \in Nat
  /\ Window \in Nat \ {0}
  /\ NumSpec + 1 <= Window
  /\ MaxLen \in [Req -> Nat]
  /\ \A r \in Req : PromptLen[r] < MaxLen[r]
  /\ MaxPrefixHit \in Nat
  /\ DrafterLen \in Nat
  /\ MaxPreemptions \in Nat
  /\ GpuMask \in BOOLEAN
  /\ NoSlot \notin Nat

Slots == 0 .. MaxBatchSize - 1

Cells == 0 .. Window - 1

VARIABLES
  status,    \* where the scheduler holds each request
  preempted, \* bound: preemptions so far
  pos,       \* accepted tokens of a request the target has computed
  slotOf,    \* _req_id_to_slot
  freeSlots, \* _free_slots, which is sorted before it is read: a set
  ring,      \* main_kv_cache: the rows a cell may hold. Two rows of one
             \* scatter_ with the same index leave either of them.
  prefilled, \* _prefilled
  drafted,   \* what the last step drafted from, per batch row
  raised,    \* propose() raised: the WorkerProc is dead
  seen,      \* history: the last Window positions of r given to prefill_main,
             \* since r was admitted or resumed
  since      \* history: first position r computed with its present slot

vars == <<status, preempted, pos, slotOf, freeSlots, ring, prefilled, drafted, raised,
          seen, since>>

Row == Req \X Nat

Init ==
  /\ status = [r \in Req |-> "waiting"]
  /\ preempted = 0
  /\ pos = [r \in Req |-> 0]
  /\ slotOf = [r \in Req |-> NoSlot]
  /\ freeSlots = Slots
  /\ ring = [s \in Slots |-> [c \in Cells |-> {}]]
  /\ prefilled = FALSE
  /\ drafted = <<>>
  /\ raised = FALSE
  /\ seen = [r \in Req |-> {}]
  /\ since = [r \in Req |-> 0]

(***************************************************************************)
(* A step's batch: its requests in row order, and for each the number of   *)
(* rows of the target forward and how many of its drafts were rejected.    *)
(***************************************************************************)
Running == {r \in Req : status[r] = "running"}

Larger(a, b) == IF a > b THEN a ELSE b

\* A prefill chunk is any part of the prompt left; a decode step is the last
\* sampled token and up to NumSpec drafts, any number of them rejected.
Works(r) ==
  IF pos[r] < PromptLen[r]
  THEN [len : 1 .. PromptLen[r] - pos[r], rej : {0}]
  ELSE {w \in [len : 1 .. NumSpec + 1, rej : 0 .. NumSpec] :
          w.rej < w.len /\ pos[r] + w.len <= MaxLen[r]}

\* Which running requests a step serves, and in which rows, is the scheduler's
\* and the persistent batch's choice.
BatchesOf(S) ==
  LET works == {f \in [S -> UNION {Works(r) : r \in S}] : \A r \in S : f[r] \in Works(r)} IN
  {[reqs |-> order, len |-> [r \in S |-> f[r].len], rej |-> [r \in S |-> f[r].rej]] :
     order \in SetToSeqs(S), f \in works}

Batches == UNION {BatchesOf(S) : S \in (SUBSET Running) \ {{}}}

Segment(r, n) == [j \in 1 .. n |-> <<r, pos[r] + j - 1>>]

\* Positions that count as context once the drafts of the step are verified.
Accepted(b, r) == {pos[r] + j : j \in 0 .. b.len[r] - b.rej[r] - 1}

Rows(b) == FlattenSeq([i \in DOMAIN b.reqs |-> Segment(b.reqs[i], b.len[b.reqs[i]])])

Uniform(reqs, len) == \A i, j \in DOMAIN reqs : len[reqs[i]] = len[reqs[j]]

\* The step is past what the drafter may see. The length tested is the host's,
\* which counts drafts not yet verified: up to NumSpec more than pos.
MayBePastDrafter(b) ==
  \E r \in ToSet(b.reqs) : pos[r] + b.len[r] + 2 * NumSpec > DrafterLen

IsPastDrafter(b) ==
  \E r \in ToSet(b.reqs) : pos[r] + b.len[r] + NumSpec > DrafterLen

\* The guard of propose(): the rows do not divide among the batch.
Divides(b) == Len(Rows(b)) % Len(b.reqs) = 0

(***************************************************************************)
(* _row_to_slot.                                                           *)
(***************************************************************************)
Mapped == {r \in Req : slotOf[r] # NoSlot}

Newcomers(reqs) == ToSet(reqs) \ Mapped

\* Mutant: a reclaimed slot is dropped from the map, not returned to the pool.
PoolWithoutReclaim(reqs) == freeSlots

\* The slots of requests that are not in this batch go back to the pool.
Pool(reqs) == freeSlots \cup {slotOf[r] : r \in Mapped \ ToSet(reqs)}

\* New requests take free slots, the lowest first, in row order.
LowestFirst(f, reqs) ==
  LET new == Newcomers(reqs) IN
  /\ \A i, j \in DOMAIN reqs :
       i < j /\ {reqs[i], reqs[j]} \subseteq new => f[reqs[i]] < f[reqs[j]]
  /\ \A r \in new, s \in Pool(reqs) : s < f[r] => \E q \in new : f[q] = s

\* Mutant: a reclaimed slot stays in the map as well.
MappedWithStale(f, reqs) ==
  [r \in Req |-> IF r \in Newcomers(reqs) THEN f[r] ELSE slotOf[r]]

\* Mutant: the slot follows the batch row.
MappedByRow(f, reqs) ==
  [r \in Req |-> IF r \in ToSet(reqs)
                 THEN (CHOOSE i \in DOMAIN reqs : reqs[i] = r) - 1 ELSE NoSlot]

MappedAfter(f, reqs) ==
  [r \in Req |-> IF r \notin ToSet(reqs) THEN NoSlot
                 ELSE IF r \in Newcomers(reqs) THEN f[r] ELSE slotOf[r]]

\* pop(0) of an empty list.
Exhausted(reqs) == Cardinality(Newcomers(reqs)) > Cardinality(Pool(reqs))

AssignSlots(reqs) ==
  \E f \in [Newcomers(reqs) -> Pool(reqs)] :
    /\ LowestFirst(f, reqs)
    /\ slotOf' = MappedAfter(f, reqs)
    /\ freeSlots' = Pool(reqs) \ {f[r] : r \in Newcomers(reqs)}
    /\ since' = [r \in Req |-> IF r \notin ToSet(reqs) THEN 0
                               ELSE IF r \in Newcomers(reqs) THEN pos[r] ELSE since[r]]

(***************************************************************************)
(* prepare_context: the rows of each request, and its anchor.              *)
(***************************************************************************)
\* Without the mask the rejected suffixes are cut off on the host, if there
\* are any at all.
Trims(b) == ~GpuMask /\ \E r \in ToSet(b.reqs) : b.rej[r] > 0

Kept(b, r) == IF Trims(b) THEN b.len[r] - b.rej[r] ELSE b.len[r]

\* _trim_rejected_target_context raises when the lengths left differ.
TrimRaises(b) == Trims(b) /\ ~Uniform(b.reqs, [r \in ToSet(b.reqs) |-> Kept(b, r)])

\* Only the masked path looks at where each request's rows really start.
Ragged(b) == GpuMask /\ ~Uniform(b.reqs, b.len)

\* values.view(batch_size, seq_len): equal shares of the flattened rows.
Share(rows, i, n) ==
  LET width == Len(rows) \div n IN SubSeq(rows, (i - 1) * width + 1, i * width)

Piece(b, i) ==
  LET segments == [j \in DOMAIN b.reqs |-> Segment(b.reqs[j], Kept(b, b.reqs[j]))] IN
  IF Ragged(b) THEN segments[i] ELSE Share(FlattenSeq(segments), i, Len(b.reqs))

Masked(b, i) == IF GpuMask THEN b.rej[b.reqs[i]] ELSE 0

Anchor(b, i) == Piece(b, i)[Larger(Len(Piece(b, i)) - Masked(b, i), 1)]

(***************************************************************************)
(* prefill_main and the draft.                                             *)
(***************************************************************************)
\* Mutant: the slots are the leading ones, in any order.
IsPermutation(slots) == ToSet(slots) = 0 .. Len(slots) - 1

IsIdentity(slots) == \A i \in DOMAIN slots : slots[i] = i - 1

\* slot_index is None for the identity: the leading rows, in place.
CacheRow(slots, i) == IF IsIdentity(slots) THEN i - 1 ELSE slots[i]

\* Mutant: rejected rows are stored as well.
WrittenUnmasked(piece, masked) ==
  {piece[j] : j \in Larger(Len(piece) - Window, 0) + 1 .. Len(piece)}

\* The last Window rows, except the rejected ones at their end.
Written(piece, masked) ==
  LET drop == Larger(Len(piece) - Window, 0)
      valid == Larger(Len(piece) - drop - masked, 1)
  IN {piece[drop + j] : j \in 1 .. valid}

Store(b, slots) ==
  LET written == [i \in DOMAIN b.reqs |-> Written(Piece(b, i), Masked(b, i))]
      inCell(s, c) == {row \in UNION {written[i] : i \in {k \in DOMAIN b.reqs :
                                                            CacheRow(slots, k) = s}} :
                         row[2] % Window = c}
  IN ring' = [s \in Slots |-> [c \in Cells |->
                 IF inCell(s, c) = {} THEN ring[s][c] ELSE inCell(s, c)]]

Drafts(b, slots) ==
  [i \in DOMAIN b.reqs |->
     [req |-> b.reqs[i], slot |-> CacheRow(slots, i), anchor |-> Anchor(b, i)]]

(***************************************************************************)
(* The worker's step.                                                      *)
(***************************************************************************)
Advance(b) ==
  /\ pos' = [r \in Req |-> IF r \in ToSet(b.reqs)
                           THEN pos[r] + b.len[r] - b.rej[r] ELSE pos[r]]
  /\ UNCHANGED <<status, preempted>>

\* The input does not fit the drafter: propose() is not called for anyone.
StepUnfit(b) ==
  /\ MayBePastDrafter(b)
  /\ Advance(b)
  /\ drafted' = <<>>
  /\ UNCHANGED <<slotOf, freeSlots, ring, prefilled, raised, seen, since>>

\* propose() returns zeros before it looks at the slots.
StepUneven(b) ==
  /\ ~IsPastDrafter(b)
  /\ ~Divides(b)
  /\ Advance(b)
  /\ drafted' = <<>>
  /\ UNCHANGED <<slotOf, freeSlots, ring, prefilled, raised, seen, since>>

\* The first call only stores the context: its drafts are warmup noise.
StoreAndDraft(b, slots) ==
  /\ Store(b, slots)
  /\ prefilled' = TRUE
  /\ drafted' = IF prefilled THEN Drafts(b, slots) ELSE <<>>
  /\ seen' = [r \in Req |-> IF r \in ToSet(b.reqs)
                            THEN {p \in seen[r] \cup Accepted(b, r) : p >= pos'[r] - Window}
                            ELSE seen[r]]

\* The slots are assigned first. An exception there or in the trimming leaves
\* propose() and ends the worker.
StepProposes(b) ==
  /\ ~IsPastDrafter(b)
  /\ Divides(b)
  /\ Advance(b)
  /\ raised' = (Exhausted(b.reqs) \/ TrimRaises(b))
  /\ IF Exhausted(b.reqs) THEN UNCHANGED <<slotOf, freeSlots, since>>
                          ELSE AssignSlots(b.reqs)
  /\ IF raised' THEN drafted' = <<>> /\ UNCHANGED <<ring, prefilled, seen>>
                ELSE StoreAndDraft(b, [i \in DOMAIN b.reqs |-> slotOf'[b.reqs[i]]])

Step ==
  /\ ~raised
  /\ \E b \in Batches :
       \/ StepUnfit(b)
       \/ StepUneven(b)
       \/ StepProposes(b)

(***************************************************************************)
(* What the scheduler does to a request between two steps. The proposer    *)
(* hears of none of it: the request is or is not in the next batch.        *)
(***************************************************************************)
\* Tokens found in the prefix cache are never computed by this request. There
\* are as many places in running as rows in the batch.
Admit(r) ==
  /\ status[r] = "waiting"
  /\ Cardinality(Running) < MaxBatchSize
  /\ status' = [status EXCEPT ![r] = "running"]
  /\ pos' \in {[pos EXCEPT ![r] = hit] : hit \in {n \in 0 .. MaxPrefixHit : n < PromptLen[r]}}
  /\ drafted' = <<>>
  /\ UNCHANGED <<preempted, slotOf, freeSlots, ring, prefilled, raised, seen, since>>

\* A preempted request may be resumed before the next step, or after it.
Preempt(r) ==
  /\ status[r] = "running"
  /\ preempted < MaxPreemptions
  /\ preempted' = preempted + 1
  /\ status' = [status EXCEPT ![r] = "waiting"]
  /\ pos' = [pos EXCEPT ![r] = 0]
  /\ seen' = [seen EXCEPT ![r] = {}]
  /\ drafted' = <<>>
  /\ UNCHANGED <<slotOf, freeSlots, ring, prefilled, raised, since>>

Finish(r) ==
  /\ status[r] = "running"
  /\ status' = [status EXCEPT ![r] = "done"]
  /\ pos' = [pos EXCEPT ![r] = 0]
  /\ seen' = [seen EXCEPT ![r] = {}]
  /\ drafted' = <<>>
  /\ UNCHANGED <<preempted, slotOf, freeSlots, ring, prefilled, raised, since>>

Environment == ~raised /\ \E r \in Req : Admit(r) \/ Preempt(r) \/ Finish(r)

Next == Step \/ Environment

Spec == Init /\ [][Next]_vars

-----------------------------------------------------------------------------
\* No two requests share a slot, and the pool is exactly the slots nobody has:
\* a slot is neither lost nor given out twice (_row_to_slot).
SlotsExclusive ==
  /\ \A r, q \in Mapped : slotOf[r] = slotOf[q] => r = q
  /\ freeSlots = Slots \ {slotOf[r] : r \in Mapped}

\* propose() never kills the worker: a batch never finds the pool empty, and
\* no batch shape makes it raise (propose, "instead of raising and killing the
\* WorkerProc"). Claimed for the masked path only.
NeverRaises == ~raised

\* A position of r's attention window that was given to prefill_main while r
\* held its slot is in its cell and nothing else can be: rejected drafts, long
\* prefill chunks, other requests and skipped steps overwrite none of it
\* (store_main_kv, _store_main_kv_ragged).
ContextKept ==
  \A r \in Mapped : \A p \in seen[r] :
    p >= since[r] /\ p > pos[r] - 1 - Window
      => ring[slotOf[r]][p % Window] = {<<r, p>>}

\* Every batch row drafts from its own request's slot, anchored at the last
\* token of that request that verification accepted (propose, prepare_context).
DraftInputsRight ==
  \A i \in DOMAIN drafted :
    LET r == drafted[i].req IN
    drafted[i].slot = slotOf[r] /\ drafted[i].anchor = <<r, pos[r] - 1>>

\* While a request is in every batch its slot does not move, however the rows
\* of the batch are condensed or reordered (_row_to_slot).
SlotStable ==
  [][\A r \in Mapped : slotOf'[r] \in {slotOf[r], NoSlot}]_vars

=============================================================================
