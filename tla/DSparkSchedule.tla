--------------------------- MODULE DSparkSchedule ---------------------------
(***************************************************************************)
(* How many of its drafts each request of a batch gets verified: the       *)
(* confidence scheduler of v1/spec_decode/dspark.py, as the proposer's     *)
(* _schedule_from_confidence calls it.                                     *)
(*                                                                         *)
(* Confidences are multiples of 1/Unit. A survival is the product of up to *)
(* NumSpec of them and is kept times One = Unit^NumSpec, so the arithmetic *)
(* is exact where the code's is in floating point.                         *)
(***************************************************************************)
EXTENDS Integers, FiniteSetsExt

CONSTANTS
  Rows,       \* 1..n, the requests of the batch
  NumSpec,    \* num_speculative_tokens
  Unit,       \* denominator of the confidences
  Tables,     \* the profiled step-rate tables explored: [batch tokens -> rate]
  Thresholds, \* the confidence thresholds explored, times One
  Forced      \* VLLM_DSPARK_FORCE_DRAFT_LENGTH where it is set

ASSUME ConstantsAssumption ==
  /\ Rows = 1 .. Cardinality(Rows)
  /\ NumSpec \in Nat \ {0}
  /\ Unit \in Nat \ {0}
  /\ \A t \in Tables : DOMAIN t \subseteq Nat \ {0} /\ \A k \in DOMAIN t : t[k] \in Nat
  /\ Thresholds \subseteq 1 .. Unit ^ NumSpec
  /\ Forced \in 0 .. NumSpec

VARIABLES
  conf,      \* confidence_rows
  table,     \* _sps_curve
  mode,      \* which of its branches _schedule_from_confidence takes
  threshold, \* confidence_threshold
  earlyStop, \* early_stop
  phase,     \* "start", "greedy": in the loop over the candidates, or "done"
  todo,      \* candidates the loop has not reached
  lengths, batchTokens, accepted, \* the loop's lengths, batch_tokens and
                                  \* expected_accepted_tokens
  best       \* the best schedule so far, and in the end the result

inputs == <<conf, table, mode, threshold, earlyStop>>

vars == <<inputs, phase, todo, lengths, batchTokens, accepted, best>>

One == Unit ^ NumSpec

Depths == 1 .. NumSpec

NumRows == Cardinality(Rows)

Nothing == [r \in Rows |-> 0]

(***************************************************************************)
(* cumulative_survival, _steps_per_second, score_prefix_lengths.           *)
(***************************************************************************)
Survival(r, p) ==
  LET prefix[n \in 0 .. NumSpec] == IF n = 0 THEN 1 ELSE prefix[n - 1] * conf[r][n]
  IN prefix[p] * Unit ^ (NumSpec - p)

\* The last profiled entry not beyond the batch, or the first one.
StepsPerSecond(tokens) ==
  LET reached == {k \in DOMAIN table : k <= tokens} IN
  IF DOMAIN table = {} THEN 1
  ELSE IF reached = {} THEN table[Min(DOMAIN table)] ELSE table[Max(reached)]

TokensOf(ls) == NumRows + MapThenSumSet(LAMBDA r : ls[r], Rows)

AcceptedOf(ls) ==
  NumRows * One
  + MapThenSumSet(LAMBDA c : Survival(c[1], c[2]),
                  {c \in Rows \X Depths : c[2] <= ls[c[1]]})

Scored(ls, acc, tokens) ==
  [lengths |-> ls, accepted |-> acc, tokens |-> tokens,
   throughput |-> acc * StepsPerSecond(tokens)]

Score(ls) == Scored(ls, AcceptedOf(ls), TokensOf(ls))

(***************************************************************************)
(* The fixed schedules: a forced length, all drafts, or those above the    *)
(* threshold.                                                              *)
(***************************************************************************)
\* confidence_threshold_prefix_length: it stops at the first position below.
ThresholdLength(r) ==
  LET below == {p \in Depths : Survival(r, p) < threshold} IN
  IF below = {} THEN NumSpec ELSE Min(below) - 1

FixedLengths ==
  [r \in Rows |-> CASE mode = "forced" -> Forced
                    [] mode = "off" -> NumSpec
                    [] mode = "threshold" -> ThresholdLength(r)]

(***************************************************************************)
(* hardware_aware_prefix_schedule.                                         *)
(***************************************************************************)
Candidates == {c \in Rows \X Depths : Survival(c[1], c[2]) > 0}

\* Mutant: at equal survival the deeper position comes first.
BeforeDeepest(c, d) ==
  LET s == Survival(c[1], c[2])
      t == Survival(d[1], d[2])
  IN \/ s > t
     \/ s = t /\ (c[1] < d[1] \/ (c[1] = d[1] /\ c[2] > d[2]))

\* candidates.sort: by descending survival, then request, then position.
Before(c, d) ==
  LET s == Survival(c[1], c[2])
      t == Survival(d[1], d[2])
  IN \/ s > t
     \/ s = t /\ (c[1] < d[1] \/ (c[1] = d[1] /\ c[2] < d[2]))

First == CHOOSE c \in todo : \A d \in todo \ {c} : Before(c, d)

\* Mutant: a schedule as good as the best replaces it.
ImprovesOrTies(candidate) == candidate.throughput >= best.throughput

Improves(candidate) == candidate.throughput > best.throughput

\* Mutant: the loop stops at the first candidate that does not improve.
StopsAlways == TRUE

\* early_stop ends the loop at the first candidate that does not improve.
Stops == earlyStop

\* batch_tokens += 1.
TokensWithOneMore == batchTokens + 1

Init ==
  /\ conf \in [Rows -> [Depths -> 0 .. Unit]]
  /\ table \in Tables
  /\ \/ mode = "hardware" /\ earlyStop \in BOOLEAN /\ threshold = One
     \/ mode = "threshold" /\ threshold \in Thresholds /\ earlyStop = TRUE
     \/ mode \in {"off", "forced"} /\ threshold = One /\ earlyStop = TRUE
  /\ phase = "start"
  /\ todo = {}
  /\ lengths = Nothing
  /\ batchTokens = NumRows
  /\ accepted = NumRows * One
  /\ best = Score(Nothing)

ScheduleFixed ==
  /\ phase = "start" /\ mode # "hardware"
  /\ best' = Score(FixedLengths)
  /\ phase' = "done"
  /\ UNCHANGED <<inputs, todo, lengths, batchTokens, accepted>>

StartGreedy ==
  /\ phase = "start" /\ mode = "hardware"
  /\ todo' = Candidates
  /\ phase' = "greedy"
  /\ UNCHANGED <<inputs, lengths, batchTokens, accepted, best>>

\* One turn of the loop. A position that does not extend its request's prefix
\* would be passed over.
Consider ==
  /\ phase = "greedy" /\ todo # {}
  /\ todo' = todo \ {First}
  /\ LET r == First[1]
         extended == [lengths EXCEPT ![r] = First[2]]
         acc == accepted + Survival(r, First[2])
         candidate == Scored(extended, acc, TokensWithOneMore)
     IN IF First[2] # lengths[r] + 1
        THEN UNCHANGED <<phase, lengths, batchTokens, accepted, best>>
        ELSE /\ lengths' = extended
             /\ batchTokens' = TokensWithOneMore
             /\ accepted' = acc
             /\ best' = IF Improves(candidate) THEN candidate ELSE best
             /\ phase' = IF ~Improves(candidate) /\ Stops THEN "done" ELSE phase
  /\ UNCHANGED inputs

EndGreedy ==
  /\ phase = "greedy" /\ todo = {}
  /\ phase' = "done"
  /\ UNCHANGED <<inputs, todo, lengths, batchTokens, accepted, best>>

Next == ScheduleFixed \/ StartGreedy \/ Consider \/ EndGreedy

Spec == Init /\ [][Next]_vars

-----------------------------------------------------------------------------
Schedules == [Rows -> 0 .. NumSpec]

\* The candidates of a request come in the order of its positions, so the loop
\* passes none over: what it has admitted is a set of prefixes that holds every
\* candidate it has seen (the guard position != lengths + 1).
NothingPassedOver ==
  phase = "greedy" =>
    \A c \in Candidates : c \in todo <=> c[2] > lengths[c[1]]

\* Schedules that verify only drafts that can survive at all.
Sensible(ls) ==
  \A r \in Rows : \A p \in Depths : p <= ls[r] => Survival(r, p) > 0

\* Nothing beats the result, and nothing as good verifies fewer drafts.
Optimal ==
  \A ls \in Schedules :
    Sensible(ls) =>
      \/ best.throughput > Score(ls).throughput
      \/ best.throughput = Score(ls).throughput /\ best.tokens <= TokensOf(ls)

\* "exhaustive traversal of the greedy prefix path when the profiled curve has
\* jagged capacity cliffs": without early_stop the greedy path holds the best
\* of all schedules, however the curve jumps.
ExhaustiveIsOptimal ==
  phase = "done" /\ mode = "hardware" /\ ~earlyStop => Optimal

\* The time of a step grows with its tokens, and never by less than before.
Smooth ==
  \A k \in NumRows .. NumRows * (NumSpec + 1) - 2 :
    LET a == StepsPerSecond(k)
        b == StepsPerSecond(k + 1)
        c == StepsPerSecond(k + 2)
    IN a >= b /\ b >= c /\ c > 0 /\ 2 * a * c <= b * (a + c)

\* "smooth capacity curves where adding more verification tokens cannot recover
\* from the first throughput drop": on those, stopping early loses nothing.
EarlyStopIsOptimal ==
  phase = "done" /\ mode = "hardware" /\ earlyStop /\ Smooth => Optimal
=============================================================================
