------------------------- MODULE DSparkSlotsProofs --------------------------
(***************************************************************************)
(* The slot map of the DSpark drafter and the contexts in its ring         *)
(* buffers, for any number of requests and slots, any prompt, window and   *)
(* number of drafts.                                                       *)
(***************************************************************************)
EXTENDS DSparkSlots, TLAPS, FiniteSetTheorems, SequenceTheorems

-----------------------------------------------------------------------------
(* The inductive invariant. That a batch never finds the pool empty is     *)
(* counting: the running requests are no more than the slots, and those of *)
(* the batch that have a slot keep no more slots than they are.            *)

SlotsInv ==
  /\ status \in [Req -> {"waiting", "running", "done"}]
  /\ slotOf \in [Req -> Slots \cup {NoSlot}]
  /\ SlotsExclusive
  /\ IsFiniteSet(Running)
  /\ Cardinality(Running) <= MaxBatchSize
  /\ GpuMask => ~raised

\* The rows of a batch are numbered, and hold running requests.
LEMMA BatchShape ==
  ASSUME NEW b \in Batches
  PROVE  /\ ToSet(b.reqs) \subseteq Running
         /\ DOMAIN b.reqs \subseteq Int
<1>1. PICK S \in SUBSET Running : b \in BatchesOf(S)
  BY DEF Batches
<1>2. PICK order \in SetToSeqs(S) : b.reqs = order
  BY <1>1 DEF BatchesOf
<1>3. order \in [1 .. Cardinality(S) -> S]
  BY DEF SetToSeqs
<1> QED BY <1>2, <1>3 DEF ToSet

\* Slots are numbers, and NoSlot is not one of them.
LEMMA SlotsAreNumbers ==
  Slots \subseteq Int /\ NoSlot \notin Slots
BY ConstantsAssumption DEF Slots, ConstantsAssumption

\* The pool after reclaiming: every slot but those the batch keeps.
LEMMA PoolIsTheRest ==
  ASSUME slotOf \in [Req -> Slots \cup {NoSlot}], SlotsExclusive, NEW reqs
  PROVE  Pool(reqs) = Slots \ {slotOf[r] : r \in Mapped \cap ToSet(reqs)}
<1> DEFINE A == ToSet(reqs)
<1>1. \A r \in Mapped : slotOf[r] \in Slots
  BY DEF Mapped
<1>2. ASSUME NEW s \in Pool(reqs)
      PROVE  s \in Slots \ {slotOf[r] : r \in Mapped \cap A}
  BY <1>1, <1>2 DEF Pool, SlotsExclusive
<1>3. ASSUME NEW s \in Slots \ {slotOf[r] : r \in Mapped \cap A}
      PROVE  s \in Pool(reqs)
  <2>1. CASE s \in freeSlots
    BY <2>1 DEF Pool
  <2>2. CASE s \notin freeSlots
    <3>1. PICK r \in Mapped : s = slotOf[r]
      BY <2>2 DEF SlotsExclusive
    <3>2. r \in Mapped \ A
      BY <3>1
    <3> QED BY <3>1, <3>2 DEF Pool
  <2> QED BY <2>1, <2>2
<1> QED BY <1>2, <1>3

\* pop(0) never meets an empty list: there are no more newcomers than slots in
\* the pool.
LEMMA PoolSuffices ==
  ASSUME SlotsInv, NEW reqs, ToSet(reqs) \subseteq Running
  PROVE  ~Exhausted(reqs)
<1> DEFINE A == ToSet(reqs)
           Old == Mapped \cap A
           Busy == {slotOf[r] : r \in Old}
<1>1. MaxBatchSize \in Nat \ {0}
  BY ConstantsAssumption DEF ConstantsAssumption
<1>2. IsFiniteSet(Slots) /\ Cardinality(Slots) = MaxBatchSize
  <2>1. IsFiniteSet(0 .. MaxBatchSize - 1)
    BY <1>1, FS_Interval
  <2>2. Cardinality(0 .. MaxBatchSize - 1) =
          IF 0 > MaxBatchSize - 1 THEN 0 ELSE (MaxBatchSize - 1) - 0 + 1
    BY <1>1, FS_Interval
  <2> QED BY <1>1, <2>1, <2>2 DEF Slots
<1>3. IsFiniteSet(A) /\ Cardinality(A) <= Cardinality(Running)
  BY FS_Subset DEF SlotsInv
<1>4. IsFiniteSet(Old) /\ Cardinality(A \ Old) = Cardinality(A) - Cardinality(Old)
  <2>1. Old \in SUBSET A
    OBVIOUS
  <2>2. IsFiniteSet(Old)
    BY <1>3, <2>1, FS_Subset
  <2>3. Cardinality(A \ Old) = Cardinality(A) - Cardinality(A \cap Old)
    BY <1>3, <2>2, FS_Difference
  <2> QED BY <2>1, <2>2, <2>3
<1>5. IsFiniteSet(Busy) /\ Cardinality(Busy) <= Cardinality(Old)
  <2>1. [r \in Old |-> slotOf[r]] \in Surjection(Old, Busy)
    BY DEF Surjection
  <2> HIDE DEF Old, Busy
  <2> QED BY <1>4, <2>1, FS_Surjection
<1>6. Cardinality(Slots \ Busy) = MaxBatchSize - Cardinality(Busy)
  <2>1. Busy \subseteq Slots
    BY DEF SlotsInv, Mapped
  <2>2. Cardinality(Slots \ Busy) = Cardinality(Slots) - Cardinality(Slots \cap Busy)
    BY <1>2, <1>5, FS_Difference
  <2>3. Slots \cap Busy = Busy
    BY <2>1
  <2> QED BY <1>2, <2>2, <2>3
<1>7. Pool(reqs) = Slots \ Busy
  BY PoolIsTheRest DEF SlotsInv
<1>8. Newcomers(reqs) = A \ Old
  BY DEF Newcomers
<1>9. /\ Cardinality(A) \in Nat /\ Cardinality(Old) \in Nat
      /\ Cardinality(Busy) \in Nat /\ Cardinality(Running) \in Nat
  BY <1>3, <1>4, <1>5, FS_CardinalityType DEF SlotsInv
<1>10. Cardinality(Running) <= MaxBatchSize
  BY DEF SlotsInv
<1>11. Cardinality(Newcomers(reqs)) <= Cardinality(Pool(reqs))
  <2> HIDE DEF A, Old, Busy
  <2> QED BY <1>1, <1>3, <1>4, <1>5, <1>6, <1>7, <1>8, <1>9, <1>10
<1>12. Cardinality(Newcomers(reqs)) \in Nat /\ Cardinality(Pool(reqs)) \in Nat
  <2> HIDE DEF A, Old, Busy
  <2>1. Cardinality(Newcomers(reqs)) \in Int /\ Cardinality(Pool(reqs)) \in Int
    BY <1>1, <1>4, <1>6, <1>7, <1>8, <1>9
  <2>2. IsFiniteSet(Newcomers(reqs)) /\ IsFiniteSet(Pool(reqs))
    BY <1>2, <1>3, <1>7, <1>8, FS_Difference
  <2> QED BY <2>2, FS_CardinalityType
<1> QED BY <1>11, <1>12 DEF Exhausted

-----------------------------------------------------------------------------
(* _row_to_slot keeps the map exclusive.                                   *)

\* Newcomers that stand in different rows get different slots.
LEMMA NewcomersApart ==
  ASSUME SlotsInv, NEW reqs, DOMAIN reqs \subseteq Int, NEW f, LowestFirst(f, reqs),
         f \in [Newcomers(reqs) -> Pool(reqs)],
         NEW r \in Newcomers(reqs), NEW q \in Newcomers(reqs), r # q
  PROVE  f[r] # f[q]
<1>1. PICK i, j \in DOMAIN reqs : reqs[i] = r /\ reqs[j] = q
  BY DEF Newcomers, ToSet
<1>2. f[r] \in Int /\ f[q] \in Int
  BY PoolIsTheRest, SlotsAreNumbers DEF SlotsInv
<1>3. i < j \/ j < i
  BY <1>1
<1>4. CASE i < j
  <2>1. f[reqs[i]] < f[reqs[j]]
    BY <1>1, <1>4 DEF LowestFirst
  <2> QED BY <1>1, <1>2, <2>1
<1>5. CASE j < i
  <2>1. f[reqs[j]] < f[reqs[i]]
    BY <1>1, <1>5 DEF LowestFirst
  <2> QED BY <1>1, <1>2, <2>1
<1> QED BY <1>3, <1>4, <1>5

\* After the assignment the map is defined on the batch and nowhere else,
\* still injective, and the pool is still its complement.
LEMMA AssignmentExclusive ==
  ASSUME SlotsInv, NEW reqs, ToSet(reqs) \subseteq Req, DOMAIN reqs \subseteq Int,
         AssignSlots(reqs)
  PROVE  slotOf' \in [Req -> Slots \cup {NoSlot}] /\ SlotsExclusive'
<1> DEFINE A == ToSet(reqs)
           New == Newcomers(reqs)
<1>1. PICK f \in [New -> Pool(reqs)] :
        /\ LowestFirst(f, reqs)
        /\ slotOf' = MappedAfter(f, reqs)
        /\ freeSlots' = Pool(reqs) \ {f[r] : r \in New}
  BY DEF AssignSlots
<1>2. Pool(reqs) = Slots \ {slotOf[r] : r \in Mapped \cap A}
  BY PoolIsTheRest DEF SlotsInv
<1>3. \A r \in New : f[r] \in Slots
  BY <1>1, <1>2
<1>4. \A r \in Mapped : slotOf[r] \in Slots
  BY DEF SlotsInv, Mapped
<1>5. New \subseteq A /\ A \ New = Mapped \cap A
  BY DEF Newcomers, Mapped
<1>6. /\ \A r \in Req \ A : slotOf'[r] = NoSlot
      /\ \A r \in New : slotOf'[r] = f[r]
      /\ \A r \in Mapped \cap A : slotOf'[r] = slotOf[r]
  BY <1>1, <1>5 DEF MappedAfter
<1>7. slotOf' \in [Req -> Slots \cup {NoSlot}]
  BY <1>1, <1>3, <1>4, <1>5, <1>6 DEF MappedAfter
<1>8. Mapped' = A
  BY <1>3, <1>4, <1>5, <1>6, SlotsAreNumbers DEF Mapped
<1>9. ASSUME NEW r \in A, NEW q \in A, slotOf'[r] = slotOf'[q]
      PROVE  r = q
  <2>1. CASE r \in New /\ q \in New
    BY <1>1, <1>6, <1>9, <2>1, NewcomersApart
  <2>2. CASE r \in New /\ q \notin New
    BY <1>1, <1>2, <1>5, <1>6, <1>9, <2>2
  <2>3. CASE r \notin New /\ q \in New
    BY <1>1, <1>2, <1>5, <1>6, <1>9, <2>3
  <2>4. CASE r \notin New /\ q \notin New
    BY <1>5, <1>6, <1>9, <2>4 DEF SlotsInv, SlotsExclusive
  <2> QED BY <2>1, <2>2, <2>3, <2>4
<1>10. {slotOf'[r] : r \in A} = {slotOf[r] : r \in Mapped \cap A} \cup {f[r] : r \in New}
  BY <1>5, <1>6
<1>11. freeSlots' = Slots \ {slotOf'[r] : r \in A}
  BY <1>1, <1>2, <1>10
<1> HIDE DEF A
<1> QED BY <1>7, <1>8, <1>9, <1>11 DEF SlotsExclusive

-----------------------------------------------------------------------------
(* Every step preserves the invariant.                                     *)

\* A step of the worker.
LEMMA StepKeepsInv ==
  ASSUME SlotsInv, Step
  PROVE  SlotsInv'
<1>1. PICK b \in Batches : StepUnfit(b) \/ StepUneven(b) \/ StepProposes(b)
  BY DEF Step
<1>2. ~raised
  BY DEF Step
<1>3. status' = status /\ Running' = Running
  BY <1>1 DEF StepUnfit, StepUneven, StepProposes, Advance, Running
<1>4. CASE UNCHANGED <<slotOf, freeSlots, raised>>
  <2>1. SlotsExclusive'
    BY <1>4 DEF SlotsInv, SlotsExclusive, Mapped
  <2> QED BY <1>3, <1>4, <2>1 DEF SlotsInv
<1>5. CASE StepProposes(b)
  <2>1. ToSet(b.reqs) \subseteq Running /\ DOMAIN b.reqs \subseteq Int
    BY BatchShape
  <2>2. ~Exhausted(b.reqs)
    BY <2>1, PoolSuffices
  <2>3. AssignSlots(b.reqs)
    BY <1>5, <2>2 DEF StepProposes
  <2>4. ToSet(b.reqs) \subseteq Req
    BY <2>1 DEF Running
  <2>5. slotOf' \in [Req -> Slots \cup {NoSlot}] /\ SlotsExclusive'
    BY <2>1, <2>3, <2>4, AssignmentExclusive
  <2>6. GpuMask => ~raised'
    <3>1. GpuMask => ~TrimRaises(b)
      BY DEF TrimRaises, Trims
    <3>2. raised' = (Exhausted(b.reqs) \/ TrimRaises(b))
      BY <1>5 DEF StepProposes
    <3> QED BY ONLY <2>2, <3>1, <3>2, Zenon
  <2> QED BY <1>3, <2>5, <2>6 DEF SlotsInv
<1> QED BY <1>1, <1>4, <1>5 DEF StepUnfit, StepUneven

\* What the scheduler does between two steps.
LEMMA EnvironmentKeepsInv ==
  ASSUME SlotsInv, Environment
  PROVE  SlotsInv'
<1>1. PICK r \in Req : Admit(r) \/ Preempt(r) \/ Finish(r)
  BY DEF Environment
<1>2. UNCHANGED <<slotOf, freeSlots, raised>>
  BY <1>1 DEF Admit, Preempt, Finish
<1>3. IsFiniteSet(Running') /\ Cardinality(Running') <= MaxBatchSize
  <2>1. CASE Admit(r)
    <3>1. Running' \subseteq Running \cup {r}
      BY <2>1 DEF Admit, Running
    <3>2. /\ IsFiniteSet(Running \cup {r})
          /\ Cardinality(Running \cup {r}) =
               IF r \in Running THEN Cardinality(Running) ELSE Cardinality(Running) + 1
      BY FS_AddElement DEF SlotsInv
    <3>3. /\ IsFiniteSet(Running')
          /\ Cardinality(Running') <= Cardinality(Running \cup {r})
      BY <3>1, <3>2, FS_Subset
    <3>4. /\ Cardinality(Running) \in Nat /\ Cardinality(Running') \in Nat
          /\ Cardinality(Running) < MaxBatchSize
      BY <2>1, <3>3, FS_CardinalityType DEF SlotsInv, Admit
    <3>5. MaxBatchSize \in Nat
      BY ConstantsAssumption DEF ConstantsAssumption
    <3> QED BY <3>2, <3>3, <3>4, <3>5
  <2>2. CASE Preempt(r) \/ Finish(r)
    <3>1. Running' \subseteq Running
      <4>1. \A q \in Req : status'[q] \in {status[q], "waiting", "done"}
        BY <2>2 DEF SlotsInv, Preempt, Finish
      <4> QED BY <4>1 DEF Running
    <3>2. /\ IsFiniteSet(Running')
          /\ Cardinality(Running') <= Cardinality(Running)
      BY <3>1, FS_Subset DEF SlotsInv
    <3>3. Cardinality(Running) \in Nat /\ Cardinality(Running') \in Nat
      BY <3>2, FS_CardinalityType DEF SlotsInv
    <3>4. MaxBatchSize \in Nat
      BY ConstantsAssumption DEF ConstantsAssumption
    <3> QED BY <3>2, <3>3, <3>4 DEF SlotsInv
  <2> QED BY <1>1, <2>1, <2>2
<1>4. SlotsExclusive'
  BY <1>2 DEF SlotsInv, SlotsExclusive, Mapped
<1>5. status' \in [Req -> {"waiting", "running", "done"}]
  BY <1>1 DEF SlotsInv, Admit, Preempt, Finish
<1> QED BY <1>2, <1>3, <1>4, <1>5 DEF SlotsInv

\* The map starts empty and the pool full.
LEMMA InitHasInv ==
  ASSUME Init
  PROVE  SlotsInv
<1>1. Mapped = {} /\ Running = {}
  BY DEF Init, Mapped, Running
<1>2. MaxBatchSize \in Nat
  BY ConstantsAssumption DEF ConstantsAssumption
<1>3. IsFiniteSet(Running) /\ Cardinality(Running) <= MaxBatchSize
  BY <1>1, <1>2, FS_EmptySet
<1>4. SlotsExclusive
  BY <1>1 DEF Init, SlotsExclusive
<1> QED BY <1>3, <1>4 DEF Init, SlotsInv

\* A stuttering step changes nothing the invariant reads.
LEMMA StutterKeepsInv ==
  ASSUME SlotsInv, UNCHANGED vars
  PROVE  SlotsInv'
BY DEF SlotsInv, SlotsExclusive, Mapped, Running, vars

-----------------------------------------------------------------------------
(* The theorems.                                                           *)

\* The inductive invariant holds of every behaviour.
THEOREM SlotMapInvariant == Spec => []SlotsInv
<1>1. Init => SlotsInv
  BY InitHasInv
<1>2. SlotsInv /\ [Next]_vars => SlotsInv'
  BY StepKeepsInv, EnvironmentKeepsInv, StutterKeepsInv DEF Next
<1> QED BY <1>1, <1>2, PTL DEF Spec

\* No two requests ever share a slot, and no slot is lost.
THEOREM SlotsStayExclusive == Spec => []SlotsExclusive
<1>1. SlotsInv => SlotsExclusive
  BY DEF SlotsInv
<1> QED BY <1>1, SlotMapInvariant, PTL

\* With the rejected-context mask on, propose() never raises: the pool is never
\* empty when a request needs a slot, whatever batches the scheduler makes.
THEOREM MaskedNeverRaises ==
  ASSUME GpuMask
  PROVE  Spec => []NeverRaises
<1>1. SlotsInv => NeverRaises
  BY DEF SlotsInv, NeverRaises
<1> QED BY <1>1, SlotMapInvariant, PTL

\* The slot of a request never moves: it is kept, or given back.
THEOREM SlotNeverMoves == Spec => SlotStable
<1> DEFINE Stable == \A r \in Mapped : slotOf'[r] \in {slotOf[r], NoSlot}
<1>1. SlotsInv /\ [Next]_vars => [Stable]_vars
  <2> SUFFICES ASSUME SlotsInv, Next
               PROVE  Stable
    OBVIOUS
  <2>1. CASE slotOf' = slotOf
    BY <2>1
  <2>2. ASSUME NEW reqs, AssignSlots(reqs), NEW r \in Mapped
        PROVE  slotOf'[r] \in {slotOf[r], NoSlot}
    BY <2>2 DEF AssignSlots, MappedAfter, Newcomers, Mapped
  <2>3. CASE Step
    <3>1. PICK b \in Batches : StepUnfit(b) \/ StepUneven(b) \/ StepProposes(b)
      BY <2>3 DEF Step
    <3>2. slotOf' = slotOf \/ AssignSlots(b.reqs)
      BY <3>1 DEF StepUnfit, StepUneven, StepProposes
    <3> QED BY <2>1, <2>2, <3>2
  <2>4. CASE Environment
    BY <2>1, <2>4 DEF Environment, Admit, Preempt, Finish
  <2> QED BY <2>3, <2>4 DEF Next
<1> QED BY <1>1, SlotMapInvariant, PTL DEF Spec, SlotStable

-----------------------------------------------------------------------------
(* Equal shares. FlattenSeq joins the segments of the batch one after the  *)
(* other; when all have the same length their starts are known.            *)

\* A set of natural numbers has a least one.
LEMMA LeastNumber ==
  ASSUME NEW T \in SUBSET Nat, T # {}
  PROVE  \E n \in T : \A m \in T : n <= m
<1>1. PICK k \in T : TRUE
  OBVIOUS
<1> DEFINE D == 0 .. k
           U == {0 .. n : n \in {m \in T : m <= k}}
<1>2. IsFiniteSet(D)
  BY <1>1, FS_Interval
<1>3. IsWellFoundedOn(StrictSubsetOrdering(D), SUBSET D)
  BY <1>2, FS_StrictSubsetOrderingWellFounded, FS_FiniteSubsetsOfFinite
<1>4. U \subseteq SUBSET D /\ U # {}
  BY <1>1
<1>5. PICK s \in U : \A t \in U : ~ (<<t, s>> \in StrictSubsetOrdering(D))
  <2> HIDE DEF U
  <2> QED BY <1>3, <1>4, WFMin
<1>6. PICK n \in T : n <= k /\ s = 0 .. n
  BY <1>5
<1>7. ASSUME NEW m \in T PROVE n <= m
  <2> SUFFICES ASSUME m < n PROVE FALSE
    BY <1>6, <1>7
  <2>1. 0 .. m \in U
    BY <1>6
  <2>2. 0 .. m \subseteq 0 .. n /\ n \in 0 .. n /\ n \notin 0 .. m
    OBVIOUS
  <2>3. <<0 .. m, 0 .. n>> \in (SUBSET D) \X (SUBSET D)
    BY <1>4, <1>6, <2>1
  <2>4. <<0 .. m, s>> \in StrictSubsetOrdering(D)
    BY <1>6, <2>2, <2>3 DEF StrictSubsetOrdering
  <2> QED BY <1>5, <2>1, <2>4
<1> QED BY <1>7

\* Quotient and remainder are unique.
LEMMA QuotientAndRest ==
  ASSUME NEW d \in Nat \ {0}, NEW q \in Nat, NEW r \in 0 .. d - 1
  PROVE  (d * q + r) \div d = q /\ (d * q + r) % d = r
<1> DEFINE a == d * q + r
           p == a \div d
           s == a % d
<1>1. a \in Nat
  OBVIOUS
<1>2. p \in Int /\ s \in 0 .. d - 1 /\ a = d * p + s
  <2> HIDE DEF a
  <2> QED BY <1>1
<1> HIDE DEF p, s
<1>3. d * p + s = d * q + r
  BY <1>2
<1>4. p = q
  <2>1. CASE p < q
    <3>1. d * (p + 1) <= d * q
      BY <1>2, <2>1
    <3>2. d * (p + 1) = d * p + d
      BY <1>2
    <3> QED BY <1>2, <1>3, <3>1, <3>2
  <2>2. CASE q < p
    <3>1. d * (q + 1) <= d * p
      BY <1>2, <2>2
    <3>2. d * (q + 1) = d * q + d
      OBVIOUS
    <3> QED BY <1>2, <1>3, <3>1, <3>2
  <2> QED BY <1>2, <2>1, <2>2
<1>5. s = r
  BY <1>2, <1>3, <1>4
<1> QED BY <1>4, <1>5 DEF p, s

\* The first i of these segments, joined.
Joined(seqs, L, i) == [k \in 1 .. L * i |-> seqs[((k - 1) \div L) + 1][((k - 1) % L) + 1]]

\* The j-th element of segment i, and where it is in the rows.
InPlace(seqs, L, n, rows) ==
  \A i \in 1 .. n, j \in 1 .. L :
    L * (i - 1) + j \in 1 .. L * n /\ rows[L * (i - 1) + j] = seqs[i][j]

\* Joined segments are in place.
LEMMA JoinedAt ==
  ASSUME NEW L \in Nat \ {0}, NEW n \in Nat, NEW seqs
  PROVE  InPlace(seqs, L, n, Joined(seqs, L, n))
<1> SUFFICES \A i \in 1 .. n, j \in 1 .. L :
               /\ L * (i - 1) + j \in 1 .. L * n
               /\ Joined(seqs, L, n)[L * (i - 1) + j] = seqs[i][j]
  BY DEF InPlace
<1> TAKE i \in 1 .. n, j \in 1 .. L
<1> DEFINE k == L * (i - 1) + j
<1>1. k - 1 = L * (i - 1) + (j - 1) /\ i - 1 \in Nat /\ j - 1 \in 0 .. L - 1
  OBVIOUS
<1>2. (L * (i - 1) + (j - 1)) \div L = i - 1 /\ (L * (i - 1) + (j - 1)) % L = j - 1
  BY <1>1, QuotientAndRest
<1>3. k \in 1 .. L * n
  <2>1. L * (i - 1) \in Nat /\ L * i = L * (i - 1) + L
    BY <1>1
  <2>2. L * i <= L * n
    OBVIOUS
  <2> QED BY <2>1, <2>2
<1>4. Joined(seqs, L, n)[k] = seqs[((k - 1) \div L) + 1][((k - 1) % L) + 1]
  <2> HIDE DEF k
  <2> QED BY <1>3 DEF Joined
<1>5. (k - 1) \div L = i - 1 /\ (k - 1) % L = j - 1
  BY <1>1, <1>2
<1> HIDE DEF k
<1>6. ((k - 1) \div L) + 1 = i /\ ((k - 1) % L) + 1 = j
  BY <1>5
<1> QED BY <1>3, <1>4, <1>6 DEF k

\* n segments of length L.
Segments(seqs, L, n, V) == \A i \in 1 .. n : seqs[i] \in [1 .. L -> V]

\* What joining one more gives.
IsJoined(seqs, L, n, V) ==
  /\ Joined(seqs, L, n) \in Seq(V) /\ Len(Joined(seqs, L, n)) = L * n
  /\ n = 1 => Joined(seqs, L, n) = seqs[n]
  /\ n > 1 => Joined(seqs, L, n) = Joined(seqs, L, n - 1) \o seqs[n]

\* Joining one more.
LEMMA JoinedNext ==
  ASSUME NEW L \in Nat \ {0}, NEW V, NEW seqs, NEW n \in Nat \ {0}, Segments(seqs, L, n, V)
  PROVE  IsJoined(seqs, L, n, V)
<1> USE DEF Segments
<1>1. ASSUME NEW m \in 0 .. n
      PROVE  /\ Joined(seqs, L, m) \in Seq(V) /\ Len(Joined(seqs, L, m)) = L * m
             /\ DOMAIN Joined(seqs, L, m) = 1 .. L * m
  <2>1. L * m \in Nat /\ DOMAIN Joined(seqs, L, m) = 1 .. L * m
    BY DEF Joined
  <2>2. ASSUME NEW k \in 1 .. L * m PROVE Joined(seqs, L, m)[k] \in V
    <3> DEFINE q == (k - 1) \div L
               r == (k - 1) % L
    <3>1. k - 1 \in Nat /\ k - 1 = L * q + r /\ r \in 0 .. L - 1 /\ q \in Int
      <4> DEFINE a == k - 1
      <4>1. a \in Nat
        BY <2>1
      <4> HIDE DEF a
      <4>2. a = L * (a \div L) + (a % L) /\ a % L \in 0 .. L - 1 /\ a \div L \in Int
        BY <4>1
      <4> QED BY <4>1, <4>2 DEF a
    <3> HIDE DEF q, r
    <3>2. q < m
      <4> SUFFICES ASSUME q >= m PROVE FALSE
        BY <3>1
      <4>1. L * q >= L * m
        BY <3>1
      <4> QED BY <2>1, <3>1, <4>1
    <3>3. q >= 0
      <4> SUFFICES ASSUME q + 1 <= 0 PROVE FALSE
        BY <3>1
      <4>1. L * (q + 1) <= 0 /\ L * (q + 1) = L * q + L
        BY <3>1
      <4> QED BY <3>1, <4>1
    <3>4. q + 1 \in 1 .. n /\ r + 1 \in 1 .. L
      BY <3>1, <3>2, <3>3
    <3>5. seqs[q + 1][r + 1] \in V
      BY <3>4
    <3>6. Joined(seqs, L, m)[k] = seqs[q + 1][r + 1]
      BY DEF Joined, q, r
    <3> QED BY <3>5, <3>6
  <2>3. Joined(seqs, L, m) = [k \in 1 .. L * m |-> Joined(seqs, L, m)[k]]
    BY DEF Joined
  <2>4. [k \in 1 .. L * m |-> Joined(seqs, L, m)[k]] \in Seq(V)
    <3> DEFINE g == Joined(seqs, L, m)
               w == L * m
    <3>1. w \in Nat /\ \A k \in 1 .. w : g[k] \in V
      BY <2>1, <2>2
    <3> HIDE DEF g, w
    <3>2. [k \in 1 .. w |-> g[k]] \in Seq(V)
      BY <3>1
    <3> QED BY <3>2 DEF g, w
  <2>5. Len(Joined(seqs, L, m)) = L * m
    <3> DEFINE g == Joined(seqs, L, m)
               w == L * m
    <3> HIDE DEF g, w
    <3>1. g \in Seq(V) /\ DOMAIN g = 1 .. w /\ w \in Nat
      BY <2>1, <2>3, <2>4 DEF g, w
    <3>2. Len(g) = w
      BY <3>1
    <3> QED BY <3>2 DEF g, w
  <2> QED BY <2>1, <2>3, <2>4, <2>5
<1>2. ASSUME NEW k \in 1 .. L * n, k > L * (n - 1)
      PROVE  k - L * (n - 1) \in 1 .. L /\ Joined(seqs, L, n)[k] = seqs[n][k - L * (n - 1)]
  <2> DEFINE j == k - L * (n - 1)
  <2>1. L * n = L * (n - 1) + L /\ L * (n - 1) \in Nat /\ L * n \in Nat
    OBVIOUS
  <2>2. j \in 1 .. L /\ k = L * (n - 1) + j
    BY <1>2, <2>1
  <2> HIDE DEF j
  <2>3. Joined(seqs, L, n)[L * (n - 1) + j] = seqs[n][j]
    <3>1. n \in 1 .. n /\ n \in Nat
      OBVIOUS
    <3>2. InPlace(seqs, L, n, Joined(seqs, L, n))
      BY <3>1, JoinedAt
    <3> QED BY <2>2, <3>1, <3>2 DEF InPlace
  <2> QED BY <2>2, <2>3 DEF j
<1>3. ASSUME n = 1 PROVE Joined(seqs, L, n) = seqs[n]
  <2>1. L * (n - 1) = 0 /\ L * n = L
    BY <1>3
  <2>2. ASSUME NEW k \in 1 .. L PROVE Joined(seqs, L, n)[k] = seqs[n][k]
    <3>1. k \in 1 .. L * n /\ k > L * (n - 1) /\ k - L * (n - 1) = k
      BY <2>1
    <3> QED BY <1>2, <3>1
  <2>3. Joined(seqs, L, n) = [k \in 1 .. L * n |-> Joined(seqs, L, n)[k]]
    BY DEF Joined
  <2>4. seqs[n] = [k \in 1 .. L |-> seqs[n][k]]
    OBVIOUS
  <2>5. Joined(seqs, L, n) = [k \in 1 .. L |-> Joined(seqs, L, n)[k]]
    BY <2>1, <2>3
  <2>6. [k \in 1 .. L |-> Joined(seqs, L, n)[k]] = [k \in 1 .. L |-> seqs[n][k]]
    BY <2>2
  <2> QED BY <2>4, <2>5, <2>6
<1>4. ASSUME n > 1 PROVE Joined(seqs, L, n) = Joined(seqs, L, n - 1) \o seqs[n]
  <2> DEFINE a == Joined(seqs, L, n)
             b == Joined(seqs, L, n - 1)
             c == seqs[n]
  <2>1. a \in Seq(V) /\ Len(a) = L * n /\ b \in Seq(V) /\ Len(b) = L * (n - 1)
    BY <1>1
  <2>2. c \in Seq(V) /\ Len(c) = L
    OBVIOUS
  <2>3. L * n = L * (n - 1) + L /\ L * (n - 1) \in Nat /\ L * n \in Nat
    OBVIOUS
  <2>4. \A k \in 1 .. L * n : k <= L * (n - 1) => a[k] = b[k]
    BY <2>3 DEF Joined
  <2>5. \A k \in 1 .. L * n : k > L * (n - 1) => a[k] = c[k - L * (n - 1)]
    BY <1>2
  <2> DEFINE v == L * (n - 1)
             w == L * n
  <2> HIDE DEF a, b, c
  <2>6. /\ v \in Nat /\ w = v + L
        /\ \A k \in 1 .. w : a[k] = IF k <= v THEN b[k] ELSE c[k - v]
    BY <2>3, <2>4, <2>5
  <2>7. Len(a) = w /\ Len(b) = v
    BY <2>1
  <2> HIDE DEF v, w
  <2>8. /\ b \o c \in Seq(V) /\ Len(b \o c) = v + L
        /\ \A k \in 1 .. v + L : (b \o c)[k] = IF k <= v THEN b[k] ELSE c[k - v]
    BY <2>1, <2>2, <2>7, ConcatProperties
  <2>10. a = b \o c
    <3>1. /\ a \in Seq(V) /\ b \o c \in Seq(V) /\ Len(a) = Len(b \o c)
          /\ \A k \in 1 .. Len(a) : a[k] = (b \o c)[k]
      BY <2>1, <2>6, <2>7, <2>8
    <3> QED BY <3>1, SeqEqual
  <2> QED BY <2>10 DEF a, b, c
<1>5. n \in 0 .. n
  OBVIOUS
<1> QED BY <1>1, <1>3, <1>4, <1>5 DEF IsJoined

\* n segments of length L and nothing else.
EvenSegments(seqs, L, n, V) == seqs \in [1 .. n -> [1 .. L -> V]]

\* FlattenSeq joins segments of equal length one after the other.
LEMMA FlattenJoins ==
  ASSUME NEW L \in Nat \ {0}, NEW V, NEW n \in Nat \ {0}, NEW seqs,
         EvenSegments(seqs, L, n, V)
  PROVE  FlattenSeq(seqs) = Joined(seqs, L, n)
<1> DEFINE Joins(g) == g = [i \in 1 .. Len(seqs) |->
                              IF i = 1 THEN seqs[i] ELSE g[i - 1] \o seqs[i]]
           flatten == CHOOSE g : Joins(g)
           j == [i \in 1 .. n |-> Joined(seqs, L, i)]
<1>0. seqs \in [1 .. n -> [1 .. L -> V]]
  BY DEF EvenSegments
<1>1. Len(seqs) = n
  BY <1>0
<1>2. FlattenSeq(seqs) = flatten[n]
  BY <1>1 DEF FlattenSeq
<1>3. \A i \in 1 .. n : j[i] = IF i = 1 THEN seqs[i] ELSE j[i - 1] \o seqs[i]
  <2> TAKE i \in 1 .. n
  <2>1. i \in Nat \ {0} /\ Segments(seqs, L, i, V)
    BY <1>0 DEF Segments
  <2>2. /\ i = 1 => Joined(seqs, L, i) = seqs[i]
        /\ i > 1 => Joined(seqs, L, i) = Joined(seqs, L, i - 1) \o seqs[i]
    <3>1. IsJoined(seqs, L, i, V)
      BY <2>1, JoinedNext
    <3> QED BY <3>1 DEF IsJoined
  <2>3. j[i] = Joined(seqs, L, i)
    OBVIOUS
  <2>4. i > 1 => j[i - 1] = Joined(seqs, L, i - 1)
    OBVIOUS
  <2>5. i = 1 \/ i > 1
    OBVIOUS
  <2>6. i = 1 => i \in Int /\ ~(i > 1)
    OBVIOUS
  <2> HIDE DEF j
  <2> QED BY <2>2, <2>3, <2>4, <2>5, <2>6
<1> HIDE DEF j
<1>4. Joins(j)
  BY <1>1, <1>3 DEF j
<1>5. Joins(flatten)
  <2>1. \E g : Joins(g)
    BY <1>4
  <2> HIDE DEF Joins
  <2> QED BY <2>1
<1>6. \A i \in 1 .. n : flatten[i] = IF i = 1 THEN seqs[i] ELSE flatten[i - 1] \o seqs[i]
  BY <1>1, <1>5
<1> HIDE DEF flatten
<1>7. \A i \in 1 .. n : flatten[i] = j[i]
  <2> DEFINE T == {i \in 1 .. n : flatten[i] # j[i]}
  <2> SUFFICES ASSUME T # {} PROVE FALSE
    OBVIOUS
  <2>1. PICK i \in T : \A k \in T : i <= k
    <3>1. T \in SUBSET Nat
      OBVIOUS
    <3> HIDE DEF T
    <3> QED BY <3>1, LeastNumber
  <2>2. CASE i = 1
    BY <1>3, <1>6, <2>1, <2>2
  <2>3. CASE i # 1
    <3>1. i - 1 \in 1 .. n /\ i - 1 \notin T
      BY <2>1, <2>3
    <3>2. flatten[i - 1] = j[i - 1]
      BY <3>1
    <3> QED BY <1>3, <1>6, <2>1, <2>3, <3>2
  <2> QED BY <2>2, <2>3
<1> QED BY <1>2, <1>7 DEF j

\* The i-th of n equal shares of n segments of equal length is the i-th segment.
LEMMA ShareIsSegment ==
  ASSUME NEW L \in Nat \ {0}, NEW V, NEW n \in Nat \ {0}, NEW seqs,
         EvenSegments(seqs, L, n, V), NEW i \in 1 .. n
  PROVE  Share(FlattenSeq(seqs), i, n) = seqs[i]
<1> DEFINE rows == Joined(seqs, L, n)
           v == L * (i - 1)
<1>1. FlattenSeq(seqs) = rows
  BY FlattenJoins
<1>2. rows \in Seq(V) /\ Len(rows) = L * n
  <2>1. Segments(seqs, L, n, V)
    BY DEF Segments, EvenSegments
  <2>2. IsJoined(seqs, L, n, V)
    BY <2>1, JoinedNext
  <2> QED BY <2>2 DEF IsJoined
<1>3. Len(rows) \div n = L
  <2>1. 0 \in 0 .. n - 1 /\ L \in Nat /\ n * L + 0 = L * n
    OBVIOUS
  <2>2. (n * L + 0) \div n = L
    BY <2>1, QuotientAndRest
  <2> QED BY <1>2, <2>1, <2>2
<1>4. \A j \in 1 .. L : v + j \in 1 .. L * n /\ rows[v + j] = seqs[i][j]
  <2>1. n \in Nat
    OBVIOUS
  <2>2. InPlace(seqs, L, n, rows)
    BY <2>1, JoinedAt
  <2> HIDE DEF rows, v
  <2>3. ASSUME NEW j \in 1 .. L PROVE v + j \in 1 .. L * n /\ rows[v + j] = seqs[i][j]
    <3>1. L * (i - 1) + j \in 1 .. L * n /\ rows[L * (i - 1) + j] = seqs[i][j]
      BY <2>2 DEF InPlace
    <3> QED BY <3>1 DEF v
  <2> QED BY <2>3
<1>5. (i - 1) * L = v /\ i * L = v + L /\ v \in Nat
  OBVIOUS
<1> HIDE DEF rows, v
<1>6. Share(FlattenSeq(seqs), i, n) = SubSeq(rows, v + 1, v + L)
  BY <1>1, <1>3, <1>5 DEF Share
<1>7. SubSeq(rows, v + 1, v + L) = [j \in 1 .. L |-> rows[v + j]]
  <2>1. SubSeq(rows, v + 1, v + L) = [j \in 1 .. (v + L) - (v + 1) + 1 |-> rows[(v + 1) + j - 1]]
    BY <1>2, <1>5
  <2> QED BY <1>5, <2>1
<1>8. seqs[i] = [j \in 1 .. L |-> seqs[i][j]]
  BY DEF EvenSegments
<1> QED BY <1>4, <1>6, <1>7, <1>8

-----------------------------------------------------------------------------
(* The context in the ring buffers, with the rejected-context mask on.     *)

\* Next to the property: what was given to prefill_main is accepted, and a request
\* that does not run has nothing there to lose.
ContextInv ==
  /\ pos \in [Req -> Nat]
  /\ seen \in [Req -> SUBSET Nat]
  /\ \A r \in Req : \A p \in seen[r] : p < pos[r]
  /\ \A r \in Req : status[r] # "running" => seen[r] = {}
  /\ ContextKept

\* A batch: numbered rows, and for each request rows to compute, of which those
\* rejected are drafts and fit in the window.
LEMMA BatchWork ==
  ASSUME SlotsInv, pos \in [Req -> Nat], NEW b \in Batches
  PROVE  /\ \E n \in Nat \ {0} : b.reqs \in [1 .. n -> Running]
         /\ \A i \in DOMAIN b.reqs :
              LET r == b.reqs[i] IN
              /\ b.len[r] \in Nat \ {0} /\ b.rej[r] \in Nat /\ b.rej[r] < b.len[r]
              /\ b.rej[r] > 0 => b.len[r] <= Window
<1>1. PICK S \in (SUBSET Running) \ {{}} : b \in BatchesOf(S)
  BY DEF Batches
<1>2. PICK order \in SetToSeqs(S), f \in [S -> UNION {Works(r) : r \in S}] :
        /\ \A r \in S : f[r] \in Works(r)
        /\ b = [reqs |-> order, len |-> [r \in S |-> f[r].len], rej |-> [r \in S |-> f[r].rej]]
  BY <1>1 DEF BatchesOf
<1>3. order \in [1 .. Cardinality(S) -> S]
  BY DEF SetToSeqs
<1>4. Cardinality(S) \in Nat \ {0}
  <2>1. IsFiniteSet(S)
    BY FS_Subset DEF SlotsInv
  <2>2. Cardinality(S) \in Nat /\ (Cardinality(S) = 0 <=> S = {})
    BY <2>1, FS_CardinalityType, FS_EmptySet
  <2>3. S # {}
    OBVIOUS
  <2> QED BY <2>2, <2>3
<1>5. \A r \in S : /\ b.len[r] \in Nat \ {0} /\ b.rej[r] \in Nat /\ b.rej[r] < b.len[r]
                   /\ b.rej[r] > 0 => b.len[r] <= Window
  <2> TAKE r \in S
  <2>1. r \in Req /\ pos[r] \in Nat /\ PromptLen[r] \in Nat /\ NumSpec \in Nat /\ Window \in Nat
        /\ NumSpec + 1 <= Window
    BY ConstantsAssumption DEF Running
  <2>2. f[r] \in Works(r) /\ b.len[r] = f[r].len /\ b.rej[r] = f[r].rej
    BY <1>2
  <2>3. CASE pos[r] < PromptLen[r]
    BY <2>1, <2>2, <2>3 DEF Works
  <2>4. CASE ~(pos[r] < PromptLen[r])
    BY <2>1, <2>2, <2>4 DEF Works
  <2> QED BY <2>3, <2>4
<1>6. b.reqs = order
  BY <1>2
<1>7. \A i \in DOMAIN b.reqs : b.reqs[i] \in S
  BY <1>3, <1>6
<1>8. b.reqs \in [1 .. Cardinality(S) -> Running]
  BY <1>3, <1>6
<1> QED BY <1>4, <1>5, <1>7, <1>8

\* Each request is given the rows it computed, in a ragged batch or an even one.
LEMMA PieceIsSegment ==
  ASSUME GpuMask, SlotsInv, pos \in [Req -> Nat], NEW b \in Batches, NEW i \in DOMAIN b.reqs
  PROVE  Piece(b, i) = Segment(b.reqs[i], b.len[b.reqs[i]])
<1> DEFINE segments == [j \in DOMAIN b.reqs |-> Segment(b.reqs[j], Kept(b, b.reqs[j]))]
<1>1. \A j \in DOMAIN b.reqs : Kept(b, b.reqs[j]) = b.len[b.reqs[j]]
  BY DEF Kept, Trims
<1>2. segments[i] = Segment(b.reqs[i], b.len[b.reqs[i]])
  BY <1>1
<1>3. CASE Ragged(b)
  BY <1>2, <1>3 DEF Piece
<1>4. CASE ~Ragged(b)
  <2>1. PICK n \in Nat \ {0} : b.reqs \in [1 .. n -> Running]
    BY BatchWork
  <2> DEFINE L == b.len[b.reqs[i]]
  <2>2. L \in Nat \ {0}
    BY BatchWork
  <2>3. \A j \in 1 .. n : b.len[b.reqs[j]] = L
    BY <1>4, <2>1 DEF Ragged, Uniform
  <2>4. \A j \in 1 .. n : Segment(b.reqs[j], L) \in [1 .. L -> Row]
    <3> TAKE j \in 1 .. n
    <3>1. b.reqs[j] \in Req /\ pos[b.reqs[j]] \in Nat
      BY <2>1 DEF Running
    <3> QED BY <2>2, <3>1 DEF Segment, Row
  <2>5. EvenSegments(segments, L, n, Row)
    BY <1>1, <2>1, <2>3, <2>4 DEF EvenSegments
  <2>6. Len(b.reqs) = n /\ i \in 1 .. n
    BY <2>1
  <2>7. Piece(b, i) = Share(FlattenSeq(segments), i, n)
    BY <1>4, <2>6 DEF Piece
  <2> HIDE DEF segments, L
  <2>8. Share(FlattenSeq(segments), i, n) = segments[i]
    BY <2>2, <2>5, <2>6, ShareIsSegment
  <2> QED BY <1>2, <2>7, <2>8
<1> QED BY <1>3, <1>4

\* Where a request is after the step.
After(b, r) == pos[r] + b.len[r] - b.rej[r]

\* The positions from first to before end that a window which ends there holds.
InWindow(first, end) == {p \in Nat : first <= p /\ p < end /\ p >= end - Window}

\* The accepted positions of the step that the window still holds.
Fresh(b, r) == InWindow(pos[r], After(b, r))

\* The rows of r from first on.
RowsFrom(r, first, n) == [j \in 1 .. n |-> <<r, first + j - 1>>]

\* The last rows of a piece that are written, as positions.
LEMMA WrittenPositions ==
  ASSUME NEW r, NEW first \in Nat, NEW len \in Nat \ {0}, NEW rej \in Nat, rej < len,
         rej > 0 => len <= Window
  PROVE  Written(RowsFrom(r, first, len), rej) =
           {<<r, p>> : p \in InWindow(first, first + len - rej)}
<1> DEFINE piece == RowsFrom(r, first, len)
           drop == Larger(len - Window, 0)
           valid == Larger(len - drop - rej, 1)
           fresh == InWindow(first, first + len - rej)
<1>1. Window \in Nat \ {0}
  BY ConstantsAssumption
<1>2. Len(piece) = len
  BY DEF RowsFrom
<1>3. Written(piece, rej) = {piece[drop + j] : j \in 1 .. valid}
  BY <1>2 DEF Written
<1>4. /\ drop \in Nat /\ valid \in Nat /\ drop + valid = len - rej
      /\ drop = 0 \/ (drop = len - Window /\ rej = 0)
      /\ drop >= len - Window
  <2>1. CASE rej > 0
    BY <1>1, <2>1 DEF Larger
  <2>2. CASE rej = 0
    BY <1>1, <2>2 DEF Larger
  <2> QED BY <2>1, <2>2
<1> HIDE DEF drop, valid
<1>5. \A j \in 1 .. valid : piece[drop + j] = <<r, first + drop + j - 1>>
  BY <1>4 DEF RowsFrom
<1> HIDE DEF piece
<1>6. fresh = {first + drop + j - 1 : j \in 1 .. valid}
  <2>1. ASSUME NEW p \in fresh PROVE p \in {first + drop + j - 1 : j \in 1 .. valid}
    <3>1. p - first - drop + 1 \in 1 .. valid
      BY <1>1, <1>4 DEF InWindow
    <3>2. p = first + drop + (p - first - drop + 1) - 1
      BY <1>4 DEF InWindow
    <3> QED BY <3>1, <3>2
  <2>2. ASSUME NEW j \in 1 .. valid PROVE first + drop + j - 1 \in fresh
    BY <1>1, <1>4 DEF InWindow
  <2> QED BY <2>1, <2>2
<1>7. {piece[drop + j] : j \in 1 .. valid} = {<<r, first + drop + j - 1>> : j \in 1 .. valid}
  BY <1>5
<1>8. {<<r, p>> : p \in fresh} = {<<r, first + drop + j - 1>> : j \in 1 .. valid}
  BY <1>6
<1> QED BY <1>3, <1>7, <1>8 DEF piece

\* What is written of a request are its fresh rows.
LEMMA WrittenIsFresh ==
  ASSUME GpuMask, SlotsInv, pos \in [Req -> Nat], NEW b \in Batches, NEW i \in DOMAIN b.reqs
  PROVE  Written(Piece(b, i), Masked(b, i)) = {<<b.reqs[i], p>> : p \in Fresh(b, b.reqs[i])}
<1>1. PICK n \in Nat \ {0} : b.reqs \in [1 .. n -> Running]
  BY BatchWork
<1>2. PICK r \in Req : r = b.reqs[i]
  BY <1>1 DEF Running
<1>3. PICK len \in Nat \ {0}, rej \in Nat :
        len = b.len[r] /\ rej = b.rej[r] /\ rej < len /\ (rej > 0 => len <= Window)
  BY <1>2, BatchWork
<1>4. PICK first \in Nat : first = pos[r]
  BY <1>2
<1>5. Piece(b, i) = RowsFrom(r, first, len) /\ Masked(b, i) = rej
  BY <1>2, <1>3, <1>4, PieceIsSegment DEF Segment, Masked, RowsFrom
<1>6. Fresh(b, r) = InWindow(first, first + len - rej)
  BY <1>3, <1>4 DEF Fresh, After
<1>7. Written(RowsFrom(r, first, len), rej) =
        {<<r, p>> : p \in InWindow(first, first + len - rej)}
  <2>1. rej < len /\ (rej > 0 => len <= Window)
    BY <1>3
  <2> QED BY <2>1, WrittenPositions
<1>8. Written(Piece(b, i), Masked(b, i)) = {<<r, p>> : p \in Fresh(b, r)}
  BY <1>5, <1>6, <1>7
<1> QED BY <1>2, <1>8

\* Fresh positions are closer together than the window is wide: no two share a cell.
LEMMA FreshApart ==
  ASSUME NEW p \in Nat, NEW q \in Nat, p % Window = q % Window, p < q
  PROVE  q - p >= Window
<1> DEFINE d == Window
<1>1. d \in Nat \ {0}
  BY ConstantsAssumption
<1> HIDE DEF d
<1>2. /\ p = d * (p \div d) + (p % d) /\ q = d * (q \div d) + (q % d)
      /\ p \div d \in Int /\ q \div d \in Int /\ p % d \in Int /\ q % d \in Int
  BY <1>1
<1> DEFINE x == p \div d
           y == q \div d
<1>3. x \in Int /\ y \in Int /\ p % d = q % d
  BY <1>2 DEF d
<1> HIDE DEF x, y
<1>4. q - p = d * y - d * x /\ d * y \in Int /\ d * x \in Int
  BY <1>1, <1>2, <1>3 DEF x, y
<1>5. d * x < d * y
  BY <1>4
<1>6. x < y
  BY <1>1, <1>3, <1>5
<1>7. d * (x + 1) <= d * y /\ d * (x + 1) = d * x + d
  BY <1>1, <1>3, <1>6
<1>8. q - p >= d
  BY <1>1, <1>4, <1>7
<1> QED BY <1>8 DEF d

\* What slots a batch is stored in: each request's own, identity or not.
LEMMA OwnCacheRow ==
  ASSUME NEW b, NEW slots, slots = [i \in DOMAIN b.reqs |-> slotOf'[b.reqs[i]]],
         DOMAIN b.reqs \subseteq Int, NEW k \in DOMAIN b.reqs
  PROVE  CacheRow(slots, k) = slotOf'[b.reqs[k]]
<1>1. slots[k] = slotOf'[b.reqs[k]] /\ k \in DOMAIN slots
  OBVIOUS
<1> QED BY <1>1 DEF CacheRow, IsIdentity

\* Fresh positions of r that share a cell.
FreshIn(b, r, c) == {p \in Fresh(b, r) : p % Window = c}

\* A cell of the slot of r gets the fresh row of r there, if there is one, and no
\* other request writes it.
LEMMA StoreWrites ==
  ASSUME GpuMask, SlotsInv, pos \in [Req -> Nat], NEW b \in Batches, NEW slots,
         slots = [i \in DOMAIN b.reqs |-> slotOf'[b.reqs[i]]], Store(b, slots),
         slotOf' \in [Req -> Slots \cup {NoSlot}], SlotsExclusive', ToSet(b.reqs) \subseteq Mapped',
         NEW r \in ToSet(b.reqs), NEW c \in Cells
  PROVE  ring'[slotOf'[r]][c] =
           IF FreshIn(b, r, c) = {} THEN ring[slotOf'[r]][c]
           ELSE {<<r, p>> : p \in FreshIn(b, r, c)}
<1> DEFINE written == [i \in DOMAIN b.reqs |-> Written(Piece(b, i), Masked(b, i))]
           of(s) == UNION {written[i] : i \in {k \in DOMAIN b.reqs : CacheRow(slots, k) = s}}
           inCell(s, d) == {row \in of(s) : row[2] % Window = d}
<1>1. ring' = [s \in Slots |-> [d \in Cells |->
                 IF inCell(s, d) = {} THEN ring[s][d] ELSE inCell(s, d)]]
  BY DEF Store
<1>2. slotOf'[r] \in Slots
  BY DEF Mapped
<1>3. ring'[slotOf'[r]][c] = IF inCell(slotOf'[r], c) = {} THEN ring[slotOf'[r]][c]
                             ELSE inCell(slotOf'[r], c)
  BY <1>1, <1>2
<1>4. DOMAIN b.reqs \subseteq Int
  BY BatchShape
<1>5. {k \in DOMAIN b.reqs : CacheRow(slots, k) = slotOf'[r]} = {k \in DOMAIN b.reqs : b.reqs[k] = r}
  <2>1. \A k \in DOMAIN b.reqs : CacheRow(slots, k) = slotOf'[b.reqs[k]]
    BY <1>4, OwnCacheRow
  <2>2. \A k \in DOMAIN b.reqs : b.reqs[k] \in Mapped' /\ r \in Mapped'
    BY DEF ToSet
  <2>3. \A k \in DOMAIN b.reqs : slotOf'[b.reqs[k]] = slotOf'[r] => b.reqs[k] = r
    BY <2>2 DEF SlotsExclusive
  <2> QED BY <2>1, <2>3
<1>6. \A k \in DOMAIN b.reqs : b.reqs[k] = r => written[k] = {<<r, p>> : p \in Fresh(b, r)}
  BY WrittenIsFresh
<1>7. \E k \in DOMAIN b.reqs : b.reqs[k] = r
  BY DEF ToSet
<1> HIDE DEF written
<1>8. of(slotOf'[r]) = {<<r, p>> : p \in Fresh(b, r)}
  <2> DEFINE K == {k \in DOMAIN b.reqs : CacheRow(slots, k) = slotOf'[r]}
  <2>1. of(slotOf'[r]) = UNION {written[i] : i \in K}
    OBVIOUS
  <2>2. \A k \in K : written[k] = {<<r, p>> : p \in Fresh(b, r)}
    BY <1>5, <1>6
  <2>3. \E k \in K : TRUE
    BY <1>5, <1>7
  <2> HIDE DEF K, of
  <2> QED BY <2>1, <2>2, <2>3
<1>9. inCell(slotOf'[r], c) = {<<r, p>> : p \in FreshIn(b, r, c)}
  <2> HIDE DEF of
  <2> QED BY <1>8 DEF FreshIn
<1>10. inCell(slotOf'[r], c) = {} <=> FreshIn(b, r, c) = {}
  <2> HIDE DEF inCell
  <2> QED BY <1>9
<1> HIDE DEF inCell
<1> QED BY <1>3, <1>9, <1>10

\* A batch that proposes, with the mask on: nothing raises, the slots are
\* assigned, the context is stored.
LEMMA ProposesStores ==
  ASSUME GpuMask, SlotsInv, ContextInv, NEW b \in Batches, StepProposes(b)
  PROVE  /\ AssignSlots(b.reqs) /\ Advance(b)
         /\ StoreAndDraft(b, [i \in DOMAIN b.reqs |-> slotOf'[b.reqs[i]]])
         /\ slotOf' \in [Req -> Slots \cup {NoSlot}] /\ SlotsExclusive'
         /\ Mapped' = ToSet(b.reqs) /\ ToSet(b.reqs) \subseteq Running
<1>1. ToSet(b.reqs) \subseteq Running /\ ToSet(b.reqs) \subseteq Req /\ DOMAIN b.reqs \subseteq Int
  BY BatchShape DEF Running
<1>2. ~Exhausted(b.reqs)
  BY <1>1, PoolSuffices
<1>3. ~TrimRaises(b)
  BY DEF TrimRaises, Trims
<1>4. AssignSlots(b.reqs)
  BY <1>2 DEF StepProposes
<1>5. slotOf' \in [Req -> Slots \cup {NoSlot}] /\ SlotsExclusive'
  BY <1>1, <1>4, AssignmentExclusive
<1>6. Mapped' = ToSet(b.reqs)
  <2>1. PICK f \in [Newcomers(b.reqs) -> Pool(b.reqs)] : slotOf' = MappedAfter(f, b.reqs)
    BY <1>4 DEF AssignSlots
  <2>2. Pool(b.reqs) \subseteq Slots
    BY PoolIsTheRest DEF SlotsInv
  <2>3. \A r \in Mapped : slotOf[r] \in Slots
    BY DEF SlotsInv, Mapped
  <2> QED BY <1>1, <2>1, <2>2, <2>3, SlotsAreNumbers DEF Mapped, MappedAfter, Newcomers
<1>7. ~raised'
  <2>1. raised' = (Exhausted(b.reqs) \/ TrimRaises(b))
    BY DEF StepProposes
  <2> QED BY ONLY <1>2, <1>3, <2>1, Zenon
<1>8. StoreAndDraft(b, [i \in DOMAIN b.reqs |-> slotOf'[b.reqs[i]]]) /\ Advance(b)
  BY <1>7 DEF StepProposes
<1> QED BY <1>1, <1>4, <1>5, <1>6, <1>8

\* Where the step leaves every request, and what it has seen.
LEMMA Advances ==
  ASSUME SlotsInv, pos \in [Req -> Nat], NEW b \in Batches, Advance(b)
  PROVE  /\ pos' \in [Req -> Nat] /\ status' = status
         /\ \A r \in Req : /\ r \in ToSet(b.reqs) => pos'[r] = After(b, r) /\ pos'[r] > pos[r]
                           /\ r \notin ToSet(b.reqs) => pos'[r] = pos[r]
         /\ \A r \in ToSet(b.reqs) : \A p \in Nat :
              p \in Accepted(b, r) <=> pos[r] <= p /\ p < pos'[r]
         /\ \A r \in ToSet(b.reqs) : Accepted(b, r) \subseteq Nat
<1>1. \A r \in ToSet(b.reqs) : /\ r \in Req /\ b.len[r] \in Nat \ {0} /\ b.rej[r] \in Nat
                               /\ b.rej[r] < b.len[r]
  BY BatchWork, BatchShape DEF ToSet, Running
<1>2. \A r \in Req : r \in ToSet(b.reqs) =>
        After(b, r) \in Nat /\ After(b, r) > pos[r]
  BY <1>1 DEF After
<1>3. pos' = [r \in Req |-> IF r \in ToSet(b.reqs) THEN After(b, r) ELSE pos[r]] /\ status' = status
  BY DEF Advance, After
<1>4. ASSUME NEW r \in ToSet(b.reqs)
      PROVE  /\ \A p \in Nat : p \in Accepted(b, r) <=> pos[r] <= p /\ p < pos'[r]
             /\ Accepted(b, r) \subseteq Nat
  <2>1. /\ pos[r] \in Nat /\ b.len[r] \in Nat /\ b.rej[r] \in Nat
        /\ pos'[r] = pos[r] + b.len[r] - b.rej[r]
    BY <1>1, <1>3 DEF After
  <2>2. ASSUME NEW p \in Nat, pos[r] <= p, p < pos'[r] PROVE p \in Accepted(b, r)
    <3>1. p = pos[r] + (p - pos[r]) /\ p - pos[r] \in 0 .. b.len[r] - b.rej[r] - 1
      BY <2>1, <2>2
    <3> QED BY <3>1 DEF Accepted
  <2>3. ASSUME NEW p \in Accepted(b, r) PROVE p \in Nat /\ pos[r] <= p /\ p < pos'[r]
    BY <2>1, <2>3 DEF Accepted
  <2> QED BY <2>2, <2>3
<1> QED BY <1>2, <1>3, <1>4

\* Proposing: the new positions are written, and those of the window that were
\* there before keep their cells.
LEMMA ProposeKeepsContext ==
  ASSUME GpuMask, SlotsInv, ContextInv, NEW b \in Batches, StepProposes(b)
  PROVE  ContextInv'
<1> DEFINE A == ToSet(b.reqs)
           slots == [i \in DOMAIN b.reqs |-> slotOf'[b.reqs[i]]]
<1>1. /\ AssignSlots(b.reqs) /\ Advance(b) /\ StoreAndDraft(b, slots)
      /\ slotOf' \in [Req -> Slots \cup {NoSlot}] /\ SlotsExclusive'
      /\ Mapped' = A /\ A \subseteq Running
  BY ProposesStores
<1>2. pos \in [Req -> Nat] /\ pos' \in [Req -> Nat] /\ status' = status
      /\ A \subseteq Req
  BY <1>1, Advances DEF ContextInv, Running
<1>3. /\ \A r \in A : pos'[r] = After(b, r) /\ pos'[r] > pos[r]
      /\ \A r \in Req \ A : pos'[r] = pos[r]
      /\ \A r \in A : \A p \in Nat : p \in Accepted(b, r) <=> pos[r] <= p /\ p < pos'[r]
      /\ \A r \in A : Accepted(b, r) \subseteq Nat
  <2>1. /\ \A r \in Req : /\ r \in A => pos'[r] = After(b, r) /\ pos'[r] > pos[r]
                          /\ r \notin A => pos'[r] = pos[r]
        /\ \A r \in A : \A p \in Nat : p \in Accepted(b, r) <=> pos[r] <= p /\ p < pos'[r]
        /\ \A r \in A : Accepted(b, r) \subseteq Nat
    BY <1>1, <1>2, Advances
  <2> HIDE DEF A
  <2>2. ASSUME NEW r \in A PROVE pos'[r] = After(b, r) /\ pos'[r] > pos[r]
    <3>1. r \in Req
      BY <1>2
    <3> QED BY <2>1, <3>1
  <2>3. \A r \in Req \ A : pos'[r] = pos[r]
    BY <2>1
  <2> QED BY ONLY <2>1, <2>2, <2>3, Zenon
<1>4. seen' = [r \in Req |-> IF r \in A THEN {p \in seen[r] \cup Accepted(b, r) : p >= pos'[r] - Window}
                            ELSE seen[r]]
  BY <1>1 DEF StoreAndDraft
<1>5. seen \in [Req -> SUBSET Nat] /\ \A r \in Req : \A p \in seen[r] : p < pos[r]
  BY DEF ContextInv
<1> HIDE DEF A, slots
<1>6. seen' \in [Req -> SUBSET Nat]
  <2>1. \A r \in Req : \A p \in seen'[r] : p \in Nat
    BY <1>3, <1>4, <1>5
  <2> QED BY <1>4, <2>1
<1>7. \A r \in Req : \A p \in seen'[r] : p < pos'[r]
  <2> TAKE r \in Req
  <2> TAKE p \in seen'[r]
  <2>1. CASE r \in A
    <3>1. p \in Nat /\ pos[r] \in Nat /\ pos'[r] \in Nat
      BY <1>2, <1>6
    <3>2. p \in seen[r] \/ p \in Accepted(b, r)
      BY <1>4, <2>1
    <3> QED BY <1>3, <1>5, <2>1, <3>1, <3>2
  <2>2. CASE r \notin A
    BY <1>3, <1>4, <1>5, <2>2
  <2> QED BY <2>1, <2>2
<1>8. \A r \in Req : status'[r] # "running" => seen'[r] = {}
  BY <1>1, <1>2, <1>4 DEF ContextInv, Running
<1>9. ContextKept'
  <2> SUFFICES ASSUME NEW r \in A, NEW p \in seen'[r], p >= since'[r], p > pos'[r] - 1 - Window
               PROVE  ring'[slotOf'[r]][p % Window] = {<<r, p>>}
    BY <1>1 DEF ContextKept
  <2>1. /\ r \in Req /\ p \in Nat /\ pos[r] \in Nat /\ pos'[r] \in Nat /\ Window \in Nat \ {0}
        /\ p < pos'[r] /\ pos'[r] = After(b, r) /\ pos'[r] > pos[r]
    BY <1>2, <1>3, <1>6, <1>7, ConstantsAssumption
  <2> DEFINE c == p % Window
  <2>2. c \in Cells
    BY <2>1 DEF Cells
  <2>3. ring'[slotOf'[r]][c] =
          IF FreshIn(b, r, c) = {} THEN ring[slotOf'[r]][c] ELSE {<<r, q>> : q \in FreshIn(b, r, c)}
    <3>1. Store(b, slots) /\ slots = [i \in DOMAIN b.reqs |-> slotOf'[b.reqs[i]]]
      BY <1>1 DEF StoreAndDraft, slots
    <3>2. ToSet(b.reqs) \subseteq Mapped' /\ r \in ToSet(b.reqs)
      BY <1>1 DEF A
    <3> HIDE DEF c
    <3> QED BY <1>1, <1>2, <2>2, <3>1, <3>2, StoreWrites
  <2>4. \A q \in FreshIn(b, r, c) : /\ q \in Nat /\ pos[r] <= q /\ q < pos'[r] /\ q >= pos'[r] - Window
                                    /\ q % Window = p % Window
    BY <2>1 DEF FreshIn, Fresh, InWindow
  <2>5. \A q \in FreshIn(b, r, c) : q = p
    <3> TAKE q \in FreshIn(b, r, c)
    <3>1. q < p => p - q >= Window
      BY <2>1, <2>4, FreshApart
    <3>2. p < q => q - p >= Window
      BY <2>1, <2>4, FreshApart
    <3> QED BY <2>1, <2>4, <3>1, <3>2
  <2>6. CASE pos[r] <= p
    <3>1. p \in FreshIn(b, r, c)
      BY <2>1, <2>6 DEF FreshIn, Fresh, InWindow
    <3>2. FreshIn(b, r, c) = {p}
      BY <2>5, <3>1
    <3> QED BY <2>3, <3>2
  <2>7. CASE p < pos[r]
    <3>1. FreshIn(b, r, c) = {}
      BY <2>1, <2>4, <2>5, <2>7
    <3>2. PICK f : /\ slotOf' = MappedAfter(f, b.reqs)
                   /\ since' = [q \in Req |-> IF q \notin ToSet(b.reqs) THEN 0
                                            ELSE IF q \in Newcomers(b.reqs) THEN pos[q] ELSE since[q]]
      BY <1>1 DEF AssignSlots
    <3>3. r \notin Newcomers(b.reqs)
      BY <2>1, <2>7, <3>2 DEF A
    <3>4. since'[r] = since[r] /\ slotOf'[r] = slotOf[r] /\ r \in Mapped
      BY <2>1, <3>2, <3>3 DEF A, MappedAfter, Newcomers
    <3>5. p \in seen[r]
      BY <1>3, <1>4, <2>1, <2>7
    <3>6. p > pos[r] - 1 - Window
      BY <2>1
    <3>7. ring[slotOf[r]][p % Window] = {<<r, p>>}
      BY <3>4, <3>5, <3>6 DEF ContextInv, ContextKept
    <3> QED BY <2>3, <3>1, <3>4, <3>7
  <2> QED BY <2>1, <2>6, <2>7
<1> QED BY <1>2, <1>6, <1>7, <1>8, <1>9 DEF ContextInv

\* Steps on which propose() is not called or returns at once: the requests move on,
\* the buffers stay.
LEMMA SkippedKeepsContext ==
  ASSUME SlotsInv, ContextInv, NEW b \in Batches, StepUnfit(b) \/ StepUneven(b)
  PROVE  ContextInv' /\ drafted' = <<>>
<1>1. Advance(b) /\ UNCHANGED <<slotOf, ring, seen, since>> /\ drafted' = <<>>
  BY DEF StepUnfit, StepUneven
<1>2. pos \in [Req -> Nat] /\ pos' \in [Req -> Nat] /\ status' = status
  BY <1>1, Advances DEF ContextInv
<1>3. \A r \in Req : pos'[r] >= pos[r] /\ pos[r] \in Nat /\ pos'[r] \in Nat
  <2>1. \A r \in Req : /\ r \in ToSet(b.reqs) => pos'[r] = After(b, r) /\ pos'[r] > pos[r]
                       /\ r \notin ToSet(b.reqs) => pos'[r] = pos[r]
    BY <1>1, <1>2, Advances
  <2>2. ASSUME NEW r \in Req PROVE pos'[r] >= pos[r]
    <3>1. pos[r] \in Nat /\ pos'[r] \in Nat
      BY <1>2
    <3>2. CASE r \in ToSet(b.reqs)
      BY <2>1, <3>1, <3>2
    <3>3. CASE r \notin ToSet(b.reqs)
      BY <2>1, <3>1, <3>3
    <3> QED BY <3>2, <3>3
  <2> QED BY <1>2, <2>2
<1>4. \A r \in Req : \A p \in seen'[r] : p \in Nat /\ p < pos'[r]
  BY <1>1, <1>3 DEF ContextInv
<1>5. ContextKept'
  <2> SUFFICES ASSUME NEW r \in Mapped, NEW p \in seen[r], p >= since[r], p > pos'[r] - 1 - Window
               PROVE  ring[slotOf[r]][p % Window] = {<<r, p>>}
    BY <1>1 DEF ContextKept, Mapped
  <2>1. r \in Req
    BY DEF Mapped
  <2>2. p \in Nat /\ Window \in Nat
    BY <1>1, <1>4, <2>1, ConstantsAssumption
  <2>3. p > pos[r] - 1 - Window
    BY <1>3, <2>1, <2>2
  <2> QED BY <2>3 DEF ContextInv, ContextKept
<1> QED BY <1>1, <1>2, <1>4, <1>5 DEF ContextInv

\* Between two steps: a request that is admitted, preempted or done has seen
\* nothing that would have to be kept.
LEMMA EnvironmentKeepsContext ==
  ASSUME SlotsInv, ContextInv, Environment
  PROVE  ContextInv' /\ drafted' = <<>>
<1>1. PICK r \in Req : Admit(r) \/ Preempt(r) \/ Finish(r)
  BY DEF Environment
<1>2. /\ UNCHANGED <<slotOf, ring, since>> /\ drafted' = <<>>
      /\ \A q \in Req : q # r => pos'[q] = pos[q] /\ status'[q] = status[q] /\ seen'[q] = seen[q]
  BY <1>1 DEF Admit, Preempt, Finish, SlotsInv, ContextInv
<1>3. pos' \in [Req -> Nat]
  BY <1>1, ConstantsAssumption DEF Admit, Preempt, Finish, ContextInv
<1>4. seen' \in [Req -> SUBSET Nat] /\ seen'[r] = {}
  BY <1>1 DEF Admit, Preempt, Finish, ContextInv
<1>5. \A q \in Req : \A p \in seen'[q] : p < pos'[q] /\ p \in seen[q] /\ pos'[q] = pos[q]
  BY <1>2, <1>4 DEF ContextInv
<1>6. \A q \in Req : status'[q] # "running" => seen'[q] = {}
  BY <1>2, <1>4 DEF ContextInv
<1>7. ContextKept'
  <2> SUFFICES ASSUME NEW q \in Mapped, NEW p \in seen'[q], p >= since[q], p > pos'[q] - 1 - Window
               PROVE  ring[slotOf[q]][p % Window] = {<<q, p>>}
    BY <1>2 DEF ContextKept, Mapped
  <2>1. q \in Req
    BY DEF Mapped
  <2> QED BY <1>5, <2>1 DEF ContextInv, ContextKept
<1> QED BY <1>2, <1>3, <1>4, <1>5, <1>6, <1>7 DEF ContextInv

\* What a proposing step drafts from.
LEMMA ProposeDraftsRight ==
  ASSUME GpuMask, SlotsInv, ContextInv, NEW b \in Batches, StepProposes(b)
  PROVE  DraftInputsRight'
<1> DEFINE slots == [i \in DOMAIN b.reqs |-> slotOf'[b.reqs[i]]]
<1>1. Advance(b) /\ StoreAndDraft(b, slots)
  BY ProposesStores
<1>2. drafted' = <<>> \/ drafted' = Drafts(b, slots)
  BY <1>1 DEF StoreAndDraft
<1>3. CASE drafted' = <<>>
  BY <1>3 DEF DraftInputsRight
<1>4. CASE drafted' = Drafts(b, slots)
  <2>1. DOMAIN b.reqs \subseteq Int
    BY BatchShape
  <2>2. DOMAIN drafted' = DOMAIN b.reqs
    BY <1>4 DEF Drafts
  <2> SUFFICES ASSUME NEW i \in DOMAIN b.reqs
               PROVE  LET r == drafted'[i].req IN
                      drafted'[i].slot = slotOf'[r] /\ drafted'[i].anchor = <<r, pos'[r] - 1>>
    BY <2>2 DEF DraftInputsRight
  <2> DEFINE r == b.reqs[i]
  <2>3. /\ drafted'[i].req = r /\ drafted'[i].slot = CacheRow(slots, i)
        /\ drafted'[i].anchor = Anchor(b, i)
    BY <1>4 DEF Drafts
  <2>4. CacheRow(slots, i) = slotOf'[r]
    BY <2>1, OwnCacheRow
  <2>5. Anchor(b, i) = <<r, pos'[r] - 1>>
    <3> HIDE DEF slots
    <3>1. PICK n \in Nat \ {0} : b.reqs \in [1 .. n -> Running]
      BY BatchWork DEF ContextInv
    <3>2. PICK q \in Req : q = b.reqs[i] /\ q \in ToSet(b.reqs)
      BY <3>1 DEF Running, ToSet
    <3>3. PICK len \in Nat \ {0}, rej \in Nat : len = b.len[q] /\ rej = b.rej[q] /\ rej < len
      BY <3>2, BatchWork DEF ContextInv
    <3>4. PICK first \in Nat : first = pos[q]
      BY <3>2 DEF ContextInv
    <3>5. Piece(b, i) = [j \in 1 .. len |-> <<q, first + j - 1>>] /\ Masked(b, i) = rej
      BY <3>2, <3>3, <3>4, PieceIsSegment DEF Segment, Masked, ContextInv
    <3>6. Len(Piece(b, i)) = len
      BY <3>5
    <3>7. Larger(len - rej, 1) = len - rej /\ len - rej \in 1 .. len
      BY <3>3 DEF Larger
    <3>8. Anchor(b, i) = <<q, first + (len - rej) - 1>>
      BY <3>5, <3>6, <3>7 DEF Anchor
    <3>9. pos'[q] = first + len - rej
      BY <1>1, <3>2, <3>3, <3>4 DEF Advance
    <3> QED BY <3>2, <3>3, <3>8, <3>9
  <2> QED BY <2>3, <2>4, <2>5
<1> QED BY <1>2, <1>3, <1>4

\* Any step, given the slot map.
LEMMA NextKeepsContext ==
  ASSUME GpuMask, SlotsInv, ContextInv, DraftInputsRight, [Next]_vars
  PROVE  ContextInv' /\ DraftInputsRight'
<1>1. CASE Step
  <2>1. PICK b \in Batches : StepUnfit(b) \/ StepUneven(b) \/ StepProposes(b)
    BY <1>1 DEF Step
  <2>2. CASE StepProposes(b)
    BY <2>2, ProposeKeepsContext, ProposeDraftsRight
  <2>3. CASE StepUnfit(b) \/ StepUneven(b)
    BY <2>3, SkippedKeepsContext DEF DraftInputsRight
  <2> QED BY <2>1, <2>2, <2>3
<1>2. CASE Environment
  BY <1>2, EnvironmentKeepsContext DEF DraftInputsRight
<1>3. CASE UNCHANGED vars
  BY <1>3 DEF vars, ContextInv, ContextKept, DraftInputsRight, Mapped
<1> QED BY <1>1, <1>2, <1>3 DEF Next

\* Context and drafts are right in every reachable state, with the mask on.
THEOREM ContextInvariant ==
  ASSUME GpuMask
  PROVE  Spec => [](ContextInv /\ DraftInputsRight)
<1>1. Init => ContextInv /\ DraftInputsRight
  <2> SUFFICES ASSUME Init PROVE ContextInv /\ DraftInputsRight
    OBVIOUS
  <2>1. Mapped = {}
    BY DEF Init, Mapped
  <2> QED BY <2>1 DEF Init, ContextInv, ContextKept, DraftInputsRight
<1>2. SlotsInv /\ ContextInv /\ DraftInputsRight /\ [Next]_vars => (ContextInv /\ DraftInputsRight)'
  BY NextKeepsContext
<1> QED BY <1>1, <1>2, SlotMapInvariant, PTL DEF Spec

\* What a request's window needs stays in its slot's ring buffer: no batch, whatever
\* its lengths, rejections and order, overwrites it (store_main_kv, prefill_main).
THEOREM ContextStays ==
  ASSUME GpuMask
  PROVE  Spec => []ContextKept
<1>1. ContextInv /\ DraftInputsRight => ContextKept
  BY DEF ContextInv
<1> QED BY <1>1, ContextInvariant, PTL

\* Every draft starts from its own request's slot and last accepted token (propose).
THEOREM DraftsStartRight ==
  ASSUME GpuMask
  PROVE  Spec => []DraftInputsRight
<1> QED BY ContextInvariant, PTL

=============================================================================
