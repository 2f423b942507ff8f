------------------------ MODULE AsyncSchedulerProofs ------------------------
(***************************************************************************)
(* The accounting of the scheduler, and of its KV blocks, for every number *)
(* of requests, budget, model length and number of drafts: the invariants  *)
(* that the runs of AsyncScheduler check on small instances.               *)
(*                                                                         *)
(* Two assumptions are needed: a forced reset comes when nothing is in     *)
(* flight (the run sched_reset shows what happens otherwise), and the id   *)
(* of a request that ended is not used again.                              *)
(***************************************************************************)
EXTENDS AsyncScheduler, TLAPS, FiniteSetTheorems, SequenceTheorems

-----------------------------------------------------------------------------
(* The inductive invariant.                                                *)

Scheduling == pc \in {"running", "allocate", "waiting", "commit"}

\* Which variables mean something in which loop, and how many steps are in flight.
Phases ==
  /\ older = NoFrame => newer = NoFrame
  /\ Scheduling => newer = NoFrame
  /\ pc = "reset" => older = NoFrame
  /\ pc = "update" => older # NoFrame /\ left \subseteq InStep(older.n)
  /\ pc # "update" => left = {}
  /\ pc = "waiting" => preempted = {}
  /\ pc \in {"running", "allocate"} => admitted = {}
  /\ ~Scheduling => preempted = {} /\ admitted = {}
  /\ \A r \in Req :
       /\ ~Scheduling => sched[r] = 0 /\ draft[r] = 0
       /\ pc # "allocate" => need[r] = 0
       /\ need[r] <= budget
       /\ \A s \in Req : need[r] # 0 /\ need[s] # 0 => r = s

\* The RUNNING loop has scheduled only requests it has passed.
PassedAreBehind ==
  pc \in {"running", "allocate"} =>
    \A i \in 1 .. Len(running) :
      /\ sched[running[i]] # 0 => i < idx
      /\ need[running[i]] # 0 => i <= idx

\* A step in flight marks as stale exactly the requests in it that ended.
FrameKnows(f, r) ==
  f # NoFrame =>
    /\ Live(r) => r \notin f.stale
    /\ f.n[r] # 0 /\ r \notin f.stale => Live(r)
    /\ req[r].status = "ABSENT" => f.n[r] = 0 /\ r \notin f.stale

Known(r) ==
  /\ FrameKnows(older, r) /\ FrameKnows(newer, r)
  /\ req[r].status = "ABSENT" => r \notin prevStep
  /\ req[r].status # "RUNNING" => sched[r] = 0 /\ need[r] = 0 /\ draft[r] = 0
  /\ r \in admitted => req[r].status = "RUNNING"

LiveAccount(r) ==
  Live(r) =>
    /\ req[r].ph = Owed(r)
    /\ req[r].discard = 0
    /\ NumTokens(r) < MaxModelLen
    /\ NumTokens(r) + req[r].ph <= MaxModelLen

\* A waiting request has nothing computed; a step may still owe it tokens, but
\* it is back before a step can admit again.
WaitingAccount(r) ==
  req[r].status \in {"WAITING", "PREEMPTED"} =>
    /\ req[r].computed = 0 /\ req[r].spec = 0
    /\ OwedBy(newer, r) = 0
    /\ OwedBy(older, r) # 0 => newer # NoFrame \/ r \in preempted
    /\ pc # "reset" /\ r \in prevStep => r \in preempted

\* A request this step admitted: its first chunk, with no drafts.
AdmittedAccount(r) ==
  r \in admitted =>
    /\ req[r].ph = 0 /\ req[r].spec = 0
    /\ req[r].computed + sched[r] <= NumTokens(r)
    /\ sched[r] # 0 /\ draft[r] = 0

PrefillAccount(r) ==
  req[r].status = "RUNNING" /\ r \notin admitted /\ req[r].chunk =>
    /\ req[r].computed < NumTokens(r)
    /\ req[r].ph = 0 /\ req[r].spec = 0
    /\ req[r].computed + sched[r] <= NumTokens(r)
    /\ req[r].computed + need[r] <= NumTokens(r)
    /\ draft[r] = 0

DecodeAccount(r) ==
  req[r].status = "RUNNING" /\ r \notin admitted /\ ~req[r].chunk =>
    /\ req[r].computed = NumTokens(r) + req[r].ph - 1
    /\ req[r].computed + sched[r] < MaxModelLen
    /\ req[r].computed + need[r] < MaxModelLen
    /\ need[r] <= 1 + req[r].spec
    /\ sched[r] # 0 => draft[r] = sched[r] - 1

Accounts(r) ==
  /\ Known(r) /\ LiveAccount(r) /\ WaitingAccount(r)
  /\ AdmittedAccount(r) /\ PrefillAccount(r) /\ DecodeAccount(r)

IInv ==
  /\ TypeOK /\ QueuesMatchStatus /\ Phases /\ PassedAreBehind
  /\ \A r \in Req : Accounts(r)

-----------------------------------------------------------------------------
(* Lists and queues.                                                       *)

\* What list.remove leaves: the others, each in its place or one further ahead.
LEMMA RemoveAtLemma ==
  ASSUME NEW S, NEW list \in Seq(S), NEW k \in 1 .. Len(list)
  PROVE  /\ RemoveAt(list, k) \in Seq(S)
         /\ Len(RemoveAt(list, k)) = Len(list) - 1
         /\ \A i \in 1 .. Len(list) - 1 :
              RemoveAt(list, k)[i] = IF i < k THEN list[i] ELSE list[i + 1]
<1> DEFINE a == SubSeq(list, 1, k - 1)
           b == SubSeq(list, k + 1, Len(list))
<1>1. a \in Seq(S) /\ Len(a) = k - 1 /\ \A i \in 1 .. k - 1 : a[i] = list[i]
  OBVIOUS
<1>2. b \in Seq(S) /\ Len(b) = Len(list) - k /\ \A i \in 1 .. Len(list) - k : b[i] = list[k + i]
  OBVIOUS
<1>3. RemoveAt(list, k) = a \o b BY DEF RemoveAt
<1> HIDE DEF a, b
<1>4. /\ a \o b \in Seq(S)
      /\ Len(a \o b) = Len(a) + Len(b)
      /\ \A i \in 1 .. Len(a) + Len(b) :
           (a \o b)[i] = IF i <= Len(a) THEN a[i] ELSE b[i - Len(a)]
  BY <1>1, <1>2, ConcatProperties
<1> DEFINE w == a \o b
<1> HIDE DEF w
<1>5. w \in Seq(S) /\ Len(w) = Len(list) - 1
  BY <1>1, <1>2, <1>4 DEF w
<1>6. \A i \in 1 .. Len(list) - 1 : w[i] = IF i <= k - 1 THEN a[i] ELSE b[i - (k - 1)]
  BY <1>1, <1>2, <1>4 DEF w
<1>7. \A i \in 1 .. Len(list) - 1 : w[i] = IF i < k THEN list[i] ELSE list[i + 1]
  <2> TAKE i \in 1 .. Len(list) - 1
  <2>1. CASE i < k BY <2>1, <1>1, <1>6
  <2>2. CASE ~(i < k)
    <3>1. i - (k - 1) \in 1 .. Len(list) - k /\ k + (i - (k - 1)) = i + 1 BY <2>2
    <3> QED BY <3>1, <2>2, <1>2, <1>6
  <2> QED BY <2>1, <2>2
<1> QED BY <1>3, <1>5, <1>7 DEF w

\* The place of a request in the order of priority is a place of the queue.
LEMMA PlaceInRange ==
  ASSUME NEW queue \in Seq(Req), NEW r \in Req
  PROVE 1 + Cardinality(RankBelow(queue, r)) \in 1 .. Len(queue) + 1
<1>1. IsFiniteSet(1 .. Len(queue)) /\ Cardinality(1 .. Len(queue)) = Len(queue)
  <2>1. Len(queue) \in Nat OBVIOUS
  <2>2. IsFiniteSet(1 .. Len(queue)) BY <2>1, FS_Interval
  <2>3. Cardinality(1 .. Len(queue)) = IF 1 <= Len(queue) THEN Len(queue) - 1 + 1 ELSE 0
     BY <2>1, FS_Interval
  <2> QED BY <2>1, <2>2, <2>3
<1>2. Cardinality(RankBelow(queue, r)) <= Len(queue) /\ IsFiniteSet(RankBelow(queue, r))
  BY <1>1, FS_Subset DEF RankBelow
<1>3. Cardinality(RankBelow(queue, r)) \in Nat BY <1>2, FS_CardinalityType
<1> QED BY <1>2, <1>3

\* The requests of a list, and when it holds each once, by position.
LEMMA ListLemma ==
  ASSUME NEW list \in Seq(Req)
  PROVE  /\ DOMAIN list = 1 .. Len(list)
         /\ Range(list) \subseteq Req
         /\ \A i \in 1 .. Len(list) : list[i] \in Range(list)
         /\ \A x \in Range(list) : \E i \in 1 .. Len(list) : list[i] = x
         /\ IsInjective(list) <=>
              \A i, j \in 1 .. Len(list) : list[i] = list[j] => i = j
<1>1. DOMAIN list = 1 .. Len(list)
  OBVIOUS
<1>2. \A i \in 1 .. Len(list) : list[i] \in Req
  OBVIOUS
<1>3. IsInjective(list) <=> \A i, j \in 1 .. Len(list) : list[i] = list[j] => i = j
  BY <1>1, Zenon DEF IsInjective
<1> QED BY <1>1, <1>2, <1>3, Zenon DEF Range

\* Taking a request out of a queue that holds each request once.
LEMMA WithoutLemma ==
  ASSUME NEW list \in Seq(Req), IsInjective(list), NEW r \in Req, r \in Range(list)
  PROVE  /\ Without(list, r) \in Seq(Req)
         /\ IsInjective(Without(list, r))
         /\ Range(Without(list, r)) = Range(list) \ {r}
         /\ Len(Without(list, r)) = Len(list) - 1
         /\ \E k \in 1 .. Len(list) :
              /\ list[k] = r
              /\ \A i \in 1 .. Len(list) - 1 :
                   Without(list, r)[i] = IF i < k THEN list[i] ELSE list[i + 1]
<1> DEFINE k == PlaceOf(list, r)
           w == Without(list, r)
<1>1. k \in 1 .. Len(list) /\ list[k] = r
  BY ListLemma DEF PlaceOf
<1>2. w = RemoveAt(list, k)
  BY <1>1 DEF Contains, Without
<1> HIDE DEF k, w
<1>3. /\ w \in Seq(Req) /\ Len(w) = Len(list) - 1
      /\ \A i \in 1 .. Len(list) - 1 : w[i] = IF i < k THEN list[i] ELSE list[i + 1]
  BY <1>1, <1>2, RemoveAtLemma
<1>4. \A i, j \in 1 .. Len(list) : list[i] = list[j] => i = j
  BY ListLemma
<1>5. \A i, j \in 1 .. Len(w) : w[i] = w[j] => i = j
  BY <1>1, <1>3, <1>4
<1>6. ASSUME NEW x \in Range(w) PROVE x \in Range(list) \ {r}
  <2>1. PICK i \in 1 .. Len(w) : w[i] = x
    BY <1>3, ListLemma
  <2>2. PICK j \in 1 .. Len(list) : x = list[j] /\ j # k
    BY <2>1, <1>1, <1>3
  <2> QED BY <2>2, <1>1, <1>4, ListLemma
<1>7. ASSUME NEW x \in Range(list) \ {r} PROVE x \in Range(w)
  <2>1. PICK i \in 1 .. Len(list) : list[i] = x
    BY ListLemma
  <2>2. \E j \in 1 .. Len(w) : w[j] = x
    <3>1. CASE i < k
      BY <3>1, <2>1, <1>1, <1>3
    <3>2. CASE i > k
      <4>1. i - 1 \in 1 .. Len(w) /\ w[i - 1] = x
        BY <3>2, <2>1, <1>1, <1>3
      <4> QED BY <4>1
    <3> QED BY <3>1, <3>2, <2>1, <1>1
  <2> QED BY <2>2, <1>3, ListLemma
<1>8. IsInjective(w) /\ Range(w) = Range(list) \ {r}
  BY <1>3, <1>5, <1>6, <1>7, ListLemma
<1> QED BY <1>1, <1>3, <1>8 DEF w

\* Putting a request into a queue that does not hold it.
LEMMA InsertLemma ==
  ASSUME NEW list \in Seq(Req), IsInjective(list), NEW r \in Req, r \notin Range(list),
         NEW k \in 1 .. Len(list) + 1
  PROVE  /\ InsertAt(list, k, r) \in Seq(Req)
         /\ IsInjective(InsertAt(list, k, r))
         /\ Range(InsertAt(list, k, r)) = Range(list) \cup {r}
<1> DEFINE w == InsertAt(list, k, r)
<1>1. /\ w \in Seq(Req) /\ Len(w) = Len(list) + 1
      /\ \A i \in 1 .. Len(list) + 1 :
           w[i] = IF i < k THEN list[i] ELSE IF i = k THEN r ELSE list[i - 1]
  <2> DEFINE a == SubSeq(list, 1, k - 1)
             b == SubSeq(list, k, Len(list))
  <2>1. a \in Seq(Req) /\ Len(a) = k - 1 /\ \A i \in 1 .. k - 1 : a[i] = list[i]
    OBVIOUS
  <2>2. b \in Seq(Req) /\ Len(b) = Len(list) + 1 - k /\ \A i \in 1 .. Len(list) + 1 - k : b[i] = list[k - 1 + i]
    OBVIOUS
  <2>3. InsertAt(list, k, r) = a \o <<r>> \o b BY DEF InsertAt
  <2> HIDE DEF a, b
  <2> DEFINE c == a \o <<r>>
  <2>4. c \in Seq(Req) /\ Len(c) = k /\ \A i \in 1 .. k : c[i] = IF i < k THEN list[i] ELSE r
    BY <2>1
  <2> HIDE DEF c
  <2>5. /\ c \o b \in Seq(Req)
        /\ Len(c \o b) = Len(c) + Len(b)
        /\ \A i \in 1 .. Len(c) + Len(b) :
             (c \o b)[i] = IF i <= Len(c) THEN c[i] ELSE b[i - Len(c)]
    BY <2>4, <2>2, ConcatProperties
  <2> DEFINE v == c \o b
  <2> HIDE DEF v
  <2>6. v \in Seq(Req) /\ Len(v) = Len(list) + 1
    BY <2>2, <2>4, <2>5 DEF v
  <2>7. \A i \in 1 .. Len(list) + 1 : v[i] = IF i <= k THEN c[i] ELSE b[i - k]
    BY <2>2, <2>4, <2>5 DEF v
  <2>8. \A i \in 1 .. Len(list) + 1 :
          v[i] = IF i < k THEN list[i] ELSE IF i = k THEN r ELSE list[i - 1]
    <3> TAKE i \in 1 .. Len(list) + 1
    <3>1. CASE i <= k BY <3>1, <2>4, <2>7
    <3>2. CASE ~(i <= k)
      <4>1. i - k \in 1 .. Len(list) + 1 - k /\ k - 1 + (i - k) = i - 1 BY <3>2
      <4> QED BY <4>1, <3>2, <2>2, <2>7
    <3> QED BY <3>1, <3>2
  <2>9. InsertAt(list, k, r) = v BY <2>3 DEF v, c
  <2> QED BY <2>6, <2>8, <2>9
<1> HIDE DEF w
<1>2. /\ \A i \in 1 .. Len(list) : list[i] # r
      /\ \A i, j \in 1 .. Len(list) : list[i] = list[j] => i = j
  BY ListLemma
<1>3. \A i, j \in 1 .. Len(w) : w[i] = w[j] => i = j
  <2>1. ASSUME NEW i \in 1 .. Len(w), NEW j \in 1 .. Len(w), i < j PROVE w[i] # w[j]
    <3>1. CASE j < k
      BY <2>1, <3>1, <1>1, <1>2
    <3>2. CASE j = k
      BY <2>1, <3>2, <1>1, <1>2
    <3>3. CASE j > k
      <4>1. j - 1 \in 1 .. Len(list) /\ w[j] = list[j - 1]
        BY <3>3, <1>1
      <4>2. CASE i < k
        BY <2>1, <4>1, <4>2, <1>1, <1>2
      <4>3. CASE i = k
        BY <2>1, <4>1, <4>3, <1>1, <1>2
      <4>4. CASE i > k
        <5>1. i - 1 \in 1 .. Len(list) /\ w[i] = list[i - 1]
          BY <4>4, <1>1
        <5> QED BY <2>1, <4>1, <5>1, <1>2
      <4> QED BY <4>2, <4>3, <4>4
    <3> QED BY <3>1, <3>2, <3>3, <1>1
  <2> QED BY <2>1, <1>1
<1>4. ASSUME NEW x \in Range(w) PROVE x \in Range(list) \cup {r}
  <2>1. PICK i \in 1 .. Len(w) : w[i] = x
    BY <1>1, ListLemma
  <2>2. x = r \/ \E j \in 1 .. Len(list) : x = list[j]
    <3>1. CASE i <= k
      BY <3>1, <2>1, <1>1
    <3>2. CASE i > k
      <4>1. i - 1 \in 1 .. Len(list) /\ x = list[i - 1]
        BY <3>2, <2>1, <1>1
      <4> QED BY <4>1
    <3> QED BY <3>1, <3>2
  <2> QED BY <2>2, ListLemma
<1>5. ASSUME NEW x \in Range(list) PROVE x \in Range(w)
  <2>1. PICK i \in 1 .. Len(list) : list[i] = x
    BY ListLemma
  <2>2. \E j \in 1 .. Len(w) : w[j] = x
    <3>1. CASE i < k
      BY <3>1, <2>1, <1>1
    <3>2. CASE i >= k
      <4>1. i + 1 \in 1 .. Len(w) /\ w[i + 1] = x
        BY <3>2, <2>1, <1>1
      <4> QED BY <4>1
    <3> QED BY <3>1, <3>2, <2>1
  <2> QED BY <2>2, <1>1, ListLemma
<1>6. w[k] = r /\ k \in 1 .. Len(w)
  BY <1>1
<1>7. r \in Range(w)
  BY <1>1, <1>6, ListLemma
<1>8. IsInjective(w) /\ Range(w) = Range(list) \cup {r}
  BY <1>1, <1>3, <1>4, <1>5, <1>7, ListLemma
<1> QED BY <1>1, <1>8 DEF w

\* A request that is put back into a queue that does not hold it.
LEMMA RequeueLemma ==
  ASSUME NEW list \in Seq(Req), IsInjective(list), NEW r \in Req, r \notin Range(list)
  PROVE  /\ Requeue(list, r) \in Seq(Req)
         /\ IsInjective(Requeue(list, r))
         /\ Range(Requeue(list, r)) = Range(list) \cup {r}
<1>1. 1 \in 1 .. Len(list) + 1
  OBVIOUS
<1> QED BY <1>1, InsertLemma, PlaceInRange DEF Requeue, InsertByRank

\* A request at the end of a list that does not hold it.
LEMMA AppendLemma ==
  ASSUME NEW list \in Seq(Req), IsInjective(list), NEW r \in Req, r \notin Range(list)
  PROVE  /\ Append(list, r) \in Seq(Req)
         /\ IsInjective(Append(list, r))
         /\ Range(Append(list, r)) = Range(list) \cup {r}
<1> DEFINE w == Append(list, r)
<1>1. /\ w \in Seq(Req) /\ Len(w) = Len(list) + 1
      /\ \A i \in 1 .. Len(list) : w[i] = list[i]
      /\ w[Len(list) + 1] = r
  OBVIOUS
<1> HIDE DEF w
<1>2. IsInjective(w)
  BY <1>1 DEF IsInjective, Range
<1>3. Range(w) = Range(list) \cup {r}
  <2>1. \A i \in 1 .. Len(list) : i \in DOMAIN w
    BY <1>1
  <2>2. Len(list) + 1 \in DOMAIN w
    BY <1>1
  <2> QED BY <1>1, <2>1, <2>2 DEF Range
<1> QED BY <1>1, <1>2, <1>3 DEF w

\* A request that is added to a queue that does not hold it.
LEMMA EnqueueLemma ==
  ASSUME NEW list \in Seq(Req), IsInjective(list), NEW r \in Req, r \notin Range(list)
  PROVE  /\ Enqueue(list, r) \in Seq(Req)
         /\ IsInjective(Enqueue(list, r))
         /\ Range(Enqueue(list, r)) = Range(list) \cup {r}
BY AppendLemma, InsertLemma, PlaceInRange DEF Enqueue, InsertByRank

\* The head of a queue is taken.
LEMMA TailLemma ==
  ASSUME NEW list \in Seq(Req), IsInjective(list), list # <<>>
  PROVE  /\ Tail(list) \in Seq(Req)
         /\ IsInjective(Tail(list))
         /\ Head(list) \in Range(list)
         /\ Range(Tail(list)) = Range(list) \ {Head(list)}
<1> DEFINE w == Tail(list)
<1>1. /\ w \in Seq(Req) /\ Len(w) = Len(list) - 1
      /\ \A i \in 1 .. Len(list) - 1 : w[i] = list[i + 1]
      /\ Head(list) = list[1] /\ Len(list) \in Nat \ {0}
  OBVIOUS
<1> HIDE DEF w
<1>2. IsInjective(w)
  <2>1. \A i, j \in 1 .. Len(list) : list[i] = list[j] => i = j
    BY ListLemma
  <2>2. \A i, j \in 1 .. Len(w) : w[i] = w[j] => i = j
    BY <1>1, <2>1
  <2> QED BY <2>2, <1>1, ListLemma
<1>3. Range(w) = Range(list) \ {list[1]}
  <2>1. \A i \in 1 .. Len(w) : w[i] \in Range(list) \ {list[1]}
    BY <1>1 DEF IsInjective, Range
  <2>2. \A i \in 2 .. Len(list) : i - 1 \in DOMAIN w /\ w[i - 1] = list[i]
    BY <1>1
  <2>3. ASSUME NEW x \in Range(list) \ {list[1]} PROVE x \in Range(w)
    <3>1. PICK i \in 1 .. Len(list) : x = list[i]
      BY DEF Range
    <3>2. i \in 2 .. Len(list)
      BY <3>1
    <3> QED BY <3>1, <3>2, <2>2 DEF Range
  <2>4. Range(w) \subseteq Range(list) \ {list[1]}
    BY <1>1, <2>1 DEF Range
  <2> QED BY <2>3, <2>4
<1>4. 1 \in DOMAIN list
  BY <1>1
<1>5. list[1] \in Range(list)
  BY <1>4 DEF Range
<1> QED BY <1>1, <1>2, <1>3, <1>5 DEF w

\* The last request of a list is taken.
LEMMA FrontLemma ==
  ASSUME NEW list \in Seq(Req), IsInjective(list), list # <<>>
  PROVE  /\ Front(list) \in Seq(Req)
         /\ IsInjective(Front(list))
         /\ Last(list) \in Range(list)
         /\ Range(Front(list)) = Range(list) \ {Last(list)}
<1> DEFINE w == Front(list)
<1>1. /\ w \in Seq(Req) /\ Len(w) = Len(list) - 1
      /\ \A i \in 1 .. Len(list) - 1 : w[i] = list[i]
      /\ Last(list) = list[Len(list)] /\ Len(list) \in Nat \ {0}
  <2>1. Len(list) \in Nat \ {0}
    OBVIOUS
  <2>2. /\ SubSeq(list, 1, Len(list) - 1) \in Seq(Req)
        /\ Len(SubSeq(list, 1, Len(list) - 1)) = Len(list) - 1
        /\ \A i \in 1 .. Len(list) - 1 : SubSeq(list, 1, Len(list) - 1)[i] = list[i]
    BY <2>1
  <2> QED BY <2>1, <2>2 DEF Front, Last
<1> HIDE DEF w
<1>2. IsInjective(w)
  <2>1. \A i, j \in 1 .. Len(list) : list[i] = list[j] => i = j
    BY ListLemma
  <2>2. \A i, j \in 1 .. Len(w) : w[i] = w[j] => i = j
    BY <1>1, <2>1
  <2> QED BY <2>2, <1>1, ListLemma
<1>3. Range(w) = Range(list) \ {list[Len(list)]}
  <2>1. \A i \in 1 .. Len(w) : w[i] \in Range(list) \ {list[Len(list)]}
    BY <1>1 DEF IsInjective, Range
  <2>2. \A i \in 1 .. Len(list) - 1 : i \in DOMAIN w
    BY <1>1
  <2>3. ASSUME NEW x \in Range(list) \ {list[Len(list)]} PROVE x \in Range(w)
    <3>1. PICK i \in 1 .. Len(list) : x = list[i]
      BY DEF Range
    <3>2. i \in 1 .. Len(list) - 1
      BY <1>1, <3>1
    <3>3. i \in DOMAIN w /\ w[i] = x
      BY <3>1, <3>2, <2>2, <1>1
    <3> QED BY <3>3 DEF Range
  <2>4. Range(w) \subseteq Range(list) \ {list[Len(list)]}
    BY <1>1, <2>1 DEF Range
  <2> QED BY <2>3, <2>4
<1>4. Len(list) \in DOMAIN list
  BY <1>1
<1>5. list[Len(list)] \in Range(list)
  BY <1>4 DEF Range
<1> QED BY <1>1, <1>2, <1>3, <1>5 DEF w

-----------------------------------------------------------------------------
(* Facts that the proofs of several steps share.                           *)

\* The types of the fields of a request and of what a step plans for it.
LEMMA FieldTypes ==
  ASSUME TypeOK, NEW r \in Req
  PROVE  /\ req[r] \in Request
         /\ req[r].out \in Nat /\ req[r].computed \in Nat /\ req[r].ph \in Nat
         /\ req[r].spec \in 0 .. NumSpec /\ req[r].chunk \in BOOLEAN
         /\ req[r].discard \in Nat /\ req[r].blocks \in Nat
         /\ NumTokens(r) \in Nat \ {0} /\ PromptLen[r] \in Nat /\ MaxModelLen \in Nat
         /\ sched[r] \in Nat /\ need[r] \in Nat /\ draft[r] \in 0 .. NumSpec
         /\ budget \in Nat /\ free \in Nat /\ NumSpec \in Nat
<1>1. /\ req[r] \in Request /\ PromptLen[r] \in Nat \ {0} /\ MaxModelLen \in Nat
      /\ sched[r] \in Nat /\ need[r] \in Nat /\ draft[r] \in 0 .. NumSpec
      /\ budget \in Nat /\ free \in Nat /\ NumSpec \in Nat
  BY ConstantsAssumption DEF TypeOK
<1>2. /\ req[r].out \in Nat /\ req[r].computed \in Nat /\ req[r].ph \in Nat
      /\ req[r].spec \in 0 .. NumSpec /\ req[r].chunk \in BOOLEAN
      /\ req[r].discard \in Nat /\ req[r].blocks \in Nat
  BY <1>1 DEF Request
<1>3. NumTokens(r) \in Nat \ {0}
  BY <1>1, <1>2 DEF NumTokens
<1> QED BY <1>1, <1>2, <1>3

\* What scheduling a running request changes in it.
Scheduled(q, b) == [q EXCEPT !.spec = 0, !.blocks = @ + b]

\* A scheduled request is a request, and the counters of its tokens stay.
LEMMA ScheduledRequest ==
  ASSUME NEW q \in Request, NEW b \in Nat, NumSpec \in Nat
  PROVE  /\ Scheduled(q, b) \in Request
         /\ Scheduled(q, b).status = q.status /\ Scheduled(q, b).out = q.out
         /\ Scheduled(q, b).computed = q.computed /\ Scheduled(q, b).ph = q.ph
         /\ Scheduled(q, b).chunk = q.chunk /\ Scheduled(q, b).discard = q.discard
         /\ Scheduled(q, b).spec = 0
<1> DEFINE p1 == [q EXCEPT !.spec = 0]
           p2 == [p1 EXCEPT !.blocks = q.blocks + b]
           p == Scheduled(q, b)
<1>1. p1 \in Request /\ p1.blocks = q.blocks /\ q.blocks + b \in Nat
  BY DEF Request
<1>2. p2 \in Request
  BY <1>1 DEF Request
<1>3. p = p2
  BY <1>1 DEF Scheduled
<1>4. /\ p.status = q.status /\ p.out = q.out
      /\ p.computed = q.computed /\ p.ph = q.ph /\ p.chunk = q.chunk
      /\ p.discard = q.discard /\ p.spec = 0
   BY DEF Request, Scheduled
<1> QED BY <1>2, <1>3, <1>4

\* A preempted request is a request; it keeps its output and its placeholders.
LEMMA PreemptedRequestType ==
  ASSUME NEW q \in Request, NumSpec \in Nat
  PROVE  LET p == PreemptedRequest(q)
         IN /\ p \in Request /\ p.status = "PREEMPTED" /\ p.out = q.out
            /\ p.computed = 0 /\ p.ph = q.ph /\ p.spec = 0
            /\ p.discard = q.discard
<1> DEFINE p1 == [q EXCEPT !.status = "PREEMPTED"]
           p2 == [p1 EXCEPT !.computed = 0]
           p3 == [p2 EXCEPT !.spec = 0]
           p4 == [p3 EXCEPT !.blocks = 0]
<1>1. p1 \in Request BY DEF Request, Status
<1> HIDE DEF p1
<1>2. p2 \in Request BY <1>1 DEF Request
<1> HIDE DEF p2
<1>3. p3 \in Request BY <1>2 DEF Request
<1> HIDE DEF p3
<1>4. p4 \in Request BY <1>3 DEF Request
<1>5. PreemptedRequest(q) = p4 BY DEF PreemptedRequest, p1, p2, p3
<1>6. /\ p4.status = "PREEMPTED" /\ p4.out = q.out
      /\ p4.computed = 0 /\ p4.ph = q.ph /\ p4.spec = 0
      /\ p4.discard = q.discard
   BY DEF Request, p1, p2, p3
<1> QED BY <1>4, <1>5, <1>6

\* A step that changes neither a queue nor a status keeps them in agreement.
LEMMA SameQueues ==
  ASSUME QueuesMatchStatus, UNCHANGED <<running, waiting>>,
         \A r \in Req : req'[r].status = req[r].status
  PROVE  QueuesMatchStatus'
<1>1. {r \in Req : req'[r].status = "RUNNING"} = {r \in Req : req[r].status = "RUNNING"}
  OBVIOUS
<1>2. {r \in Req : req'[r].status \in {"WAITING", "PREEMPTED"}}
        = {r \in Req : req[r].status \in {"WAITING", "PREEMPTED"}}
  OBVIOUS
<1> QED BY <1>1, <1>2 DEF QueuesMatchStatus

\* The queues and the statuses of requests, either way.
LEMMA QueueStatus ==
  ASSUME QueuesMatchStatus, TypeOK
  PROVE  /\ \A i \in 1 .. Len(running) :
              running[i] \in Req /\ req[running[i]].status = "RUNNING"
         /\ \A r \in Range(running) : r \in Req /\ req[r].status = "RUNNING"
         /\ \A r \in Range(waiting) :
              r \in Req /\ req[r].status \in {"WAITING", "PREEMPTED"}
         /\ \A r \in Req : /\ req[r].status = "RUNNING" => r \in Range(running)
                           /\ req[r].status # "RUNNING" => r \notin Range(running)
                           /\ req[r].status \in {"WAITING", "PREEMPTED"} => r \in Range(waiting)
                           /\ req[r].status \notin {"WAITING", "PREEMPTED"} => r \notin Range(waiting)
<1>1. running \in Seq(Req) /\ waiting \in Seq(Req)
  BY DEF TypeOK
<1>2. \A r \in Range(running) : r \in Req /\ req[r].status = "RUNNING"
  BY DEF QueuesMatchStatus
<1>3. \A i \in 1 .. Len(running) : running[i] \in Range(running)
  BY <1>1, ListLemma
<1> QED BY <1>2, <1>3 DEF QueuesMatchStatus

\* A request that a step does not touch keeps its accounts.
LEMMA OtherAccounts ==
  ASSUME NEW q \in Req, Accounts(q),
         req'[q] = req[q], sched'[q] = sched[q], need'[q] = need[q], draft'[q] = draft[q],
         q \in admitted' <=> q \in admitted,
         q \in preempted => q \in preempted',
         q \in prevStep' => q \in prevStep,
         pc = "reset" => pc' = "reset" \/ q \notin prevStep',
         newer # NoFrame => newer' # NoFrame,
         FrameKnows(older, q)', FrameKnows(newer, q)',
         OwedBy(older, q)' = OwedBy(older, q), OwedBy(newer, q)' = OwedBy(newer, q),
         Owed(q)' = Owed(q)
  PROVE  Accounts(q)'
<1>1. Known(q)'
  BY DEF Accounts, Known
<1>2. LiveAccount(q)'
  BY DEF Accounts, LiveAccount, Live, NumTokens
<1>3. WaitingAccount(q)'
  BY DEF Accounts, WaitingAccount
<1>4. AdmittedAccount(q)' /\ PrefillAccount(q)' /\ DecodeAccount(q)'
  BY DEF Accounts, AdmittedAccount, PrefillAccount, DecodeAccount, NumTokens
<1> QED BY <1>1, <1>2, <1>3, <1>4 DEF Accounts

\* While the steps in flight stay as they are, so does what they owe.
LEMMA SameOwed ==
  ASSUME UNCHANGED <<older, newer, left>>, NEW q \in Req, Accounts(q), req'[q] = req[q],
         pc' = pc \/ (pc # "update" /\ pc' # "update")
  PROVE  /\ FrameKnows(older, q)' /\ FrameKnows(newer, q)'
         /\ OwedBy(older, q)' = OwedBy(older, q) /\ OwedBy(newer, q)' = OwedBy(newer, q)
         /\ Owed(q)' = Owed(q)
<1>1. FrameKnows(older, q)' /\ FrameKnows(newer, q)'
  BY DEF Accounts, Known, FrameKnows, Live
<1>2. OwedBy(older, q)' = OwedBy(older, q) /\ OwedBy(newer, q)' = OwedBy(newer, q)
  BY DEF OwedBy
<1> QED BY <1>1, <1>2 DEF Owed

\* The lookahead, blocks and cached tokens are numbers.
LEMMA BlocksType ==
  ASSUME TypeOK, NEW r \in Req, NEW n \in Nat
  PROVE  ExtraBlocks(r, n) \in Nat
<1>1. MaxModelLen \in Nat /\ BlockSize \in Nat \ {0} /\ req[r].blocks \in Nat
  BY FieldTypes, ConstantsAssumption
<1>2. Lesser(n, MaxModelLen) + BlockSize - 1 \in Int
  BY <1>1 DEF Lesser
<1>3. BlocksFor(n) \in Int
  BY <1>1, <1>2 DEF BlocksFor
<1> QED BY <1>1, <1>3 DEF ExtraBlocks, Greater

-----------------------------------------------------------------------------
(* The steps of schedule().                                                *)

\* What a step that only does the bookkeeping of its loop leaves alone.
accountVars ==
  <<req, sched, need, draft, older, newer, admitted, preempted, prevStep, left>>

\* Such a step keeps the accounts of every request.
LEMMA SameAccounts ==
  ASSUME UNCHANGED accountVars, NEW r \in Req, Accounts(r),
         pc' = pc \/ (pc \notin {"update", "reset"} /\ pc' # "update")
  PROVE  Accounts(r)'
<1>1. Known(r)'
  BY DEF Accounts, Known, FrameKnows, Live, accountVars
<1>2. Owed(r)' = Owed(r)
  BY DEF accountVars, Owed, OwedBy, InStep
<1>3. LiveAccount(r)'
  BY <1>2 DEF Accounts, LiveAccount, Live, NumTokens, accountVars
<1>4. WaitingAccount(r)'
  BY DEF Accounts, WaitingAccount, OwedBy, accountVars
<1>5. AdmittedAccount(r)' /\ PrefillAccount(r)' /\ DecodeAccount(r)'
  BY DEF Accounts, AdmittedAccount, PrefillAccount, DecodeAccount, NumTokens, accountVars
<1> QED BY <1>1, <1>3, <1>4, <1>5 DEF Accounts

\* The invariant holds at first.
LEMMA InitInv == Init => IInv
<1> SUFFICES ASSUME Init PROVE IInv
  OBVIOUS
<1> USE ConstantsAssumption DEF Init
<1>1. TypeOK
  <2>1. req \in [Req -> Request]
    <3>1. \A r \in Req :
            req[r] = [status |-> "ABSENT", out |-> 0, computed |-> 0, ph |-> 0,
                      spec |-> 0, chunk |-> FALSE, discard |-> 0, blocks |-> 0]
      BY DEF NewRequest
    <3>2. [status |-> "ABSENT", out |-> 0, computed |-> 0, ph |-> 0, spec |-> 0,
           chunk |-> FALSE, discard |-> 0, blocks |-> 0] \in Request
      BY DEF Request, Status
    <3> QED BY <3>1, <3>2
  <2>2. running \in Seq(Req) /\ waiting \in Seq(Req) /\ emitted \in [Req -> Seq(Int)]
    OBVIOUS
  <2> QED BY <2>1, <2>2 DEF TypeOK
<1>2. QueuesMatchStatus
  BY DEF QueuesMatchStatus, NewRequest, Range, IsInjective
<1>3. Phases /\ PassedAreBehind
  BY DEF Phases, PassedAreBehind, Scheduling
<1>4. ASSUME NEW r \in Req PROVE Accounts(r)
  BY DEF Accounts, Known, FrameKnows, LiveAccount, WaitingAccount, AdmittedAccount,
         PrefillAccount, DecodeAccount, Live, NewRequest
<1> QED BY <1>1, <1>2, <1>3, <1>4 DEF IInv

\* A step begins.
LEMMA BeginScheduleInv == IInv /\ BeginSchedule => IInv'
<1> SUFFICES ASSUME IInv, BeginSchedule PROVE IInv'
  OBVIOUS
<1> USE ConstantsAssumption DEF BeginSchedule, pipeVars, envVars, workVars
<1>1. TypeOK'
  BY DEF IInv, TypeOK
<1>2. QueuesMatchStatus'
  BY DEF IInv, QueuesMatchStatus
<1>3. Phases'
  BY DEF IInv, TypeOK, Phases, Scheduling
<1>4. PassedAreBehind'
  <2>1. \A i \in 1 .. Len(running) : running[i] \in Req
    BY DEF IInv, TypeOK
  <2>2. \A r \in Req : need[r] = 0 /\ sched'[r] = 0
    BY DEF IInv, Phases
  <2> QED BY <2>1, <2>2 DEF PassedAreBehind
<1>5. ASSUME NEW r \in Req PROVE Accounts(r)'
  <2>1. sched[r] = 0 /\ preempted = {} /\ admitted = {} /\ need[r] = 0
    BY DEF IInv, Phases, Scheduling
  <2>2. Known(r)' /\ AdmittedAccount(r)' /\ WaitingAccount(r)'
    BY <2>1 DEF IInv, Accounts, Known, FrameKnows, Live, AdmittedAccount, WaitingAccount, OwedBy
  <2>3. Owed(r)' = Owed(r)
    BY DEF Owed, OwedBy
  <2>4. LiveAccount(r)'
    BY <2>3 DEF IInv, Accounts, LiveAccount, Live, NumTokens
  <2>5. PrefillAccount(r)' /\ DecodeAccount(r)'
    BY <2>1 DEF IInv, Accounts, PrefillAccount, DecodeAccount, NumTokens
  <2> QED BY <2>2, <2>4, <2>5 DEF Accounts
<1> QED BY <1>1, <1>2, <1>3, <1>4, <1>5 DEF IInv

\* The RUNNING loop skips a request.
LEMMA SkipRunningInv == ASSUME NEW r \in Req PROVE IInv /\ SkipRunning(r) => IInv'
<1> SUFFICES ASSUME IInv, SkipRunning(r) PROVE IInv'
  OBVIOUS
<1>1. /\ idx' = idx + 1 /\ pc = "running"
      /\ UNCHANGED <<req, running, waiting, free, finishedIds, prevStep, pc, budget,
                     sched, need, draft, preempted, admitted, older, newer, left,
                     pause, resets, glen, emitted>>
  BY DEF SkipRunning, InRunningLoop, pipeVars, envVars, workVars
<1>2. TypeOK'
  BY <1>1 DEF IInv, TypeOK
<1>3. QueuesMatchStatus'
  BY <1>1 DEF IInv, QueuesMatchStatus
<1>4. Phases'
  BY <1>1 DEF IInv, Phases, Scheduling
<1>5. PassedAreBehind'
  <2>1. idx \in Nat
    BY DEF IInv, TypeOK
  <2>2. PassedAreBehind
    BY DEF IInv
  <2> QED BY <1>1, <2>1, <2>2 DEF PassedAreBehind
<1>6. ASSUME NEW q \in Req PROVE Accounts(q)'
  BY <1>1, SameAccounts DEF IInv, accountVars
<1> QED BY <1>2, <1>3, <1>4, <1>5, <1>6 DEF IInv

\* What a running request may be scheduled for.
LEMMA NewTokensLemma ==
  ASSUME IInv, InRunningLoop, NEW r \in Req, r = running[idx], NumNewTokens(r) # 0
  PROVE  /\ req[r].status = "RUNNING"
         /\ NumNewTokens(r) \in Nat /\ NumNewTokens(r) <= budget
         /\ r \notin admitted
         /\ req[r].chunk => req[r].computed + NumNewTokens(r) <= NumTokens(r)
         /\ ~req[r].chunk => /\ NumNewTokens(r) <= 1 + req[r].spec
                            /\ req[r].computed + NumNewTokens(r) < MaxModelLen
<1>1. idx \in 1 .. Len(running) /\ running \in Seq(Req) /\ budget \in Nat \ {0}
  BY DEF IInv, TypeOK, InRunningLoop
<1>2. req[r].status = "RUNNING"
  BY <1>1, ListLemma DEF IInv, QueuesMatchStatus
<1>3. admitted = {} /\ sched \in [Req -> Nat]
  BY DEF IInv, Phases, InRunningLoop, TypeOK
<1>4. /\ req[r].computed \in Nat /\ req[r].ph \in Nat /\ req[r].spec \in Nat
      /\ req[r].out \in Nat /\ req[r].chunk \in BOOLEAN /\ NumTokens(r) \in Nat
  <2>1. req[r] \in Request /\ PromptLen[r] \in Nat
    BY ConstantsAssumption DEF IInv, TypeOK
  <2> QED BY <2>1, ConstantsAssumption DEF Request, NumTokens
<1>5. ASSUME NEW n \in Nat \ {0} PROVE Thresholded(n) \in Nat \ {0} /\ Thresholded(n) <= n
  BY ConstantsAssumption DEF Thresholded
<1>6. PrefillAccount(r) /\ DecodeAccount(r) /\ LiveAccount(r) /\ Live(r)
  BY <1>2 DEF IInv, Accounts, Live
<1> DEFINE missing == NumTokens(r) + req[r].spec + req[r].ph - req[r].computed
           room == MaxModelLen - 1 - req[r].computed
<1>7. NumNewTokens(r) = Lesser(Lesser(Thresholded(missing), budget), room)
  BY DEF NumNewTokens
<1>8. missing \in Nat \ {0} /\ room \in Nat
  BY <1>2, <1>3, <1>4, <1>6, ConstantsAssumption DEF PrefillAccount, DecodeAccount, LiveAccount
<1> HIDE DEF missing, room
<1>9. /\ NumNewTokens(r) \in Nat /\ NumNewTokens(r) <= budget
      /\ NumNewTokens(r) <= missing /\ NumNewTokens(r) <= room
  BY <1>1, <1>5, <1>7, <1>8 DEF Lesser
<1>10. req[r].chunk => missing = NumTokens(r) - req[r].computed
  BY <1>2, <1>3, <1>4, <1>6 DEF missing, PrefillAccount
<1>11. ~req[r].chunk => missing = 1 + req[r].spec
  BY <1>2, <1>3, <1>4, <1>6 DEF missing, DecodeAccount
<1> QED BY <1>2, <1>3, <1>4, <1>9, <1>10, <1>11, ConstantsAssumption DEF room

\* The RUNNING loop seeks blocks for a request.
LEMMA ConsiderRunningInv == ASSUME NEW r \in Req PROVE IInv /\ ConsiderRunning(r) => IInv'
<1> SUFFICES ASSUME IInv, ConsiderRunning(r) PROVE IInv'
  OBVIOUS
<1>1. /\ pc = "running" /\ pc' = "allocate" /\ idx \in 1 .. Len(running)
      /\ r = running[idx] /\ NumNewTokens(r) # 0 /\ InRunningLoop
      /\ need' = [need EXCEPT ![r] = NumNewTokens(r)]
      /\ UNCHANGED <<req, running, waiting, free, finishedIds, prevStep, idx, budget,
                     sched, draft, preempted, admitted, older, newer, left,
                     pause, resets, glen, emitted>>
  BY DEF ConsiderRunning, InRunningLoop, IInv, TypeOK, pipeVars, envVars, workVars
<1>2. /\ req[r].status = "RUNNING"
      /\ NumNewTokens(r) \in Nat /\ NumNewTokens(r) <= budget
      /\ r \notin admitted
      /\ req[r].chunk => req[r].computed + NumNewTokens(r) <= NumTokens(r)
      /\ ~req[r].chunk => /\ NumNewTokens(r) <= 1 + req[r].spec
                         /\ req[r].computed + NumNewTokens(r) < MaxModelLen
  BY <1>1, NewTokensLemma
<1>3. need \in [Req -> Nat] /\ \A q \in Req : need[q] = 0
  BY <1>1 DEF IInv, TypeOK, Phases
<1>4. need'[r] = NumNewTokens(r) /\ \A q \in Req : q # r => need'[q] = 0
  BY <1>1, <1>3
<1>5. TypeOK'
  BY <1>1, <1>2, <1>3 DEF IInv, TypeOK
<1>6. QueuesMatchStatus'
  BY <1>1 DEF IInv, QueuesMatchStatus
<1>7. Phases'
  BY <1>1, <1>2, <1>4 DEF IInv, Phases, Scheduling
<1>8. PassedAreBehind'
  <2>1. \A i \in 1 .. Len(running) : running[i] = r => i = idx
    BY <1>1, ListLemma DEF IInv, TypeOK, QueuesMatchStatus
  <2>2. \A i \in 1 .. Len(running) : running[i] \in Req
    BY DEF IInv, TypeOK
  <2>3. PassedAreBehind
    BY DEF IInv
  <2> QED BY <1>1, <1>4, <2>1, <2>2, <2>3 DEF PassedAreBehind
<1>9. ASSUME NEW q \in Req PROVE Accounts(q)'
  <2>1. Accounts(q)
    BY DEF IInv
  <2>2. CASE q # r
    BY <1>1, <1>3, <1>4, <2>1, <2>2, SameOwed, OtherAccounts
  <2>3. CASE q = r
    <3>1. Known(q)' /\ WaitingAccount(q)'
      BY <1>1, <1>2, <2>1, <2>3, SameOwed DEF Accounts, Known, WaitingAccount
    <3>2. LiveAccount(q)' /\ AdmittedAccount(q)'
      BY <1>1, <1>2, <2>1, <2>3, SameOwed
      DEF Accounts, LiveAccount, AdmittedAccount, Live, NumTokens
    <3>3. PrefillAccount(q)' /\ DecodeAccount(q)'
      BY <1>1, <1>2, <1>4, <2>1, <2>3
      DEF Accounts, PrefillAccount, DecodeAccount, NumTokens
    <3> QED BY <3>1, <3>2, <3>3 DEF Accounts
  <2> QED BY <2>2, <2>3
<1> QED BY <1>5, <1>6, <1>7, <1>8, <1>9 DEF IInv

\* A running request is scheduled.
LEMMA ScheduleRunningInv == ASSUME NEW r \in Req PROVE IInv /\ ScheduleRunning(r) => IInv'
<1> SUFFICES ASSUME IInv, ScheduleRunning(r) PROVE IInv'
  OBVIOUS
<1> DEFINE extra == ExtraBlocks(r, RoomNeeded(r))
<1>1. /\ pc = "allocate" /\ pc' = "running" /\ idx' = idx + 1 /\ need[r] # 0
      /\ extra <= free /\ free' = free - extra
      /\ req' = [req EXCEPT ![r].spec = 0, ![r].blocks = @ + extra]
      /\ sched' = [sched EXCEPT ![r] = need[r]]
      /\ draft' = [draft EXCEPT ![r] = DraftsAmong(r, need[r])]
      /\ need' = [need EXCEPT ![r] = 0]
      /\ budget' = budget - need[r]
      /\ UNCHANGED <<running, waiting, finishedIds, prevStep, preempted, admitted,
                     older, newer, left, pause, resets, glen, emitted>>
  BY DEF ScheduleRunning, CanAllocate, pipeVars, envVars, workVars
<1>2. extra \in Nat
  <2>1. RoomNeeded(r) \in Nat
    BY FieldTypes DEF RoomNeeded, IInv
  <2> QED BY <2>1, BlocksType DEF IInv
<1> HIDE DEF extra
<1>3. TypeOK /\ Accounts(r) /\ Phases
  BY DEF IInv
<1>4. req[r].status = "RUNNING" /\ r \notin admitted /\ need[r] <= budget
  BY <1>1, <1>3 DEF Accounts, Known, Phases
<1>5. \A q \in Req : q # r => need[q] = 0
  BY <1>1, <1>3 DEF Phases
<1>6. DraftsAmong(r, need[r]) \in 0 .. NumSpec
  BY <1>3, FieldTypes DEF DraftsAmong, Greater, Lesser
<1>7. TypeOK'
  <2>1. Scheduled(req[r], extra) \in Request
    BY <1>2, <1>3, FieldTypes, ScheduledRequest
  <2>2. req' \in [Req -> Request]
    BY <1>1, <1>3, <2>1 DEF TypeOK, Scheduled
  <2>3. sched' \in [Req -> Nat] /\ need' \in [Req -> Nat] /\ draft' \in [Req -> 0 .. NumSpec]
    BY <1>1, <1>3, <1>6 DEF TypeOK
  <2>4. free \in Nat /\ budget \in Nat /\ need[r] \in Nat /\ idx \in Nat \ {0}
    BY <1>3, FieldTypes DEF TypeOK
  <2>5. free' \in Nat /\ budget' \in Nat /\ idx' \in Nat \ {0}
    BY <1>1, <1>2, <1>4, <2>4
  <2> QED BY <1>1, <1>3, <2>2, <2>3, <2>5 DEF TypeOK
<1>8. /\ req'[r] = [req[r] EXCEPT !.spec = 0, !.blocks = @ + extra]
      /\ sched'[r] = need[r] /\ draft'[r] = DraftsAmong(r, need[r]) /\ need'[r] = 0
      /\ \A q \in Req : q # r => /\ req'[q] = req[q] /\ sched'[q] = sched[q]
                                /\ draft'[q] = draft[q] /\ need'[q] = 0
  BY <1>1, <1>3, <1>5 DEF TypeOK
<1>9. /\ req'[r].status = req[r].status /\ req'[r].out = req[r].out
      /\ req'[r].computed = req[r].computed /\ req'[r].ph = req[r].ph
      /\ req'[r].chunk = req[r].chunk /\ req'[r].discard = req[r].discard
      /\ req'[r].spec = 0
  <2>1. req[r] \in Request /\ NumSpec \in Nat
    BY <1>3, FieldTypes
  <2>2. req'[r] = Scheduled(req[r], extra)
    BY <1>8 DEF Scheduled
  <2> QED BY <1>2, <2>1, <2>2, ScheduledRequest
<1>10. QueuesMatchStatus'
  <2>1. \A q \in Req : req'[q].status = req[q].status
    BY <1>8, <1>9
  <2> QED BY <1>1, <2>1, SameQueues DEF IInv
<1>11. Phases'
  <2>1. \A q \in Req : need'[q] = 0 /\ budget' \in Nat
    BY <1>7, <1>8 DEF TypeOK
  <2> QED BY <1>1, <1>3, <2>1 DEF Phases, Scheduling
<1>12. PassedAreBehind'
  <2>1. \A i \in 1 .. Len(running) : running[i] \in Req
    BY <1>3 DEF TypeOK
  <2>2. PassedAreBehind /\ idx \in Nat
    BY DEF IInv, TypeOK
  <2>3. \A i \in 1 .. Len(running) : sched[running[i]] # 0 => i < idx
    BY <1>1, <2>2 DEF PassedAreBehind
  <2>4. \A i \in 1 .. Len(running) : running[i] = r => i <= idx
    BY <1>1, <2>2 DEF PassedAreBehind
  <2>5. \A i \in 1 .. Len(running) : need'[running[i]] = 0
    BY <1>8, <2>1
  <2>6. \A i \in 1 .. Len(running) : sched'[running[i]] # 0 => i < idx'
    BY <1>1, <1>8, <2>1, <2>2, <2>3, <2>4
  <2> QED BY <1>1, <2>5, <2>6 DEF PassedAreBehind
<1>13. ASSUME NEW q \in Req PROVE Accounts(q)'
  <2>1. Accounts(q)
    BY DEF IInv
  <2>2. CASE q # r
    BY <1>1, <1>5, <1>8, <2>1, <2>2, SameOwed, OtherAccounts
  <2>3. CASE q = r
    <3>1. Owed(q)' = Owed(q) /\ OwedBy(newer, q)' = OwedBy(newer, q)
      BY <1>1 DEF Owed, OwedBy
    <3>2. Known(q)'
      BY <1>1, <1>4, <1>9, <1>3, <2>3 DEF Accounts, Known, FrameKnows, Live
    <3>3. LiveAccount(q)' /\ WaitingAccount(q)' /\ AdmittedAccount(q)'
      BY <1>1, <1>3, <1>4, <1>9, <2>3, <3>1
      DEF Accounts, LiveAccount, WaitingAccount, AdmittedAccount, Live, NumTokens
    <3>4. PrefillAccount(q)'
      <4>1. SUFFICES ASSUME req[r].chunk PROVE PrefillAccount(q)'
        BY <1>9, <2>3 DEF PrefillAccount
      <4>2. /\ req[r].computed < NumTokens(r) /\ req[r].ph = 0 /\ req[r].spec = 0
            /\ req[r].computed + need[r] <= NumTokens(r)
        BY <1>3, <1>4, <4>1 DEF Accounts, PrefillAccount
      <4>3. draft'[r] = 0 /\ NumTokens(r)' = NumTokens(r)
        BY <1>8, <1>9, <4>2 DEF DraftsAmong, NumTokens
      <4>4. sched'[r] = need[r] /\ need'[r] = 0 /\ NumTokens(r) \in Nat
        BY <1>3, <1>8, FieldTypes
      <4>5. /\ req'[r].computed = req[r].computed /\ req'[r].ph = 0 /\ req'[r].spec = 0
        BY <1>9, <4>2
      <4>6. req[r].computed \in Nat
        BY <1>3, FieldTypes
      <4>7. /\ req'[r].computed < NumTokens(r)'
            /\ req'[r].computed + sched'[r] <= NumTokens(r)'
            /\ req'[r].computed + need'[r] <= NumTokens(r)'
        BY <4>2, <4>3, <4>4, <4>5, <4>6
      <4> QED BY <2>3, <4>3, <4>5, <4>7 DEF PrefillAccount
    <3>5. DecodeAccount(q)'
      <4>1. SUFFICES ASSUME ~req[r].chunk PROVE DecodeAccount(q)'
        BY <1>9, <2>3 DEF DecodeAccount
      <4>2. /\ req[r].computed = NumTokens(r) + req[r].ph - 1
            /\ req[r].computed + need[r] < MaxModelLen
            /\ need[r] <= 1 + req[r].spec
        BY <1>3, <1>4, <4>1 DEF Accounts, DecodeAccount
      <4>3. /\ req[r].computed \in Nat /\ req[r].ph \in Nat /\ req[r].spec \in Nat
            /\ NumTokens(r) \in Nat /\ need[r] \in Nat \ {0}
        BY <1>1, <1>3, FieldTypes
      <4>4. need[r] + req[r].computed - NumTokens(r) - req[r].ph = need[r] - 1
        BY <4>2, <4>3
      <4>5. DraftsAmong(r, need[r]) = need[r] - 1
        BY <4>2, <4>3, <4>4 DEF DraftsAmong, Greater, Lesser
      <4>6. NumTokens(r)' = NumTokens(r)
        BY <1>9 DEF NumTokens
      <4>7. /\ sched'[r] = need[r] /\ need'[r] = 0 /\ draft'[r] = need[r] - 1
            /\ req'[r].computed = req[r].computed /\ req'[r].ph = req[r].ph
            /\ req'[r].spec = 0
        BY <1>8, <1>9, <4>5
      <4>8. /\ req'[r].computed = NumTokens(r)' + req'[r].ph - 1
            /\ req'[r].computed + sched'[r] < MaxModelLen
            /\ req'[r].computed + need'[r] < MaxModelLen
            /\ need'[r] <= 1 + req'[r].spec
            /\ draft'[r] = sched'[r] - 1
        BY <4>2, <4>3, <4>6, <4>7, ConstantsAssumption
      <4> QED BY <2>3, <4>8 DEF DecodeAccount
    <3> QED BY <3>2, <3>3, <3>4, <3>5 DEF Accounts
  <2> QED BY <2>2, <2>3
<1> QED BY <1>7, <1>10, <1>11, <1>12, <1>13 DEF IInv

\* A running request is preempted for another, or for want of room for itself.
LEMMA PreemptForInv ==
  ASSUME NEW r \in Req, NEW v \in Req PROVE IInv /\ PreemptFor(r, v) => IInv'
<1> SUFFICES ASSUME IInv, PreemptFor(r, v) PROVE IInv'
  OBVIOUS
<1>1. /\ pc = "allocate" /\ need[r] # 0
      /\ req' = [req EXCEPT ![v] = PreemptedRequest(@)]
      /\ free' = free + req[v].blocks
      /\ running' = Without(running, v) /\ waiting' = Requeue(waiting, v)
      /\ preempted' = preempted \cup {v}
      /\ sched' = [sched EXCEPT ![v] = 0] /\ draft' = [draft EXCEPT ![v] = 0]
      /\ budget' = budget + sched[v]
      /\ idx' = IF sched[v] # 0 THEN idx - 1 ELSE idx
      /\ pc' = IF v = r THEN "commit" ELSE "allocate"
      /\ need' = IF v = r THEN [need EXCEPT ![r] = 0] ELSE need
      /\ UNCHANGED <<finishedIds, prevStep, admitted, older, newer, left,
                     pause, resets, glen, emitted>>
  BY DEF PreemptFor, pipeVars, envVars, workVars
<1>2. TypeOK /\ Phases /\ QueuesMatchStatus /\ PassedAreBehind /\ Accounts(v)
  BY DEF IInv
<1>3. v \in Range(running)
  <2>1. running \in Seq(Req)
    BY <1>2 DEF TypeOK
  <2>2. \E i \in 1 .. Len(running) : v = running[i]
    <3>1. CASE PriorityPolicy
      BY <3>1 DEF PreemptFor, IsVictim
    <3>2. CASE ~PriorityPolicy
      <4>1. v = running[Len(running)]
        BY <3>2 DEF PreemptFor, IsVictim
      <4>2. r \in Range(running)
        BY <1>1, <1>2, QueueStatus DEF IInv, Accounts, Known
      <4>3. Len(running) \in 1 .. Len(running)
        BY <2>1, <4>2, ListLemma
      <4> QED BY <4>1, <4>3
    <3> QED BY <3>1, <3>2
  <2> QED BY <2>1, <2>2, ListLemma
<1>4. req[v].status = "RUNNING" /\ v \notin Range(waiting)
  BY <1>2, <1>3, QueueStatus
<1>5. /\ newer = NoFrame /\ admitted = {} /\ pc # "update" /\ pc' # "update"
      /\ \A q \in Req : q # r => need[q] = 0
  BY <1>1, <1>2 DEF Phases, Scheduling
<1>6. /\ req'[v] = PreemptedRequest(req[v]) /\ sched'[v] = 0 /\ draft'[v] = 0
      /\ need'[v] = 0
      /\ \A q \in Req : q # v => /\ req'[q] = req[q] /\ sched'[q] = sched[q]
                                /\ draft'[q] = draft[q] /\ need'[q] = need[q]
  BY <1>1, <1>2, <1>5 DEF TypeOK
<1>7. /\ req'[v] \in Request /\ req'[v].status = "PREEMPTED"
      /\ req'[v].computed = 0 /\ req'[v].spec = 0
      /\ req'[v].ph = req[v].ph /\ req'[v].discard = req[v].discard
      /\ req'[v].out = req[v].out
  BY <1>2, <1>6, FieldTypes, PreemptedRequestType
<1>8. /\ running' \in Seq(Req) /\ IsInjective(running')
      /\ Range(running') = Range(running) \ {v}
  BY <1>1, <1>2, <1>3, WithoutLemma DEF TypeOK, QueuesMatchStatus
<1>9. /\ waiting' \in Seq(Req) /\ IsInjective(waiting')
      /\ Range(waiting') = Range(waiting) \cup {v}
  BY <1>1, <1>2, <1>4, RequeueLemma DEF TypeOK, QueuesMatchStatus
<1>10. QueuesMatchStatus'
  BY <1>2, <1>4, <1>6, <1>7, <1>8, <1>9 DEF QueuesMatchStatus
<1>11. PICK k \in 1 .. Len(running) :
         /\ running[k] = v /\ Len(running') = Len(running) - 1
         /\ \A i \in 1 .. Len(running) - 1 :
              running'[i] = IF i < k THEN running[i] ELSE running[i + 1]
  <2>1. running \in Seq(Req) /\ IsInjective(running) /\ running' = Without(running, v)
    BY <1>1, <1>2 DEF TypeOK, QueuesMatchStatus
  <2> QED BY <2>1, <1>3, WithoutLemma
<1>12. /\ \A i \in 1 .. Len(running) : sched[running[i]] # 0 => i < idx
       /\ \A i \in 1 .. Len(running) : need[running[i]] # 0 => i <= idx
       /\ \A i \in 1 .. Len(running') : running'[i] \in Req /\ running'[i] # v
       /\ idx \in Nat \ {0} /\ Len(running) \in Nat
  <2>1. \A i \in 1 .. Len(running') : running'[i] \in Req /\ running'[i] # v
    BY <1>8, ListLemma
  <2>2. /\ \A i \in 1 .. Len(running) : sched[running[i]] # 0 => i < idx
        /\ \A i \in 1 .. Len(running) : need[running[i]] # 0 => i <= idx
    BY <1>1, <1>2 DEF PassedAreBehind
  <2>3. idx \in Nat \ {0} /\ Len(running) \in Nat
    BY <1>2 DEF TypeOK
  <2> QED BY <2>1, <2>2, <2>3
<1>13. idx' \in Nat \ {0}
  BY <1>1, <1>11, <1>12
<1>14. TypeOK'
  <2>1. req' \in [Req -> Request]
    <3>1. PreemptedRequest(req[v]) \in Request /\ req \in [Req -> Request]
      BY <1>2, <1>6, <1>7 DEF TypeOK
    <3> QED BY <1>1, <3>1
  <2>2. sched' \in [Req -> Nat] /\ need' \in [Req -> Nat] /\ draft' \in [Req -> 0 .. NumSpec]
    <3>1. sched \in [Req -> Nat] /\ need \in [Req -> Nat] /\ draft \in [Req -> 0 .. NumSpec]
      BY <1>2 DEF TypeOK
    <3>2. 0 \in Nat /\ 0 \in 0 .. NumSpec
      BY ConstantsAssumption
    <3> QED BY <1>1, <3>1, <3>2
  <2>3. free' \in Nat /\ budget' \in Nat
    <3>1. free \in Nat /\ budget \in Nat /\ sched[v] \in Nat /\ req[v].blocks \in Nat
      BY <1>2, FieldTypes
    <3>2. free' = free + req[v].blocks /\ budget' = budget + sched[v]
      BY <1>1
    <3> QED BY <3>1, <3>2
  <2>4. pc' \in {"commit", "allocate"} /\ preempted' \subseteq Req
    BY <1>1, <1>2 DEF TypeOK
  <2> QED BY <1>1, <1>2, <1>8, <1>9, <1>13, <2>1, <2>2, <2>3, <2>4 DEF TypeOK
<1>15. Phases'
  <2>1. \A q \in Req : need'[q] = need[q] \/ need'[q] = 0
    BY <1>6
  <2>2. pc' # "allocate" => \A q \in Req : need'[q] = 0
    <3>1. pc' # "allocate" => v = r
      BY <1>1
    <3> QED BY <3>1, <1>5, <1>6
  <2>3. \A q \in Req : need'[q] <= budget' /\ need[q] <= budget
    <3>1. budget \in Nat /\ sched[v] \in Nat /\ \A q \in Req : need[q] \in Nat
      BY <1>2 DEF TypeOK
    <3>2. \A q \in Req : need[q] <= budget
      BY <1>2 DEF Phases
    <3>3. budget' = budget + sched[v]
      BY <1>1
    <3> QED BY <2>1, <3>1, <3>2, <3>3
  <2> QED BY <1>1, <1>2, <2>1, <2>2, <2>3 DEF Phases, Scheduling
<1>16. PassedAreBehind'
  <2>1. ASSUME NEW i \in 1 .. Len(running')
        PROVE  /\ sched'[running'[i]] # 0 => i < idx'
               /\ need'[running'[i]] # 0 => i <= idx'
    <3>1. sched'[running'[i]] = sched[running'[i]] /\ need'[running'[i]] = need[running'[i]]
      BY <1>6, <1>12
    <3>2. sched[v] # 0 => k < idx
      BY <1>11, <1>12
    <3>3. CASE i < k
      BY <1>1, <1>11, <1>12, <3>1, <3>2, <3>3
    <3>4. CASE i >= k
      <4>1. running'[i] = running[i + 1] /\ i + 1 \in 1 .. Len(running)
        BY <1>11, <1>12, <3>4
      <4> QED BY <1>1, <1>12, <3>1, <4>1
    <3> QED BY <1>11, <3>3, <3>4
  <2> QED BY <2>1 DEF PassedAreBehind
<1>17. ASSUME NEW q \in Req PROVE Accounts(q)'
  <2>1. Accounts(q)
    BY DEF IInv
  <2>2. CASE q # v
    BY <1>1, <1>5, <1>6, <2>1, <2>2, SameOwed, OtherAccounts
  <2>3. CASE q = v
    <3>1. /\ Owed(q)' = Owed(q) /\ OwedBy(newer, q)' = 0
      BY <1>1, <1>5 DEF Owed, OwedBy
    <3>2. Known(q)'
      BY <1>1, <1>4, <1>5, <1>6, <1>7, <2>1, <2>3 DEF Accounts, Known, FrameKnows, Live
    <3>3. LiveAccount(q)'
      BY <1>4, <1>7, <2>1, <2>3, <3>1 DEF Accounts, LiveAccount, Live, NumTokens
    <3>4. WaitingAccount(q)'
      BY <1>1, <1>7, <2>3, <3>1 DEF WaitingAccount
    <3>5. AdmittedAccount(q)' /\ PrefillAccount(q)' /\ DecodeAccount(q)'
      BY <1>1, <1>5, <1>7, <2>3 DEF AdmittedAccount, PrefillAccount, DecodeAccount
    <3> QED BY <3>2, <3>3, <3>4, <3>5 DEF Accounts
  <2> QED BY <2>2, <2>3
<1> QED BY <1>10, <1>14, <1>15, <1>16, <1>17 DEF IInv

\* A step of the loops that changes pc alone.
LEMMA OnlyPcInv ==
  ASSUME IInv, UNCHANGED <<req, running, waiting, free, finishedIds, prevStep,
                           stepVars, pipeVars, pause, workVars>>,
         resets' \in 0 .. MaxResets,
         pc' \in {"waiting", "commit", "reset", "idle"},
         pc \notin {"update", "reset"},
         pc' = "waiting" => preempted = {},
         pc' = "reset" => older = NoFrame,
         pc' \in {"reset", "idle"} => pc = "idle",
         pc' \in {"waiting", "commit"} => pc \in {"running", "waiting"}
  PROVE  IInv'
<1>1. UNCHANGED <<req, running, waiting, free, finishedIds, prevStep, idx, budget,
                  sched, need, draft, preempted, admitted, older, newer, left,
                  pause, glen, emitted>>
  BY DEF stepVars, pipeVars, workVars
<1>2. TypeOK'
  BY <1>1 DEF IInv, TypeOK
<1>3. QueuesMatchStatus'
  BY <1>1 DEF IInv, QueuesMatchStatus
<1>4. Phases'
  BY <1>1 DEF IInv, Phases, Scheduling
<1>5. PassedAreBehind'
  BY DEF PassedAreBehind
<1>6. ASSUME NEW q \in Req PROVE Accounts(q)'
  BY <1>1, SameAccounts DEF IInv, accountVars
<1> QED BY <1>2, <1>3, <1>4, <1>5, <1>6 DEF IInv

\* The RUNNING loop ends.
LEMMA EndRunningInv == IInv /\ EndRunning => IInv'
<1> SUFFICES ASSUME IInv, EndRunning PROVE IInv'
  OBVIOUS
<1>1. resets' \in 0 .. MaxResets
  BY DEF EndRunning, envVars, IInv, TypeOK
<1> QED BY <1>1, OnlyPcInv DEF EndRunning, envVars

\* The WAITING loop ends.
LEMMA EndWaitingInv == IInv /\ EndWaiting => IInv'
<1> SUFFICES ASSUME IInv, EndWaiting PROVE IInv'
  OBVIOUS
<1>1. resets' \in 0 .. MaxResets
  BY DEF EndWaiting, envVars, IInv, TypeOK
<1> QED BY <1>1, OnlyPcInv DEF EndWaiting, envVars

\* A forced reset begins: with nothing in flight.
LEMMA BeginResetInv == ASSUME ~ResetInFlight PROVE IInv /\ BeginReset => IInv'
<1> SUFFICES ASSUME IInv, BeginReset PROVE IInv'
  OBVIOUS
<1>1. resets' \in 0 .. MaxResets
  <2>1. resets \in 0 .. MaxResets /\ MaxResets \in Nat
    BY ConstantsAssumption DEF IInv, TypeOK
  <2> QED BY <2>1 DEF BeginReset
<1> QED BY <1>1, OnlyPcInv DEF BeginReset

\* A forced reset ends.
LEMMA EndResetInv == IInv /\ EndReset => IInv'
<1> SUFFICES ASSUME IInv, EndReset PROVE IInv'
  OBVIOUS
<1>1. /\ pc = "reset" /\ pc' = "idle" /\ prevStep' = {}
      /\ UNCHANGED <<req, running, waiting, free, finishedIds, idx, budget,
                     sched, need, draft, preempted, admitted, older, newer, left,
                     pause, resets, glen, emitted>>
  BY DEF EndReset, stepVars, pipeVars, envVars, workVars
<1>2. TypeOK'
  BY <1>1 DEF IInv, TypeOK
<1>3. QueuesMatchStatus'
  BY <1>1 DEF IInv, QueuesMatchStatus
<1>4. Phases'
  BY <1>1 DEF IInv, Phases, Scheduling
<1>5. PassedAreBehind'
  BY <1>1 DEF PassedAreBehind
<1>6. ASSUME NEW q \in Req PROVE Accounts(q)'
  BY <1>1, SameOwed, OtherAccounts DEF IInv
<1> QED BY <1>2, <1>3, <1>4, <1>5, <1>6 DEF IInv

\* The engine is paused or goes on.
LEMMA SetPauseStateInv ==
  ASSUME NEW p \in {"UNPAUSED", "PAUSED_NEW", "PAUSED_ALL"}
  PROVE  IInv /\ SetPauseState(p) => IInv'
<1> SUFFICES ASSUME IInv, SetPauseState(p) PROVE IInv'
  OBVIOUS
<1>1. /\ pc' = pc /\ pause' = p
      /\ UNCHANGED <<req, running, waiting, free, finishedIds, prevStep, idx, budget,
                     sched, need, draft, preempted, admitted, older, newer, left,
                     resets, glen, emitted>>
  BY DEF SetPauseState, stepVars, pipeVars, workVars
<1>2. TypeOK'
  BY <1>1 DEF IInv, TypeOK
<1>3. QueuesMatchStatus'
  BY <1>1 DEF IInv, QueuesMatchStatus
<1>4. Phases' /\ PassedAreBehind'
  BY <1>1 DEF IInv, Phases, PassedAreBehind, Scheduling
<1>5. ASSUME NEW q \in Req PROVE Accounts(q)'
  BY <1>1, SameAccounts DEF IInv, accountVars
<1> QED BY <1>2, <1>3, <1>4, <1>5 DEF IInv

\* What admission changes in a request.
Admitted(q, c, b) == [q EXCEPT !.status = "RUNNING", !.computed = c, !.blocks = @ + b]

\* An admitted request is a request.
LEMMA AdmittedRequest ==
  ASSUME NEW q \in Request, NEW c \in Nat, NEW b \in Nat, NumSpec \in Nat
  PROVE  /\ Admitted(q, c, b) \in Request
         /\ Admitted(q, c, b).status = "RUNNING" /\ Admitted(q, c, b).out = q.out
         /\ Admitted(q, c, b).computed = c /\ Admitted(q, c, b).ph = q.ph
         /\ Admitted(q, c, b).spec = q.spec /\ Admitted(q, c, b).discard = q.discard
<1> DEFINE p1 == [q EXCEPT !.status = "RUNNING"]
           p2 == [p1 EXCEPT !.computed = c]
           p3 == [p2 EXCEPT !.blocks = q.blocks + b]
<1>0. q.blocks + b \in Nat BY DEF Request
<1>1. p1 \in Request BY DEF Request, Status
<1> HIDE DEF p1
<1>2. p2 \in Request BY <1>1 DEF Request
<1> HIDE DEF p2
<1>3. p3 \in Request BY <1>0, <1>2 DEF Request
<1>4. Admitted(q, c, b) = p3 BY DEF Admitted, p1, p2
<1>5. /\ p3.status = "RUNNING" /\ p3.out = q.out /\ p3.computed = c /\ p3.ph = q.ph
      /\ p3.spec = q.spec /\ p3.discard = q.discard
   BY DEF Request, p1, p2
<1> QED BY <1>3, <1>4, <1>5

\* What a waiting request is admitted with.
LEMMA AdmissionLemma ==
  ASSUME IInv, InWaitingLoop, NEW r \in Req, r = Head(waiting), NEW hit \in PrefixHits(r)
  PROVE  /\ r \in Range(waiting) /\ req[r].status \in {"WAITING", "PREEMPTED"}
         /\ req[r].ph = 0 /\ req[r].spec = 0
         /\ StartOf(r, hit) = hit /\ hit \in Nat /\ hit < NumTokens(r)
         /\ PrefillTokens(r, hit) \in Nat \ {0}
         /\ hit + PrefillTokens(r, hit) <= NumTokens(r)
         /\ RoomForPrefill(r, hit) \in Nat
<1>1. /\ TypeOK /\ QueuesMatchStatus /\ Accounts(r) /\ pc = "waiting"
      /\ waiting # <<>> /\ budget > 0
  BY DEF IInv, InWaitingLoop
<1>2. r \in Range(waiting)
  BY <1>1, TailLemma DEF TypeOK, QueuesMatchStatus
<1>3. req[r].status \in {"WAITING", "PREEMPTED"}
  BY <1>1, <1>2, QueueStatus
<1>4. preempted = {} /\ newer = NoFrame
  BY <1>1 DEF IInv, Phases, Scheduling
<1>5. req[r].ph = 0 /\ req[r].spec = 0 /\ req[r].computed = 0
  <2>1. req[r].ph = Owed(r) /\ req[r].spec = 0 /\ req[r].computed = 0
    BY <1>1, <1>3 DEF Accounts, LiveAccount, WaitingAccount, Live
  <2>2. OwedBy(older, r) = 0 /\ OwedBy(newer, r) = 0
    BY <1>1, <1>3, <1>4 DEF Accounts, WaitingAccount
  <2> QED BY <2>1, <2>2, <1>1 DEF Owed
<1>6. /\ NumTokens(r) \in Nat \ {0} /\ budget \in Nat /\ NumSpec \in Nat
      /\ LongPrefillThreshold \in Nat /\ MaxPrefixHit \in Nat
  BY <1>1, FieldTypes, ConstantsAssumption
<1>7. hit \in Nat /\ hit < NumTokens(r)
  BY <1>6 DEF PrefixHits, Lesser
<1>8. StartOf(r, hit) = hit
  BY <1>5 DEF StartOf
<1>9. /\ PrefillTokens(r, hit) \in Nat \ {0}
      /\ hit + PrefillTokens(r, hit) <= NumTokens(r)
  BY <1>6, <1>7, <1>8 DEF PrefillTokens, Thresholded
<1>10. RoomForPrefill(r, hit) \in Nat
  BY <1>6, <1>7, <1>8, <1>9 DEF RoomForPrefill, Lesser, Lookahead
<1> QED BY <1>2, <1>3, <1>5, <1>7, <1>8, <1>9, <1>10

\* A waiting request is scheduled for the first time.
LEMMA AdmitInv ==
  ASSUME NEW r \in Req, NEW hit \in 0 .. MaxPrefixHit PROVE IInv /\ Admit(r, hit) => IInv'
<1> SUFFICES ASSUME IInv, Admit(r, hit) PROVE IInv'
  OBVIOUS
<1> DEFINE n == Lesser(PrefillTokens(r, hit), budget)
           extra == ExtraBlocks(r, RoomForPrefill(r, hit))
<1>1. /\ pc = "waiting" /\ pc' = "waiting" /\ waiting # <<>> /\ budget > 0
      /\ InWaitingLoop /\ r = Head(waiting) /\ hit \in PrefixHits(r)
      /\ extra <= free /\ free' = free - extra
      /\ waiting' = Tail(waiting) /\ running' = Append(running, r)
      /\ admitted' = admitted \cup {r}
      /\ sched' = [sched EXCEPT ![r] = n] /\ budget' = budget - n
      /\ req' = [req EXCEPT ![r] = Admitted(@, StartOf(r, hit), extra)]
      /\ UNCHANGED <<finishedIds, prevStep, idx, need, draft, preempted,
                     older, newer, left, pause, resets, glen, emitted>>
  BY DEF Admit, Admissible, CanAllocate, Admitted, InWaitingLoop, pipeVars, envVars, workVars
<1>2. /\ TypeOK /\ QueuesMatchStatus /\ Phases /\ Accounts(r)
  BY DEF IInv
<1>3. /\ r \in Range(waiting) /\ req[r].status \in {"WAITING", "PREEMPTED"}
      /\ req[r].ph = 0 /\ req[r].spec = 0
      /\ StartOf(r, hit) = hit /\ hit \in Nat /\ hit < NumTokens(r)
      /\ PrefillTokens(r, hit) \in Nat \ {0}
      /\ hit + PrefillTokens(r, hit) <= NumTokens(r)
      /\ RoomForPrefill(r, hit) \in Nat
  BY <1>1, AdmissionLemma
<1>4. extra \in Nat
  BY <1>2, <1>3, BlocksType
<1>5. /\ NumTokens(r) \in Nat /\ budget \in Nat /\ free \in Nat /\ NumSpec \in Nat
      /\ req[r] \in Request
  BY <1>2, FieldTypes
<1>6. n \in Nat \ {0} /\ n <= budget /\ hit + n <= NumTokens(r)
  BY <1>1, <1>3, <1>5 DEF Lesser
<1> HIDE DEF n, extra
<1>7. /\ req'[r] = Admitted(req[r], hit, extra) /\ sched'[r] = n
      /\ \A q \in Req : q # r => req'[q] = req[q] /\ sched'[q] = sched[q]
  BY <1>1, <1>2, <1>3 DEF TypeOK
<1>8. /\ req'[r] \in Request /\ req'[r].status = "RUNNING" /\ req'[r].out = req[r].out
      /\ req'[r].computed = hit /\ req'[r].ph = req[r].ph /\ req'[r].spec = req[r].spec
      /\ req'[r].discard = req[r].discard
  <2>1. req[r] \in Request /\ hit \in Nat /\ extra \in Nat /\ NumSpec \in Nat
    BY <1>3, <1>4, <1>5
  <2>2. req'[r] = Admitted(req[r], hit, extra)
    BY <1>7
  <2> QED BY ONLY <2>1, <2>2, AdmittedRequest
<1>9. r \notin Range(running)
  BY <1>2, <1>3, QueueStatus
<1>10. /\ running' \in Seq(Req) /\ IsInjective(running')
       /\ Range(running') = Range(running) \cup {r}
  BY <1>1, <1>2, <1>9, AppendLemma DEF TypeOK, QueuesMatchStatus
<1>11. /\ waiting' \in Seq(Req) /\ IsInjective(waiting')
       /\ Range(waiting') = Range(waiting) \ {r}
  BY <1>1, <1>2, TailLemma DEF TypeOK, QueuesMatchStatus
<1>12. QueuesMatchStatus'
  BY <1>2, <1>3, <1>7, <1>8, <1>10, <1>11 DEF QueuesMatchStatus
<1>13. TypeOK'
  <2>1. req' \in [Req -> Request]
    <3>1. Admitted(req[r], hit, extra) \in Request
      BY <1>7, <1>8
    <3> QED BY <1>1, <1>2, <1>3, <3>1 DEF TypeOK
  <2>2. sched' \in [Req -> Nat] /\ admitted' \subseteq Req
    BY <1>1, <1>2, <1>6 DEF TypeOK
  <2>3. free' \in Nat /\ budget' \in Nat
    BY <1>1, <1>4, <1>5, <1>6
  <2> QED BY <1>1, <1>2, <1>10, <1>11, <2>1, <2>2, <2>3 DEF TypeOK
<1>14. Phases'
  <2>1. \A q \in Req : need'[q] = 0 /\ budget' \in Nat
    BY <1>1, <1>2, <1>13 DEF Phases, TypeOK
  <2> QED BY <1>1, <1>2, <2>1 DEF Phases, Scheduling
<1>15. PassedAreBehind'
  BY <1>1 DEF PassedAreBehind
<1>16. ASSUME NEW q \in Req PROVE Accounts(q)'
  <2>1. Accounts(q)
    BY DEF IInv
  <2>2. CASE q # r
    BY <1>1, <1>7, <2>1, <2>2, SameOwed, OtherAccounts
  <2>3. CASE q = r
    <3>1. Owed(q)' = Owed(q)
      BY <1>1 DEF Owed, OwedBy
    <3>2. Known(q)'
      BY <1>1, <1>3, <1>8, <2>1, <2>3 DEF Accounts, Known, FrameKnows, Live
    <3>3. LiveAccount(q)'
      BY <1>3, <1>8, <2>1, <2>3, <3>1 DEF Accounts, LiveAccount, Live, NumTokens
    <3>4. WaitingAccount(q)' /\ PrefillAccount(q)' /\ DecodeAccount(q)'
      BY <1>1, <1>8, <2>3 DEF WaitingAccount, PrefillAccount, DecodeAccount
    <3>5. AdmittedAccount(q)'
      <4>1. NumTokens(r)' = NumTokens(r) /\ draft'[r] = 0
        BY <1>1, <1>2, <1>3, <1>8 DEF NumTokens, Accounts, Known
      <4>2. req'[r].computed = hit /\ sched'[r] = n /\ req'[r].ph = 0 /\ req'[r].spec = 0
        BY <1>3, <1>7, <1>8
      <4> QED BY <1>6, <2>3, <4>1, <4>2 DEF AdmittedAccount
    <3> QED BY <3>2, <3>3, <3>4, <3>5 DEF Accounts
  <2> QED BY <2>2, <2>3
<1> QED BY <1>12, <1>13, <1>14, <1>15, <1>16 DEF IInv

\* What the end of a step changes in a request that it scheduled.
Moved(q, c, k) == [q EXCEPT !.computed = c, !.chunk = k]
Owing(q, p) == [q EXCEPT !.ph = p, !.spec = NumSpec]

\* A request that a step has advanced is a request.
LEMMA MovedRequest ==
  ASSUME NEW q \in Request, NEW c \in Nat, NEW k \in BOOLEAN
  PROVE  /\ Moved(q, c, k) \in Request
         /\ Moved(q, c, k).status = q.status /\ Moved(q, c, k).out = q.out
         /\ Moved(q, c, k).computed = c /\ Moved(q, c, k).chunk = k
         /\ Moved(q, c, k).ph = q.ph /\ Moved(q, c, k).spec = q.spec
         /\ Moved(q, c, k).discard = q.discard
<1> DEFINE p1 == [q EXCEPT !.computed = c]
           p2 == [p1 EXCEPT !.chunk = k]
<1>1. p1 \in Request BY DEF Request
<1> HIDE DEF p1
<1>2. p2 \in Request BY <1>1 DEF Request
<1>3. Moved(q, c, k) = p2 BY DEF Moved, p1
<1>4. /\ p2.status = q.status /\ p2.out = q.out /\ p2.computed = c /\ p2.chunk = k
      /\ p2.ph = q.ph /\ p2.spec = q.spec /\ p2.discard = q.discard
   BY DEF Request, p1
<1> QED BY <1>2, <1>3, <1>4

\* A request that owes more tokens is a request.
LEMMA OwingRequest ==
  ASSUME NEW q \in Request, NEW n \in Nat, NumSpec \in Nat
  PROVE  /\ Owing(q, n) \in Request
         /\ Owing(q, n).status = q.status /\ Owing(q, n).out = q.out
         /\ Owing(q, n).computed = q.computed /\ Owing(q, n).chunk = q.chunk
         /\ Owing(q, n).ph = n /\ Owing(q, n).spec = NumSpec
         /\ Owing(q, n).discard = q.discard
<1> DEFINE p1 == [q EXCEPT !.ph = n]
           p2 == [p1 EXCEPT !.spec = NumSpec]
<1>1. p1 \in Request BY DEF Request
<1> HIDE DEF p1
<1>2. p2 \in Request BY <1>1 DEF Request
<1>3. Owing(q, n) = p2 BY DEF Owing, p1
<1>4. /\ p2.status = q.status /\ p2.out = q.out /\ p2.computed = q.computed
      /\ p2.chunk = q.chunk /\ p2.ph = n /\ p2.spec = NumSpec /\ p2.discard = q.discard
   BY DEF Request, p1
<1> QED BY <1>2, <1>3, <1>4

\* What _update_after_schedule makes of a request.
LEMMA AdvancedRequest ==
  ASSUME TypeOK, NEW r \in Req
  PROVE  /\ Advanced(r) \in Request
         /\ Advanced(r).status = req[r].status /\ Advanced(r).out = req[r].out
         /\ Advanced(r).discard = req[r].discard
         /\ Advanced(r).computed = req[r].computed + sched[r]
         /\ StaysPrefill(r) =>
              /\ Advanced(r).chunk = TRUE
              /\ Advanced(r).ph = req[r].ph /\ Advanced(r).spec = req[r].spec
         /\ ~StaysPrefill(r) =>
              /\ Advanced(r).chunk = FALSE
              /\ Advanced(r).ph = req[r].ph + 1 + draft[r] /\ Advanced(r).spec = NumSpec
<1> DEFINE m == Moved(req[r], req[r].computed + sched[r], StaysPrefill(r))
<1>1. /\ req[r] \in Request /\ req[r].computed + sched[r] \in Nat /\ NumSpec \in Nat
      /\ req[r].ph + 1 + draft[r] \in Nat
  <2>1. /\ req[r] \in Request /\ req[r].computed \in Nat /\ sched[r] \in Nat
        /\ NumSpec \in Nat /\ req[r].ph \in Nat /\ draft[r] \in 0 .. NumSpec
    BY FieldTypes
  <2> QED BY <2>1
<1>2. StaysPrefill(r) \in BOOLEAN
  BY DEF StaysPrefill
<1>3. /\ m \in Request /\ m.status = req[r].status /\ m.out = req[r].out
      /\ m.computed = req[r].computed + sched[r] /\ m.chunk = StaysPrefill(r)
      /\ m.ph = req[r].ph /\ m.spec = req[r].spec /\ m.discard = req[r].discard
  BY ONLY <1>1, <1>2, MovedRequest
<1>4. Advanced(r) = IF StaysPrefill(r) THEN m ELSE Owing(m, m.ph + 1 + draft[r])
  BY DEF Advanced, Moved, Owing
<1> HIDE DEF m
<1>5. CASE StaysPrefill(r)
  BY <1>3, <1>4, <1>5
<1>6. CASE ~StaysPrefill(r)
  <2> DEFINE o == Owing(m, m.ph + 1 + draft[r])
  <2>1. Advanced(r) = o /\ m.ph + 1 + draft[r] \in Nat
    BY <1>1, <1>3, <1>4, <1>6
  <2>2. /\ o \in Request /\ o.status = m.status /\ o.out = m.out
        /\ o.computed = m.computed /\ o.chunk = m.chunk
        /\ o.ph = m.ph + 1 + draft[r] /\ o.spec = NumSpec /\ o.discard = m.discard
    BY ONLY <2>1, <1>1, <1>3, OwingRequest
  <2> HIDE DEF o
  <2> QED BY <1>2, <1>3, <1>6, <2>1, <2>2
<1> QED BY <1>5, <1>6

\* The step that is sent to the worker.
LEMMA FrameLemma ==
  ASSUME TypeOK
  PROVE  /\ ThisFrame \in Frame /\ ThisFrame # NoFrame
         /\ ThisFrame.n = sched /\ ThisFrame.stale = {}
         /\ \A r \in Req : OwedBy(ThisFrame, r) =
              IF sched[r] = 0 \/ StaysPrefill(r) THEN 0 ELSE 1 + draft[r]
<1> DEFINE chunks == {r \in InStep(sched) : StaysPrefill(r)}
           bases == [r \in Req |-> IF r \in prevStep THEN Continues ELSE NumTokens(r)]
<1>1. sched \in [Req -> Nat] /\ draft \in [Req -> 0 .. NumSpec] /\ chunks \subseteq Req
  BY DEF TypeOK, InStep
<1>2. bases \in [Req -> Nat \cup {Continues}]
  <2>1. \A r \in Req : NumTokens(r) \in Nat
    BY FieldTypes
  <2> QED BY <2>1
<1>3. ThisFrame = [n |-> sched, d |-> draft, chunk |-> chunks, base |-> bases, stale |-> {}]
  BY DEF ThisFrame
<1>4. \A r \in Req : r \in chunks <=> sched[r] # 0 /\ StaysPrefill(r)
  BY DEF InStep
<1> HIDE DEF chunks, bases
<1>5. ThisFrame \in Frame
  BY <1>1, <1>2, <1>3 DEF Frame
<1>6. ThisFrame # NoFrame
  BY <1>5, NoFrameAssumption
<1>7. /\ ThisFrame.n = sched /\ ThisFrame.d = draft /\ ThisFrame.chunk = chunks
      /\ ThisFrame.stale = {}
  BY <1>3
<1>8. \A r \in Req : OwedBy(ThisFrame, r) =
        IF sched[r] = 0 \/ StaysPrefill(r) THEN 0 ELSE 1 + draft[r]
  BY <1>4, <1>6, <1>7 DEF OwedBy
<1> QED BY <1>5, <1>6, <1>7, <1>8

\* A request a step has scheduled is short of its known tokens when it stays in
\* prefill, and otherwise has computed all but the tokens it is owed.
LEMMA AdvancedLemma ==
  ASSUME TypeOK, NEW r \in Req, Accounts(r), sched[r] # 0
  PROVE  /\ req[r].status = "RUNNING"
         /\ StaysPrefill(r) =>
              /\ req[r].ph = 0 /\ req[r].spec = 0
              /\ req[r].computed + sched[r] < NumTokens(r)
         /\ ~StaysPrefill(r) =>
              /\ req[r].computed + sched[r] = NumTokens(r) + (req[r].ph + 1 + draft[r]) - 1
              /\ req[r].computed + sched[r] < MaxModelLen
<1>1. req[r].status = "RUNNING" /\ Live(r)
  BY DEF Accounts, Known, Live
<1>2. /\ req[r].computed \in Nat /\ req[r].ph \in Nat /\ NumTokens(r) \in Nat
      /\ sched[r] \in Nat \ {0} /\ draft[r] \in Nat /\ MaxModelLen \in Nat
      /\ req[r].chunk \in BOOLEAN
  BY FieldTypes
<1>3. NumTokens(r) < MaxModelLen
  BY <1>1 DEF Accounts, LiveAccount
<1>4. CASE r \in admitted
  <2>1. /\ req[r].ph = 0 /\ req[r].spec = 0 /\ draft[r] = 0
        /\ req[r].computed + sched[r] <= NumTokens(r)
    BY <1>4 DEF Accounts, AdmittedAccount
  <2> QED BY <1>1, <1>2, <1>3, <2>1 DEF StaysPrefill
<1>5. CASE r \notin admitted /\ req[r].chunk
  <2>1. /\ req[r].ph = 0 /\ req[r].spec = 0 /\ draft[r] = 0
        /\ req[r].computed + sched[r] <= NumTokens(r)
    BY <1>1, <1>5 DEF Accounts, PrefillAccount
  <2> QED BY <1>1, <1>2, <1>3, <2>1 DEF StaysPrefill
<1>6. CASE r \notin admitted /\ ~req[r].chunk
  <2>1. /\ req[r].computed = NumTokens(r) + req[r].ph - 1
        /\ req[r].computed + sched[r] < MaxModelLen
        /\ draft[r] = sched[r] - 1
    BY <1>1, <1>6 DEF Accounts, DecodeAccount
  <2> QED BY <1>1, <1>2, <2>1 DEF StaysPrefill
<1> QED BY <1>4, <1>5, <1>6

\* The end of a step: it is sent to the worker.
LEMMA CommitInv == IInv /\ Commit => IInv'
<1> SUFFICES ASSUME IInv, Commit PROVE IInv'
  OBVIOUS
<1>1. /\ pc = "commit" /\ pc' = "idle" /\ idx' = 1 /\ budget' = 0
      /\ req' = [r \in Req |-> IF sched[r] = 0 THEN req[r] ELSE Advanced(r)]
      /\ prevStep' = InStep(sched) /\ finishedIds' = {}
      /\ older = NoFrame => older' = ThisFrame /\ newer' = newer
      /\ older # NoFrame => newer' = ThisFrame /\ older' = older
      /\ sched' = [r \in Req |-> 0] /\ draft' = [r \in Req |-> 0]
      /\ preempted' = {} /\ admitted' = {}
      /\ UNCHANGED <<running, waiting, free, need, left, pause, resets, glen, emitted>>
  BY DEF Commit, envVars, workVars
<1>2. TypeOK /\ Phases
  BY DEF IInv
<1>3. newer = NoFrame
  BY <1>1, <1>2 DEF Phases, Scheduling
<1>4. ThisFrame \in Frame /\ ThisFrame # NoFrame
  BY <1>2, FrameLemma
<1>5. \A r \in Req : req'[r].status = req[r].status
  BY <1>1, <1>2, AdvancedRequest
<1>6. TypeOK'
  <2>1. req' \in [Req -> Request]
    BY <1>1, <1>2, AdvancedRequest DEF TypeOK
  <2>2. older' \in Frame \cup {NoFrame} /\ newer' \in Frame \cup {NoFrame}
    BY <1>1, <1>2, <1>4 DEF TypeOK
  <2>3. 0 \in 0 .. NumSpec
    BY ConstantsAssumption
  <2> QED BY <1>1, <1>2, <2>1, <2>2, <2>3 DEF TypeOK, InStep
<1>7. QueuesMatchStatus'
  BY <1>1, <1>5, SameQueues DEF IInv
<1>8. Phases'
  <2>1. older' # NoFrame
    BY <1>1, <1>4
  <2>2. \A r \in Req : need'[r] = 0 /\ sched'[r] = 0 /\ draft'[r] = 0 /\ budget' = 0
    BY <1>1, <1>2 DEF Phases
  <2> QED BY <1>1, <1>2, <2>1, <2>2 DEF Phases, Scheduling
<1>9. PassedAreBehind'
  BY <1>1 DEF PassedAreBehind
<1>10. ASSUME NEW r \in Req PROVE Accounts(r)'
  <2>1. Accounts(r) /\ need[r] = 0
    BY <1>1, <1>2 DEF IInv, Phases
  <2>2. /\ sched'[r] = 0 /\ draft'[r] = 0 /\ need'[r] = 0
        /\ r \in prevStep' => sched[r] # 0
        /\ req'[r] = IF sched[r] = 0 THEN req[r] ELSE Advanced(r)
    BY <1>1, <2>1 DEF InStep
  <2>3. /\ req'[r].out = req[r].out /\ req'[r].status = req[r].status
        /\ req'[r].discard = req[r].discard
    BY <1>2, <2>2, AdvancedRequest
  <2>4. NumTokens(r)' = NumTokens(r) /\ Live(r)' = Live(r)
    BY <2>3 DEF NumTokens, Live
  <2>5. /\ ThisFrame.n[r] = sched[r] /\ ThisFrame.stale = {}
        /\ OwedBy(ThisFrame, r) =
             IF sched[r] = 0 \/ StaysPrefill(r) THEN 0 ELSE 1 + draft[r]
    BY <1>2, FrameLemma
  <2>6. sched[r] # 0 => req[r].status = "RUNNING"
    BY <2>1 DEF Accounts, Known
  <2>7. FrameKnows(older, r)' /\ FrameKnows(newer, r)'
    <3>1. /\ Live(r)' => r \notin ThisFrame.stale
          /\ ThisFrame.n[r] # 0 /\ r \notin ThisFrame.stale => Live(r)'
          /\ req'[r].status = "ABSENT" => ThisFrame.n[r] = 0 /\ r \notin ThisFrame.stale
      BY <2>3, <2>5, <2>6 DEF Live
    <3>2. /\ older # NoFrame => FrameKnows(older, r)'
          /\ newer' = NoFrame => FrameKnows(newer, r)'
      BY <1>1, <2>1, <2>3, <2>4 DEF Accounts, Known, FrameKnows
    <3>3. older = NoFrame => newer' = NoFrame /\ FrameKnows(older, r)'
      BY <1>1, <1>3, <3>1 DEF FrameKnows
    <3>4. older # NoFrame => FrameKnows(newer, r)'
      BY <1>1, <3>1 DEF FrameKnows
    <3> QED BY <3>2, <3>3, <3>4
  <2>8. Known(r)'
    <3>1. r \notin admitted'
      BY <1>1
    <3>2. req'[r].status = "ABSENT" => r \notin prevStep'
      BY <2>2, <2>3, <2>6
    <3> QED BY <2>2, <2>7, <3>1, <3>2 DEF Known
  <2>9. Owed(r) = OwedBy(older, r) /\ OwedBy(older, r) \in Int /\ OwedBy(ThisFrame, r) \in Int
    <3>1. OwedBy(newer, r) = 0 /\ OwedBy(older, r) \in Int
      BY <1>2, <1>3 DEF OwedBy, TypeOK, Frame
    <3>2. OwedBy(ThisFrame, r) \in Int
      BY <1>2, <2>5, FieldTypes
    <3> QED BY <1>1, <3>1, <3>2 DEF Owed
  <2>10. Owed(r)' = Owed(r) + OwedBy(ThisFrame, r)
    <3>1. Owed(r)' = OwedBy(older, r)' + OwedBy(newer, r)'
      BY <1>1 DEF Owed
    <3>2. CASE older = NoFrame
      <4>1. /\ OwedBy(older, r)' = OwedBy(ThisFrame, r) /\ OwedBy(newer, r)' = 0
            /\ OwedBy(older, r) = 0
        BY <1>1, <1>3, <3>2 DEF OwedBy
      <4> QED BY <2>9, <3>1, <4>1
    <3>3. CASE older # NoFrame
      <4>1. OwedBy(newer, r)' = OwedBy(ThisFrame, r) /\ OwedBy(older, r)' = OwedBy(older, r)
        BY <1>1, <3>3 DEF OwedBy
      <4> QED BY <2>9, <3>1, <4>1
    <3> QED BY <3>2, <3>3
  <2>11. CASE sched[r] = 0
    <3>1. req'[r] = req[r] /\ Owed(r)' = Owed(r) /\ OwedBy(ThisFrame, r) = 0 /\ r \notin admitted
      BY <2>1, <2>2, <2>5, <2>9, <2>10, <2>11 DEF Accounts, AdmittedAccount
    <3>2. LiveAccount(r)'
      BY <2>1, <2>4, <3>1 DEF Accounts, LiveAccount
    <3>3. WaitingAccount(r)'
      <4>1. OwedBy(newer, r)' = 0
        BY <1>1, <1>3, <3>1 DEF OwedBy
      <4>2. OwedBy(older, r)' # 0 => newer' # NoFrame
        BY <1>1, <1>4, <3>1 DEF OwedBy
      <4> QED BY <2>1, <2>2, <2>11, <3>1, <4>1, <4>2 DEF Accounts, WaitingAccount
    <3>4. AdmittedAccount(r)'
      BY <1>1 DEF AdmittedAccount
    <3>5. /\ req[r].computed \in Nat /\ req[r].ph \in Nat /\ req[r].spec \in Nat
          /\ NumTokens(r) \in Nat /\ MaxModelLen \in Nat
      BY <1>2, FieldTypes
    <3>6. PrefillAccount(r)'
      BY <2>1, <2>2, <2>4, <3>1, <3>5 DEF Accounts, PrefillAccount
    <3>7. DecodeAccount(r)'
      <4>1. req[r].status = "RUNNING" /\ ~req[r].chunk =>
              /\ req[r].computed = NumTokens(r) + req[r].ph - 1
              /\ req[r].computed + sched[r] < MaxModelLen
        BY <2>1, <3>1 DEF Accounts, DecodeAccount
      <4> QED BY <2>2, <2>4, <2>11, <3>1, <3>5, <4>1 DEF DecodeAccount
    <3> QED BY <2>8, <3>2, <3>3, <3>4, <3>6, <3>7 DEF Accounts
  <2>12. CASE sched[r] # 0
    <3>1. /\ req[r].status = "RUNNING" /\ Live(r)
          /\ req'[r] = Advanced(r) /\ req'[r].status = "RUNNING"
      BY <2>2, <2>3, <2>6, <2>12 DEF Live
    <3>2. /\ req[r].ph = Owed(r) /\ req[r].discard = 0
          /\ NumTokens(r) < MaxModelLen /\ NumTokens(r) + req[r].ph <= MaxModelLen
      BY <2>1, <3>1 DEF Accounts, LiveAccount
    <3>3. /\ req[r].computed \in Nat /\ req[r].ph \in Nat /\ sched[r] \in Nat
          /\ NumTokens(r) \in Nat /\ draft[r] \in Nat /\ MaxModelLen \in Nat /\ NumSpec \in Nat
      BY <1>2, FieldTypes
    <3>4. WaitingAccount(r)' /\ AdmittedAccount(r)'
      BY <1>1, <3>1 DEF WaitingAccount, AdmittedAccount
    <3>5. CASE StaysPrefill(r)
      <4>1. /\ req'[r].computed = req[r].computed + sched[r] /\ req'[r].chunk
            /\ req'[r].ph = req[r].ph /\ req'[r].spec = req[r].spec
        BY <1>2, <3>1, <3>5, AdvancedRequest
      <4>2. /\ req[r].ph = 0 /\ req[r].spec = 0
            /\ req[r].computed + sched[r] < NumTokens(r)
        BY <1>2, <2>1, <2>12, <3>5, AdvancedLemma
      <4>3. Owed(r)' = Owed(r)
        BY <2>5, <2>9, <2>10, <3>5
      <4>4. LiveAccount(r)'
        BY <2>3, <2>4, <3>2, <4>1, <4>3 DEF LiveAccount
      <4>5. PrefillAccount(r)' /\ DecodeAccount(r)'
        BY <2>2, <2>4, <3>3, <4>1, <4>2 DEF PrefillAccount, DecodeAccount
      <4> QED BY <2>8, <3>4, <4>4, <4>5 DEF Accounts
    <3>6. CASE ~StaysPrefill(r)
      <4>1. /\ req'[r].computed = req[r].computed + sched[r] /\ ~req'[r].chunk
            /\ req'[r].ph = req[r].ph + 1 + draft[r] /\ req'[r].spec = NumSpec
        BY <1>2, <3>1, <3>6, AdvancedRequest
      <4>2. /\ req[r].computed + sched[r] = NumTokens(r) + (req[r].ph + 1 + draft[r]) - 1
            /\ req[r].computed + sched[r] < MaxModelLen
        BY <1>2, <2>1, <2>12, <3>6, AdvancedLemma
      <4>3. Owed(r)' = Owed(r) + (1 + draft[r])
        BY <2>5, <2>10, <2>12, <3>6
      <4>4. LiveAccount(r)'
        <5>1. req'[r].ph = Owed(r)' /\ NumTokens(r) + req'[r].ph <= MaxModelLen
          <6>1. req[r].ph + 1 + draft[r] = req[r].ph + (1 + draft[r])
            BY <3>3
          <6>2. req'[r].ph = Owed(r)'
            BY <3>2, <4>1, <4>3, <6>1
          <6>3. NumTokens(r) + (req[r].ph + 1 + draft[r]) <= MaxModelLen
            BY <3>3, <4>2
          <6> QED BY <4>1, <6>2, <6>3
        <5> QED BY <2>3, <2>4, <3>2, <5>1 DEF LiveAccount
      <4>5. PrefillAccount(r)' /\ DecodeAccount(r)'
        <5>1. /\ req'[r].computed = NumTokens(r) + req'[r].ph - 1
              /\ req'[r].computed + 0 < MaxModelLen
              /\ 0 <= 1 + req'[r].spec
          BY <3>3, <4>1, <4>2
        <5>2. sched'[r] = 0 /\ need'[r] = 0 /\ NumTokens(r)' = NumTokens(r) /\ ~req'[r].chunk
          BY <2>2, <2>4, <4>1
        <5> QED BY ONLY <5>1, <5>2 DEF PrefillAccount, DecodeAccount
      <4> QED BY <2>8, <3>4, <4>4, <4>5 DEF Accounts
    <3> QED BY <3>5, <3>6
  <2> QED BY <2>11, <2>12
<1> QED BY <1>6, <1>7, <1>8, <1>9, <1>10 DEF IInv

-----------------------------------------------------------------------------
(* The steps of update_from_output().                                      *)

\* The oldest step in flight comes back.
LEMMA BeginUpdateInv == IInv /\ BeginUpdate => IInv'
<1> SUFFICES ASSUME IInv, BeginUpdate PROVE IInv'
  OBVIOUS
<1>1. /\ pc = "idle" /\ pc' = "update" /\ left' = InStep(older.n) /\ older # NoFrame
      /\ UNCHANGED <<req, running, waiting, free, finishedIds, prevStep, idx, budget,
                     sched, need, draft, preempted, admitted, older, newer,
                     pause, resets, glen, emitted>>
  BY DEF BeginUpdate, stepVars, envVars, workVars
<1>2. TypeOK'
  BY <1>1 DEF IInv, TypeOK, InStep
<1>3. QueuesMatchStatus'
  BY <1>1 DEF IInv, QueuesMatchStatus
<1>4. Phases' /\ PassedAreBehind'
  BY <1>1 DEF IInv, Phases, PassedAreBehind, Scheduling
<1>5. ASSUME NEW q \in Req PROVE Accounts(q)'
  <2>1. FrameKnows(older, q)' /\ FrameKnows(newer, q)'
    BY <1>1 DEF IInv, Accounts, Known, FrameKnows, Live
  <2>2. OwedBy(older, q)' = OwedBy(older, q) /\ OwedBy(newer, q)' = OwedBy(newer, q)
    BY <1>1 DEF OwedBy
  <2>3. q \notin left' => OwedBy(older, q) = 0
    BY <1>1 DEF OwedBy, InStep
  <2>4. OwedBy(older, q) + OwedBy(newer, q) = Owed(q)
    BY <1>1 DEF Owed
  <2>5. Owed(q)' = Owed(q)
    BY <1>1, <2>2, <2>3, <2>4 DEF Owed
  <2> QED BY <1>1, <2>1, <2>2, <2>5, OtherAccounts DEF IInv
<1> QED BY <1>2, <1>3, <1>4, <1>5 DEF IInv

\* A step in flight is done with, and the next one takes its place.
LEMMA EndUpdateInv == IInv /\ EndUpdate => IInv'
<1> SUFFICES ASSUME IInv, EndUpdate PROVE IInv'
  OBVIOUS
<1>1. /\ pc = "update" /\ pc' = "idle" /\ left = {}
      /\ older' = newer /\ newer' = NoFrame
      /\ UNCHANGED <<req, running, waiting, free, finishedIds, prevStep, idx, budget,
                     sched, need, draft, preempted, admitted, left,
                     pause, resets, glen, emitted>>
  BY DEF EndUpdate, stepVars, envVars, workVars
<1>2. TypeOK'
  BY <1>1 DEF IInv, TypeOK
<1>3. QueuesMatchStatus'
  BY <1>1 DEF IInv, QueuesMatchStatus
<1>4. Phases' /\ PassedAreBehind'
  BY <1>1 DEF IInv, Phases, PassedAreBehind, Scheduling
<1>5. ASSUME NEW q \in Req PROVE Accounts(q)'
  <2>1. Accounts(q) /\ preempted = {}
    BY <1>1 DEF IInv, Phases, Scheduling
  <2>2. Known(q)'
    BY <1>1, <2>1 DEF Accounts, Known, FrameKnows, Live
  <2>3. OwedBy(older, q)' = OwedBy(newer, q) /\ OwedBy(newer, q)' = 0
    BY <1>1 DEF OwedBy
  <2>4. OwedBy(newer, q) \in Int
    BY DEF OwedBy, IInv, TypeOK, Frame
  <2>5. Owed(q)' = Owed(q)
    BY <1>1, <2>3, <2>4 DEF Owed
  <2>6. LiveAccount(q)'
    BY <1>1, <2>1, <2>5 DEF Accounts, LiveAccount, Live, NumTokens
  <2>7. WaitingAccount(q)'
    BY <1>1, <2>1, <2>3 DEF Accounts, WaitingAccount
  <2>8. AdmittedAccount(q)' /\ PrefillAccount(q)' /\ DecodeAccount(q)'
    BY <1>1, <2>1 DEF Accounts, AdmittedAccount, PrefillAccount, DecodeAccount, NumTokens
  <2> QED BY <2>2, <2>6, <2>7, <2>8 DEF Accounts
<1> QED BY <1>2, <1>3, <1>4, <1>5 DEF IInv

\* Marking a request as gone in a step in flight changes nothing for the others.
LEMMA OutdatedLemma ==
  ASSUME NEW f \in Frame \cup {NoFrame}, NEW r \in Req
  PROVE  /\ Outdated(f, r) \in Frame \cup {NoFrame}
         /\ Outdated(f, r) = NoFrame <=> f = NoFrame
         /\ f # NoFrame => /\ Outdated(f, r).n = f.n
                           /\ Outdated(f, r).stale = f.stale \cup {r}
         /\ OwedBy(Outdated(f, r), r) = 0
         /\ \A q \in Req : q # r => OwedBy(Outdated(f, r), q) = OwedBy(f, q)
<1>1. CASE f = NoFrame
  BY <1>1 DEF Outdated, OwedBy
<1>2. CASE f # NoFrame
  <2> DEFINE g == [f EXCEPT !.stale = f.stale \cup {r}]
  <2>1. Outdated(f, r) = g
    BY <1>2 DEF Outdated
  <2>2. f \in Frame
    BY <1>2
  <2>3. /\ g \in Frame /\ g.n = f.n /\ g.d = f.d /\ g.chunk = f.chunk
        /\ g.stale = f.stale \cup {r}
    BY <2>2 DEF Frame
  <2> HIDE DEF g
  <2>4. g # NoFrame
    BY <2>3, NoFrameAssumption
  <2>5. OwedBy(g, r) = 0
    BY <2>3 DEF OwedBy
  <2>6. ASSUME NEW q \in Req, q # r PROVE OwedBy(g, q) = OwedBy(f, q)
    BY <1>2, <2>3, <2>4, <2>6 DEF OwedBy
  <2> QED BY <1>2, <2>1, <2>3, <2>4, <2>5, <2>6
<1> QED BY <1>1, <1>2

\* Between two steps of schedule(), a step that touches one request only keeps
\* the invariant when it keeps the accounts of that request.
LEMMA TouchInv ==
  ASSUME IInv, NEW r \in Req, NEW p \in Request, req' = [req EXCEPT ![r] = p],
         pc \in {"idle", "update", "reset"}, pc' = pc,
         UNCHANGED <<prevStep, idx, budget, sched, need, draft, preempted, admitted,
                     pause, resets>>,
         left' = left \/ left' = left \ {r},
         \/ older' = older /\ newer' = newer
         \/ older' = Outdated(older, r) /\ newer' = Outdated(newer, r),
         running' \in Seq(Req), waiting' \in Seq(Req), QueuesMatchStatus',
         free' \in Nat, finishedIds' \subseteq Req,
         glen' \in [Req -> Nat], emitted' \in [Req -> Seq(Int)],
         Accounts(r)'
  PROVE  IInv'
<1>1. TypeOK /\ Phases /\ older \in Frame \cup {NoFrame} /\ newer \in Frame \cup {NoFrame}
  BY DEF IInv, TypeOK
<1>2. /\ older' \in Frame \cup {NoFrame} /\ newer' \in Frame \cup {NoFrame}
      /\ older' = NoFrame <=> older = NoFrame
      /\ newer' = NoFrame <=> newer = NoFrame
      /\ older # NoFrame => older'.n = older.n
  <2>1. CASE older' = older /\ newer' = newer
    BY <1>1, <2>1
  <2>2. CASE older' = Outdated(older, r) /\ newer' = Outdated(newer, r)
    <3>1. /\ Outdated(older, r) \in Frame \cup {NoFrame}
          /\ Outdated(older, r) = NoFrame <=> older = NoFrame
          /\ older # NoFrame => Outdated(older, r).n = older.n
      BY ONLY <1>1, OutdatedLemma
    <3>2. /\ Outdated(newer, r) \in Frame \cup {NoFrame}
          /\ Outdated(newer, r) = NoFrame <=> newer = NoFrame
      BY ONLY <1>1, OutdatedLemma
    <3> QED BY ONLY <2>2, <3>1, <3>2
  <2> QED BY <2>1, <2>2
<1>3. TypeOK'
  <2>1. req' \in [Req -> Request]
    BY <1>1 DEF TypeOK
  <2>2. left' \subseteq Req
    BY <1>1 DEF TypeOK
  <2>3. /\ prevStep' \subseteq Req
        /\ pause' \in {"UNPAUSED", "PAUSED_NEW", "PAUSED_ALL"}
        /\ pc' \in {"idle", "running", "allocate", "waiting", "commit", "update", "reset"}
        /\ idx' \in Nat \ {0} /\ budget' \in Nat
        /\ sched' \in [Req -> Nat] /\ need' \in [Req -> Nat]
        /\ draft' \in [Req -> 0 .. NumSpec]
        /\ preempted' \subseteq Req /\ admitted' \subseteq Req
        /\ resets' \in 0 .. MaxResets
    BY <1>1 DEF TypeOK
  <2> QED BY <1>2, <2>1, <2>2, <2>3 DEF TypeOK
<1>4. Phases'
  <2>1. /\ older' = NoFrame => newer' = NoFrame
        /\ pc' = "reset" => older' = NoFrame
        /\ preempted' = {} /\ admitted' = {} /\ ~Scheduling /\ ~Scheduling'
    BY <1>1, <1>2 DEF Phases, Scheduling
  <2>2. /\ pc = "update" => older # NoFrame /\ left \subseteq InStep(older.n)
        /\ pc # "update" => left = {}
    BY <1>1 DEF Phases
  <2>3. pc' = "update" => older' # NoFrame /\ left' \subseteq InStep(older'.n)
    BY <1>2, <2>2
  <2>4. pc' # "update" => left' = {}
    BY <2>2
  <2>5. \A q \in Req : /\ sched'[q] = 0 /\ draft'[q] = 0 /\ need'[q] = 0 /\ need'[q] <= budget'
    BY <1>1, <2>1 DEF Phases
  <2> QED BY <2>1, <2>3, <2>4, <2>5 DEF Phases, Scheduling
<1>5. PassedAreBehind'
  BY DEF PassedAreBehind
<1>6. ASSUME NEW q \in Req, q # r PROVE Accounts(q)'
  <2>1. Accounts(q) /\ req'[q] = req[q]
    BY <1>1, <1>6 DEF IInv, TypeOK
  <2>2. OwedBy(older, q)' = OwedBy(older, q) /\ OwedBy(newer, q)' = OwedBy(newer, q)
    <3>1. CASE older' = older /\ newer' = newer
      BY <3>1 DEF OwedBy
    <3>2. CASE older' = Outdated(older, r) /\ newer' = Outdated(newer, r)
      <4>1. OwedBy(older, q)' = OwedBy(Outdated(older, r), q)
        BY <3>2 DEF OwedBy
      <4>2. OwedBy(newer, q)' = OwedBy(Outdated(newer, r), q)
        BY <3>2 DEF OwedBy
      <4> QED BY <1>1, <1>6, <4>1, <4>2, OutdatedLemma
    <3> QED BY <3>1, <3>2
  <2>3. FrameKnows(older, q)' /\ FrameKnows(newer, q)'
    <3>1. FrameKnows(older, q) /\ FrameKnows(newer, q) /\ Live(q)' = Live(q)
      BY <2>1 DEF Accounts, Known, Live
    <3>2. CASE older' = older /\ newer' = newer
      BY <2>1, <3>1, <3>2 DEF FrameKnows
    <3>3. CASE older' = Outdated(older, r) /\ newer' = Outdated(newer, r)
      <4>1. /\ older # NoFrame => older'.n = older.n /\ older'.stale = older.stale \cup {r}
            /\ newer # NoFrame => newer'.n = newer.n /\ newer'.stale = newer.stale \cup {r}
        BY <1>1, <3>3, OutdatedLemma
      <4> QED BY <1>2, <1>6, <2>1, <3>1, <4>1 DEF FrameKnows
    <3> QED BY <3>2, <3>3
  <2>4. q \in left' <=> q \in left
    BY <1>6
  <2>5. Owed(q)' = Owed(q)
    BY <2>2, <2>4 DEF Owed
  <2> QED BY <1>2, <2>1, <2>2, <2>3, <2>5, OtherAccounts
<1> QED BY <1>3, <1>4, <1>5, <1>6 DEF IInv

\* A request that has ended has no accounts to keep.
LEMMA ClosedAccounts ==
  ASSUME IInv, NEW r \in Req, req'[r].status = "FINISHED",
         pc \in {"idle", "update"}, pc' = pc,
         UNCHANGED <<prevStep, sched, need, draft, preempted, admitted>>,
         \/ older' = Outdated(older, r) /\ newer' = Outdated(newer, r)
         \/ older' = older /\ newer' = newer /\ req'[r] = req[r]
  PROVE  Accounts(r)'
<1>1. older \in Frame \cup {NoFrame} /\ newer \in Frame \cup {NoFrame} /\ Accounts(r)
  BY DEF IInv, TypeOK
<1>2. sched[r] = 0 /\ need[r] = 0 /\ draft[r] = 0 /\ admitted = {}
  BY DEF IInv, Phases, Scheduling
<1>3. ~Live(r)'
  BY DEF Live
<1>4. FrameKnows(older, r)' /\ FrameKnows(newer, r)'
  <2>1. CASE older' = older /\ newer' = newer /\ req'[r] = req[r]
    BY <1>1, <2>1 DEF Accounts, Known, FrameKnows, Live
  <2>2. CASE older' = Outdated(older, r) /\ newer' = Outdated(newer, r)
    <3>1. /\ older' # NoFrame => r \in older'.stale
          /\ newer' # NoFrame => r \in newer'.stale
      BY <1>1, <2>2, OutdatedLemma
    <3> QED BY <1>3, <3>1 DEF FrameKnows
  <2> QED BY <2>1, <2>2
<1>5. Known(r)'
  BY <1>2, <1>4 DEF Known
<1>6. LiveAccount(r)'
  BY <1>3 DEF LiveAccount
<1>7. WaitingAccount(r)' /\ AdmittedAccount(r)' /\ PrefillAccount(r)' /\ DecodeAccount(r)'
  BY <1>2 DEF WaitingAccount, AdmittedAccount, PrefillAccount, DecodeAccount
<1> QED BY <1>5, <1>6, <1>7 DEF Accounts

\* A request that is taken out of its queue.
LEMMA LeaveQueueLemma ==
  ASSUME IInv, NEW r \in Req, Live(r), LeaveQueue(r),
         NEW p, p.status = "FINISHED", req' = [req EXCEPT ![r] = p]
  PROVE  running' \in Seq(Req) /\ waiting' \in Seq(Req) /\ QueuesMatchStatus'
<1>1. TypeOK /\ QueuesMatchStatus /\ running \in Seq(Req) /\ waiting \in Seq(Req)
      /\ IsInjective(running) /\ IsInjective(waiting)
  BY DEF IInv, TypeOK, QueuesMatchStatus
<1>2. req'[r].status = "FINISHED" /\ \A q \in Req : q # r => req'[q] = req[q]
  BY <1>1 DEF TypeOK
<1>3. CASE req[r].status = "RUNNING"
  <2>1. running' = Without(running, r) /\ waiting' = waiting /\ r \in Range(running)
    BY <1>1, <1>3, QueueStatus DEF LeaveQueue
  <2>2. /\ running' \in Seq(Req) /\ IsInjective(running')
        /\ Range(running') = Range(running) \ {r}
    BY <1>1, <2>1, WithoutLemma
  <2> QED BY <1>1, <1>2, <1>3, <2>1, <2>2 DEF QueuesMatchStatus
<1>4. CASE req[r].status # "RUNNING"
  <2>1. waiting' = Without(waiting, r) /\ running' = running /\ r \in Range(waiting)
    BY <1>1, <1>4, QueueStatus DEF LeaveQueue, Live
  <2>2. /\ waiting' \in Seq(Req) /\ IsInjective(waiting')
        /\ Range(waiting') = Range(waiting) \ {r}
    BY <1>1, <2>1, WithoutLemma
  <2> QED BY <1>1, <1>2, <1>4, <2>1, <2>2 DEF QueuesMatchStatus
<1> QED BY <1>3, <1>4

\* A request that ends is a request.
LEMMA FinishedRequest ==
  ASSUME NEW q \in Request PROVE Finished(q) \in Request /\ Finished(q).status = "FINISHED"
<1> DEFINE p1 == [q EXCEPT !.status = "FINISHED"]
           p2 == [p1 EXCEPT !.blocks = 0]
<1>1. p1 \in Request BY DEF Request, Status
<1> HIDE DEF p1
<1>2. p2 \in Request BY <1>1 DEF Request
<1>3. Finished(q) = p2 BY DEF Finished, p1
<1>4. p2.status = "FINISHED" BY DEF Request, p1
<1> QED BY <1>2, <1>3, <1>4

\* A request that is forced out is a request, and starts over.
LEMMA ForcePreemptedRequest ==
  ASSUME NEW q \in Request, NumSpec \in Nat
  PROVE  /\ ForcePreempted(q) \in Request
         /\ ForcePreempted(q).status = "PREEMPTED" /\ ForcePreempted(q).out = q.out
         /\ ForcePreempted(q).computed = 0 /\ ForcePreempted(q).spec = 0
         /\ ForcePreempted(q).ph = 0 /\ ForcePreempted(q).discard = q.ph
<1> DEFINE p0 == PreemptedRequest(q)
           p1 == [p0 EXCEPT !.discard = q.ph]
           p2 == [p1 EXCEPT !.ph = 0]
<1>1. /\ p0 \in Request /\ p0.status = "PREEMPTED" /\ p0.out = q.out
      /\ p0.computed = 0 /\ p0.spec = 0 /\ q.ph \in Nat
  BY PreemptedRequestType DEF Request
<1>2. ForcePreempted(q) = p2 BY DEF ForcePreempted
<1> HIDE DEF p0
<1>3. p1 \in Request BY <1>1 DEF Request
<1>4. p1.status = "PREEMPTED" /\ p1.out = q.out /\ p1.computed = 0 /\ p1.spec = 0
      /\ p1.discard = q.ph
  BY <1>1 DEF Request
<1> HIDE DEF p1
<1>5. p2 \in Request BY <1>3 DEF Request
<1>6. p2.status = "PREEMPTED" /\ p2.out = q.out /\ p2.computed = 0 /\ p2.spec = 0
      /\ p2.discard = q.ph /\ p2.ph = 0
  BY <1>3, <1>4 DEF Request
<1> QED BY <1>2, <1>5, <1>6

\* A request that is taken back its rejected drafts is a request.
LEMMA CorrectedRequest ==
  ASSUME NEW q \in Request, NEW x \in Nat, q.ph > 0, x <= q.ph,
         q.computed > 0 => x <= q.computed
  PROVE  /\ Corrected(q, x) \in Request
         /\ Corrected(q, x).status = q.status /\ Corrected(q, x).out = q.out
         /\ Corrected(q, x).computed = IF q.computed > 0 THEN q.computed - x ELSE q.computed
         /\ Corrected(q, x).ph = q.ph - x /\ Corrected(q, x).spec = q.spec
         /\ Corrected(q, x).chunk = q.chunk /\ Corrected(q, x).discard = q.discard
<1> DEFINE c == IF q.computed > 0 THEN q.computed - x ELSE q.computed
           p1 == [q EXCEPT !.computed = c]
           p2 == [p1 EXCEPT !.ph = q.ph - x]
<1>1. q.computed \in Nat /\ q.ph \in Nat BY DEF Request
<1>2. c \in Nat /\ q.ph - x \in Nat BY <1>1
<1>3. Corrected(q, x) = p2 BY <1>1 DEF Corrected
<1> HIDE DEF c
<1>4. p1 \in Request BY <1>2 DEF Request
<1>5. /\ p1.status = q.status /\ p1.out = q.out /\ p1.computed = c /\ p1.spec = q.spec
      /\ p1.chunk = q.chunk /\ p1.discard = q.discard
  BY DEF Request
<1> HIDE DEF p1
<1>6. p2 \in Request BY <1>2, <1>4 DEF Request
<1>7. /\ p2.status = q.status /\ p2.out = q.out /\ p2.computed = c /\ p2.spec = q.spec
      /\ p2.chunk = q.chunk /\ p2.discard = q.discard /\ p2.ph = q.ph - x
  BY <1>4, <1>5 DEF Request
<1> QED BY <1>3, <1>6, <1>7 DEF c

\* A request that is given tokens is a request.
LEMMA WithOutputRequest ==
  ASSUME NEW q \in Request, NEW j \in Nat, j <= q.ph
  PROVE  /\ WithOutput(q, j) \in Request
         /\ WithOutput(q, j).status = q.status /\ WithOutput(q, j).out = q.out + j
         /\ WithOutput(q, j).computed = q.computed /\ WithOutput(q, j).ph = q.ph - j
         /\ WithOutput(q, j).spec = q.spec /\ WithOutput(q, j).chunk = q.chunk
         /\ WithOutput(q, j).discard = q.discard
<1> DEFINE p1 == [q EXCEPT !.out = q.out + j]
           p2 == [p1 EXCEPT !.ph = q.ph - j]
<1>1. q.out + j \in Nat /\ q.ph - j \in Nat BY DEF Request
<1>2. WithOutput(q, j) = p2 BY DEF WithOutput
<1>3. p1 \in Request BY <1>1 DEF Request
<1>4. /\ p1.status = q.status /\ p1.out = q.out + j /\ p1.computed = q.computed
      /\ p1.spec = q.spec /\ p1.chunk = q.chunk /\ p1.discard = q.discard
  BY DEF Request
<1> HIDE DEF p1
<1>5. p2 \in Request BY <1>1, <1>3 DEF Request
<1>6. /\ p2.status = q.status /\ p2.out = q.out + j /\ p2.computed = q.computed
      /\ p2.spec = q.spec /\ p2.chunk = q.chunk /\ p2.discard = q.discard
      /\ p2.ph = q.ph - j
  BY <1>3, <1>4 DEF Request
<1> QED BY <1>2, <1>5, <1>6

\* A request whose draft is resized is a request; all else stays.
LEMMA ResizedRequest ==
  ASSUME NEW q \in Request, NEW length \in Int, NumSpec \in Nat
  PROVE  /\ ResizedSpec(q, length) \in Request
         /\ ResizedSpec(q, length).status = q.status /\ ResizedSpec(q, length).out = q.out
         /\ ResizedSpec(q, length).computed = q.computed
         /\ ResizedSpec(q, length).ph = q.ph /\ ResizedSpec(q, length).chunk = q.chunk
         /\ ResizedSpec(q, length).discard = q.discard
         /\ q.status # "RUNNING" => ResizedSpec(q, length).spec = q.spec
<1> DEFINE n == Greater(0, Lesser(length, NumSpec))
           p == [q EXCEPT !.spec = n]
<1>1. n \in 0 .. NumSpec BY DEF Greater, Lesser
<1>2. ResizedSpec(q, length) = IF ~q.chunk /\ q.status = "RUNNING" THEN p ELSE q
  BY DEF ResizedSpec
<1> HIDE DEF n
<1>3. p \in Request BY <1>1 DEF Request
<1>4. /\ p.status = q.status /\ p.out = q.out /\ p.computed = q.computed
      /\ p.ph = q.ph /\ p.chunk = q.chunk /\ p.discard = q.discard
  BY DEF Request
<1> HIDE DEF p
<1> QED BY <1>2, <1>3, <1>4

\* Where the worker puts a sample is a position.
LEMMA SampledFromType ==
  ASSUME IInv, NEW r \in Req, pc = "update"
  PROVE  /\ SampledFrom(r) \in Nat /\ older.d[r] \in Nat
         /\ PromptLen[r] \in Nat /\ older \in Frame /\ older # NoFrame
<1>1. older # NoFrame /\ older \in Frame /\ glen \in [Req -> Nat]
  BY DEF IInv, TypeOK, Phases
<1>2. older.base[r] \in Nat \cup {Continues} /\ older.d[r] \in 0 .. NumSpec
  BY <1>1 DEF Frame
<1> QED BY <1>1, <1>2, ConstantsAssumption DEF SampledFrom

\* A visit to a request that has ended.
LEMMA DropOutputInv == ASSUME NEW r \in Req PROVE IInv /\ DropOutput(r) => IInv'
<1> SUFFICES ASSUME IInv, DropOutput(r) PROVE IInv'
  OBVIOUS
<1>1. /\ pc = "update" /\ pc' = pc /\ left' = left \ {r} /\ ~Live(r)
      /\ UNCHANGED <<req, running, waiting, free, finishedIds, prevStep, idx, budget,
                     sched, need, draft, preempted, admitted, older, newer,
                     pause, resets, glen, emitted>>
  BY DEF DropOutput, Visits, stepVars, envVars, workVars
<1>2. TypeOK /\ QueuesMatchStatus /\ Phases /\ Accounts(r) /\ req[r] \in Request
  BY DEF IInv, TypeOK
<1>3. req' = [req EXCEPT ![r] = req[r]]
  BY <1>1, <1>2 DEF TypeOK
<1>4. QueuesMatchStatus'
  BY <1>1, <1>2 DEF QueuesMatchStatus
<1>5. req[r].status \in {"ABSENT", "FINISHED"}
  BY <1>1, <1>2 DEF Live, Request, Status
<1>6. Accounts(r)'
  <2>1. Known(r)'
    BY <1>1, <1>2 DEF Accounts, Known, FrameKnows, Live
  <2>2. r \notin admitted
    BY <1>1, <1>2 DEF Phases, Scheduling
  <2> QED BY <1>1, <1>5, <2>1, <2>2
      DEF Accounts, LiveAccount, WaitingAccount, AdmittedAccount, PrefillAccount,
          DecodeAccount, Live
<1>7. /\ running' \in Seq(Req) /\ waiting' \in Seq(Req) /\ free' \in Nat
      /\ finishedIds' \subseteq Req /\ glen' \in [Req -> Nat] /\ emitted' \in [Req -> Seq(Int)]
  BY <1>1, <1>2 DEF TypeOK
<1> QED BY <1>1, <1>2, <1>3, <1>4, <1>6, <1>7, TouchInv

\* A visit to a request whose step ended inside its known tokens.
LEMMA NoSampleInv == ASSUME NEW r \in Req PROVE IInv /\ NoSample(r) => IInv'
<1> SUFFICES ASSUME IInv, NoSample(r) PROVE IInv'
  OBVIOUS
<1>1. /\ pc = "update" /\ pc' = pc /\ left' = left \ {r} /\ Live(r)
      /\ r \in older.chunk /\ glen' = [glen EXCEPT ![r] = SampledFrom(r)]
      /\ UNCHANGED <<req, running, waiting, free, finishedIds, prevStep, idx, budget,
                     sched, need, draft, preempted, admitted, older, newer,
                     pause, resets, emitted>>
  BY DEF NoSample, Visits, stepVars, envVars
<1>2. TypeOK /\ QueuesMatchStatus /\ Phases /\ Accounts(r) /\ req[r] \in Request
  BY DEF IInv, TypeOK
<1>3. req' = [req EXCEPT ![r] = req[r]]
  BY <1>1, <1>2 DEF TypeOK
<1>4. QueuesMatchStatus'
  BY <1>1, <1>2 DEF QueuesMatchStatus
<1>5. Accounts(r)'
  <2>1. FrameKnows(older, r)' /\ FrameKnows(newer, r)'
    BY <1>1, <1>2 DEF Accounts, Known, FrameKnows, Live
  <2>2. OwedBy(older, r) = 0
    BY <1>1 DEF OwedBy
  <2>3. OwedBy(older, r)' = OwedBy(older, r) /\ OwedBy(newer, r)' = OwedBy(newer, r)
    BY <1>1 DEF OwedBy
  <2>4. Owed(r)' = Owed(r)
    BY <1>1, <2>2, <2>3 DEF Owed
  <2> QED BY <1>1, <1>2, <2>1, <2>3, <2>4, OtherAccounts
<1>6. /\ running' \in Seq(Req) /\ waiting' \in Seq(Req) /\ free' \in Nat
      /\ finishedIds' \subseteq Req /\ emitted' \in [Req -> Seq(Int)]
  BY <1>1, <1>2 DEF TypeOK
<1>7. glen' \in [Req -> Nat]
  BY <1>1, <1>2, SampledFromType DEF TypeOK
<1> QED BY <1>1, <1>2, <1>3, <1>4, <1>5, <1>6, <1>7, TouchInv

\* Nothing is ever discarded when a forced reset finds nothing in flight.
LEMMA DiscardOutputInv == ASSUME NEW r \in Req PROVE IInv /\ DiscardOutput(r) => IInv'
<1> SUFFICES ASSUME IInv, DiscardOutput(r) PROVE FALSE
  OBVIOUS
<1>1. Live(r) /\ req[r].discard > 0
  BY DEF DiscardOutput
<1>2. req[r].discard = 0
  BY <1>1 DEF IInv, Accounts, LiveAccount
<1> QED BY <1>1, <1>2

\* What a step that samples for a live request owes it: one token and its
\* drafts; a request it decodes has computed at least as many.
LEMMA SampleLemma ==
  ASSUME IInv, NEW r \in Req, Visits(r), Live(r), r \notin older.chunk,
         NEW k \in Samples(r)
  PROVE  /\ Owed(r) = 1 + older.d[r] + OwedBy(newer, r)
         /\ OwedBy(newer, r) \in Nat /\ older.d[r] \in Nat
         /\ Rejected(r, k) \in Nat /\ Rejected(r, k) + k = 1 + older.d[r]
         /\ req[r].ph = 1 + older.d[r] + OwedBy(newer, r)
         /\ req[r].status = "RUNNING" => ~req[r].chunk
         /\ req[r].computed > 0 => Rejected(r, k) <= req[r].computed
<1>1. pc = "update" /\ r \in left /\ TypeOK /\ Phases /\ Accounts(r)
  BY DEF Visits, IInv
<1>2. older # NoFrame /\ older.n[r] # 0 /\ r \notin older.stale
  BY <1>1 DEF Phases, InStep, Accounts, Known, FrameKnows
<1>3. older.d[r] \in Nat
  BY <1>1, SampledFromType
<1>4. OwedBy(newer, r) \in Nat
  <2>1. newer # NoFrame => newer.d[r] \in Nat
    BY <1>1, ConstantsAssumption DEF TypeOK, Frame
  <2> QED BY <2>1 DEF OwedBy
<1>5. OwedBy(older, r) = 1 + older.d[r]
  BY <1>2 DEF OwedBy
<1>6. Owed(r) = 1 + older.d[r] + OwedBy(newer, r)
  BY <1>1, <1>5 DEF Owed
<1>7. Rejected(r, k) \in Nat /\ Rejected(r, k) + k = 1 + older.d[r]
  BY <1>3 DEF Rejected, Samples
<1>8. req[r].ph = Owed(r)
  BY <1>1 DEF Accounts, LiveAccount
<1>9. r \notin admitted
  BY <1>1 DEF Phases, Scheduling
<1>10. req[r].status = "RUNNING" => ~req[r].chunk
  BY <1>1, <1>3, <1>4, <1>6, <1>8, <1>9 DEF Accounts, PrefillAccount
<1>11. req[r].computed > 0 => Rejected(r, k) <= req[r].computed
  <2>1. CASE req[r].status = "RUNNING"
    <3>1. req[r].computed = NumTokens(r) + req[r].ph - 1
      BY <1>1, <1>9, <1>10, <2>1 DEF Accounts, DecodeAccount
    <3>2. NumTokens(r) \in Nat \ {0} /\ req[r].computed \in Nat
      BY <1>1, FieldTypes
    <3>3. Rejected(r, k) <= older.d[r]
      BY <1>3 DEF Rejected, Samples
    <3> QED BY <1>3, <1>4, <1>6, <1>7, <1>8, <3>1, <3>2, <3>3
  <2>2. CASE req[r].status # "RUNNING"
    <3>1. req[r].computed = 0
      BY <1>1, <2>2 DEF Accounts, WaitingAccount, Live
    <3> QED BY <3>1
  <2> QED BY <2>1, <2>2
<1> QED BY <1>3, <1>4, <1>6, <1>7, <1>8, <1>10, <1>11

\* A request after a sample of k tokens, j of which it keeps.
Sampled(r, k, j) == WithOutput(Corrected(req[r], Rejected(r, k)), j)

\* A sampled request is a request; what it is owed goes down by what the step
\* owed it, when it keeps every token.
LEMMA SampledRequest ==
  ASSUME IInv, NEW r \in Req, Visits(r), Live(r), r \notin older.chunk,
         NEW k \in Samples(r), NEW j \in 1 .. k
  PROVE  /\ Sampled(r, k, j) \in Request
         /\ Sampled(r, k, j).status = req[r].status
         /\ Sampled(r, k, j).out = req[r].out + j
         /\ Sampled(r, k, j).computed =
              IF req[r].computed > 0 THEN req[r].computed - Rejected(r, k) ELSE 0
         /\ Sampled(r, k, j).ph = req[r].ph - Rejected(r, k) - j
         /\ Sampled(r, k, j).spec = req[r].spec
         /\ Sampled(r, k, j).chunk = req[r].chunk
         /\ Sampled(r, k, j).discard = req[r].discard
<1> DEFINE x == Rejected(r, k)
           c == Corrected(req[r], x)
           w == WithOutput(c, j)
<1>1. /\ x \in Nat /\ x + k = 1 + older.d[r] /\ OwedBy(newer, r) \in Nat
      /\ req[r].ph = 1 + older.d[r] + OwedBy(newer, r) /\ older.d[r] \in Nat
      /\ req[r].computed > 0 => x <= req[r].computed
  BY SampleLemma
<1>2. k \in Nat \ {0} /\ j \in Nat /\ j <= k
  BY <1>1 DEF Samples
<1>3. req[r] \in Request /\ req[r].ph \in Nat /\ req[r].computed \in Nat
  BY FieldTypes DEF IInv
<1>4. Sampled(r, k, j) = w
  BY DEF Sampled
<1> HIDE DEF x
<1>5. req[r].ph > 0 /\ x <= req[r].ph /\ j <= req[r].ph - x
  BY <1>1, <1>2, <1>3
<1>6. /\ c \in Request /\ c.status = req[r].status /\ c.out = req[r].out
      /\ c.computed = IF req[r].computed > 0 THEN req[r].computed - x ELSE req[r].computed
      /\ c.ph = req[r].ph - x /\ c.spec = req[r].spec
      /\ c.chunk = req[r].chunk /\ c.discard = req[r].discard
  <2>1. x \in Nat /\ (req[r].computed > 0 => x <= req[r].computed)
    BY <1>1
  <2> QED BY ONLY <2>1, <1>3, <1>5, CorrectedRequest
<1> HIDE DEF c
<1>7. /\ w \in Request /\ w.status = c.status /\ w.out = c.out + j
      /\ w.computed = c.computed /\ w.ph = c.ph - j /\ w.spec = c.spec
      /\ w.chunk = c.chunk /\ w.discard = c.discard
  <2>1. c \in Request /\ j \in Nat /\ j <= c.ph
    BY <1>2, <1>5, <1>6
  <2> QED BY ONLY <2>1, WithOutputRequest
<1> HIDE DEF w
<1>8. req[r].computed > 0 \/ req[r].computed = 0
  BY <1>3
<1> QED BY <1>4, <1>6, <1>7, <1>8 DEF x

\* What the client is given keeps its type.
LEMMA DeliverType ==
  ASSUME IInv, NEW r \in Req, Visits(r), NEW k \in Nat, NEW j \in Nat, Deliver(r, k, j)
  PROVE  glen' \in [Req -> Nat] /\ emitted' \in [Req -> Seq(Int)]
<1>1. /\ SampledFrom(r) \in Nat /\ PromptLen[r] \in Nat /\ SampledFrom(r) + k \in Nat
      /\ glen \in [Req -> Nat] /\ emitted \in [Req -> Seq(Int)]
  <2>1. pc = "update" /\ glen \in [Req -> Nat] /\ emitted \in [Req -> Seq(Int)]
    BY DEF Visits, IInv, TypeOK
  <2>2. SampledFrom(r) \in Nat /\ PromptLen[r] \in Nat
    BY <2>1, SampledFromType
  <2> QED BY <2>1, <2>2
<1>2. Positions(r, j) \in Seq(Int)
  BY <1>1 DEF Positions
<1>3. emitted[r] \o Positions(r, j) \in Seq(Int)
  BY <1>1, <1>2
<1> QED BY <1>1, <1>3 DEF Deliver

\* A live request takes the tokens of a step.
LEMMA TakeOutputInv == ASSUME NEW r \in Req PROVE IInv /\ TakeOutput(r) => IInv'
<1> SUFFICES ASSUME IInv, TakeOutput(r) PROVE IInv'
  OBVIOUS
<1>1. PICK k \in Samples(r), length \in NoLength .. NumSpec :
        /\ Keeps(r, k, k, FALSE)
        /\ req' = [req EXCEPT ![r] =
                     IF length = NoLength THEN Sampled(r, k, k)
                     ELSE ResizedSpec(Sampled(r, k, k), length)]
        /\ Deliver(r, k, k)
  BY DEF TakeOutput, Sampled
<1>2. /\ pc = "update" /\ pc' = pc /\ left' = left \ {r} /\ r \in left
      /\ Live(r) /\ r \notin older.chunk /\ Visits(r)
      /\ UNCHANGED <<running, waiting, free, finishedIds, prevStep, idx, budget,
                     sched, need, draft, preempted, admitted, older, newer,
                     pause, resets>>
  BY DEF TakeOutput, Visits, stepVars, envVars
<1> DEFINE s == Sampled(r, k, k)
           p == IF length = NoLength THEN s ELSE ResizedSpec(s, length)
<1>3. /\ TypeOK /\ QueuesMatchStatus /\ Phases /\ Accounts(r)
      /\ sched[r] = 0 /\ need[r] = 0 /\ draft[r] = 0 /\ admitted = {}
  BY <1>2 DEF IInv, Phases, Scheduling
<1>4. /\ Owed(r) = 1 + older.d[r] + OwedBy(newer, r)
      /\ OwedBy(newer, r) \in Nat /\ older.d[r] \in Nat
      /\ Rejected(r, k) \in Nat /\ Rejected(r, k) + k = 1 + older.d[r]
      /\ req[r].ph = 1 + older.d[r] + OwedBy(newer, r)
      /\ req[r].status = "RUNNING" => ~req[r].chunk
      /\ req[r].computed > 0 => Rejected(r, k) <= req[r].computed
  BY <1>2, SampleLemma
<1>5. k \in Nat \ {0} /\ k \in 1 .. k /\ k <= 1 + older.d[r]
  BY <1>4 DEF Samples
<1>6. /\ s \in Request /\ s.status = req[r].status /\ s.out = req[r].out + k
      /\ s.computed = IF req[r].computed > 0 THEN req[r].computed - Rejected(r, k) ELSE 0
      /\ s.ph = req[r].ph - Rejected(r, k) - k /\ s.spec = req[r].spec
      /\ s.chunk = req[r].chunk /\ s.discard = req[r].discard
  BY <1>2, <1>5, SampledRequest
<1>7. length \in Int /\ NumSpec \in Nat
  BY ConstantsAssumption DEF NoLength
<1> HIDE DEF s
<1>8. /\ p \in Request /\ p.status = req[r].status /\ p.out = req[r].out + k
      /\ p.computed = IF req[r].computed > 0 THEN req[r].computed - Rejected(r, k) ELSE 0
      /\ p.ph = req[r].ph - Rejected(r, k) - k
      /\ p.chunk = req[r].chunk /\ p.discard = req[r].discard
      /\ req[r].status # "RUNNING" => p.spec = req[r].spec
  BY <1>6, <1>7, ResizedRequest
<1>9. req' = [req EXCEPT ![r] = p]
  BY <1>1 DEF s
<1> HIDE DEF p
<1>10. req'[r] = p /\ \A q \in Req : q # r => req'[q] = req[q]
  BY <1>3, <1>9 DEF TypeOK
<1>11. QueuesMatchStatus'
  <2>1. \A q \in Req : req'[q].status = req[q].status
    BY <1>8, <1>10
  <2> QED BY <1>2, <1>3, <2>1, SameQueues
<1>12. glen' \in [Req -> Nat] /\ emitted' \in [Req -> Seq(Int)]
  <2>1. k \in Nat /\ Deliver(r, k, k) /\ Visits(r)
    BY <1>1, <1>2, <1>5
  <2> QED BY <2>1, DeliverType
<1>13. /\ NumTokens(r) \in Nat /\ NumTokens(r)' = NumTokens(r) + k
       /\ req[r].computed \in Nat /\ req[r].out \in Nat /\ MaxModelLen \in Nat
  <2>1. /\ NumTokens(r) \in Nat /\ req[r].computed \in Nat /\ req[r].out \in Nat
        /\ MaxModelLen \in Nat /\ PromptLen[r] \in Nat
    BY <1>3, FieldTypes
  <2>2. PromptLen[r] + (req[r].out + k) = (PromptLen[r] + req[r].out) + k
    BY <1>5, <2>1
  <2> QED BY <1>8, <1>10, <2>1, <2>2 DEF NumTokens
<1>14. p.ph = OwedBy(newer, r)
  BY <1>4, <1>5, <1>8
<1>15. OwedBy(older, r)' = OwedBy(older, r) /\ OwedBy(newer, r)' = OwedBy(newer, r)
  BY <1>2 DEF OwedBy
<1>16. Owed(r)' = OwedBy(newer, r)
  <2>1. r \notin left' /\ pc' = "update"
    BY <1>2
  <2> QED BY <1>4, <1>15, <2>1 DEF Owed
<1>17. NumTokens(r) + k < MaxModelLen
  BY <1>1, <1>13 DEF Keeps, AtLimit
<1>18. Live(r)' /\ p.discard = 0
  BY <1>2, <1>3, <1>8, <1>10 DEF Live, Accounts, LiveAccount
<1>19. Accounts(r)'
  <2>1. Known(r)'
    BY <1>2, <1>3, <1>8, <1>10 DEF Accounts, Known, FrameKnows, Live
  <2>2. LiveAccount(r)'
    <3>1. NumTokens(r) + req[r].ph <= MaxModelLen
      BY <1>2, <1>3 DEF Accounts, LiveAccount
    <3>2. NumTokens(r) + k + OwedBy(newer, r) <= MaxModelLen
      BY <1>4, <1>5, <1>13, <3>1
    <3> QED BY <1>10, <1>13, <1>14, <1>16, <1>17, <1>18, <3>2 DEF LiveAccount
  <2>3. WaitingAccount(r)'
    <3>1. SUFFICES ASSUME req[r].status \in {"WAITING", "PREEMPTED"}
                   PROVE  WaitingAccount(r)'
      BY <1>8, <1>10 DEF WaitingAccount
    <3>2. p.computed = 0 /\ p.spec = 0
      BY <1>3, <1>8, <3>1 DEF Accounts, WaitingAccount
    <3> QED BY <1>2, <1>3, <1>10, <1>15, <3>1, <3>2 DEF Accounts, WaitingAccount
  <2>4. AdmittedAccount(r)'
    BY <1>2, <1>3 DEF AdmittedAccount
  <2>5. PrefillAccount(r)'
    BY <1>4, <1>8, <1>10 DEF PrefillAccount
  <2>6. DecodeAccount(r)'
    <3>1. SUFFICES ASSUME req[r].status = "RUNNING" PROVE DecodeAccount(r)'
      BY <1>8, <1>10 DEF DecodeAccount
    <3>2. /\ req[r].computed = NumTokens(r) + req[r].ph - 1
          /\ req[r].computed + 0 < MaxModelLen
      BY <1>3, <1>4, <3>1 DEF Accounts, DecodeAccount
    <3>3. /\ p.computed = NumTokens(r) + k + OwedBy(newer, r) - 1
          /\ p.computed < MaxModelLen
      <4> DEFINE N == NumTokens(r)
                 o == OwedBy(newer, r)
                 x == Rejected(r, k)
                 c == req[r].computed
      <4>1. /\ N \in Nat /\ o \in Nat /\ x \in Nat /\ c \in Nat /\ k \in Nat \ {0}
            /\ older.d[r] \in Nat /\ MaxModelLen \in Nat
            /\ x + k = 1 + older.d[r] /\ req[r].ph = 1 + older.d[r] + o
            /\ p.computed = IF c > 0 THEN c - x ELSE 0
            /\ c = N + req[r].ph - 1 /\ c + 0 < MaxModelLen /\ N # 0
        BY <1>3, <1>4, <1>5, <1>8, <1>13, <3>2, FieldTypes
      <4> HIDE DEF N, o, x, c, p
      <4>2. c = N + x + k + o - 1 /\ c > 0
        BY ONLY <4>1
      <4>3. p.computed = N + k + o - 1 /\ p.computed < MaxModelLen
        BY ONLY <4>1, <4>2
      <4> QED BY <4>3 DEF N, o
    <3>4. p.spec \in Nat /\ p.computed \in Nat
      BY <1>7, <1>8 DEF Request
    <3>5. /\ sched'[r] = 0 /\ need'[r] = 0 /\ req'[r] = p /\ p.ph = OwedBy(newer, r)
          /\ NumTokens(r)' = NumTokens(r) + k
      BY <1>2, <1>3, <1>10, <1>13, <1>14
    <3> QED BY ONLY <3>3, <3>4, <3>5 DEF DecodeAccount
  <2> QED BY <2>1, <2>2, <2>3, <2>4, <2>5, <2>6 DEF Accounts
<1>20. /\ running' \in Seq(Req) /\ waiting' \in Seq(Req) /\ free' \in Nat
       /\ finishedIds' \subseteq Req
  BY <1>2, <1>3 DEF TypeOK
<1> QED BY <1>2, <1>8, <1>9, <1>11, <1>12, <1>19, <1>20, TouchInv

\* A live request takes its last token and ends.
LEMMA StopOutputInv == ASSUME NEW r \in Req PROVE IInv /\ StopOutput(r) => IInv'
<1> SUFFICES ASSUME IInv, StopOutput(r) PROVE IInv'
  OBVIOUS
<1>1. PICK k \in Samples(r) : \E j \in 1 .. k :
        /\ req' = [req EXCEPT ![r] = Finished(Sampled(r, k, j))]
        /\ Deliver(r, k, j)
  BY DEF StopOutput, Sampled
<1>2. PICK j \in 1 .. k :
        /\ req' = [req EXCEPT ![r] = Finished(Sampled(r, k, j))]
        /\ Deliver(r, k, j)
  BY <1>1
<1>3. /\ pc = "update" /\ pc' = pc /\ left' = left \ {r} /\ r \in left
      /\ Live(r) /\ r \notin older.chunk /\ Visits(r) /\ LeaveQueue(r)
      /\ free' = free + req[r].blocks /\ finishedIds' = finishedIds \cup {r}
      /\ older' = Outdated(older, r) /\ newer' = Outdated(newer, r)
      /\ UNCHANGED <<prevStep, idx, budget, sched, need, draft, preempted, admitted,
                     pause, resets>>
  BY DEF StopOutput, Visits, stepVars, envVars
<1> DEFINE p == Finished(Sampled(r, k, j))
<1>4. Sampled(r, k, j) \in Request
  BY <1>3, SampledRequest
<1>5. p \in Request /\ p.status = "FINISHED"
  BY <1>4, FinishedRequest
<1>6. req' = [req EXCEPT ![r] = p]
  BY <1>2
<1> HIDE DEF p
<1>7. req'[r] = p
  BY <1>6 DEF IInv, TypeOK
<1>8. running' \in Seq(Req) /\ waiting' \in Seq(Req) /\ QueuesMatchStatus'
  BY <1>3, <1>5, <1>6, LeaveQueueLemma
<1>9. Accounts(r)'
  BY <1>3, <1>5, <1>7, ClosedAccounts
<1>10. k \in Nat /\ j \in Nat
  <2>1. older.d[r] \in Nat
    BY <1>3, SampledFromType
  <2> QED BY <2>1 DEF Samples
<1>11. glen' \in [Req -> Nat] /\ emitted' \in [Req -> Seq(Int)]
  <2>1. Deliver(r, k, j) /\ Visits(r)
    BY <1>2, <1>3
  <2> QED BY <1>10, <2>1, DeliverType
<1>12. free' \in Nat /\ finishedIds' \subseteq Req
  <2>1. free \in Nat /\ req[r].blocks \in Nat /\ finishedIds \subseteq Req
    BY FieldTypes DEF IInv, TypeOK
  <2> QED BY <1>3, <2>1
<1> QED BY <1>3, <1>5, <1>6, <1>8, <1>9, <1>11, <1>12, TouchInv

-----------------------------------------------------------------------------
(* What clients and the engine's control calls do.                         *)

\* A client goes away.
LEMMA FinishRequestInv == ASSUME NEW r \in Req PROVE IInv /\ FinishRequest(r) => IInv'
<1> SUFFICES ASSUME IInv, FinishRequest(r) PROVE IInv'
  OBVIOUS
<1>1. /\ pc = "idle" /\ pc' = pc /\ left' = left
      /\ Live(r) /\ LeaveQueue(r) /\ req' = [req EXCEPT ![r] = Finished(@)]
      /\ free' = free + req[r].blocks /\ finishedIds' = finishedIds \cup {r}
      /\ older' = Outdated(older, r) /\ newer' = Outdated(newer, r)
      /\ UNCHANGED <<prevStep, idx, budget, sched, need, draft, preempted, admitted,
                     pause, resets, glen, emitted>>
  BY DEF FinishRequest, stepVars, envVars, workVars
<1> DEFINE p == Finished(req[r])
<1>2. TypeOK /\ req[r] \in Request
  BY DEF IInv, TypeOK
<1>3. p \in Request /\ p.status = "FINISHED"
  BY <1>2, FinishedRequest
<1>4. req' = [req EXCEPT ![r] = p]
  BY <1>1, <1>2 DEF TypeOK
<1> HIDE DEF p
<1>5. req'[r] = p
  BY <1>2, <1>4 DEF TypeOK
<1>6. running' \in Seq(Req) /\ waiting' \in Seq(Req) /\ QueuesMatchStatus'
  BY <1>1, <1>3, <1>4, LeaveQueueLemma
<1>7. Accounts(r)'
  BY <1>1, <1>3, <1>5, ClosedAccounts
<1>8. free' \in Nat /\ finishedIds' \subseteq Req
  <2>1. free \in Nat /\ req[r].blocks \in Nat /\ finishedIds \subseteq Req
    BY <1>2, FieldTypes DEF TypeOK
  <2> QED BY <1>1, <2>1
<1>9. glen' \in [Req -> Nat] /\ emitted' \in [Req -> Seq(Int)]
  BY <1>1, <1>2 DEF TypeOK
<1> QED BY <1>1, <1>3, <1>4, <1>6, <1>7, <1>8, <1>9, TouchInv

\* A new request is a request.
LEMMA NewRequestType ==
  /\ NewRequest \in Request
  /\ NewRequest.status = "WAITING" /\ NewRequest.out = 0 /\ NewRequest.computed = 0
  /\ NewRequest.ph = 0 /\ NewRequest.spec = 0 /\ NewRequest.discard = 0
BY ConstantsAssumption DEF NewRequest, Request, Status

\* A request arrives, with an id that was never used.
LEMMA AddRequestInv ==
  ASSUME ~ReuseIds, NEW r \in Req PROVE IInv /\ AddRequest(r) => IInv'
<1> SUFFICES ASSUME IInv, AddRequest(r) PROVE IInv'
  OBVIOUS
<1>1. /\ pc = "idle" /\ pc' = pc /\ req[r].status = "ABSENT"
      /\ req' = [req EXCEPT ![r] = NewRequest] /\ waiting' = Enqueue(waiting, r)
      /\ emitted' = [emitted EXCEPT ![r] = <<>>]
      /\ UNCHANGED <<running, free, finishedIds, prevStep, idx, budget, sched, need,
                     draft, preempted, admitted, older, newer, left,
                     pause, resets, glen>>
  BY DEF AddRequest, stepVars, pipeVars, envVars
<1>2. TypeOK /\ QueuesMatchStatus /\ Phases /\ Accounts(r)
  BY DEF IInv
<1>3. req'[r] = NewRequest /\ \A q \in Req : q # r => req'[q] = req[q]
  BY <1>1, <1>2 DEF TypeOK
<1>4. r \notin Range(waiting)
  BY <1>1, <1>2, QueueStatus
<1>5. /\ waiting' \in Seq(Req) /\ IsInjective(waiting')
      /\ Range(waiting') = Range(waiting) \cup {r}
  BY <1>1, <1>2, <1>4, EnqueueLemma DEF TypeOK, QueuesMatchStatus
<1>6. QueuesMatchStatus'
  BY <1>1, <1>2, <1>3, <1>5, NewRequestType DEF QueuesMatchStatus
<1>7. Accounts(r)'
  <2>1. /\ older # NoFrame => older.n[r] = 0 /\ r \notin older.stale
        /\ newer # NoFrame => newer.n[r] = 0 /\ r \notin newer.stale
        /\ r \notin prevStep
    BY <1>1, <1>2 DEF Accounts, Known, FrameKnows
  <2>2. /\ sched'[r] = 0 /\ need'[r] = 0 /\ draft'[r] = 0 /\ admitted' = {}
    BY <1>1, <1>2 DEF Phases, Scheduling
  <2>3. OwedBy(older, r)' = 0 /\ OwedBy(newer, r)' = 0
    BY <1>1, <2>1 DEF OwedBy
  <2>4. Owed(r)' = 0
    BY <2>3 DEF Owed
  <2>5. Known(r)'
    BY <1>1, <1>3, <2>1, <2>2, NewRequestType DEF Known, FrameKnows, Live
  <2>6. LiveAccount(r)'
    <3>1. PromptLen[r] \in Nat /\ PromptLen[r] < MaxModelLen /\ MaxModelLen \in Nat
      BY ConstantsAssumption
    <3> QED BY <1>3, <2>4, <3>1, NewRequestType DEF LiveAccount, NumTokens
  <2>7. WaitingAccount(r)'
    BY <1>1, <1>3, <2>1, <2>3, NewRequestType DEF WaitingAccount
  <2>8. AdmittedAccount(r)' /\ PrefillAccount(r)' /\ DecodeAccount(r)'
    BY <1>3, <2>2, NewRequestType DEF AdmittedAccount, PrefillAccount, DecodeAccount
  <2> QED BY <2>5, <2>6, <2>7, <2>8 DEF Accounts
<1>8. /\ running' \in Seq(Req) /\ free' \in Nat /\ finishedIds' \subseteq Req
      /\ glen' \in [Req -> Nat] /\ emitted' \in [Req -> Seq(Int)]
  <2>1. <<>> \in Seq(Int)
    OBVIOUS
  <2> QED BY <1>1, <1>2, <2>1 DEF TypeOK
<1>9. NewRequest \in Request
  BY NewRequestType
<1> QED BY <1>1, <1>5, <1>6, <1>7, <1>8, <1>9, TouchInv

\* A forced reset preempts the last running request.
LEMMA ResetRunningInv == ASSUME NEW r \in Req PROVE IInv /\ ResetRunning(r) => IInv'
<1> SUFFICES ASSUME IInv, ResetRunning(r) PROVE IInv'
  OBVIOUS
<1>1. /\ pc = "reset" /\ pc' = pc /\ running # <<>> /\ r = Last(running)
      /\ req' = [req EXCEPT ![r] = ForcePreempted(@)]
      /\ free' = free + req[r].blocks
      /\ running' = Front(running) /\ waiting' = Requeue(waiting, r)
      /\ older' = Outdated(older, r)
      /\ UNCHANGED <<newer, finishedIds, prevStep, idx, budget, sched, need, draft,
                     preempted, admitted, left, pause, resets, glen, emitted>>
  BY DEF ResetRunning, stepVars, envVars, workVars
<1>2. TypeOK /\ QueuesMatchStatus /\ Phases /\ Accounts(r) /\ req[r] \in Request
  BY DEF IInv, TypeOK
<1>3. older = NoFrame /\ newer = NoFrame /\ older' = older /\ newer' = newer
  BY <1>1, <1>2 DEF Phases, Outdated
<1>4. /\ running' \in Seq(Req) /\ IsInjective(running') /\ r \in Range(running)
      /\ Range(running') = Range(running) \ {r}
  BY <1>1, <1>2, FrontLemma DEF TypeOK, QueuesMatchStatus
<1>5. req[r].status = "RUNNING" /\ r \notin Range(waiting)
  BY <1>2, <1>4, QueueStatus
<1>6. /\ waiting' \in Seq(Req) /\ IsInjective(waiting')
      /\ Range(waiting') = Range(waiting) \cup {r}
  BY <1>1, <1>2, <1>5, RequeueLemma DEF TypeOK, QueuesMatchStatus
<1> DEFINE p == ForcePreempted(req[r])
<1>7. req' = [req EXCEPT ![r] = p]
  BY <1>1, <1>2 DEF TypeOK
<1>8. /\ p \in Request /\ p.status = "PREEMPTED" /\ p.out = req[r].out
      /\ p.computed = 0 /\ p.spec = 0 /\ p.ph = 0 /\ p.discard = req[r].ph
  BY <1>2, ConstantsAssumption, ForcePreemptedRequest
<1> HIDE DEF p
<1>9. req'[r] = p /\ \A q \in Req : q # r => req'[q] = req[q]
  BY <1>2, <1>7 DEF TypeOK
<1>10. QueuesMatchStatus'
  BY <1>2, <1>4, <1>5, <1>6, <1>8, <1>9 DEF QueuesMatchStatus
<1>11. Owed(r) = 0 /\ Owed(r)' = 0 /\ OwedBy(older, r)' = 0 /\ OwedBy(newer, r)' = 0
  BY <1>1, <1>3 DEF Owed, OwedBy
<1>12. Accounts(r)'
  <2>1. /\ req[r].ph = 0 /\ NumTokens(r) < MaxModelLen /\ NumTokens(r) \in Nat
        /\ sched[r] = 0 /\ need[r] = 0 /\ draft[r] = 0 /\ admitted = {}
    <3>1. req[r].ph = 0 /\ NumTokens(r) < MaxModelLen
      BY <1>2, <1>5, <1>11 DEF Accounts, LiveAccount, Live
    <3>2. sched[r] = 0 /\ need[r] = 0 /\ draft[r] = 0 /\ admitted = {}
      BY <1>1, <1>2 DEF Phases, Scheduling
    <3>3. NumTokens(r) \in Nat
      BY <1>2, FieldTypes
    <3> QED BY <3>1, <3>2, <3>3
  <2>2. NumTokens(r)' = NumTokens(r)
    BY <1>8, <1>9 DEF NumTokens
  <2>3. Known(r)'
    BY <1>1, <1>3, <1>8, <1>9, <2>1 DEF Known, FrameKnows
  <2>4. LiveAccount(r)'
    <3>1. NumTokens(r) + 0 <= MaxModelLen
      BY <2>1, ConstantsAssumption
    <3> QED BY <1>8, <1>9, <1>11, <2>1, <2>2, <3>1 DEF LiveAccount
  <2>5. WaitingAccount(r)'
    BY <1>1, <1>8, <1>9, <1>11 DEF WaitingAccount
  <2>6. AdmittedAccount(r)' /\ PrefillAccount(r)' /\ DecodeAccount(r)'
    BY <1>1, <1>8, <1>9, <2>1 DEF AdmittedAccount, PrefillAccount, DecodeAccount
  <2> QED BY <2>3, <2>4, <2>5, <2>6 DEF Accounts
<1>13. /\ free' \in Nat /\ finishedIds' \subseteq Req
       /\ glen' \in [Req -> Nat] /\ emitted' \in [Req -> Seq(Int)]
  <2>1. free \in Nat /\ req[r].blocks \in Nat
    BY <1>2, FieldTypes
  <2>2. free' \in Nat
    BY <1>1, <2>1
  <2> QED BY <1>1, <1>2, <2>2 DEF TypeOK
<1> QED BY <1>1, <1>3, <1>4, <1>6, <1>7, <1>8, <1>10, <1>12, <1>13, TouchInv

-----------------------------------------------------------------------------
(* The theorems.                                                           *)

\* A step that changes nothing keeps the invariant.
LEMMA StutterInv == IInv /\ UNCHANGED vars => IInv'
<1> SUFFICES ASSUME IInv, UNCHANGED vars PROVE IInv'
  OBVIOUS
<1>1. UNCHANGED <<req, running, waiting, free, finishedIds, prevStep, pc, idx, budget,
                  sched, need, draft, preempted, admitted, older, newer, left,
                  pause, resets, glen, emitted>>
  BY DEF vars, stepVars, pipeVars, envVars, workVars
<1>2. TypeOK'
  BY <1>1 DEF IInv, TypeOK
<1>3. QueuesMatchStatus'
  BY <1>1 DEF IInv, QueuesMatchStatus
<1>4. Phases' /\ PassedAreBehind'
  BY <1>1 DEF IInv, Phases, PassedAreBehind, Scheduling
<1>5. ASSUME NEW q \in Req PROVE Accounts(q)'
  BY <1>1, SameAccounts DEF IInv, accountVars
<1> QED BY <1>2, <1>3, <1>4, <1>5 DEF IInv

\* Every step keeps the invariant.
LEMMA NextInv ==
  ASSUME ~ResetInFlight, ~ReuseIds
  PROVE  IInv /\ [Next]_vars => IInv'
<1> SUFFICES ASSUME IInv, [Next]_vars PROVE IInv'
  OBVIOUS
<1>1. CASE Schedule
  <2>1. CASE BeginSchedule BY <2>1, BeginScheduleInv
  <2>2. CASE EndRunning BY <2>2, EndRunningInv
  <2>3. CASE EndWaiting BY <2>3, EndWaitingInv
  <2>4. CASE Commit BY <2>4, CommitInv
  <2>5. ASSUME NEW r \in Req, SkipRunning(r) PROVE IInv' BY <2>5, SkipRunningInv
  <2>6. ASSUME NEW r \in Req, ConsiderRunning(r) PROVE IInv' BY <2>6, ConsiderRunningInv
  <2>7. ASSUME NEW r \in Req, ScheduleRunning(r) PROVE IInv' BY <2>7, ScheduleRunningInv
  <2>8. ASSUME NEW r \in Req, NEW v \in Req, PreemptFor(r, v) PROVE IInv'
    BY <2>8, PreemptForInv
  <2>9. ASSUME NEW r \in Req, NEW hit \in 0 .. MaxPrefixHit, Admit(r, hit) PROVE IInv'
    BY <2>9, AdmitInv
  <2> QED BY <1>1, <2>1, <2>2, <2>3, <2>4, <2>5, <2>6, <2>7, <2>8, <2>9 DEF Schedule
<1>2. CASE UpdateFromOutput
  <2>1. CASE BeginUpdate BY <2>1, BeginUpdateInv
  <2>2. CASE EndUpdate BY <2>2, EndUpdateInv
  <2>3. ASSUME NEW r \in Req, DropOutput(r) PROVE IInv' BY <2>3, DropOutputInv
  <2>4. ASSUME NEW r \in Req, NoSample(r) PROVE IInv' BY <2>4, NoSampleInv
  <2>5. ASSUME NEW r \in Req, DiscardOutput(r) PROVE IInv' BY <2>5, DiscardOutputInv
  <2>6. ASSUME NEW r \in Req, TakeOutput(r) PROVE IInv' BY <2>6, TakeOutputInv
  <2>7. ASSUME NEW r \in Req, StopOutput(r) PROVE IInv' BY <2>7, StopOutputInv
  <2> QED BY <1>2, <2>1, <2>2, <2>3, <2>4, <2>5, <2>6, <2>7 DEF UpdateFromOutput
<1>3. CASE GoOnReset
  BY <1>3, EndResetInv, ResetRunningInv DEF GoOnReset
<1>4. CASE Environment
  BY <1>4, AddRequestInv, FinishRequestInv, SetPauseStateInv, BeginResetInv DEF Environment
<1>5. CASE UNCHANGED vars
  BY <1>5, StutterInv
<1> QED BY <1>1, <1>2, <1>3, <1>4, <1>5 DEF Next

\* The accounts of the scheduler are kept whatever it preempts, rejects, trims,
\* aborts or resets, for every number of requests, budget, pool, model length and
\* number of drafts.
THEOREM SchedulerInvariant ==
  ASSUME ~ResetInFlight, ~ReuseIds
  PROVE  Spec => []IInv
<1>1. Init => IInv
  BY InitInv
<1>2. IInv /\ [Next]_vars => IInv'
  BY NextInv
<1> QED BY <1>1, <1>2, PTL DEF Spec

\* Every variable of the scheduler keeps its type; above all, no counter of a
\* request and no budget ever becomes negative.
THEOREM TypeCorrect ==
  ASSUME ~ResetInFlight, ~ReuseIds
  PROVE  Spec => []TypeOK
<1>1. IInv => TypeOK
  BY DEF IInv
<1> QED BY <1>1, SchedulerInvariant, PTL

\* Every live request is in the queue its status names, once.
THEOREM QueuesCorrect ==
  ASSUME ~ResetInFlight, ~ReuseIds
  PROVE  Spec => []QueuesMatchStatus
<1>1. IInv => QueuesMatchStatus
  BY DEF IInv
<1> QED BY <1>1, SchedulerInvariant, PTL

\* num_output_placeholders counts exactly what the steps in flight may return.
THEOREM PlaceholdersCorrect ==
  ASSUME ~ResetInFlight, ~ReuseIds
  PROVE  Spec => []PlaceholdersMatchInFlight
<1>1. IInv => PlaceholdersMatchInFlight
  BY DEF IInv, Accounts, LiveAccount, PlaceholdersMatchInFlight
<1> QED BY <1>1, SchedulerInvariant, PTL

\* num_computed_tokens agrees with the tokens of the request, whatever was
\* scheduled ahead, preempted or rejected.
THEOREM ComputedCorrect ==
  ASSUME ~ResetInFlight, ~ReuseIds
  PROVE  Spec => []ComputedMatchesTokens
<1>1. IInv => ComputedMatchesTokens
  BY DEF IInv, Accounts, WaitingAccount, PrefillAccount, DecodeAccount, ComputedMatchesTokens
<1> QED BY <1>1, SchedulerInvariant, PTL

\* Neither the worker's row of a request nor a position outgrows max_model_len.
THEOREM RowsFit ==
  ASSUME ~ResetInFlight, ~ReuseIds
  PROVE  Spec => []WorkerRowFits
<1>1. IInv => WorkerRowFits
  <2> SUFFICES ASSUME IInv, NEW r \in Req, Live(r)
               PROVE  /\ NumTokens(r) + req[r].ph <= MaxModelLen
                      /\ req[r].computed + sched[r] < MaxModelLen
    BY DEF WorkerRowFits
  <2>1. Accounts(r) /\ TypeOK /\ NumTokens(r) + req[r].ph <= MaxModelLen
        /\ NumTokens(r) < MaxModelLen
    BY DEF IInv, Accounts, LiveAccount
  <2>2. /\ req[r].computed \in Nat /\ sched[r] \in Nat /\ NumTokens(r) \in Nat \ {0}
        /\ MaxModelLen \in Nat /\ req[r].chunk \in BOOLEAN
    BY <2>1, FieldTypes
  <2>3. CASE req[r].status # "RUNNING"
    <3>1. req[r].computed = 0 /\ sched[r] = 0
      BY <2>1, <2>3 DEF Accounts, Known, WaitingAccount, Live
    <3> QED BY <2>1, <2>2, <3>1
  <2>4. CASE req[r].status = "RUNNING"
    <3>1. CASE r \in admitted \/ req[r].chunk
      <4>1. req[r].computed + sched[r] <= NumTokens(r)
        BY <2>1, <2>4, <3>1 DEF Accounts, AdmittedAccount, PrefillAccount
      <4> QED BY <2>1, <2>2, <4>1
    <3>2. CASE r \notin admitted /\ ~req[r].chunk
      BY <2>1, <2>4, <3>2 DEF Accounts, DecodeAccount
    <3> QED BY <3>1, <3>2
  <2> QED BY <2>1, <2>3, <2>4
<1> QED BY <1>1, SchedulerInvariant, PTL

\* A request is admitted again only when every token sampled for it is known.
THEOREM ResumesCorrect ==
  ASSUME ~ResetInFlight, ~ReuseIds
  PROVE  Spec => []ResumesFromKnownTokens
<1>1. IInv => ResumesFromKnownTokens
  <2> SUFFICES ASSUME IInv, pc = "waiting", NEW r \in Range(waiting)
               PROVE  req[r].ph = 0 /\ r \notin prevStep
    BY DEF ResumesFromKnownTokens
  <2>1. r \in Req /\ req[r].status \in {"WAITING", "PREEMPTED"}
    BY QueueStatus DEF IInv
  <2>2. preempted = {} /\ newer = NoFrame /\ Accounts(r)
    BY <2>1 DEF IInv, Phases, Scheduling
  <2>3. OwedBy(older, r) = 0 /\ OwedBy(newer, r) = 0 /\ r \notin prevStep
    BY <2>1, <2>2 DEF Accounts, WaitingAccount
  <2>4. req[r].ph = Owed(r)
    BY <2>1, <2>2 DEF Accounts, LiveAccount, Live
  <2> QED BY <2>3, <2>4 DEF Owed
<1> QED BY <1>1, SchedulerInvariant, PTL

\* What comes back for a request that has ended changes nothing.
THEOREM StaleDiscarded ==
  ASSUME ~ResetInFlight, ~ReuseIds
  PROVE  Spec => StaleFramesDiscarded
<1> DEFINE Discarded(r) ==
      pc = "update" /\ older # NoFrame /\ r \in older.stale /\ r \in left \ left' =>
        /\ emitted'[r] = emitted[r]
        /\ req'[r] = [req[r] EXCEPT !.discard = req'[r].discard]
<1>1. ASSUME IInv, [Next]_vars, NEW r \in Req PROVE Discarded(r)
  <2> SUFFICES ASSUME pc = "update", older # NoFrame, r \in older.stale, r \in left \ left'
               PROVE  /\ emitted'[r] = emitted[r]
                      /\ req'[r] = [req[r] EXCEPT !.discard = req'[r].discard]
    OBVIOUS
  <2>1. ~Live(r) /\ req[r] \in Request
    BY <1>1 DEF IInv, TypeOK, Accounts, Known, FrameKnows
  <2>2. ASSUME NEW s \in Req, Visits(s) PROVE r = s
    BY <2>2 DEF Visits
  <2>3. DropOutput(r)
    <3>1. ASSUME NEW s \in Req,
                 DropOutput(s) \/ NoSample(s) \/ DiscardOutput(s)
                   \/ TakeOutput(s) \/ StopOutput(s)
          PROVE  DropOutput(r)
      <4>1. Visits(s)
        BY <3>1 DEF DropOutput, NoSample, DiscardOutput, TakeOutput, StopOutput
      <4>2. r = s
        BY <2>2, <4>1
      <4>3. NoSample(s) \/ DiscardOutput(s) \/ TakeOutput(s) \/ StopOutput(s) => Live(s)
        BY DEF NoSample, DiscardOutput, TakeOutput, StopOutput
      <4> QED BY <2>1, <3>1, <4>2, <4>3
    <3>2. ~Schedule
      BY DEF Schedule, BeginSchedule, EndRunning, EndWaiting, Commit, SkipRunning,
             ConsiderRunning, ScheduleRunning, PreemptFor, Admit, InRunningLoop, InWaitingLoop
    <3>3. ~GoOnReset /\ ~Environment
      BY DEF GoOnReset, EndReset, ResetRunning, Environment, AddRequest, FinishRequest,
             SetPauseState, BeginReset
    <3>4. ~BeginUpdate /\ ~EndUpdate
      BY DEF BeginUpdate, EndUpdate
    <3>5. ~UNCHANGED vars
      BY DEF vars, pipeVars
    <3> QED BY <1>1, <3>1, <3>2, <3>3, <3>4, <3>5 DEF Next, UpdateFromOutput
  <2>4. req' = req /\ emitted' = emitted
    BY <2>3 DEF DropOutput, workVars
  <2>5. req[r] = [req[r] EXCEPT !.discard = req[r].discard]
    BY <2>1 DEF Request
  <2> QED BY <2>4, <2>5
<1>2. IInv /\ [Next]_vars => [\A r \in Req : Discarded(r)]_vars
  BY <1>1
<1>3. StaleFramesDiscarded <=> [][\A r \in Req : Discarded(r)]_vars
  BY DEF StaleFramesDiscarded
<1> QED BY <1>2, <1>3, SchedulerInvariant, PTL DEF Spec

-----------------------------------------------------------------------------
(* The blocks of the KV cache, for every number of requests and every pool *)
(* size: none is lost or handed out twice, and a running request has room  *)
(* for what it has computed or will compute in this step.                  *)
(*                                                                         *)
(* BlocksConserved adds up the blocks of all requests with a fold of the   *)
(* library. The first part shows what such a total is, and how it moves    *)
(* when one summand does; the second takes the steps one by one.           *)

-----------------------------------------------------------------------------
(* Totals.                                                                 *)

\* One pair for each unit of f over s.
Units(f, s) == UNION {{x} \X (1 .. f[x]) : x \in s}

\* A set of subsets of a finite set has a smallest member.
LEMMA SmallestMember ==
  ASSUME NEW D, IsFiniteSet(D), NEW T \in SUBSET SUBSET D, T # {}
  PROVE  \E s \in T : \A t \in T : t \subseteq s => t = s
<1>1. IsWellFoundedOn(StrictSubsetOrdering(D), SUBSET D)
  BY FS_StrictSubsetOrderingWellFounded, FS_FiniteSubsetsOfFinite
<1>2. PICK s \in T : \A t \in T : ~ (<<t, s>> \in StrictSubsetOrdering(D))
  BY <1>1, WFMin
<1>3. ASSUME NEW t \in T, t \subseteq s PROVE t = s
  <2>1. <<t, s>> \in (SUBSET D) \X (SUBSET D)
    BY <1>3
  <2> QED BY <1>2, <1>3, <2>1 DEF StrictSubsetOrdering
<1> QED BY <1>2, <1>3

\* Taking x out of s takes the units of x out.
LEMMA UnitsOfRest ==
  ASSUME NEW D, IsFiniteSet(D), NEW f \in [D -> Nat], NEW s \in SUBSET D, NEW x \in s
  PROVE  /\ IsFiniteSet(Units(f, s))
         /\ Cardinality(Units(f, s)) = f[x] + Cardinality(Units(f, s \ {x}))
<1>1. \A y \in D : IsFiniteSet({y} \X (1 .. f[y])) /\ Cardinality({y} \X (1 .. f[y])) = f[y]
  <2> TAKE y \in D
  <2>1. f[y] \in Nat
    OBVIOUS
  <2>2. IsFiniteSet(1 .. f[y]) /\ Cardinality(1 .. f[y]) = f[y]
    BY <2>1, FS_Interval
  <2>3. IsFiniteSet({y}) /\ Cardinality({y}) = 1
    BY FS_Singleton
  <2>4. /\ IsFiniteSet({y} \X (1 .. f[y]))
        /\ Cardinality({y} \X (1 .. f[y])) = Cardinality({y}) * Cardinality(1 .. f[y])
    BY <2>2, <2>3, FS_Product
  <2> QED BY <2>1, <2>2, <2>3, <2>4
<1>2. ASSUME NEW t \in SUBSET D PROVE IsFiniteSet(Units(f, t))
  <2> DEFINE of == [y \in t |-> {y} \X (1 .. f[y])]
             all == {{y} \X (1 .. f[y]) : y \in t}
  <2>1. IsFiniteSet(t)
    BY FS_Subset
  <2>2. of \in Surjection(t, all)
    BY DEF Surjection
  <2>3. IsFiniteSet(all)
    BY <2>1, <2>2, FS_Surjection
  <2>4. \A u \in all : IsFiniteSet(u)
    BY <1>1
  <2> HIDE DEF all
  <2>5. IsFiniteSet(UNION all)
    BY <2>3, <2>4, FS_UNION
  <2> QED BY <2>5 DEF Units, all
<1> DEFINE a == {x} \X (1 .. f[x])
           b == Units(f, s \ {x})
<1>3. Units(f, s) = a \cup b /\ a \cap b = {}
  BY DEF Units
<1>4. IsFiniteSet(a) /\ Cardinality(a) = f[x] /\ IsFiniteSet(b)
  BY <1>1, <1>2
<1> HIDE DEF a, b
<1>5. Cardinality(a \cup b) = Cardinality(a) + Cardinality(b) - Cardinality(a \cap b)
  BY <1>4, FS_Union
<1>6. Cardinality(a) \in Nat /\ Cardinality(b) \in Nat /\ Cardinality({}) = 0
  BY <1>4, FS_CardinalityType, FS_EmptySet
<1>7. Cardinality(Units(f, s)) = f[x] + Cardinality(b)
  <2>1. Cardinality(a \cap b) = 0
    BY <1>3, <1>6
  <2>2. Cardinality(Units(f, s)) = Cardinality(a \cup b)
    BY <1>3
  <2> QED BY <1>4, <1>5, <1>6, <2>1, <2>2
<1> QED BY <1>2, <1>7 DEF b

\* Total adds up: it is the number of units, whatever order the fold takes.
LEMMA TotalCounts ==
  ASSUME NEW D, IsFiniteSet(D), NEW f \in [D -> Nat]
  PROVE  Total(f) = Cardinality(Units(f, D))
<1> DEFINE Some(s) == CHOOSE x \in s : TRUE
           Adds(g) == g = [s \in SUBSET DOMAIN f |->
                             IF s = {} THEN 0
                             ELSE LET x == CHOOSE x \in s : TRUE IN f[x] + g[s \ {x}]]
           sum == CHOOSE g : Adds(g)
           n == [s \in SUBSET D |-> Cardinality(Units(f, s))]
<1>1. Total(f) = sum[DOMAIN f]
  BY DEF Total, FoldFunction, FoldFunctionOnSet, MapThenFoldSet
<1>2. Adds(n)
  <2>1. ASSUME NEW s \in SUBSET D
        PROVE  n[s] = IF s = {} THEN 0
                      ELSE LET x == CHOOSE x \in s : TRUE IN f[x] + n[s \ {x}]
    <3>1. CASE s = {}
      <4>1. Units(f, {}) = {}
        BY DEF Units
      <4> QED BY <3>1, <4>1, FS_EmptySet
    <3>2. CASE s # {}
      <4>1. Some(s) \in s
        BY <3>2
      <4>2. Cardinality(Units(f, s)) = f[Some(s)] + Cardinality(Units(f, s \ {Some(s)}))
        <5> HIDE DEF Some
        <5> QED BY <4>1, UnitsOfRest
      <4>3. n[s] = Cardinality(Units(f, s)) /\ s \ {Some(s)} \in SUBSET D
        OBVIOUS
      <4>4. n[s \ {Some(s)}] = Cardinality(Units(f, s \ {Some(s)}))
        BY <4>3
      <4> QED BY <3>2, <4>2, <4>3, <4>4
    <3> QED BY <3>1, <3>2
  <2> QED BY <2>1
<1>3. Adds(sum)
  <2> HIDE DEF n
  <2>1. \E g : Adds(g)
    BY <1>2
  <2> HIDE DEF Adds
  <2> QED BY <2>1
<1>4. \A s \in SUBSET D : sum[s] = IF s = {} THEN 0 ELSE f[Some(s)] + sum[s \ {Some(s)}]
  BY <1>3
<1>5. \A s \in SUBSET D : n[s] = IF s = {} THEN 0 ELSE f[Some(s)] + n[s \ {Some(s)}]
  <2> HIDE DEF n
  <2> QED BY <1>2
<1> HIDE DEF sum
<1>6. \A s \in SUBSET D : sum[s] = n[s]
  <2> HIDE DEF n
  <2> DEFINE T == {s \in SUBSET D : sum[s] # n[s]}
  <2> SUFFICES ASSUME T # {} PROVE FALSE
    OBVIOUS
  <2>1. PICK s \in T : \A t \in T : t \subseteq s => t = s
    <3>1. T \in SUBSET SUBSET D
      OBVIOUS
    <3> HIDE DEF T
    <3> QED BY <3>1, SmallestMember
  <2>2. s # {}
    BY <1>4, <1>5
  <2>3. Some(s) \in s
    BY <2>2
  <2>4. s \ {Some(s)} \notin T
    BY <2>1, <2>3
  <2> QED BY <1>4, <1>5, <2>1, <2>2, <2>4
<1>7. D \in SUBSET D /\ DOMAIN f = D
  OBVIOUS
<1> QED BY <1>1, <1>6, <1>7

\* What a change of one summand does to the total.
LEMMA TotalMoves ==
  ASSUME NEW D, IsFiniteSet(D), NEW f \in [D -> Nat], NEW g \in [D -> Nat], NEW x \in D,
         \A y \in D : y # x => g[y] = f[y]
  PROVE  /\ Total(f) \in Nat /\ Total(g) \in Nat /\ f[x] <= Total(f)
         /\ Total(g) = Total(f) - f[x] + g[x]
<1>1. Units(f, D \ {x}) = Units(g, D \ {x})
  BY DEF Units
<1>2. /\ Total(f) = f[x] + Cardinality(Units(f, D \ {x}))
      /\ Total(g) = g[x] + Cardinality(Units(g, D \ {x}))
      /\ IsFiniteSet(Units(f, D))
  BY TotalCounts, UnitsOfRest
<1>3. Cardinality(Units(f, D \ {x})) \in Nat
  <2>1. Units(f, D \ {x}) \in SUBSET Units(f, D)
    BY DEF Units
  <2> QED BY <1>2, <2>1, FS_Subset, FS_CardinalityType
<1>4. f[x] \in Nat /\ g[x] \in Nat
  OBVIOUS
<1> QED BY <1>1, <1>2, <1>3, <1>4

\* Nothing adds up to nothing.
LEMMA TotalOfNothing ==
  ASSUME NEW D, IsFiniteSet(D), NEW f, f = [x \in D |-> 0]
  PROVE  Total(f) = 0
<1>1. Units(f, D) = {}
  BY DEF Units
<1>2. f \in [D -> Nat]
  OBVIOUS
<1> QED BY <1>1, <1>2, TotalCounts, FS_EmptySet

-----------------------------------------------------------------------------
(* Blocks.                                                                 *)

\* Division keeps the order.
LEMMA DivideKeepsOrder ==
  ASSUME NEW a \in Nat, NEW b \in Nat, NEW d \in Nat \ {0}, a <= b
  PROVE  a \div d \in Nat /\ a \div d <= b \div d
<1> DEFINE p == a \div d
           q == b \div d
<1>1. /\ p \in Int /\ q \in Int
      /\ d * p <= a /\ a < d * (p + 1) /\ d * q <= b /\ b < d * (q + 1)
  <2>1. /\ a = d * (a \div d) + (a % d) /\ a % d \in 0 .. d - 1
        /\ b = d * (b \div d) + (b % d) /\ b % d \in 0 .. d - 1
        /\ a \div d \in Int /\ b \div d \in Int
    OBVIOUS
  <2> HIDE DEF p, q
  <2>2. a = d * p + (a % d) /\ b = d * q + (b % d) /\ p \in Int /\ q \in Int
    BY <2>1 DEF p, q
  <2>3. d * (p + 1) = d * p + d /\ d * (q + 1) = d * q + d
    BY <2>2
  <2> QED BY <2>1, <2>2, <2>3
<1> HIDE DEF p, q
<1>2. d * p < d * (q + 1)
  BY <1>1
<1>3. p < q + 1
  BY <1>1, <1>2
<1>4. p >= 0
  <2>1. SUFFICES ASSUME p + 1 <= 0 PROVE FALSE
    BY <1>1
  <2>2. d * (p + 1) <= 0
    BY <1>1, <2>1
  <2> QED BY <1>1, <2>2
<1> QED BY <1>1, <1>3, <1>4 DEF p, q

\* More tokens need no fewer blocks.
LEMMA BlocksForMore ==
  ASSUME NEW m \in Nat, NEW n \in Nat, m <= n
  PROVE  BlocksFor(m) \in Nat /\ BlocksFor(n) \in Nat /\ BlocksFor(m) <= BlocksFor(n)
<1>1. MaxModelLen \in Nat /\ BlockSize \in Nat \ {0}
  BY ConstantsAssumption
<1> DEFINE a == Lesser(m, MaxModelLen) + BlockSize - 1
           b == Lesser(n, MaxModelLen) + BlockSize - 1
<1>2. a \in Nat /\ b \in Nat /\ a <= b
  BY <1>1 DEF Lesser
<1> HIDE DEF a, b
<1>3. a \div BlockSize \in Nat /\ a \div BlockSize <= b \div BlockSize /\ b \div BlockSize \in Nat
  BY <1>1, <1>2, DivideKeepsOrder
<1> QED BY <1>3 DEF BlocksFor, a, b

Held == [r \in Req |-> req[r].blocks]

Conserved == free + Total(Held) = NumBlocks

\* A running request has room, and no other holds a block.
RoomAccount(r) ==
  IF req[r].status = "RUNNING"
  THEN req[r].blocks >= BlocksFor(req[r].computed + sched[r])
  ELSE req[r].blocks = 0

BlocksInv == Conserved /\ \A r \in Req : RoomAccount(r)

\* BlocksConserved, in parts.
LEMMA BlocksInvIs == BlocksInv <=> BlocksConserved
BY DEF BlocksInv, BlocksConserved, Conserved, Held, RoomAccount

\* Blocks that leave the pool are held by the request that gets them, and back.
LEMMA BlocksMove ==
  ASSUME TypeOK, TypeOK', Conserved, NEW r \in Req,
         \A q \in Req : q # r => req'[q].blocks = req[q].blocks,
         free' + req'[r].blocks = free + req[r].blocks
  PROVE  Conserved'
<1> DEFINE f == [q \in Req |-> req[q].blocks]
           g == [q \in Req |-> req'[q].blocks]
<1>1. f \in [Req -> Nat] /\ g \in [Req -> Nat]
  BY DEF TypeOK, Request
<1>2. /\ f[r] = req[r].blocks /\ g[r] = req'[r].blocks
      /\ \A q \in Req : q # r => g[q] = f[q]
  OBVIOUS
<1>3. Held = f /\ Held' = g
  BY DEF Held
<1> HIDE DEF f, g
<1>4. /\ Total(f) \in Nat /\ Total(g) \in Nat
      /\ Total(g) = Total(f) - f[r] + g[r] /\ f[r] \in Nat /\ g[r] \in Nat
  BY <1>1, <1>2, ReqAssumption, TotalMoves
<1>5. free \in Nat /\ free' \in Nat
  BY DEF TypeOK
<1>6. free + Total(f) = NumBlocks
  BY <1>3 DEF Conserved
<1>7. free' + Total(g) = NumBlocks
  BY <1>2, <1>4, <1>5, <1>6
<1>8. Total(Held)' = Total(g)
  BY <1>3
<1> QED BY <1>7, <1>8 DEF Conserved

\* A step that gives and takes no blocks.
LEMMA BlocksStay ==
  ASSUME Conserved, \A q \in Req : req'[q].blocks = req[q].blocks, free' = free
  PROVE  Conserved'
<1>1. Held' = Held
  BY DEF Held
<1> QED BY <1>1 DEF Conserved

\* A request keeps its room while its status and its blocks stay, and it computes no
\* more than it did.
LEMMA SameRoom ==
  ASSUME TypeOK, TypeOK', NEW r \in Req, RoomAccount(r),
         req'[r].status = req[r].status, req'[r].blocks = req[r].blocks,
         req'[r].computed + sched'[r] <= req[r].computed + sched[r]
  PROVE  RoomAccount(r)'
<1>1. /\ req[r].computed + sched[r] \in Nat /\ req'[r].computed + sched'[r] \in Nat
      /\ req[r].blocks \in Nat
  <2>1. req[r] \in Request /\ req'[r] \in Request /\ sched[r] \in Nat /\ sched'[r] \in Nat
    BY DEF TypeOK
  <2>2. req[r].computed \in Nat /\ req'[r].computed \in Nat /\ req[r].blocks \in Nat
    BY <2>1 DEF Request
  <2> QED BY <2>1, <2>2
<1>2. /\ BlocksFor(req'[r].computed + sched'[r]) \in Nat
      /\ BlocksFor(req[r].computed + sched[r]) \in Nat
      /\ BlocksFor(req'[r].computed + sched'[r]) <= BlocksFor(req[r].computed + sched[r])
  BY <1>1, BlocksForMore
<1> QED BY <1>1, <1>2 DEF RoomAccount

-----------------------------------------------------------------------------
(* The steps.                                                              *)

\* A step that changes neither a request nor the pool, and plans nothing.
LEMMA SameBlocks ==
  ASSUME IInv, IInv', BlocksInv, UNCHANGED <<req, free>>,
         \A r \in Req : sched'[r] <= sched[r]
  PROVE  BlocksInv'
<1>1. Conserved'
  BY BlocksStay DEF BlocksInv
<1>2. ASSUME NEW r \in Req PROVE RoomAccount(r)'
  <2>1. TypeOK /\ TypeOK' /\ RoomAccount(r)
    BY DEF IInv, BlocksInv
  <2>2. /\ req[r].computed \in Nat /\ sched[r] \in Nat /\ sched'[r] \in Nat
        /\ sched'[r] <= sched[r]
    <3>1. sched'[r] \in Nat
      BY <2>1 DEF TypeOK
    <3> QED BY <2>1, <3>1, FieldTypes
  <2>3. req'[r].computed + sched'[r] <= req[r].computed + sched[r]
    BY <2>2
  <2> QED BY <2>1, <2>3, SameRoom
<1> QED BY <1>1, <1>2 DEF BlocksInv

\* Such are the steps that only move a loop on, drop what a worker returned, or let
\* the engine pause or reset.
LEMMA QuietBlocks ==
  ASSUME IInv, IInv', BlocksInv,
         \/ BeginSchedule \/ EndRunning \/ EndWaiting \/ BeginUpdate \/ EndUpdate
         \/ BeginReset \/ EndReset
         \/ \E p \in {"UNPAUSED", "PAUSED_NEW", "PAUSED_ALL"} : SetPauseState(p)
         \/ \E r \in Req : SkipRunning(r) \/ ConsiderRunning(r) \/ DropOutput(r) \/ NoSample(r)
         \/ UNCHANGED vars
  PROVE  BlocksInv'
<1>1. UNCHANGED <<req, free>>
  BY DEF BeginSchedule, EndRunning, EndWaiting, BeginUpdate, EndUpdate, BeginReset, EndReset,
         SetPauseState, SkipRunning, ConsiderRunning, DropOutput, NoSample, vars
<1>2. sched' = sched \/ sched' = [r \in Req |-> 0]
  BY DEF BeginSchedule, EndRunning, EndWaiting, BeginUpdate, EndUpdate, BeginReset, EndReset,
         SetPauseState, SkipRunning, ConsiderRunning, DropOutput, NoSample, vars, stepVars
<1>3. \A r \in Req : sched[r] \in Nat
  BY FieldTypes DEF IInv
<1>4. \A r \in Req : sched'[r] <= sched[r]
  BY <1>2, <1>3
<1> QED BY <1>1, <1>4, SameBlocks

\* A step that changes one request, and what is planned for it.
LEMMA TouchBlocks ==
  ASSUME IInv, IInv', BlocksInv, NEW r \in Req,
         \A q \in Req : q # r => req'[q] = req[q] /\ sched'[q] = sched[q],
         free' + req'[r].blocks = free + req[r].blocks,
         RoomAccount(r)'
  PROVE  BlocksInv'
<1>1. Conserved'
  BY BlocksMove DEF IInv, BlocksInv
<1>2. ASSUME NEW q \in Req, q # r PROVE RoomAccount(q)'
  BY <1>2 DEF BlocksInv, RoomAccount
<1> QED BY <1>1, <1>2 DEF BlocksInv

\* After extra blocks a request has room for n tokens.
LEMMA ExtraIsEnough ==
  ASSUME TypeOK, NEW r \in Req, NEW n \in Nat, NEW m \in Nat, m <= n
  PROVE  /\ ExtraBlocks(r, n) \in Nat
         /\ req[r].blocks + ExtraBlocks(r, n) >= BlocksFor(m)
<1>1. req[r].blocks \in Nat /\ BlocksFor(m) \in Nat /\ BlocksFor(n) \in Nat
      /\ BlocksFor(m) <= BlocksFor(n)
  BY FieldTypes, BlocksForMore
<1> QED BY <1>1 DEF ExtraBlocks, Greater

\* A running request is given room for the tokens it needs, and the lookahead.
LEMMA ScheduleRunningBlocks ==
  ASSUME IInv, IInv', BlocksInv, NEW r \in Req, ScheduleRunning(r)
  PROVE  BlocksInv'
<1> DEFINE extra == ExtraBlocks(r, RoomNeeded(r))
           p == Scheduled(req[r], extra)
<1>1. /\ need[r] # 0 /\ req' = [req EXCEPT ![r] = p] /\ free' = free - extra
      /\ sched' = [sched EXCEPT ![r] = need[r]]
  BY DEF ScheduleRunning, Scheduled
<1>2. /\ TypeOK /\ req[r] \in Request /\ NumSpec \in Nat /\ req[r].status = "RUNNING"
      /\ req[r].computed \in Nat /\ need[r] \in Nat /\ req[r].blocks \in Nat /\ free \in Nat
  BY <1>1, FieldTypes DEF IInv, Accounts, Known
<1>3. RoomNeeded(r) \in Nat /\ req[r].computed + need[r] <= RoomNeeded(r)
  BY <1>2 DEF RoomNeeded
<1>4. extra \in Nat /\ req[r].blocks + extra >= BlocksFor(req[r].computed + need[r])
  <2>1. req[r].computed + need[r] \in Nat
    BY <1>2
  <2> QED BY <1>2, <1>3, <2>1, ExtraIsEnough
<1>5. p.status = "RUNNING" /\ p.computed = req[r].computed /\ p.blocks = req[r].blocks + extra
  <2> HIDE DEF extra
  <2>1. p.blocks = req[r].blocks + extra
    BY <1>2 DEF Scheduled, Request
  <2> QED BY <1>2, <1>4, <2>1, ScheduledRequest
<1> HIDE DEF extra, p
<1>6. req'[r] = p /\ sched'[r] = need[r]
      /\ \A q \in Req : q # r => req'[q] = req[q] /\ sched'[q] = sched[q]
  BY <1>1, <1>2 DEF TypeOK
<1>7. RoomAccount(r)'
  BY <1>4, <1>5, <1>6 DEF RoomAccount
<1>8. free' + req'[r].blocks = free + req[r].blocks
  BY <1>1, <1>2, <1>4, <1>5, <1>6
<1> QED BY <1>6, <1>7, <1>8, TouchBlocks

\* A preempted request gives its blocks back, and so does one that ends.
LEMMA ReleaseBlocks ==
  ASSUME IInv, IInv', BlocksInv, NEW r \in Req, NEW p,
         req' = [req EXCEPT ![r] = p], p.status # "RUNNING", p.blocks = 0,
         free' = free + req[r].blocks,
         sched' = sched \/ sched' = [sched EXCEPT ![r] = 0]
  PROVE  BlocksInv'
<1>1. TypeOK /\ req[r].blocks \in Nat /\ free \in Nat
  BY FieldTypes DEF IInv
<1>2. req'[r] = p /\ \A q \in Req : q # r => req'[q] = req[q] /\ sched'[q] = sched[q]
  BY <1>1 DEF TypeOK
<1>3. RoomAccount(r)'
  BY <1>2 DEF RoomAccount
<1>4. free' + req'[r].blocks = free + req[r].blocks
  BY <1>1, <1>2
<1> QED BY <1>2, <1>3, <1>4, TouchBlocks

\* The three ways to let go.
LEMMA Released ==
  ASSUME NEW q \in Request, NumSpec \in Nat
  PROVE  /\ PreemptedRequest(q).status = "PREEMPTED" /\ PreemptedRequest(q).blocks = 0
         /\ ForcePreempted(q).status = "PREEMPTED" /\ ForcePreempted(q).blocks = 0
         /\ Finished(q).status = "FINISHED" /\ Finished(q).blocks = 0
<1>1. PreemptedRequest(q).status = "PREEMPTED" /\ PreemptedRequest(q).blocks = 0
      /\ PreemptedRequest(q) \in Request
  BY PreemptedRequestType DEF PreemptedRequest, Request
<1>2. ForcePreempted(q).status = "PREEMPTED" /\ ForcePreempted(q).blocks = 0
  <2> DEFINE p == PreemptedRequest(q)
  <2>1. p.status = "PREEMPTED" /\ p.blocks = 0 /\ p \in Request
    BY <1>1
  <2>2. ForcePreempted(q) = [p EXCEPT !.discard = q.ph, !.ph = 0]
    BY DEF ForcePreempted
  <2> HIDE DEF p
  <2> QED BY <2>1, <2>2 DEF Request
<1>3. Finished(q).status = "FINISHED" /\ Finished(q).blocks = 0
  BY DEF Finished, Request
<1> QED BY <1>1, <1>2, <1>3

\* A waiting request that is admitted is given room for its first chunk.
LEMMA AdmitBlocks ==
  ASSUME IInv, IInv', BlocksInv, NEW r \in Req, NEW hit, Admit(r, hit)
  PROVE  BlocksInv'
<1> DEFINE extra == ExtraBlocks(r, RoomForPrefill(r, hit))
           n == Lesser(PrefillTokens(r, hit), budget)
           start == StartOf(r, hit)
           p == [req[r] EXCEPT !.status = "RUNNING", !.computed = start, !.blocks = @ + extra]
<1>1. /\ InWaitingLoop /\ r = Head(waiting) /\ hit \in PrefixHits(r)
      /\ req' = [req EXCEPT ![r] = p] /\ free' = free - extra
      /\ sched' = [sched EXCEPT ![r] = n]
  BY DEF Admit
<1>2. /\ TypeOK /\ req[r] \in Request /\ NumSpec \in Nat /\ budget \in Nat
      /\ req[r].blocks \in Nat /\ free \in Nat
  BY FieldTypes DEF IInv
<1>3. start \in Nat /\ PrefillTokens(r, hit) \in Nat /\ RoomForPrefill(r, hit) \in Nat
  BY <1>1, AdmissionLemma
<1>4. n \in Nat /\ start + n \in Nat /\ start + n <= RoomForPrefill(r, hit)
  BY <1>2, <1>3 DEF RoomForPrefill, Lookahead, Lesser
<1>5. extra \in Nat /\ req[r].blocks + extra >= BlocksFor(start + n)
  BY <1>2, <1>3, <1>4, ExtraIsEnough
<1> HIDE DEF extra, start, n
<1>6. p.status = "RUNNING" /\ p.computed = start /\ p.blocks = req[r].blocks + extra
  BY <1>2 DEF Request
<1> HIDE DEF p
<1>7. req'[r] = p /\ sched'[r] = n
      /\ \A q \in Req : q # r => req'[q] = req[q] /\ sched'[q] = sched[q]
  BY <1>1, <1>2 DEF TypeOK
<1>8. RoomAccount(r)'
  BY <1>5, <1>6, <1>7 DEF RoomAccount
<1>9. free' + req'[r].blocks = free + req[r].blocks
  BY <1>1, <1>2, <1>5, <1>6, <1>7
<1> QED BY <1>7, <1>8, <1>9, TouchBlocks

\* The end of a step: what was planned becomes computed.
LEMMA CommitBlocks ==
  ASSUME IInv, IInv', BlocksInv, Commit
  PROVE  BlocksInv'
<1>1. /\ req' = [r \in Req |-> IF sched[r] = 0 THEN req[r] ELSE Advanced(r)]
      /\ sched' = [r \in Req |-> 0] /\ free' = free
  BY DEF Commit
<1>2. TypeOK /\ TypeOK'
  BY DEF IInv
<1>3. ASSUME NEW r \in Req
      PROVE  /\ req'[r].status = req[r].status /\ req'[r].blocks = req[r].blocks
             /\ req'[r].computed + sched'[r] <= req[r].computed + sched[r]
  <2>1. req[r] \in Request /\ req[r].computed \in Nat /\ sched[r] \in Nat
    BY <1>2, FieldTypes
  <2>2. Advanced(r).blocks = req[r].blocks
    <3> DEFINE q == [req[r] EXCEPT !.computed = @ + sched[r], !.chunk = StaysPrefill(r)]
    <3>1. q.blocks = req[r].blocks /\ [q EXCEPT !.ph = @ + 1 + draft[r], !.spec = NumSpec].blocks = q.blocks
      BY <2>1 DEF Request
    <3>2. Advanced(r) = IF StaysPrefill(r) THEN q ELSE [q EXCEPT !.ph = @ + 1 + draft[r], !.spec = NumSpec]
      BY DEF Advanced
    <3> HIDE DEF q
    <3> QED BY <3>1, <3>2
  <2>3. Advanced(r).status = req[r].status /\ Advanced(r).computed = req[r].computed + sched[r]
    BY <1>2, AdvancedRequest
  <2> QED BY <1>1, <2>1, <2>2, <2>3
<1>4. Conserved'
  BY <1>1, <1>3, BlocksStay DEF BlocksInv
<1>5. \A r \in Req : RoomAccount(r)'
  BY <1>2, <1>3, SameRoom DEF BlocksInv
<1> QED BY <1>4, <1>5 DEF BlocksInv

\* A request that takes tokens keeps its blocks; rejected drafts leave room.
LEMMA TakeOutputBlocks ==
  ASSUME IInv, IInv', BlocksInv, NEW r \in Req, TakeOutput(r)
  PROVE  BlocksInv'
<1>1. PICK k \in Samples(r), length \in NoLength .. NumSpec :
        req' = [req EXCEPT ![r] = IF length = NoLength THEN Sampled(r, k, k)
                                  ELSE ResizedSpec(Sampled(r, k, k), length)]
  BY DEF TakeOutput, Sampled
<1>2. Visits(r) /\ Live(r) /\ r \notin older.chunk /\ pc = "update"
      /\ sched' = sched /\ free' = free
  BY DEF TakeOutput, Visits, stepVars
<1> DEFINE s == Sampled(r, k, k)
           p == IF length = NoLength THEN s ELSE ResizedSpec(s, length)
<1>3. /\ TypeOK /\ TypeOK' /\ req[r] \in Request /\ req[r].computed \in Nat /\ sched[r] \in Nat
      /\ NumSpec \in Nat /\ req[r].blocks \in Nat /\ free \in Nat /\ older.d[r] \in Nat
  BY <1>2, FieldTypes, SampledFromType DEF IInv
<1>4. k \in 1 .. k /\ length \in Int
  BY <1>3 DEF Samples, NoLength
<1>5. /\ s \in Request /\ s.status = req[r].status
      /\ s.computed = IF req[r].computed > 0 THEN req[r].computed - Rejected(r, k) ELSE 0
      /\ Rejected(r, k) \in Nat
  BY <1>2, <1>4, SampledRequest, SampleLemma
<1>6. s.blocks = req[r].blocks
  <2> DEFINE c == Corrected(req[r], Rejected(r, k))
  <2>1. c.blocks = req[r].blocks /\ DOMAIN c = DOMAIN req[r]
    BY <1>3 DEF Corrected, Request
  <2> HIDE DEF c
  <2>2. WithOutput(c, k).blocks = c.blocks
    BY <1>3, <2>1 DEF WithOutput, Request
  <2> QED BY <2>1, <2>2 DEF Sampled, c
<1> HIDE DEF s
<1>7. p.status = req[r].status /\ p.computed = s.computed /\ p.blocks = req[r].blocks
  <2>1. ResizedSpec(s, length).blocks = s.blocks
    BY <1>5 DEF ResizedSpec, Request
  <2>2. ResizedSpec(s, length).status = s.status /\ ResizedSpec(s, length).computed = s.computed
    BY <1>3, <1>4, <1>5, ResizedRequest
  <2> QED BY <1>5, <1>6, <2>1, <2>2
<1>8. p.computed <= req[r].computed
  BY <1>3, <1>5, <1>7
<1>9. req' = [req EXCEPT ![r] = p]
  BY <1>1 DEF s
<1> HIDE DEF p
<1>10. req'[r] = p /\ \A q \in Req : q # r => req'[q] = req[q] /\ sched'[q] = sched[q]
  BY <1>2, <1>3, <1>9 DEF TypeOK
<1>11. RoomAccount(r)'
  <2>1. p.computed \in Nat
    BY <1>3, <1>10 DEF TypeOK, Request
  <2>2. req'[r].computed + sched'[r] <= req[r].computed + sched[r]
    BY <1>2, <1>3, <1>8, <1>10, <2>1
  <2>3. req'[r].status = req[r].status /\ req'[r].blocks = req[r].blocks
    BY <1>7, <1>10
  <2> QED BY <1>3, <2>2, <2>3, SameRoom DEF BlocksInv
<1>12. free' + req'[r].blocks = free + req[r].blocks
  BY <1>2, <1>7, <1>10
<1> QED BY <1>10, <1>11, <1>12, TouchBlocks

\* A new request holds nothing.
LEMMA AddRequestBlocks ==
  ASSUME IInv, IInv', BlocksInv, NEW r \in Req, ~ReuseIds, AddRequest(r)
  PROVE  BlocksInv'
<1>1. /\ req[r].status = "ABSENT" /\ req' = [req EXCEPT ![r] = NewRequest]
      /\ free' = free /\ sched' = sched
  BY DEF AddRequest, stepVars
<1>2. req'[r] = NewRequest /\ \A q \in Req : q # r => req'[q] = req[q] /\ sched'[q] = sched[q]
  BY <1>1 DEF IInv, TypeOK
<1>3. req[r].blocks = 0
  BY <1>1 DEF BlocksInv, RoomAccount
<1>4. RoomAccount(r)' /\ free' + req'[r].blocks = free + req[r].blocks
  BY <1>1, <1>2, <1>3 DEF RoomAccount, NewRequest
<1> QED BY <1>2, <1>4, TouchBlocks

-----------------------------------------------------------------------------
(* The theorem.                                                            *)

\* At first every block is in the pool.
LEMMA BlocksInit == Init => BlocksInv
<1> SUFFICES ASSUME Init PROVE BlocksInv
  OBVIOUS
<1>1. \A r \in Req : req[r].status = "ABSENT" /\ req[r].blocks = 0
  BY DEF Init, NewRequest
<1>2. Held = [r \in Req |-> 0]
  BY <1>1 DEF Held
<1>3. Total(Held) = 0
  BY <1>2, ReqAssumption, TotalOfNothing
<1>4. Conserved
  BY <1>3, ConstantsAssumption DEF Init, Conserved
<1> QED BY <1>1, <1>4 DEF BlocksInv, RoomAccount

\* Every step conserves the blocks.
LEMMA BlocksNext ==
  ASSUME ~ResetInFlight, ~ReuseIds, IInv, IInv', BlocksInv, [Next]_vars
  PROVE  BlocksInv'
<1>1. /\ NumSpec \in Nat /\ \A r \in Req : req[r] \in Request
  BY FieldTypes, ConstantsAssumption DEF IInv, TypeOK
<1>2. CASE Schedule
  <2>1. CASE Commit
    BY <2>1, CommitBlocks
  <2>2. CASE BeginSchedule \/ EndRunning \/ EndWaiting
    BY <2>2, QuietBlocks
  <2>3. CASE \E r \in Req : SkipRunning(r) \/ ConsiderRunning(r)
    BY <2>3, QuietBlocks
  <2>4. ASSUME NEW r \in Req, ScheduleRunning(r) PROVE BlocksInv'
    BY <2>4, ScheduleRunningBlocks
  <2>5. ASSUME NEW r \in Req, NEW v \in Req, PreemptFor(r, v) PROVE BlocksInv'
    <3>1. /\ req' = [req EXCEPT ![v] = PreemptedRequest(req[v])]
          /\ free' = free + req[v].blocks /\ sched' = [sched EXCEPT ![v] = 0]
      BY <2>5 DEF PreemptFor
    <3>2. PreemptedRequest(req[v]).status # "RUNNING" /\ PreemptedRequest(req[v]).blocks = 0
      BY <1>1, Released
    <3> QED BY <3>1, <3>2, ReleaseBlocks
  <2>6. ASSUME NEW r \in Req, NEW hit \in 0 .. MaxPrefixHit, Admit(r, hit) PROVE BlocksInv'
    BY <2>6, AdmitBlocks
  <2> QED BY <1>2, <2>1, <2>2, <2>3, <2>4, <2>5, <2>6 DEF Schedule
<1>3. CASE UpdateFromOutput
  <2>1. CASE BeginUpdate \/ EndUpdate BY <2>1, QuietBlocks
  <2>2. CASE \E r \in Req : DropOutput(r) \/ NoSample(r) BY <2>2, QuietBlocks
  <2>3. ASSUME NEW r \in Req, DiscardOutput(r) PROVE BlocksInv'
    BY <2>3 DEF DiscardOutput, IInv, Accounts, LiveAccount
  <2>4. ASSUME NEW r \in Req, TakeOutput(r) PROVE BlocksInv'
    BY <2>4, TakeOutputBlocks
  <2>5. ASSUME NEW r \in Req, StopOutput(r) PROVE BlocksInv'
    <3>1. PICK k \in Samples(r) : \E j \in 1 .. k :
            req' = [req EXCEPT ![r] = Finished(Sampled(r, k, j))]
      BY <2>5 DEF StopOutput, Sampled
    <3>2. PICK j \in 1 .. k : req' = [req EXCEPT ![r] = Finished(Sampled(r, k, j))]
      BY <3>1
    <3>3. /\ Visits(r) /\ Live(r) /\ r \notin older.chunk
          /\ free' = free + req[r].blocks /\ sched' = sched
      BY <2>5 DEF StopOutput, stepVars
    <3>4. Sampled(r, k, j) \in Request
      BY <3>3, SampledRequest
    <3>5. Finished(Sampled(r, k, j)).status # "RUNNING" /\ Finished(Sampled(r, k, j)).blocks = 0
      BY <1>1, <3>4, Released
    <3> QED BY <3>2, <3>3, <3>5, ReleaseBlocks
  <2> QED BY <1>3, <2>1, <2>2, <2>3, <2>4, <2>5 DEF UpdateFromOutput
<1>4. CASE GoOnReset
  <2>1. CASE EndReset BY <2>1, QuietBlocks
  <2>2. ASSUME NEW r \in Req, ResetRunning(r) PROVE BlocksInv'
    <3>1. /\ req' = [req EXCEPT ![r] = ForcePreempted(req[r])]
          /\ free' = free + req[r].blocks /\ sched' = sched
      BY <2>2 DEF ResetRunning, stepVars
    <3>2. ForcePreempted(req[r]).status # "RUNNING" /\ ForcePreempted(req[r]).blocks = 0
      BY <1>1, Released
    <3> QED BY <3>1, <3>2, ReleaseBlocks
  <2> QED BY <1>4, <2>1, <2>2 DEF GoOnReset
<1>5. CASE Environment
  <2>1. CASE BeginReset \/ \E p \in {"UNPAUSED", "PAUSED_NEW", "PAUSED_ALL"} : SetPauseState(p)
    BY <2>1, QuietBlocks
  <2>2. ASSUME NEW r \in Req, AddRequest(r) PROVE BlocksInv'
    BY <2>2, AddRequestBlocks
  <2>3. ASSUME NEW r \in Req, FinishRequest(r) PROVE BlocksInv'
    <3>1. /\ req' = [req EXCEPT ![r] = Finished(req[r])]
          /\ free' = free + req[r].blocks /\ sched' = sched
      BY <2>3 DEF FinishRequest, stepVars
    <3>2. Finished(req[r]).status # "RUNNING" /\ Finished(req[r]).blocks = 0
      BY <1>1, Released
    <3> QED BY <3>1, <3>2, ReleaseBlocks
  <2> QED BY <1>5, <2>1, <2>2, <2>3 DEF Environment
<1>6. CASE UNCHANGED vars
  BY <1>6, QuietBlocks
<1> QED BY <1>2, <1>3, <1>4, <1>5, <1>6 DEF Next

\* Whatever is preempted, aborted, stopped or reset, the free blocks and those the
\* requests hold add up to the pool, only running requests hold blocks, and each has
\* room for the tokens it has computed or will compute in this step.
THEOREM BlocksKept ==
  ASSUME ~ResetInFlight, ~ReuseIds
  PROVE  Spec => []BlocksConserved
<1>1. Init => IInv /\ BlocksInv
  BY InitInv, BlocksInit
<1>2. (IInv /\ BlocksInv) /\ [Next]_vars => (IInv /\ BlocksInv)'
  BY NextInv, BlocksNext
<1>3. BlocksInv => BlocksConserved
  BY BlocksInvIs
<1> QED BY <1>1, <1>2, <1>3, PTL DEF Spec

-----------------------------------------------------------------------------
(* The scheduler keeps the promise of OutputStreams: every step of         *)
(* AsyncScheduler opens one stream, adds the next tokens to one stream,    *)
(* closes one stream, or leaves all streams as they are.                   *)
(*                                                                         *)
(* The positions of the tokens come from the worker, which appends a       *)
(* sample to the row it keeps for the request; the number of tokens comes  *)
(* from the scheduler. That they name the same text, with two steps in     *)
(* flight, is what the strengthening below is about.                       *)

-----------------------------------------------------------------------------
(* The inductive invariant.                                                *)

\* The last step sent to the worker is the one prevStep speaks of.
PrevStepIsLast ==
  /\ newer # NoFrame => prevStep = InStep(newer.n)
  /\ older # NoFrame /\ newer = NoFrame => prevStep = InStep(older.n)

Visited(r) == pc = "update" /\ r \notin left

\* The row the worker will append to, when the step comes back, ends with the
\* last token the scheduler knows.
RowAccount(r) ==
  Live(r) =>
    /\ older = NoFrame /\ r \in prevStep => glen[r] = NumTokens(r)
    /\ older # NoFrame /\ older.n[r] # 0 =>
         IF Visited(r) THEN glen[r] = NumTokens(r) ELSE SampledFrom(r) = NumTokens(r)
    /\ newer # NoFrame /\ newer.n[r] # 0 =>
         IF newer.base[r] = Continues THEN older.n[r] # 0
         ELSE newer.base[r] = NumTokens(r) /\ older.n[r] = 0

Count(n) == [i \in 1 .. n |-> i]

\* The client of a live request was given its tokens, in order, and may get more.
StreamAccount(r) ==
  /\ req[r].status = "ABSENT" => emitted[r] = <<>>
  /\ Live(r) => emitted[r] = Count(req[r].out) /\ req[r].out < MaxTokens[r]

StreamsInv == PrevStepIsLast /\ \A r \in Req : RowAccount(r) /\ StreamAccount(r)

-----------------------------------------------------------------------------
(* Facts that the proofs of several steps share.                           *)

\* The phase of a stream, by the status of its request.
LEMMA PhaseLemma ==
  ASSUME TypeOK, NEW r \in Req
  PROVE  /\ PhaseOf(r) = "open" <=> Live(r)
         /\ PhaseOf(r) = "absent" <=> req[r].status = "ABSENT"
         /\ PhaseOf(r) = "closed" <=> req[r].status = "FINISHED"
<1>1. req[r].status \in Status
  BY DEF TypeOK, Request
<1> QED BY <1>1 DEF PhaseOf, Live, Status

\* Two steps in flight that differ at most in the requests marked as gone.
SameStep(f, g) ==
  /\ f = NoFrame <=> g = NoFrame
  /\ f # NoFrame => g.n = f.n /\ g.base = f.base

\* Marking a request as gone leaves the step what it is.
LEMMA OutdatedSame ==
  ASSUME NEW f \in Frame \cup {NoFrame}, NEW r \in Req
  PROVE  SameStep(f, Outdated(f, r))
<1>1. CASE f = NoFrame
  BY <1>1 DEF Outdated, SameStep
<1>2. CASE f # NoFrame
  <2>1. f \in Frame /\ Outdated(f, r) = [f EXCEPT !.stale = @ \cup {r}]
    BY <1>2 DEF Outdated
  <2>2. Outdated(f, r).n = f.n /\ Outdated(f, r).base = f.base
    BY <2>1 DEF Frame
  <2> QED BY <1>2, <2>2, OutdatedLemma DEF SameStep
<1> QED BY <1>1, <1>2

\* A request keeps its row and its stream while nothing comes back for it.
LEMMA SameRow ==
  ASSUME NEW r \in Req, RowAccount(r), StreamAccount(r),
         PhaseOf(r)' = PhaseOf(r), req'[r].out = req[r].out,
         TypeOK, TypeOK',
         SameStep(older, older'), SameStep(newer, newer'),
         glen'[r] = glen[r], emitted'[r] = emitted[r],
         older = NoFrame => (r \in prevStep' => r \in prevStep),
         older # NoFrame /\ older.n[r] # 0 => (Visited(r)' <=> Visited(r))
  PROVE  RowAccount(r)' /\ StreamAccount(r)'
<1>1. Live(r)' <=> Live(r)
  <2>1. req[r].status \in Status /\ req'[r].status \in Status
    BY DEF TypeOK, Request
  <2> QED BY <2>1 DEF PhaseOf, Live, Status
<1>2. req'[r].status = "ABSENT" <=> req[r].status = "ABSENT"
  <2>1. req[r].status \in Status /\ req'[r].status \in Status
    BY DEF TypeOK, Request
  <2> QED BY <2>1 DEF PhaseOf, Status
<1>3. NumTokens(r)' = NumTokens(r)
  BY DEF NumTokens
<1>4. older # NoFrame => SampledFrom(r)' = SampledFrom(r)
  BY DEF SampledFrom, SameStep
<1>5. RowAccount(r)'
  <2> SUFFICES ASSUME Live(r) PROVE RowAccount(r)'
    BY <1>1 DEF RowAccount
  <2>1. older' = NoFrame /\ r \in prevStep' => glen'[r] = NumTokens(r)'
    BY <1>3 DEF RowAccount, SameStep
  <2>2. older' # NoFrame /\ older'.n[r] # 0 =>
          IF Visited(r)' THEN glen'[r] = NumTokens(r)' ELSE SampledFrom(r)' = NumTokens(r)'
    BY <1>3, <1>4 DEF RowAccount, SameStep
  <2>3. newer' # NoFrame /\ newer'.n[r] # 0 =>
          IF newer'.base[r] = Continues THEN older'.n[r] # 0
          ELSE newer'.base[r] = NumTokens(r)' /\ older'.n[r] = 0
    BY <1>3 DEF RowAccount, SameStep
  <2> QED BY <2>1, <2>2, <2>3 DEF RowAccount
<1>6. StreamAccount(r)'
  BY <1>1, <1>2 DEF StreamAccount
<1> QED BY <1>5, <1>6

\* The request says the same of its stream before and after a step.
SameText(r) == PhaseOf(r)' = PhaseOf(r) /\ req'[r].out = req[r].out

\* A step that gives no client anything, and touches neither the worker's rows nor
\* the steps in flight, is no step of the streams.
LEMMA QuietStep ==
  ASSUME IInv, IInv', StreamsInv, \A q \in Req : SameText(q),
         UNCHANGED <<older, newer, glen, emitted>>,
         prevStep' = prevStep \/ (older = NoFrame /\ prevStep' = {}),
         \A q \in Req : older # NoFrame /\ older.n[q] # 0 => (Visited(q)' <=> Visited(q))
  PROVE  StreamsInv' /\ UNCHANGED Streams!vars
<1>1. TypeOK /\ TypeOK' /\ Phases
  BY DEF IInv
<1>2. ASSUME NEW q \in Req PROVE RowAccount(q)' /\ StreamAccount(q)'
  <2>1. SameStep(older, older') /\ SameStep(newer, newer')
    BY DEF SameStep
  <2>2. RowAccount(q) /\ StreamAccount(q)
    BY DEF StreamsInv
  <2> QED BY <1>1, <2>1, <2>2, SameRow DEF SameText
<1>3. PrevStepIsLast'
  BY <1>1 DEF StreamsInv, PrevStepIsLast, InStep, Phases
<1>4. UNCHANGED Streams!vars
  <2>1. [r \in Req |-> PhaseOf(r)]' = [r \in Req |-> PhaseOf(r)]
    BY DEF SameText
  <2> QED BY <2>1 DEF Streams!vars
<1> QED BY <1>2, <1>3, <1>4 DEF StreamsInv

-----------------------------------------------------------------------------
(* The steps of schedule().                                                *)

\* The loops of schedule() plan with what is known: no client sees them.
LEMMA ScheduleQuiet ==
  ASSUME IInv, IInv', StreamsInv,
         \/ BeginSchedule \/ EndRunning \/ EndWaiting \/ BeginReset \/ EndReset
         \/ \E p \in {"UNPAUSED", "PAUSED_NEW", "PAUSED_ALL"} : SetPauseState(p)
         \/ \E r \in Req : SkipRunning(r) \/ ConsiderRunning(r)
  PROVE  StreamsInv' /\ UNCHANGED Streams!vars
<1>1. /\ UNCHANGED <<req, older, newer, glen, emitted>>
      /\ prevStep' = prevStep \/ (pc = "reset" /\ prevStep' = {})
      /\ pc # "update" /\ pc' # "update"
  BY DEF BeginSchedule, EndRunning, EndWaiting, BeginReset, EndReset, SetPauseState,
         SkipRunning, ConsiderRunning, InRunningLoop, pipeVars, workVars
<1>2. \A q \in Req : SameText(q)
  BY <1>1 DEF SameText, PhaseOf
<1>3. pc = "reset" => older = NoFrame
  BY DEF IInv, Phases
<1>4. \A q \in Req : Visited(q)' <=> Visited(q)
  BY <1>1 DEF Visited
<1> QED BY <1>1, <1>2, <1>3, <1>4, QuietStep

\* A request that changes its blocks, its queue or its computed tokens, and stays
\* live with the output it has.
LEMMA LiveSameText ==
  ASSUME TypeOK, NEW v \in Req, NEW p, req' = [req EXCEPT ![v] = p],
         Live(v), p.status \in {"WAITING", "RUNNING", "PREEMPTED"}, p.out = req[v].out
  PROVE  \A q \in Req : SameText(q)
<1>1. req'[v] = p /\ \A q \in Req : q # v => req'[q] = req[q]
  BY DEF TypeOK
<1>2. PhaseOf(v)' = "open"
  BY <1>1 DEF PhaseOf
<1>3. PhaseOf(v) = "open"
  BY DEF PhaseOf, Live
<1>4. \A q \in Req : q # v => PhaseOf(q)' = PhaseOf(q)
  BY <1>1 DEF PhaseOf
<1> QED BY <1>1, <1>2, <1>3, <1>4 DEF SameText

\* A running request is scheduled.
LEMMA ScheduleRunningQuiet ==
  ASSUME IInv, IInv', StreamsInv, NEW r \in Req, ScheduleRunning(r)
  PROVE  StreamsInv' /\ UNCHANGED Streams!vars
<1> DEFINE p == Scheduled(req[r], ExtraBlocks(r, RoomNeeded(r)))
<1>1. /\ pc = "allocate" /\ pc' = "running" /\ need[r] # 0
      /\ req' = [req EXCEPT ![r] = p]
      /\ UNCHANGED <<older, newer, glen, emitted, prevStep>>
  BY DEF ScheduleRunning, Scheduled, pipeVars, workVars
<1>2. TypeOK /\ req[r] \in Request /\ NumSpec \in Nat /\ req[r].status = "RUNNING"
  BY <1>1, FieldTypes DEF IInv, Accounts, Known
<1>3. p.status = "RUNNING" /\ p.out = req[r].out
  <2>1. ExtraBlocks(r, RoomNeeded(r)) \in Nat
    <3>1. RoomNeeded(r) \in Nat
      BY <1>2, FieldTypes DEF RoomNeeded
    <3> QED BY <1>2, <3>1, BlocksType
  <2> QED BY <1>2, <2>1, ScheduledRequest
<1> HIDE DEF p
<1>4. \A q \in Req : SameText(q)
  BY <1>1, <1>2, <1>3, LiveSameText DEF Live
<1>5. \A q \in Req : Visited(q)' <=> Visited(q)
  BY <1>1 DEF Visited
<1> QED BY <1>1, <1>4, <1>5, QuietStep

\* A request is preempted, by a short pool or by a reset.
LEMMA PreemptQuiet ==
  ASSUME IInv, IInv', StreamsInv, NEW r \in Req, NEW v \in Req,
         PreemptFor(r, v) \/ ResetRunning(v)
  PROVE  StreamsInv' /\ UNCHANGED Streams!vars
<1>1. TypeOK /\ QueuesMatchStatus /\ Phases /\ req[v] \in Request /\ NumSpec \in Nat
      /\ running \in Seq(Req)
  BY FieldTypes DEF IInv, TypeOK
<1>2. v \in Range(running)
  <2>1. CASE PreemptFor(r, v)
    <3>1. running # <<>>
      <4>1. need[r] # 0
        BY <2>1 DEF PreemptFor
      <4>2. req[r].status = "RUNNING"
        BY <4>1 DEF IInv, Accounts, Known
      <4> QED BY <1>1, <4>2, QueueStatus DEF Range
    <3>2. \E i \in 1 .. Len(running) : v = running[i]
      <4>1. Len(running) \in 1 .. Len(running)
        BY <1>1, <3>1
      <4> QED BY <2>1, <4>1 DEF PreemptFor, IsVictim
    <3> QED BY <1>1, <3>2, ListLemma
  <2>2. CASE ResetRunning(v)
    <3>1. running # <<>> /\ v = running[Len(running)]
      BY <2>2 DEF ResetRunning, Last
    <3>2. Len(running) \in 1 .. Len(running)
      BY <1>1, <3>1
    <3> QED BY <1>1, <3>1, <3>2, ListLemma
  <2> QED BY <2>1, <2>2
<1>3. req[v].status = "RUNNING"
  BY <1>1, <1>2, QueueStatus
<1>4. /\ req' = [req EXCEPT ![v] = PreemptedRequest(req[v])]
           \/ req' = [req EXCEPT ![v] = ForcePreempted(req[v])]
      /\ UNCHANGED <<older, newer, glen, emitted, prevStep>>
      /\ pc # "update" /\ pc' # "update"
  <2>1. CASE PreemptFor(r, v)
    BY <2>1 DEF PreemptFor, pipeVars, workVars
  <2>2. CASE ResetRunning(v)
    <3>1. older = NoFrame
      BY <1>1, <2>2 DEF Phases, ResetRunning
    <3> QED BY <2>2, <3>1 DEF ResetRunning, Outdated, workVars
  <2> QED BY <2>1, <2>2
<1>5. /\ PreemptedRequest(req[v]).status = "PREEMPTED"
      /\ PreemptedRequest(req[v]).out = req[v].out
      /\ ForcePreempted(req[v]).status = "PREEMPTED"
      /\ ForcePreempted(req[v]).out = req[v].out
  BY <1>1, PreemptedRequestType, ForcePreemptedRequest
<1>6. \A q \in Req : SameText(q)
  <2>1. PICK p : /\ req' = [req EXCEPT ![v] = p]
                 /\ p.status = "PREEMPTED" /\ p.out = req[v].out
    BY <1>4, <1>5
  <2> QED BY <1>1, <1>3, <2>1, LiveSameText DEF Live
<1>7. \A q \in Req : Visited(q)' <=> Visited(q)
  BY <1>4 DEF Visited
<1> QED BY <1>4, <1>6, <1>7, QuietStep

\* A waiting request is admitted.
LEMMA AdmitQuiet ==
  ASSUME IInv, IInv', StreamsInv, NEW r \in Req, NEW hit, Admit(r, hit)
  PROVE  StreamsInv' /\ UNCHANGED Streams!vars
<1> DEFINE p == [req[r] EXCEPT
                   !.status = "RUNNING", !.computed = StartOf(r, hit),
                   !.blocks = @ + ExtraBlocks(r, RoomForPrefill(r, hit))]
<1>1. /\ pc = "waiting" /\ pc' = pc /\ waiting # <<>> /\ r = Head(waiting)
      /\ req' = [req EXCEPT ![r] = p]
      /\ UNCHANGED <<older, newer, glen, emitted, prevStep>>
  BY DEF Admit, InWaitingLoop, pipeVars, workVars
<1>2. TypeOK /\ QueuesMatchStatus /\ req[r] \in Request /\ waiting \in Seq(Req)
  BY DEF IInv, TypeOK
<1>3. Live(r)
  <2>1. waiting[1] = r /\ 1 \in 1 .. Len(waiting)
    BY <1>1, <1>2
  <2>2. r \in Range(waiting)
    BY <1>2, <2>1, ListLemma
  <2> QED BY <1>2, <2>2, QueueStatus DEF Live
<1>4. p.status = "RUNNING" /\ p.out = req[r].out
  BY <1>2 DEF Request
<1> HIDE DEF p
<1>5. \A q \in Req : SameText(q)
  BY <1>1, <1>2, <1>3, <1>4, LiveSameText
<1>6. \A q \in Req : Visited(q)' <=> Visited(q)
  BY <1>1 DEF Visited
<1> QED BY <1>1, <1>5, <1>6, QuietStep

\* The end of a step: the worker is told to go on with the rows it has, or is sent
\* all the tokens that are known.
LEMMA CommitQuiet ==
  ASSUME IInv, IInv', StreamsInv, Commit
  PROVE  StreamsInv' /\ UNCHANGED Streams!vars
<1>1. /\ pc = "commit" /\ pc' = "idle"
      /\ req' = [r \in Req |-> IF sched[r] = 0 THEN req[r] ELSE Advanced(r)]
      /\ prevStep' = InStep(sched)
      /\ older = NoFrame => older' = ThisFrame /\ newer' = newer
      /\ older # NoFrame => newer' = ThisFrame /\ older' = older
      /\ UNCHANGED <<glen, emitted>>
  BY DEF Commit, workVars
<1>2. TypeOK /\ Phases /\ newer = NoFrame
  BY <1>1 DEF IInv, Phases, Scheduling
<1>3. /\ ThisFrame # NoFrame /\ ThisFrame.n = sched
      /\ \A r \in Req : ThisFrame.base[r] = IF r \in prevStep THEN Continues ELSE NumTokens(r)
  BY <1>2, FrameLemma DEF ThisFrame
<1>4. \A q \in Req : req'[q].status = req[q].status /\ req'[q].out = req[q].out
  BY <1>1, <1>2, AdvancedRequest
<1>5. \A q \in Req : PhaseOf(q)' = PhaseOf(q) /\ NumTokens(q)' = NumTokens(q)
                     /\ Live(q)' = Live(q) /\ ~Visited(q) /\ ~Visited(q)'
  BY <1>1, <1>4 DEF PhaseOf, NumTokens, Live, Visited
<1>6. PrevStepIsLast'
  BY <1>1, <1>2, <1>3 DEF PrevStepIsLast, InStep
<1>7. ASSUME NEW r \in Req PROVE StreamAccount(r)'
  BY <1>1, <1>4, <1>5 DEF StreamsInv, StreamAccount
<1>8. ASSUME NEW r \in Req PROVE RowAccount(r)'
  <2> SUFFICES ASSUME Live(r) PROVE RowAccount(r)'
    BY <1>5 DEF RowAccount
  <2>1. RowAccount(r) /\ PrevStepIsLast
    BY DEF StreamsInv
  <2>2. NumTokens(r) \in Nat /\ NumTokens(r) # Continues
    BY <1>2, FieldTypes DEF Continues
  <2>3. CASE older = NoFrame
    <3>1. older' = ThisFrame /\ newer' = NoFrame
      BY <1>1, <1>2, <2>3
    <3>2. SampledFrom(r)' = NumTokens(r)
      <4>1. SampledFrom(r)' = IF ThisFrame.base[r] = Continues THEN glen[r] ELSE ThisFrame.base[r]
        BY <1>1, <3>1 DEF SampledFrom
      <4>2. r \in prevStep => glen[r] = NumTokens(r)
        BY <2>1, <2>3 DEF RowAccount
      <4> QED BY <1>3, <2>2, <4>1, <4>2
    <3> QED BY <1>3, <1>5, <3>1, <3>2 DEF RowAccount
  <2>4. CASE older # NoFrame
    <3>1. older' = older /\ newer' = ThisFrame /\ older' # NoFrame
      BY <1>1, <2>4
    <3>2. older.n[r] # 0 <=> r \in prevStep
      BY <1>2, <2>1, <2>4 DEF PrevStepIsLast, InStep
    <3>3. older'.n[r] # 0 => SampledFrom(r)' = NumTokens(r)'
      <4>1. SampledFrom(r)' = SampledFrom(r)
        BY <1>1, <3>1 DEF SampledFrom
      <4> QED BY <1>5, <2>1, <3>1, <4>1 DEF RowAccount
    <3>4. IF newer'.base[r] = Continues THEN older'.n[r] # 0
          ELSE newer'.base[r] = NumTokens(r)' /\ older'.n[r] = 0
      BY <1>3, <1>5, <2>2, <3>1, <3>2
    <3> QED BY <1>5, <3>1, <3>3, <3>4 DEF RowAccount
  <2> QED BY <2>3, <2>4
<1>9. UNCHANGED Streams!vars
  <2>1. [r \in Req |-> PhaseOf(r)]' = [r \in Req |-> PhaseOf(r)]
    BY <1>5
  <2> QED BY <1>1, <2>1 DEF Streams!vars
<1> QED BY <1>6, <1>7, <1>8, <1>9 DEF StreamsInv

-----------------------------------------------------------------------------
(* The steps of update_from_output().                                      *)

\* The oldest step comes back.
LEMMA BeginUpdateQuiet ==
  ASSUME IInv, IInv', StreamsInv, BeginUpdate
  PROVE  StreamsInv' /\ UNCHANGED Streams!vars
<1>1. /\ pc = "idle" /\ pc' = "update" /\ left' = InStep(older.n)
      /\ UNCHANGED <<req, older, newer, glen, emitted, prevStep>>
  BY DEF BeginUpdate, workVars
<1>2. \A q \in Req : SameText(q)
  BY <1>1 DEF SameText, PhaseOf
<1>3. \A q \in Req : older.n[q] # 0 => ~Visited(q)' /\ ~Visited(q)
  BY <1>1 DEF Visited, InStep
<1> QED BY <1>1, <1>2, <1>3, QuietStep

\* Every request of the oldest step has been visited: the next step is the oldest.
LEMMA EndUpdateQuiet ==
  ASSUME IInv, IInv', StreamsInv, EndUpdate
  PROVE  StreamsInv' /\ UNCHANGED Streams!vars
<1>1. /\ pc = "update" /\ pc' = "idle" /\ left = {} /\ older' = newer /\ newer' = NoFrame
      /\ UNCHANGED <<req, glen, emitted, prevStep>>
  BY DEF EndUpdate, workVars
<1>2. older # NoFrame /\ TypeOK
  BY <1>1 DEF IInv, Phases
<1>3. \A q \in Req : PhaseOf(q)' = PhaseOf(q) /\ NumTokens(q)' = NumTokens(q)
                     /\ Live(q)' = Live(q) /\ Visited(q) /\ ~Visited(q)'
  BY <1>1 DEF PhaseOf, NumTokens, Live, Visited
<1>4. PrevStepIsLast'
  BY <1>1 DEF StreamsInv, PrevStepIsLast
<1>5. ASSUME NEW r \in Req PROVE StreamAccount(r)'
  BY <1>1, <1>3 DEF StreamsInv, StreamAccount
<1>6. ASSUME NEW r \in Req PROVE RowAccount(r)'
  <2> SUFFICES ASSUME Live(r) PROVE RowAccount(r)'
    BY <1>3 DEF RowAccount
  <2>1. /\ older.n[r] # 0 => glen[r] = NumTokens(r)
        /\ newer # NoFrame /\ newer.n[r] # 0 =>
             IF newer.base[r] = Continues THEN older.n[r] # 0
             ELSE newer.base[r] = NumTokens(r) /\ older.n[r] = 0
    BY <1>2, <1>3 DEF StreamsInv, RowAccount
  <2>2. older' = NoFrame /\ r \in prevStep' => glen'[r] = NumTokens(r)'
    BY <1>1, <1>2, <1>3, <2>1 DEF StreamsInv, PrevStepIsLast, InStep
  <2>3. older' # NoFrame /\ older'.n[r] # 0 => SampledFrom(r)' = NumTokens(r)'
    BY <1>1, <1>3, <2>1 DEF SampledFrom
  <2> QED BY <1>1, <1>3, <2>2, <2>3 DEF RowAccount
<1>7. UNCHANGED Streams!vars
  <2>1. [r \in Req |-> PhaseOf(r)]' = [r \in Req |-> PhaseOf(r)]
    BY <1>3
  <2> QED BY <1>1, <2>1 DEF Streams!vars
<1> QED BY <1>4, <1>5, <1>6, <1>7 DEF StreamsInv

\* A step that touches one request keeps the rows and the streams of the others.
LEMMA TouchStreams ==
  ASSUME IInv, IInv', StreamsInv, NEW r \in Req,
         pc' = pc, left' = left \/ left' = left \ {r}, prevStep' = prevStep,
         \/ older' = older /\ newer' = newer
         \/ older' = Outdated(older, r) /\ newer' = Outdated(newer, r),
         \A q \in Req : q # r =>
           req'[q] = req[q] /\ glen'[q] = glen[q] /\ emitted'[q] = emitted[q],
         RowAccount(r)', StreamAccount(r)'
  PROVE  StreamsInv'
<1>1. TypeOK /\ TypeOK' /\ older \in Frame \cup {NoFrame} /\ newer \in Frame \cup {NoFrame}
  BY DEF IInv, TypeOK
<1>2. SameStep(older, older') /\ SameStep(newer, newer')
  <2>1. SameStep(older, Outdated(older, r)) /\ SameStep(newer, Outdated(newer, r))
    BY <1>1, OutdatedSame
  <2>2. SameStep(older, older) /\ SameStep(newer, newer)
    BY DEF SameStep
  <2> QED BY <2>1, <2>2
<1>3. ASSUME NEW q \in Req, q # r PROVE RowAccount(q)' /\ StreamAccount(q)'
  <2>1. PhaseOf(q)' = PhaseOf(q) /\ req'[q].out = req[q].out
    BY <1>3 DEF PhaseOf
  <2>2. Visited(q)' <=> Visited(q)
    BY <1>3 DEF Visited
  <2>3. RowAccount(q) /\ StreamAccount(q)
    BY DEF StreamsInv
  <2>4. glen'[q] = glen[q] /\ emitted'[q] = emitted[q]
    BY <1>3
  <2> QED BY <1>1, <1>2, <2>1, <2>2, <2>3, <2>4, SameRow
<1>4. PrevStepIsLast'
  BY <1>2 DEF StreamsInv, PrevStepIsLast, SameStep
<1> QED BY <1>3, <1>4 DEF StreamsInv

\* A sample for a request that has ended is dropped.
LEMMA DropOutputQuiet ==
  ASSUME IInv, IInv', StreamsInv, NEW r \in Req, DropOutput(r)
  PROVE  StreamsInv' /\ UNCHANGED Streams!vars
<1>1. /\ pc' = pc /\ left' = left \ {r} /\ ~Live(r)
      /\ UNCHANGED <<req, older, newer, prevStep, glen, emitted>>
  BY DEF DropOutput, Visits, workVars
<1>2. RowAccount(r)' /\ StreamAccount(r)'
  <2>1. ~Live(r)'
    BY <1>1 DEF Live
  <2> QED BY <1>1, <2>1 DEF RowAccount, StreamAccount, StreamsInv
<1>3. [q \in Req |-> PhaseOf(q)]' = [q \in Req |-> PhaseOf(q)]
  BY <1>1 DEF PhaseOf
<1> QED BY <1>1, <1>2, <1>3, TouchStreams DEF Streams!vars

\* The worker will put its sample where the known tokens end.
LEMMA VisitLemma ==
  ASSUME IInv, StreamsInv, NEW r \in Req, Visits(r), Live(r)
  PROVE  /\ pc = "update" /\ pc' = pc => left' = left \ {r} /\ Visited(r)'
         /\ older # NoFrame /\ older.n[r] # 0
         /\ SampledFrom(r) = NumTokens(r) /\ NumTokens(r) \in Nat
         /\ newer # NoFrame /\ newer.n[r] # 0 => newer.base[r] = Continues
<1>1. pc = "update" /\ r \in left /\ left' = left \ {r}
  BY DEF Visits
<1>2. older # NoFrame /\ older.n[r] # 0
  BY <1>1 DEF IInv, Phases, InStep
<1>3. RowAccount(r)
  BY DEF StreamsInv
<1>4. SampledFrom(r) = NumTokens(r)
  BY <1>1, <1>2, <1>3 DEF RowAccount, Visited
<1>5. newer # NoFrame /\ newer.n[r] # 0 => newer.base[r] = Continues
  BY <1>2, <1>3 DEF RowAccount
<1>6. NumTokens(r) \in Nat
  BY FieldTypes DEF IInv
<1> QED BY <1>1, <1>2, <1>4, <1>5, <1>6 DEF Visited

\* A sample inside the known tokens is discarded by the worker.
LEMMA NoSampleQuiet ==
  ASSUME IInv, IInv', StreamsInv, NEW r \in Req, NoSample(r)
  PROVE  StreamsInv' /\ UNCHANGED Streams!vars
<1>1. /\ pc = "update" /\ pc' = pc /\ left' = left \ {r} /\ Live(r) /\ Visits(r)
      /\ glen' = [glen EXCEPT ![r] = SampledFrom(r)]
      /\ UNCHANGED <<req, older, newer, prevStep, emitted>>
  BY DEF NoSample, Visits
<1>2. glen \in [Req -> Nat]
  BY DEF IInv, TypeOK
<1>3. glen'[r] = NumTokens(r) /\ \A q \in Req : q # r => glen'[q] = glen[q]
  BY <1>1, <1>2, VisitLemma
<1>4. NumTokens(r)' = NumTokens(r) /\ Live(r)'
  BY <1>1 DEF NumTokens, Live
<1>5. RowAccount(r)'
  <2>1. older.n[r] # 0 /\ older # NoFrame /\ Visited(r)'
        /\ (newer # NoFrame /\ newer.n[r] # 0 => newer.base[r] = Continues)
    BY <1>1, VisitLemma
  <2> QED BY <1>1, <1>3, <1>4, <2>1 DEF RowAccount
<1>6. StreamAccount(r)'
  BY <1>1 DEF StreamAccount, StreamsInv, Live
<1>7. [q \in Req |-> PhaseOf(q)]' = [q \in Req |-> PhaseOf(q)]
  BY <1>1 DEF PhaseOf
<1> QED BY <1>1, <1>3, <1>5, <1>6, <1>7, TouchStreams DEF Streams!vars

-----------------------------------------------------------------------------
(* The steps a client sees.                                                *)

\* Counting goes on where it stopped.
LEMMA CountOn ==
  ASSUME NEW n \in Nat, NEW k \in Nat
  PROVE  /\ Count(n) \in Seq(Nat) /\ Len(Count(n)) = n
         /\ Count(n) \o [i \in 1 .. k |-> n + i] = Count(n + k)
<1> DEFINE more == [i \in 1 .. k |-> n + i]
<1>1. Count(n) \in Seq(Nat) /\ Len(Count(n)) = n /\ \A i \in 1 .. n : Count(n)[i] = i
  BY DEF Count
<1>2. more \in Seq(Nat) /\ Len(more) = k /\ \A i \in 1 .. k : more[i] = n + i
  OBVIOUS
<1>3. Count(n + k) \in Seq(Nat) /\ Len(Count(n + k)) = n + k
      /\ \A i \in 1 .. n + k : Count(n + k)[i] = i
  BY DEF Count
<1> HIDE DEF more
<1>4. /\ Count(n) \o more \in Seq(Nat) /\ Len(Count(n) \o more) = n + k
      /\ \A i \in 1 .. n + k :
           (Count(n) \o more)[i] = IF i <= n THEN Count(n)[i] ELSE more[i - n]
  BY <1>1, <1>2, ConcatProperties
<1>5. \A i \in 1 .. n + k : (Count(n) \o more)[i] = i
  <2> TAKE i \in 1 .. n + k
  <2>1. CASE i <= n
    BY <2>1, <1>1, <1>4
  <2>2. CASE ~(i <= n)
    <3>1. i - n \in 1 .. k /\ n + (i - n) = i
      BY <2>2
    <3> QED BY <2>2, <3>1, <1>2, <1>4
  <2> QED BY <2>1, <2>2
<1>6. Count(n) \o more = Count(n + k)
  BY <1>3, <1>4, <1>5, SeqEqual
<1> QED BY <1>1, <1>6 DEF more

\* The phases of the streams when one request changes.
LEMMA PhasesLemma ==
  ASSUME TypeOK, NEW r \in Req, \A q \in Req : q # r => req'[q] = req[q]
  PROVE  [q \in Req |-> PhaseOf(q)]'
           = [[q \in Req |-> PhaseOf(q)] EXCEPT ![r] = PhaseOf(r)']
BY DEF PhaseOf

\* What a sample of k tokens, of which the first j are kept, gives the client.
LEMMA DeliverLemma ==
  ASSUME IInv, StreamsInv, NEW r \in Req, Visits(r), Live(r), NEW k \in Nat, NEW j \in Nat,
         Deliver(r, k, j)
  PROVE  /\ \A q \in Req : q # r => glen'[q] = glen[q] /\ emitted'[q] = emitted[q]
         /\ glen'[r] = NumTokens(r) + k
         /\ emitted'[r] = Count(req[r].out + j) /\ Len(emitted[r]) = req[r].out
         /\ emitted' = [emitted EXCEPT ![r] = @ \o [i \in 1 .. j |-> Len(emitted[r]) + i]]
<1>1. /\ emitted[r] = Count(req[r].out) /\ req[r].out \in Nat /\ PromptLen[r] \in Nat
      /\ glen \in [Req -> Nat] /\ emitted \in [Req -> Seq(Int)]
  BY FieldTypes DEF IInv, StreamsInv, StreamAccount, TypeOK
<1>2. SampledFrom(r) = PromptLen[r] + req[r].out
  BY VisitLemma DEF NumTokens
<1>3. Len(emitted[r]) = req[r].out
  BY <1>1, CountOn
<1>4. Positions(r, j) = [i \in 1 .. j |-> req[r].out + i]
  <2>1. \A i \in 1 .. j : SampledFrom(r) - PromptLen[r] + i = req[r].out + i
    BY <1>1, <1>2
  <2> QED BY <2>1 DEF Positions
<1>5. emitted[r] \o Positions(r, j) = Count(req[r].out + j)
  BY <1>1, <1>4, CountOn
<1>6. glen'[r] = NumTokens(r) + k
  BY <1>1, <1>2 DEF Deliver, NumTokens
<1>7. emitted'[r] = Count(req[r].out + j)
  BY <1>1, <1>5 DEF Deliver
<1>8. emitted' = [emitted EXCEPT ![r] = @ \o [i \in 1 .. j |-> Len(emitted[r]) + i]]
  BY <1>3, <1>4 DEF Deliver
<1> QED BY <1>1, <1>3, <1>6, <1>7, <1>8 DEF Deliver

\* The tokens of a step reach the client, who waits for more.
LEMMA TakeOutputEmits ==
  ASSUME IInv, IInv', StreamsInv, NEW r \in Req, TakeOutput(r)
  PROVE  StreamsInv' /\ Streams!Emit(r)
<1>1. PICK k \in Samples(r), length \in NoLength .. NumSpec :
        /\ Keeps(r, k, k, FALSE)
        /\ req' = [req EXCEPT ![r] =
                     IF length = NoLength THEN Sampled(r, k, k)
                     ELSE ResizedSpec(Sampled(r, k, k), length)]
        /\ Deliver(r, k, k)
  BY DEF TakeOutput, Sampled
<1>2. /\ pc = "update" /\ pc' = pc /\ left' = left \ {r} /\ Live(r)
      /\ r \notin older.chunk /\ Visits(r) /\ UNCHANGED <<older, newer, prevStep>>
  BY DEF TakeOutput, Visits
<1> DEFINE s == Sampled(r, k, k)
           p == IF length = NoLength THEN s ELSE ResizedSpec(s, length)
<1>3. TypeOK /\ TypeOK' /\ req[r].out \in Nat /\ older.d[r] \in Nat /\ MaxTokens[r] \in Nat
      /\ NumTokens(r) \in Nat /\ PromptLen[r] \in Nat /\ NumSpec \in Nat
  BY <1>2, FieldTypes, SampledFromType, ConstantsAssumption DEF IInv
<1>4. k \in Nat \ {0} /\ k \in 1 .. k
  BY <1>3 DEF Samples
<1>5. s \in Request /\ s.status = req[r].status /\ s.out = req[r].out + k
  BY <1>2, <1>4, SampledRequest
<1> HIDE DEF s
<1>6. p.status = req[r].status /\ p.out = req[r].out + k
  <2>1. length \in Int
    BY <1>3 DEF NoLength
  <2> QED BY <1>3, <1>5, <2>1, ResizedRequest
<1>7. req' = [req EXCEPT ![r] = p]
  BY <1>1 DEF s
<1> HIDE DEF p
<1>8. req'[r] = p /\ \A q \in Req : q # r => req'[q] = req[q]
  BY <1>3, <1>7 DEF TypeOK
<1>9. Live(r)' /\ NumTokens(r)' = NumTokens(r) + k
  <2>1. PromptLen[r] + (req[r].out + k) = (PromptLen[r] + req[r].out) + k
    BY <1>3, <1>4
  <2> QED BY <1>2, <1>6, <1>8, <2>1 DEF Live, NumTokens
<1>10. req[r].out + k < MaxTokens[r]
  BY <1>1, <1>3, <1>4 DEF Keeps, AtLimit
<1>11. /\ \A q \in Req : q # r => glen'[q] = glen[q] /\ emitted'[q] = emitted[q]
       /\ glen'[r] = NumTokens(r) + k
       /\ emitted'[r] = Count(req[r].out + k) /\ Len(emitted[r]) = req[r].out
       /\ emitted' = [emitted EXCEPT ![r] = @ \o [i \in 1 .. k |-> Len(emitted[r]) + i]]
  BY <1>1, <1>2, <1>4, DeliverLemma
<1>12. RowAccount(r)'
  <2>1. older.n[r] # 0 /\ older # NoFrame /\ Visited(r)'
        /\ (newer # NoFrame /\ newer.n[r] # 0 => newer.base[r] = Continues)
    BY <1>2, VisitLemma
  <2> QED BY <1>2, <1>9, <1>11, <2>1 DEF RowAccount
<1>13. StreamAccount(r)'
  BY <1>6, <1>8, <1>9, <1>10, <1>11 DEF StreamAccount, Live
<1>14. StreamsInv'
  BY <1>2, <1>8, <1>11, <1>12, <1>13, TouchStreams
<1>15. PhaseOf(r) = "open" /\ PhaseOf(r)' = "open"
  BY <1>2, <1>9 DEF PhaseOf, Live
<1>16. [q \in Req |-> PhaseOf(q)]' = [q \in Req |-> PhaseOf(q)]
  BY <1>8, <1>15 DEF PhaseOf
<1>17. k \in 1 .. MaxTokens[r] - Len(emitted[r])
  BY <1>3, <1>4, <1>10, <1>11
<1>18. Streams!Emit(r)
  BY <1>3, <1>10, <1>11, <1>15, <1>16, <1>17 DEF Streams!Emit, Streams!NextTokens
<1> QED BY <1>14, <1>18

\* The last tokens reach the client, and the stream is closed.
LEMMA StopOutputEmits ==
  ASSUME IInv, IInv', StreamsInv, NEW r \in Req, StopOutput(r)
  PROVE  StreamsInv' /\ Streams!Emit(r)
<1>1. PICK k \in Samples(r) : \E j \in 1 .. k :
        /\ Keeps(r, k, j, TRUE)
        /\ req' = [req EXCEPT ![r] = Finished(Sampled(r, k, j))]
        /\ Deliver(r, k, j)
  BY DEF StopOutput, Sampled
<1>2. PICK j \in 1 .. k :
        /\ Keeps(r, k, j, TRUE)
        /\ req' = [req EXCEPT ![r] = Finished(Sampled(r, k, j))]
        /\ Deliver(r, k, j)
  BY <1>1
<1>3. /\ pc = "update" /\ pc' = pc /\ left' = left \ {r} /\ Live(r)
      /\ r \notin older.chunk /\ Visits(r) /\ prevStep' = prevStep
      /\ older' = Outdated(older, r) /\ newer' = Outdated(newer, r)
  BY DEF StopOutput, Visits
<1>4. TypeOK /\ req[r].out \in Nat /\ older.d[r] \in Nat /\ MaxTokens[r] \in Nat
      /\ req[r].out < MaxTokens[r]
  BY <1>3, FieldTypes, SampledFromType, ConstantsAssumption
     DEF IInv, StreamsInv, StreamAccount
<1>5. k \in Nat /\ j \in Nat \ {0}
  BY <1>4 DEF Samples
<1> DEFINE p == Finished(Sampled(r, k, j))
<1>6. p.status = "FINISHED"
  BY <1>3, SampledRequest, FinishedRequest
<1>7. req' = [req EXCEPT ![r] = p]
  BY <1>2
<1> HIDE DEF p
<1>8. req'[r] = p /\ \A q \in Req : q # r => req'[q] = req[q]
  BY <1>4, <1>7 DEF TypeOK
<1>9. req[r].out + j <= MaxTokens[r]
  <2>1. CASE j = 1
    BY <1>4, <2>1
  <2>2. CASE j # 1
    <3>1. j - 1 \in 1 .. j - 1
      BY <1>5, <2>2
    <3>2. ~AtLimit(r, j - 1)
      BY <1>2, <3>1 DEF Keeps
    <3>3. req[r].out + (j - 1) < MaxTokens[r]
      BY <1>4, <1>5, <3>2 DEF AtLimit
    <3> QED BY <1>4, <1>5, <3>3
  <2> QED BY <2>1, <2>2
<1>10. /\ \A q \in Req : q # r => glen'[q] = glen[q] /\ emitted'[q] = emitted[q]
       /\ Len(emitted[r]) = req[r].out
       /\ emitted' = [emitted EXCEPT ![r] = @ \o [i \in 1 .. j |-> Len(emitted[r]) + i]]
  BY <1>2, <1>3, <1>5, DeliverLemma
<1>11. RowAccount(r)' /\ StreamAccount(r)'
  BY <1>6, <1>8 DEF RowAccount, StreamAccount, Live
<1>12. StreamsInv'
  BY <1>3, <1>8, <1>10, <1>11, TouchStreams
<1>13. PhaseOf(r) = "open" /\ PhaseOf(r)' = "closed"
  BY <1>3, <1>6, <1>8 DEF PhaseOf, Live
<1>14. [q \in Req |-> PhaseOf(q)]' = [[q \in Req |-> PhaseOf(q)] EXCEPT ![r] = "closed"]
  BY <1>4, <1>8, <1>13, PhasesLemma
<1>15. j \in 1 .. MaxTokens[r] - Len(emitted[r])
  BY <1>4, <1>5, <1>9, <1>10
<1>16. Streams!Emit(r)
  BY <1>10, <1>13, <1>14, <1>15 DEF Streams!Emit, Streams!NextTokens
<1> QED BY <1>12, <1>16

\* A client goes away: the stream is closed.
LEMMA FinishRequestCloses ==
  ASSUME IInv, IInv', StreamsInv, NEW r \in Req, FinishRequest(r)
  PROVE  StreamsInv' /\ Streams!Close(r)
<1>1. /\ pc' = pc /\ left' = left /\ Live(r) /\ req' = [req EXCEPT ![r] = Finished(@)]
      /\ older' = Outdated(older, r) /\ newer' = Outdated(newer, r)
      /\ UNCHANGED <<prevStep, glen, emitted>>
  BY DEF FinishRequest, workVars
<1>2. TypeOK /\ req[r] \in Request
  BY DEF IInv, TypeOK
<1>3. req'[r].status = "FINISHED" /\ \A q \in Req : q # r => req'[q] = req[q]
  BY <1>1, <1>2, FinishedRequest DEF TypeOK
<1>4. RowAccount(r)' /\ StreamAccount(r)'
  BY <1>3 DEF RowAccount, StreamAccount, Live
<1>5. StreamsInv'
  BY <1>1, <1>3, <1>4, TouchStreams
<1>6. PhaseOf(r) = "open" /\ PhaseOf(r)' = "closed"
  BY <1>1, <1>3 DEF PhaseOf, Live
<1>7. [q \in Req |-> PhaseOf(q)]' = [[q \in Req |-> PhaseOf(q)] EXCEPT ![r] = "closed"]
  BY <1>2, <1>3, <1>6, PhasesLemma
<1> QED BY <1>1, <1>5, <1>6, <1>7 DEF Streams!Close

\* A request is accepted: its stream is opened.
LEMMA AddRequestOpens ==
  ASSUME ~ReuseIds, IInv, IInv', StreamsInv, NEW r \in Req, AddRequest(r)
  PROVE  StreamsInv' /\ Streams!Open(r)
<1>1. /\ pc = "idle" /\ pc' = pc /\ left' = left /\ req[r].status = "ABSENT"
      /\ req' = [req EXCEPT ![r] = NewRequest]
      /\ emitted' = [emitted EXCEPT ![r] = <<>>]
      /\ UNCHANGED <<older, newer, prevStep, glen>>
  BY DEF AddRequest, pipeVars
<1>2. TypeOK /\ Accounts(r) /\ emitted \in [Req -> Seq(Int)]
  BY DEF IInv, TypeOK
<1>3. req'[r] = NewRequest /\ \A q \in Req : q # r => req'[q] = req[q]
  BY <1>1, <1>2 DEF TypeOK
<1>4. emitted[r] = <<>> /\ emitted' = emitted
  BY <1>1, <1>2 DEF StreamsInv, StreamAccount
<1>5. /\ older # NoFrame => older.n[r] = 0
      /\ newer # NoFrame => newer.n[r] = 0
      /\ r \notin prevStep
  BY <1>1, <1>2 DEF Accounts, Known, FrameKnows
<1>6. RowAccount(r)'
  BY <1>1, <1>5 DEF RowAccount
<1>7. StreamAccount(r)'
  <2>1. Count(0) = <<>> /\ 0 < MaxTokens[r]
    BY ConstantsAssumption DEF Count
  <2> QED BY <1>3, <1>4, <2>1, NewRequestType DEF StreamAccount
<1>8. StreamsInv'
  BY <1>1, <1>3, <1>4, <1>6, <1>7, TouchStreams
<1>9. PhaseOf(r) = "absent" /\ PhaseOf(r)' = "open"
  BY <1>1, <1>3, NewRequestType DEF PhaseOf
<1>10. [q \in Req |-> PhaseOf(q)]' = [[q \in Req |-> PhaseOf(q)] EXCEPT ![r] = "open"]
  BY <1>2, <1>3, <1>9, PhasesLemma
<1> QED BY <1>4, <1>8, <1>9, <1>10 DEF Streams!Open

-----------------------------------------------------------------------------
(* The theorems.                                                           *)

\* At first no stream is open.
LEMMA StreamsInit == Init => StreamsInv /\ Streams!Init
<1> SUFFICES ASSUME Init PROVE StreamsInv /\ Streams!Init
  OBVIOUS
<1>1. \A r \in Req : req[r].status = "ABSENT" /\ emitted[r] = <<>>
  BY DEF Init, NewRequest
<1>2. StreamsInv
  BY <1>1 DEF Init, StreamsInv, PrevStepIsLast, RowAccount, StreamAccount, Live
<1>3. Streams!Init
  BY <1>1 DEF Init, Streams!Init, PhaseOf
<1> QED BY <1>2, <1>3

\* Every step of the scheduler is a step of the streams, or none.
LEMMA StreamsNext ==
  ASSUME ~ResetInFlight, ~ReuseIds, IInv, IInv', StreamsInv, [Next]_vars
  PROVE  StreamsInv' /\ [Streams!Next]_(Streams!vars)
<1> DEFINE Goal == StreamsInv' /\ [Streams!Next]_(Streams!vars)
<1>1. ASSUME Schedule PROVE Goal
  <2>1. CASE Commit
    BY <2>1, CommitQuiet
  <2>2. CASE BeginSchedule \/ EndRunning \/ EndWaiting
    BY <2>2, ScheduleQuiet
  <2>3. CASE \E r \in Req : SkipRunning(r) \/ ConsiderRunning(r)
    BY <2>3, ScheduleQuiet
  <2>4. ASSUME NEW r \in Req, ScheduleRunning(r) PROVE Goal
    BY <2>4, ScheduleRunningQuiet
  <2>5. ASSUME NEW r \in Req, NEW v \in Req, PreemptFor(r, v) PROVE Goal
    BY <2>5, PreemptQuiet
  <2>6. ASSUME NEW r \in Req, NEW hit \in 0 .. MaxPrefixHit, Admit(r, hit) PROVE Goal
    BY <2>6, AdmitQuiet
  <2> QED BY <1>1, <2>1, <2>2, <2>3, <2>4, <2>5, <2>6 DEF Schedule
<1>2. ASSUME UpdateFromOutput PROVE Goal
  <2>1. CASE BeginUpdate BY <2>1, BeginUpdateQuiet
  <2>2. CASE EndUpdate BY <2>2, EndUpdateQuiet
  <2>3. ASSUME NEW r \in Req, DropOutput(r) PROVE Goal BY <2>3, DropOutputQuiet
  <2>4. ASSUME NEW r \in Req, NoSample(r) PROVE Goal BY <2>4, NoSampleQuiet
  <2>5. ASSUME NEW r \in Req, DiscardOutput(r) PROVE Goal
    BY <2>5 DEF DiscardOutput, IInv, Accounts, LiveAccount
  <2>6. ASSUME NEW r \in Req, TakeOutput(r) PROVE Goal
    BY <2>6, TakeOutputEmits DEF Streams!Next
  <2>7. ASSUME NEW r \in Req, StopOutput(r) PROVE Goal
    BY <2>7, StopOutputEmits DEF Streams!Next
  <2> QED BY <1>2, <2>1, <2>2, <2>3, <2>4, <2>5, <2>6, <2>7 DEF UpdateFromOutput
<1>3. ASSUME GoOnReset PROVE Goal
  <2>1. CASE EndReset BY <2>1, ScheduleQuiet
  <2>2. ASSUME NEW r \in Req, ResetRunning(r) PROVE Goal BY <2>2, PreemptQuiet
  <2> QED BY <1>3, <2>1, <2>2 DEF GoOnReset
<1>4. ASSUME Environment PROVE Goal
  <2>1. CASE BeginReset \/ \E p \in {"UNPAUSED", "PAUSED_NEW", "PAUSED_ALL"} : SetPauseState(p)
    BY <2>1, ScheduleQuiet
  <2>2. ASSUME NEW r \in Req, AddRequest(r) PROVE Goal
    BY <2>2, AddRequestOpens DEF Streams!Next
  <2>3. ASSUME NEW r \in Req, FinishRequest(r) PROVE Goal
    BY <2>3, FinishRequestCloses DEF Streams!Next
  <2> QED BY <1>4, <2>1, <2>2, <2>3 DEF Environment
<1>5. ASSUME UNCHANGED vars PROVE Goal
  <2>1. UNCHANGED <<req, older, newer, glen, emitted, prevStep, pc, left>>
    BY <1>5 DEF vars, pipeVars, workVars
  <2>2. \A q \in Req : SameText(q)
    BY <2>1 DEF SameText, PhaseOf
  <2>3. \A q \in Req : Visited(q)' <=> Visited(q)
    BY <2>1 DEF Visited
  <2> QED BY <2>1, <2>2, <2>3, QuietStep
<1> QED BY <1>1, <1>2, <1>3, <1>4, <1>5 DEF Next

\* The worker's row of a request and the scheduler's count of its tokens end at the
\* same place whenever a step comes back, though two are in flight.
THEOREM RowsMeetTokens ==
  ASSUME ~ResetInFlight, ~ReuseIds
  PROVE  Spec => []StreamsInv
<1>1. Init => IInv /\ StreamsInv
  BY InitInv, StreamsInit
<1>2. (IInv /\ StreamsInv) /\ [Next]_vars => (IInv /\ StreamsInv)'
  BY NextInv, StreamsNext
<1> QED BY <1>1, <1>2, PTL DEF Spec

\* AsyncScheduler implements OutputStreams: from its acceptance to its end a client
\* gets the generated tokens one after the other, none twice, none skipped, at most
\* max_tokens of them and none after the end.
THEOREM SchedulerKeepsPromise ==
  ASSUME ~ResetInFlight, ~ReuseIds
  PROVE  Spec => StreamsSpec
<1>1. Init => IInv /\ StreamsInv /\ Streams!Init
  BY InitInv, StreamsInit
<1>2. (IInv /\ StreamsInv) /\ [Next]_vars =>
        (IInv /\ StreamsInv)' /\ [Streams!Next]_(Streams!vars)
  BY NextInv, StreamsNext
<1> QED BY <1>1, <1>2, PTL DEF Spec, StreamsSpec, Streams!Spec

=============================================================================
