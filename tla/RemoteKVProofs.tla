---------------------------- MODULE RemoteKVProofs -----------------------------
(***************************************************************************)
(* The blocks of remote transfers, for any finite number of requests of    *)
(* any length, any number and size of blocks, either failure policy, and   *)
(* however loads, failures, preemptions, aborts and steps interleave.      *)
(***************************************************************************)
EXTENDS RemoteKV, TLAPS, FiniteSetTheorems, SequenceTheorems

-----------------------------------------------------------------------------
(* Lists and blocks.                                                       *)

\* A set of natural numbers has a least one.
LEMMA LeastNumber ==
  ASSUME NEW T \in SUBSET Nat, T # {}
  PROVE  \E n \in T : \A m \in T : n <= m
<1>1. PICK k \in T : TRUE
  OBVIOUS
<1> DEFINE D == 0 .. k
           U == {0 .. n : n \in {m \in T : m <= k}}
<1>2. IsFiniteSet(D)
  BY <1>1, FS_Interval
<1>3. IsWellFoundedOn(StrictSubsetOrdering(D), SUBSET D)
  BY <1>2, FS_StrictSubsetOrderingWellFounded, FS_FiniteSubsetsOfFinite
<1>4. U \subseteq SUBSET D /\ U # {}
  BY <1>1
<1>5. PICK s \in U : \A t \in U : ~ (<<t, s>> \in StrictSubsetOrdering(D))
  <2> HIDE DEF U
  <2> QED BY <1>3, <1>4, WFMin
<1>6. PICK n \in T : n <= k /\ s = 0 .. n
  BY <1>5
<1>7. ASSUME NEW m \in T PROVE n <= m
  <2> SUFFICES ASSUME m < n PROVE FALSE
    BY <1>6, <1>7
  <2>1. 0 .. m \in U
    BY <1>6
  <2>2. 0 .. m \subseteq 0 .. n /\ n \in 0 .. n /\ n \notin 0 .. m
    OBVIOUS
  <2>3. <<0 .. m, 0 .. n>> \in (SUBSET D) \X (SUBSET D)
    BY <1>4, <1>6, <2>1
  <2>4. <<0 .. m, s>> \in StrictSubsetOrdering(D)
    BY <1>6, <2>2, <2>3 DEF StrictSubsetOrdering
  <2> QED BY <1>5, <2>1, <2>4
<1> QED BY <1>7

\* A list of the members of a set, each once, from the least to the greatest.
Sorted(list, set) ==
  /\ list \in [1 .. Cardinality(set) -> set]
  /\ \A i, j \in DOMAIN list : i < j => list[i] < list[j]

\* A finite set of numbers can be put in order: a member's place is the number of
\* members up to it.
LEMMA SortedExists ==
  ASSUME NEW set \in SUBSET Nat, IsFiniteSet(set)
  PROVE  \E list : Sorted(list, set)
<1> DEFINE n == Cardinality(set)
           upTo(b) == {c \in set : c <= b}
           place == [b \in set |-> Cardinality(upTo(b))]
<1>1. n \in Nat /\ IsFiniteSet(1 .. n) /\ Cardinality(1 .. n) = n
  BY FS_CardinalityType, FS_Interval
<1>2. ASSUME NEW b \in set
      PROVE  IsFiniteSet(upTo(b)) /\ Cardinality(upTo(b)) \in 1 .. n
  <2>1. upTo(b) \in SUBSET set /\ b \in upTo(b)
    OBVIOUS
  <2>2. IsFiniteSet(upTo(b)) /\ Cardinality(upTo(b)) <= n
    BY <2>1, FS_Subset
  <2>3. Cardinality(upTo(b)) \in Nat /\ Cardinality(upTo(b)) # 0
    BY <2>1, <2>2, FS_CardinalityType, FS_EmptySet
  <2> HIDE DEF n
  <2> QED BY <1>1, <2>2, <2>3
<1>3. ASSUME NEW b \in set, NEW c \in set, b < c PROVE place[b] < place[c]
  <2>0. b \in Nat /\ c \in Nat /\ \A e \in set : e \in Nat
    OBVIOUS
  <2>1. upTo(b) \in SUBSET upTo(c) /\ c \in upTo(c) /\ c \notin upTo(b)
    <3>1. \A e \in set : e <= b => e <= c
      BY <1>3, <2>0
    <3>2. c <= c /\ ~(c <= b)
      BY <1>3, <2>0
    <3> QED BY <3>1, <3>2
  <2>2. /\ Cardinality(upTo(b)) <= Cardinality(upTo(c))
        /\ Cardinality(upTo(b)) # Cardinality(upTo(c))
    BY <1>2, <2>1, FS_Subset
  <2>3. Cardinality(upTo(b)) \in Int /\ Cardinality(upTo(c)) \in Int
    BY <1>2
  <2> HIDE DEF n, upTo
  <2> QED BY <2>2, <2>3
<1>4. place \in [set -> 1 .. n]
  BY <1>2
<1> HIDE DEF place, n
<1>5. \A b, c \in set : place[b] = place[c] => b = c
  <2> TAKE b, c \in set
  <2>1. place[b] \in Int /\ place[c] \in Int
    BY <1>1, <1>4
  <2>2. b < c \/ c < b \/ b = c
    OBVIOUS
  <2> QED BY <1>3, <2>1, <2>2
<1>6. place \in Injection(set, 1 .. n)
  BY <1>4, <1>5 DEF Injection, IsInjective
<1>7. place \in Surjection(set, 1 .. n)
  BY <1>1, <1>6, FS_Injection DEF n
<1>8. \A i \in 1 .. n : \E b \in set : place[b] = i
  BY <1>7 DEF Surjection
<1> DEFINE list == [i \in 1 .. n |-> CHOOSE b \in set : place[b] = i]
<1>9. \A i \in 1 .. n : list[i] \in set /\ place[list[i]] = i
  BY <1>8
<1>10. list \in [1 .. n -> set]
  BY <1>9
<1> HIDE DEF list
<1>11. \A i, j \in 1 .. n : i < j => list[i] < list[j]
  <2> SUFFICES ASSUME NEW i \in 1 .. n, NEW j \in 1 .. n, i < j PROVE list[i] < list[j]
    OBVIOUS
  <2>1. list[i] \in set /\ list[j] \in set /\ place[list[i]] = i /\ place[list[j]] = j
    BY <1>9
  <2>2. list[i] \in Nat /\ list[j] \in Nat /\ i \in Int /\ j \in Int
    <3>1. i \in Int /\ j \in Int
      BY <1>1
    <3>2. set \subseteq Nat
      OBVIOUS
    <3> QED BY <2>1, <3>1, <3>2
  <2>3. ~(list[j] < list[i])
    BY <1>3, <2>1, <2>2
  <2>4. list[i] # list[j]
    BY <2>1, <2>2
  <2> QED BY <2>2, <2>3, <2>4
<1>12. Sorted(list, set)
  BY <1>10, <1>11 DEF Sorted, n
<1> QED BY <1>12

\* What Ordered returns.
LEMMA OrderedIs ==
  ASSUME NEW set \in SUBSET Nat, IsFiniteSet(set)
  PROVE  /\ Ordered(set) \in Seq(set)
         /\ Len(Ordered(set)) = Cardinality(set)
         /\ Range(Ordered(set)) = set
         /\ \A i, j \in DOMAIN Ordered(set) : i < j => Ordered(set)[i] < Ordered(set)[j]
<1> DEFINE n == Cardinality(set)
           list == Ordered(set)
<1>1. n \in Nat /\ IsFiniteSet(1 .. n) /\ Cardinality(1 .. n) = n
  BY FS_CardinalityType, FS_Interval
<1>2. Sorted(list, set)
  <2>1. list = CHOOSE l \in [1 .. n -> set] : \A i, j \in DOMAIN l : i < j => l[i] < l[j]
    BY DEF Ordered
  <2>2. \E l \in [1 .. n -> set] : \A i, j \in DOMAIN l : i < j => l[i] < l[j]
    BY SortedExists DEF Sorted
  <2> HIDE DEF list
  <2> QED BY <2>1, <2>2 DEF Sorted
<1> HIDE DEF list, n
<1>3. list \in [1 .. n -> set] /\ DOMAIN list = 1 .. n
  BY <1>2 DEF Sorted, n
<1>4. list \in Seq(set) /\ Len(list) = n
  BY <1>1, <1>3
<1>5. \A i, j \in 1 .. n : list[i] = list[j] => i = j
  <2> TAKE i, j \in 1 .. n
  <2>1. list[i] \in Nat /\ list[j] \in Nat /\ i \in Int /\ j \in Int
    <3>1. i \in Int /\ j \in Int
      BY <1>1
    <3>2. list[i] \in set /\ list[j] \in set
      BY <1>3
    <3>3. set \subseteq Nat
      OBVIOUS
    <3> QED BY <3>1, <3>2, <3>3
  <2>2. i < j \/ j < i \/ i = j
    BY <2>1
  <2> QED BY <1>2, <1>3, <2>1, <2>2 DEF Sorted
<1>6. list \in Injection(1 .. n, set)
  BY <1>3, <1>5 DEF Injection, IsInjective
<1>7. list \in Surjection(1 .. n, set)
  BY <1>1, <1>6, FS_Injection DEF n
<1>8. Range(list) = set
  BY <1>3, <1>7 DEF Surjection, Range
<1> QED BY <1>2, <1>4, <1>8 DEF Sorted, list, n

\* What Only returns: the members, still in order, so those of a list without
\* repetitions still without.
LEMMA OnlyIs ==
  ASSUME NEW list \in Seq(Req), NEW set
  PROVE  /\ Only(list, set) \in Seq(Req)
         /\ Range(Only(list, set)) = Range(list) \cap set
         /\ (\A i, j \in DOMAIN list : list[i] = list[j] => i = j) =>
              \A i, j \in DOMAIN Only(list, set) :
                Only(list, set)[i] = Only(list, set)[j] => i = j
<1> DEFINE chosen == {i \in DOMAIN list : list[i] \in set}
           places == Ordered(chosen)
           kept == Only(list, set)
<1>1. Len(list) \in Nat /\ DOMAIN list = 1 .. Len(list) /\ \A i \in DOMAIN list : list[i] \in Req
  OBVIOUS
<1>2. chosen \in SUBSET Nat /\ IsFiniteSet(chosen)
  <2>1. IsFiniteSet(1 .. Len(list))
    BY <1>1, FS_Interval
  <2>2. chosen \in SUBSET (1 .. Len(list))
    BY <1>1
  <2> QED BY <1>1, <2>1, <2>2, FS_Subset
<1> HIDE DEF chosen
<1>3. /\ places \in Seq(chosen) /\ Range(places) = chosen
      /\ \A i, j \in DOMAIN places : i < j => places[i] < places[j]
  BY <1>2, OrderedIs
<1>4. kept = [k \in DOMAIN places |-> list[places[k]]]
  BY DEF Only, chosen
<1> HIDE DEF places, kept
<1>5. DOMAIN places = 1 .. Len(places) /\ Len(places) \in Nat
  BY <1>3
<1>6. \A k \in DOMAIN places : places[k] \in chosen
  BY <1>3, <1>5
<1>7. \A k \in DOMAIN places : places[k] \in DOMAIN list /\ list[places[k]] \in set
  BY <1>6 DEF chosen
<1>8. kept \in [1 .. Len(places) -> Req]
  BY <1>1, <1>4, <1>5, <1>7
<1>9. kept \in Seq(Req) /\ DOMAIN kept = DOMAIN places
  BY <1>4, <1>5, <1>8
<1>10. Range(kept) = Range(list) \cap set
  <2>1. ASSUME NEW r \in Range(kept) PROVE r \in Range(list) \cap set
    BY <1>4, <1>7, <1>9 DEF Range
  <2>2. ASSUME NEW r \in Range(list) \cap set PROVE r \in Range(kept)
    <3>1. PICK i \in DOMAIN list : r = list[i]
      BY DEF Range
    <3>2. i \in chosen
      BY <3>1 DEF chosen
    <3>3. PICK k \in DOMAIN places : i = places[k]
      BY <1>3, <3>2 DEF Range
    <3> QED BY <1>4, <1>9, <3>1, <3>3 DEF Range
  <2> QED BY <2>1, <2>2
<1>11. ASSUME \A i, j \in DOMAIN list : list[i] = list[j] => i = j,
              NEW i \in DOMAIN kept, NEW j \in DOMAIN kept, kept[i] = kept[j]
       PROVE  i = j
  <2>1. places[i] = places[j]
    BY <1>4, <1>7, <1>9, <1>11
  <2>2. i \in Int /\ j \in Int /\ places[i] \in Int /\ places[j] \in Int
    <3>1. i \in 1 .. Len(places) /\ j \in 1 .. Len(places)
      BY <1>5, <1>9
    <3>2. places[i] \in chosen /\ places[j] \in chosen
      BY <1>6, <1>9
    <3>3. i \in Int /\ j \in Int
      BY <1>5, <3>1
    <3>4. \A x \in chosen : x \in Int
      BY <1>2
    <3> QED BY <3>2, <3>3, <3>4
  <2>3. i < j \/ j < i \/ i = j
    BY <2>2
  <2> QED BY <1>3, <1>9, <2>1, <2>2, <2>3
<1> QED BY <1>9, <1>10, <1>11 DEF kept

\* Division by a positive number.
LEMMA QuotientBelow ==
  ASSUME NEW n \in Nat, NEW d \in Nat \ {0}, NEW k \in Int
  PROVE  n \div d \in Nat /\ (n \div d < k <=> n < k * d)
<1> DEFINE q == n \div d
<1>1. q \in Int /\ d * q <= n /\ n < d * q + d
  <2>1. /\ n = d * (n \div d) + (n % d) /\ n % d \in 0 .. d - 1 /\ n \div d \in Int
    OBVIOUS
  <2> HIDE DEF q
  <2>2. n = d * q + (n % d) /\ q \in Int
    BY <2>1 DEF q
  <2> QED BY <2>1, <2>2
<1> HIDE DEF q
<1>2. q >= 0
  <2> SUFFICES ASSUME q + 1 <= 0 PROVE FALSE
    BY <1>1
  <2>1. d * (q + 1) <= 0
    BY <1>1
  <2>2. d * (q + 1) = d * q + d
    BY <1>1
  <2> QED BY <1>1, <2>1, <2>2
<1>3. q < k => n < k * d
  <2> SUFFICES ASSUME q + 1 <= k PROVE n < k * d
    BY <1>1
  <2>1. d * (q + 1) <= d * k
    BY <1>1
  <2>2. d * (q + 1) = d * q + d /\ d * k = k * d
    BY <1>1
  <2> QED BY <1>1, <2>1, <2>2
<1>4. ~(q < k) => ~(n < k * d)
  <2> SUFFICES ASSUME k <= q PROVE k * d <= n
    BY <1>1
  <2>1. d * k <= d * q
    BY <1>1
  <2>2. d * k = k * d
    OBVIOUS
  <2> QED BY <1>1, <2>1, <2>2
<1> QED BY <1>1, <1>2, <1>3, <1>4 DEF q

\* The block of a position is one of the first k when the position is in them.
LEMMA BlockOf ==
  ASSUME NEW pos \in Nat, NEW k \in Int
  PROVE  pos \div BlockSize \in Nat /\ (pos \div BlockSize + 1 <= k <=> pos < k * BlockSize)
<1>1. BlockSize \in Nat \ {0}
  BY ConstantsAssumption
<1>2. pos \div BlockSize \in Nat /\ (pos \div BlockSize < k <=> pos < k * BlockSize)
  BY <1>1, QuotientBelow
<1> QED BY <1>2

\* k blocks are enough for n tokens.
LEMMA BlocksFor ==
  ASSUME NEW n \in Nat, NEW k \in Int
  PROVE  CeilDiv(n) \in Nat /\ (CeilDiv(n) <= k <=> n <= k * BlockSize)
<1>1. BlockSize \in Nat \ {0}
  BY ConstantsAssumption
<1> DEFINE m == n + BlockSize - 1
<1>2. m \in Nat
  BY <1>1
<1> HIDE DEF m
<1>3. m \div BlockSize \in Nat /\ (m \div BlockSize < k + 1 <=> m < (k + 1) * BlockSize)
  BY <1>1, <1>2, QuotientBelow
<1>4. (k + 1) * BlockSize = k * BlockSize + BlockSize
  BY <1>1
<1>5. k * BlockSize \in Int
  BY <1>1
<1> DEFINE p == k * BlockSize
<1> HIDE DEF p
<1>6. m < p + BlockSize <=> n <= p
  BY <1>1, <1>5 DEF m, p
<1> QED BY <1>3, <1>4, <1>6 DEF CeilDiv, m, p

\* Full blocks among n tokens.
LEMMA FullBlocks ==
  ASSUME NEW n \in Nat, NEW k \in Int
  PROVE  n \div BlockSize \in Nat /\ (k <= n \div BlockSize <=> k * BlockSize <= n)
<1>1. BlockSize \in Nat \ {0}
  BY ConstantsAssumption
<1>2. n \div BlockSize \in Nat /\ (n \div BlockSize < k <=> n < k * BlockSize)
  BY <1>1, QuotientBelow
<1>3. k * BlockSize \in Int
  BY <1>1
<1> QED BY <1>2, <1>3

\* The positions of block number i.
LEMMA PositionsOfBlock ==
  ASSUME NEW i \in Nat \ {0}, NEW pos \in (i - 1) * BlockSize .. i * BlockSize - 1
  PROVE  pos \in Nat /\ pos \div BlockSize + 1 = i
<1>1. BlockSize \in Nat \ {0}
  BY ConstantsAssumption
<1>2. (i - 1) * BlockSize \in Nat /\ i * BlockSize \in Nat
  BY <1>1
<1>3. pos \in Nat /\ pos < i * BlockSize /\ ~(pos < (i - 1) * BlockSize)
  BY <1>2
<1>4. /\ pos \div BlockSize \in Nat
      /\ pos \div BlockSize + 1 <= i
      /\ ~(pos \div BlockSize + 1 <= i - 1)
  BY <1>3, BlockOf
<1> QED BY <1>3, <1>4

-----------------------------------------------------------------------------
(* The inductive invariant.                                                *)

RemoteTypes ==
  /\ status \in [Req -> Status]
  /\ computed \in [Req -> Nat]
  /\ table \in [Req -> Seq(Blocks)]
  /\ running \in Seq(Req) /\ waiting \in Seq(Req)
  /\ skipped \in Seq(Req) /\ stepSkipped \in Seq(Req)
  /\ idx \in Nat \ {0} /\ budget \in Nat
  /\ sched \in [Req -> Nat]
  /\ step.n \in [Req -> Nat] /\ step.start \in [Req -> Nat] /\ step.ext \in [Req -> Nat]
  /\ step = [n |-> step.n, start |-> step.start, tbl |-> step.tbl, ext |-> step.ext,
             bad |-> step.bad]
  /\ load \in [Req -> {NoLoad} \cup Loads]

\* Which variables mean something when.
Phases ==
  /\ pc \in {"idle", "running", "waiting", "commit", "worker", "update"}
  /\ pc \in {"idle", "worker", "update"} => sched = NoStep.n /\ stepSkipped = <<>>
  /\ pc \in {"idle", "running"} => step = NoStep
  /\ pc \notin {"worker", "update"} => step.n = NoStep.n
  /\ pc # "update" => out = NoOutput
  /\ pc = "worker" => step.tbl = table /\ \A r \in Req : computed[r] = step.start[r] + step.n[r]

\* The RUNNING loop has planned only what it has passed, and each request once.
RunningOnce ==
  /\ \A i, j \in DOMAIN running : running[i] = running[j] => i = j
  /\ \A i \in DOMAIN running : status[running[i]] = "RUNNING"
  /\ pc = "running" => \A i \in DOMAIN running : i >= idx => sched[running[i]] = 0

\* A request that waits for a transfer is where the end of it is looked for.
WaitersSkipped ==
  \A r \in Req : status[r] = "WAITING_FOR_REMOTE_KVS" => r \in Range(skipped) \cup Range(stepSkipped)

\* A request has blocks for what it has computed and will compute in this step.
Room(r) ==
  /\ status[r] \in InQueues \cup {"ABSENT"} =>
       /\ computed[r] + sched[r] <= Length[r]
       /\ computed[r] + sched[r] <= Len(table[r]) * BlockSize
       /\ step.n[r] <= computed[r]
       /\ step.n[r] # 0 => status[r] = "RUNNING"
  /\ sched[r] # 0 => status[r] = "RUNNING" /\ step.ext[r] <= computed[r]
  /\ pc = "worker" /\ step.n[r] # 0 =>
       status[r] = "RUNNING" /\ step.ext[r] + step.n[r] <= computed[r]
  /\ status[r] = "ABSENT" => computed[r] = 0

Receiving == {r \in Req : load[r] # NoLoad /\ load[r].kind \in {"recv", "received"}}
Giving == {r \in Req : load[r] # NoLoad /\ load[r].kind \in {"send", "sent"}}

\* A request with a transfer keeps its table, and until the scheduler has heard that it
\* ended nobody else has the blocks it fills or finds them in the cache.
TransferAccount(r) ==
  /\ r \in finishedRecving => status[r] = "WAITING_FOR_REMOTE_KVS"
  /\ r \in Receiving =>
       /\ status[r] \in {"WAITING_FOR_REMOTE_KVS", "HELD"} /\ r \notin finishedRecving
       /\ load[r].tbl = table[r] /\ load[r].to <= Len(table[r]) * BlockSize
       /\ load[r].failed \subseteq Target(r)
       /\ \A b \in Target(r) : cached[b] = {} /\ \A q \in Req \ {r} : b \notin Range(table[q])
  /\ r \in Giving =>
       /\ status[r] = "HELD"
       /\ load[r].tbl = table[r] /\ load[r].to <= Len(table[r]) * BlockSize
  /\ r \in out.recv =>
       load[r] = NoLoad /\ status[r] \in {"WAITING_FOR_REMOTE_KVS", "HELD", "GONE"}
  /\ r \in out.sent => load[r] = NoLoad /\ status[r] = "HELD"

HeldInv ==
  /\ RemoteTypes /\ Phases /\ RunningOnce /\ WaitersSkipped
  /\ \A r \in Req : Room(r) /\ TransferAccount(r)

-----------------------------------------------------------------------------
(* What the model's operators do to lists, blocks and the cache.           *)

\* A table with blocks added to it.
LEMMA Joined ==
  ASSUME NEW S, NEW l \in Seq(S), NEW m \in Seq(S)
  PROVE  /\ l \o m \in Seq(S) /\ Len(l \o m) = Len(l) + Len(m)
         /\ Range(l \o m) = Range(l) \cup Range(m)
         /\ \A i \in DOMAIN l : (l \o m)[i] = l[i]
         /\ \A i \in DOMAIN m : (l \o m)[Len(l) + i] = m[i]
<1> DEFINE k == l \o m
           a == Len(l)
           c == Len(m)
<1>1. /\ k \in Seq(S) /\ Len(k) = a + c /\ a \in Nat /\ c \in Nat
      /\ DOMAIN l = 1 .. a /\ DOMAIN m = 1 .. c /\ DOMAIN k = 1 .. a + c
  OBVIOUS
<1>2. \A i \in 1 .. a + c : k[i] = IF i <= a THEN l[i] ELSE m[i - a]
  OBVIOUS
<1> HIDE DEF k, a, c
<1>3. \A i \in 1 .. a : k[i] = l[i]
  BY <1>1, <1>2
<1>4. \A i \in 1 .. c : k[a + i] = m[i]
  <2> TAKE i \in 1 .. c
  <2>1. a + i \in 1 .. a + c /\ ~(a + i <= a) /\ (a + i) - a = i
    BY <1>1
  <2> QED BY <1>2, <2>1
<1>5. Range(k) \subseteq Range(l) \cup Range(m)
  <2> SUFFICES ASSUME NEW i \in 1 .. a + c PROVE k[i] \in Range(l) \cup Range(m)
    BY <1>1 DEF Range
  <2>1. CASE i <= a
    <3>1. i \in 1 .. a
      BY <1>1, <2>1
    <3> QED BY <1>1, <1>3, <3>1 DEF Range
  <2>2. CASE ~(i <= a)
    <3>1. i - a \in 1 .. c
      BY <1>1, <2>2
    <3>2. k[i] = m[i - a]
      BY <1>2, <2>2
    <3> QED BY <1>1, <3>1, <3>2 DEF Range
  <2> QED BY <2>1, <2>2
<1>6. Range(l) \subseteq Range(k)
  <2> SUFFICES ASSUME NEW i \in 1 .. a PROVE l[i] \in Range(k)
    BY <1>1 DEF Range
  <2>1. i \in 1 .. a + c /\ k[i] = l[i]
    BY <1>1, <1>3
  <2> QED BY <1>1, <2>1 DEF Range
<1>7. Range(m) \subseteq Range(k)
  <2> SUFFICES ASSUME NEW i \in 1 .. c PROVE m[i] \in Range(k)
    BY <1>1 DEF Range
  <2>1. a + i \in 1 .. a + c /\ k[a + i] = m[i]
    BY <1>1, <1>4
  <2> QED BY <1>1, <2>1 DEF Range
<1> QED BY <1>1, <1>3, <1>4, <1>5, <1>6, <1>7 DEF k, a, c

\* The same of tables.
LEMMA TablesJoined ==
  \A l, m \in Seq(Blocks) : /\ l \o m \in Seq(Blocks) /\ Len(l \o m) = Len(l) + Len(m)
                           /\ Range(l \o m) = Range(l) \cup Range(m)
  BY Joined

\* Appending.
LEMMA Appended ==
  ASSUME NEW S, NEW l \in Seq(S), NEW x \in S
  PROVE  /\ Append(l, x) \in Seq(S) /\ Len(Append(l, x)) = Len(l) + 1
         /\ Range(Append(l, x)) = Range(l) \cup {x}
         /\ \A i \in 1 .. Len(l) : Append(l, x)[i] = l[i]
         /\ Append(l, x)[Len(l) + 1] = x
<1> DEFINE k == Append(l, x)
           a == Len(l)
<1>1. /\ k \in Seq(S) /\ Len(k) = a + 1 /\ a \in Nat
      /\ DOMAIN l = 1 .. a /\ DOMAIN k = 1 .. a + 1
      /\ \A i \in 1 .. a : k[i] = l[i]
      /\ k[a + 1] = x
  OBVIOUS
<1> HIDE DEF k, a
<1>2. Range(k) = Range(l) \cup {x}
  <2>1. \A i \in 1 .. a + 1 : i \in 1 .. a \/ i = a + 1
    BY <1>1
  <2>2. \A i \in 1 .. a : i \in 1 .. a + 1
    BY <1>1
  <2>3. a + 1 \in 1 .. a + 1
    BY <1>1
  <2> QED BY <1>1, <2>1, <2>2, <2>3 DEF Range
<1> QED BY <1>1, <1>2 DEF k, a

\* The first of a list and the rest of it.
LEMMA HeadAndTail ==
  ASSUME NEW S, NEW l \in Seq(S), l # <<>>
  PROVE  /\ Head(l) \in S /\ Tail(l) \in Seq(S)
         /\ Range(l) = Range(Tail(l)) \cup {Head(l)}
<1> DEFINE k == Tail(l)
           a == Len(l)
<1>1. /\ k \in Seq(S) /\ Len(k) = a - 1 /\ a \in Nat \ {0} /\ Head(l) = l[1]
      /\ DOMAIN l = 1 .. a /\ DOMAIN k = 1 .. a - 1
      /\ \A i \in 1 .. a - 1 : k[i] = l[i + 1]
      /\ \A i \in 1 .. a : l[i] \in S
  OBVIOUS
<1> HIDE DEF k, a
<1>2. Range(l) \subseteq Range(k) \cup {Head(l)}
  <2> SUFFICES ASSUME NEW i \in 1 .. a PROVE l[i] \in Range(k) \cup {Head(l)}
    BY <1>1 DEF Range
  <2>1. CASE i = 1
    BY <1>1, <2>1
  <2>2. CASE i # 1
    <3>1. i - 1 \in 1 .. a - 1 /\ (i - 1) + 1 = i
      BY <1>1, <2>2
    <3>2. k[i - 1] = l[i]
      BY <1>1, <3>1
    <3> QED BY <1>1, <3>1, <3>2 DEF Range
  <2> QED BY <2>1, <2>2
<1>3. Range(k) \cup {Head(l)} \subseteq Range(l)
  <2>1. 1 \in 1 .. a
    BY <1>1
  <2>2. \A i \in 1 .. a - 1 : i + 1 \in 1 .. a
    BY <1>1
  <2> QED BY <1>1, <2>1, <2>2 DEF Range
<1>4. Head(l) \in S
  BY <1>1
<1> QED BY <1>1, <1>2, <1>3, <1>4 DEF k

\* A list without its last.
LEMMA FrontOf ==
  ASSUME NEW S, NEW l \in Seq(S), l # <<>>
  PROVE  /\ Last(l) \in S /\ Front(l) \in Seq(S) /\ Len(Front(l)) = Len(l) - 1
         /\ \A i \in 1 .. Len(l) - 1 : Front(l)[i] = l[i]
<1>1. Len(l) \in Nat \ {0} /\ \A i \in 1 .. Len(l) : l[i] \in S
  OBVIOUS
<1>2. SubSeq(l, 1, Len(l) - 1) = [i \in 1 .. Len(l) - 1 |-> l[i]]
  BY <1>1
<1> DEFINE f == SubSeq(l, 1, Len(l) - 1)
           a == Len(l)
<1>3. f = [i \in 1 .. a - 1 |-> l[i]] /\ a - 1 \in Nat
  BY <1>1, <1>2
<1> HIDE DEF f
<1>4. \A i \in 1 .. a - 1 : l[i] \in S
  BY <1>1
<1> HIDE DEF a
<1>5. f \in Seq(S) /\ Len(f) = a - 1
  BY <1>3, <1>4
<1>6. Last(l) \in S
  <2>1. Len(l) \in 1 .. Len(l)
    BY <1>1
  <2> QED BY <1>1, <2>1 DEF Last
<1> QED BY <1>3, <1>5, <1>6 DEF Front, f, a

\* The pool hands out as many free blocks as it is asked for.
LEMMA FreshIs ==
  ASSUME NEW k \in Nat, NEW found, NEW fresh \in Fresh(k, found)
  PROVE  /\ fresh \subseteq Free \ found /\ fresh \subseteq Blocks
         /\ Ordered(fresh) \in Seq(Blocks) /\ Len(Ordered(fresh)) = k
         /\ Range(Ordered(fresh)) = fresh
<1>1. fresh \subseteq Free \ found /\ Cardinality(fresh) = k
  BY DEF Fresh, kSubset
<1>2. fresh \subseteq Blocks
  BY <1>1 DEF Free
<1>3. fresh \in SUBSET Nat /\ IsFiniteSet(fresh)
  BY <1>2, ConstantsAssumption, FS_Subset
<1>4. /\ Ordered(fresh) \in Seq(fresh) /\ Len(Ordered(fresh)) = k
      /\ Range(Ordered(fresh)) = fresh
  BY <1>1, <1>3, OrderedIs
<1>5. Ordered(fresh) \in Seq(Blocks)
  BY <1>2, <1>4
<1> QED BY <1>1, <1>2, <1>4, <1>5

\* With the blocks that are missing there is room.
LEMMA RoomMade ==
  ASSUME NEW tbl \in Seq(Blocks), NEW n \in Nat
  PROVE  Missing(tbl, n) \in Nat /\ n <= (Len(tbl) + Missing(tbl, n)) * BlockSize
<1> DEFINE c == CeilDiv(n)
           l == Len(tbl)
           m == Missing(tbl, n)
<1>1. c \in Nat /\ l \in Nat
  BY BlocksFor
<1>2. m = IF c - l > 0 THEN c - l ELSE 0
  BY DEF Missing
<1> HIDE DEF m, l, c
<1>3. m \in Nat /\ c <= l + m /\ l + m \in Int
  BY <1>1, <1>2
<1>4. n <= (l + m) * BlockSize
  BY <1>3, BlocksFor DEF c
<1> QED BY <1>3, <1>4 DEF m, l

\* Tokens have blocks.
LEMMA TokensHaveBlock ==
  ASSUME NEW r \in Req, NEW i \in Nat \ {0}
  PROVE  TokensOf(r, i) # {}
<1>1. BlockSize \in Nat \ {0}
  BY ConstantsAssumption
<1> DEFINE a == (i - 1) * BlockSize
           c == i * BlockSize
<1>2. a \in Nat /\ c \in Nat /\ c = a + BlockSize
  BY <1>1
<1> HIDE DEF a, c
<1>3. a \in a .. c - 1
  BY <1>1, <1>2
<1>4. <<Prompt[r], a>> \in TokensOf(r, i)
  BY <1>3 DEF TokensOf, a, c
<1> QED BY <1>4

\* Caching r's blocks touches no block but r's.
LEMMA CachesOwn ==
  ASSUME NEW map, NEW r \in Req, NEW tbl \in Seq(Blocks), NEW n \in Nat,
         n <= Len(tbl) * BlockSize, NEW b \in Blocks, b \notin Range(tbl)
  PROVE  CacheBlocks(map, r, tbl, n)[b] = map[b]
<1>1. BlockSize \in Nat \ {0}
  BY ConstantsAssumption
<1>2. ~(\E i \in 1 .. n \div BlockSize : tbl[i] = b)
  <2> SUFFICES ASSUME NEW i \in 1 .. n \div BlockSize, tbl[i] = b PROVE FALSE
    OBVIOUS
  <2>1. n \div BlockSize \in Nat /\ i \in Nat \ {0} /\ i * BlockSize <= n
    BY FullBlocks
  <2> DEFINE l == Len(tbl)
             s == l * BlockSize
             t == i * BlockSize
  <2>2. l \in Nat /\ DOMAIN tbl = 1 .. l
    OBVIOUS
  <2>3. i <= l
    <3> SUFFICES ASSUME l + 1 <= i PROVE FALSE
      BY <2>1, <2>2
    <3>1. (l + 1) * BlockSize <= i * BlockSize
      <4> HIDE DEF l
      <4> QED BY <1>1, <2>1, <2>2
    <3>2. (l + 1) * BlockSize = s + BlockSize /\ s \in Int /\ t \in Int
      <4> HIDE DEF l
      <4> QED BY <1>1, <2>1, <2>2
    <3> HIDE DEF l, s, t
    <3>3. n <= s
      BY DEF s, l
    <3>4. t <= n /\ s + BlockSize <= t
      BY <2>1, <3>1, <3>2 DEF t
    <3> QED BY <1>1, <3>2, <3>3, <3>4
  <2>4. i \in DOMAIN tbl
    <3> HIDE DEF l
    <3> QED BY <2>1, <2>2, <2>3
  <2> QED BY <2>4 DEF Range
<1> QED BY <1>2 DEF CacheBlocks

\* The chains found in the cache: full blocks, not the whole prompt, all cached.
LEMMA HitsAre ==
  ASSUME NEW r \in Req, NEW c \in Hits(r)
  PROVE  /\ c \in Seq(Blocks) /\ Len(c) * BlockSize < Length[r]
         /\ \A i \in DOMAIN c : cached[c[i]] = TokensOf(r, i)
<1>1. BlockSize \in Nat \ {0} /\ Length[r] \in Nat \ {0}
  BY ConstantsAssumption
<1> DEFINE most == (Length[r] - 1) \div BlockSize
           Chains(n) == {d \in [1 .. n -> Blocks] : \A i \in 1 .. n : cached[d[i]] = TokensOf(r, i)}
           Last1(n) == Chains(n) # {} /\ (n < most => Chains(n + 1) = {})
           longest == CHOOSE n \in 0 .. most : Last1(n)
<1>2. Length[r] - 1 \in Nat
  BY <1>1
<1>3. most \in Nat /\ \A k \in Int : k <= most <=> k * BlockSize <= Length[r] - 1
  BY <1>2, FullBlocks
<1>4. c \in Chains(longest)
  BY DEF Hits
<1>5. Chains(0) # {}
  <2> DEFINE e == [i \in 1 .. 0 |-> CHOOSE b \in Blocks : TRUE]
  <2>1. e \in [1 .. 0 -> Blocks] /\ \A i \in 1 .. 0 : cached[e[i]] = TokensOf(r, i)
    OBVIOUS
  <2> QED BY <2>1
<1> HIDE DEF most, Chains
<1>6. \E n \in 0 .. most : Last1(n)
  <2> DEFINE T == {n \in 0 .. most : n < most => Chains(n + 1) = {}}
  <2>1. most \in T /\ T \in SUBSET Nat
    BY <1>3
  <2>2. PICK n \in T : \A m \in T : n <= m
    <3> HIDE DEF T
    <3> QED BY <2>1, LeastNumber
  <2>3. CASE n = 0
    BY <1>5, <2>2, <2>3
  <2>4. CASE n # 0
    <3>1. n - 1 \in 0 .. most /\ ~(n <= n - 1) /\ (n - 1) + 1 = n
      BY <1>3, <2>2, <2>4
    <3>2. n - 1 \notin T
      BY <2>2, <3>1
    <3>3. Chains(n) # {}
      BY <3>1, <3>2
    <3> QED BY <2>2, <3>3
  <2> QED BY <2>3, <2>4
<1>7. longest \in 0 .. most
  <2> HIDE DEF Last1
  <2> QED BY <1>6
<1> HIDE DEF longest
<1>8. longest \in Nat /\ longest * BlockSize <= Length[r] - 1
  BY <1>3, <1>7
<1>9. c \in [1 .. longest -> Blocks] /\ \A i \in 1 .. longest : cached[c[i]] = TokensOf(r, i)
  BY <1>4 DEF Chains
<1>10. c \in Seq(Blocks) /\ Len(c) = longest
  BY <1>8, <1>9
<1>11. longest * BlockSize \in Int
  BY <1>1, <1>8
<1> DEFINE p == longest * BlockSize
<1>12. p < Length[r]
  <2> HIDE DEF p
  <2> QED BY <1>1, <1>8, <1>11 DEF p
<1> QED BY <1>9, <1>10, <1>12

\* The blocks of a transfer are the request's.
LEMMA TargetOwned ==
  ASSUME NEW r \in Req, load[r] \in Loads, table[r] \in Seq(Blocks),
         load[r].tbl = table[r], load[r].to <= Len(table[r]) * BlockSize
  PROVE  Target(r) \subseteq Range(table[r])
<1> SUFFICES ASSUME NEW pos \in load[r].from .. load[r].to - 1
             PROVE  table[r][pos \div BlockSize + 1] \in Range(table[r])
  BY DEF Target
<1> DEFINE l == Len(table[r])
           s == l * BlockSize
<1>1. l \in Nat /\ DOMAIN table[r] = 1 .. l
  OBVIOUS
<1>2. load[r].from \in Nat /\ load[r].to \in Nat
  BY DEF Loads
<1> HIDE DEF l
<1>3. s \in Int
  BY <1>1, ConstantsAssumption
<1> HIDE DEF s
<1>4. load[r].to <= s
  BY DEF s, l
<1>5. pos \in Nat /\ pos < s
  BY <1>2, <1>3, <1>4
<1>6. pos \div BlockSize \in Nat /\ pos \div BlockSize + 1 <= l
  BY <1>1, <1>5, BlockOf DEF s
<1>7. pos \div BlockSize + 1 \in 1 .. l
  BY <1>1, <1>6
<1> QED BY <1>1, <1>7 DEF Range

-----------------------------------------------------------------------------
(* The steps keep the invariant.                                           *)

\* A transfer that nothing has touched.
LEMMA AccountKept ==
  ASSUME NEW q \in Req, TransferAccount(q), load'[q] = load[q], out' = out,
         q \in finishedRecving' => q \in finishedRecving,
         q \in Receiving \cup Giving \cup out.recv \cup out.sent \cup finishedRecving' =>
           status'[q] = status[q],
         q \in Receiving \cup Giving => table'[q] = table[q],
         q \in Receiving =>
           \A b \in Target(q) : cached'[b] = {} /\ \A p \in Req \ {q} : b \notin Range(table'[p])
  PROVE  TransferAccount(q)'
<1>1. Target(q)' = Target(q)
  BY DEF Target
<1>2. (q \in Receiving' <=> q \in Receiving) /\ (q \in Giving' <=> q \in Giving)
  BY DEF Receiving, Giving
<1> HIDE DEF Receiving, Giving, Target
<1> QED BY <1>1, <1>2 DEF TransferAccount

\* The blocks a load fills are its request's, and found nowhere in the cache.
LEMMA TargetsApart ==
  ASSUME HeldInv, NEW q \in Receiving
  PROVE  /\ q \in Req /\ load[q] \in Loads /\ Target(q) \subseteq Range(table[q])
         /\ Target(q) \subseteq Blocks
         /\ \A b \in Target(q) : cached[b] = {}
         /\ \A b \in Target(q), p \in Req \ {q} : b \notin Range(table[p])
<1>1. q \in Req /\ load[q] # NoLoad /\ TransferAccount(q) /\ RemoteTypes
  BY DEF HeldInv, Receiving
<1>2. load[q] \in Loads /\ table[q] \in Seq(Blocks)
  BY <1>1 DEF RemoteTypes
<1>3. Target(q) \subseteq Range(table[q])
  BY <1>1, <1>2, TargetOwned DEF TransferAccount
<1>4. Range(table[q]) \subseteq Blocks
  BY <1>2 DEF Range
<1> QED BY <1>1, <1>2, <1>3, <1>4 DEF TransferAccount

\* At the start the invariant holds.
LEMMA InitHeld == Init => HeldInv
<1> SUFFICES ASSUME Init PROVE HeldInv
  OBVIOUS
<1>1. \A r \in Req : Length[r] \in Nat
  BY ConstantsAssumption
<1>2. RemoteTypes
  BY DEF Init, RemoteTypes, NoStep, Status
<1>3. Phases
  BY DEF Init, Phases, NoStep
<1>4. RunningOnce /\ WaitersSkipped
  BY DEF Init, RunningOnce, WaitersSkipped
<1>5. ASSUME NEW r \in Req PROVE Room(r)
  <2>1. Len(<<>>) * BlockSize = 0
    BY ConstantsAssumption
  <2> QED BY <1>1, <2>1 DEF Init, Room, NoStep
<1>6. ASSUME NEW r \in Req PROVE TransferAccount(r)
  BY DEF Init, TransferAccount, Receiving, Giving, NoOutput
<1> QED BY <1>2, <1>3, <1>4, <1>5, <1>6 DEF HeldInv

\* A request comes.
LEMMA AddRequestHeld ==
  ASSUME HeldInv, NEW r \in Req, AddRequest(r)
  PROVE  HeldInv'
<1>1. RemoteTypes'
  <2>1. waiting' \in Seq(Req)
    BY Appended DEF AddRequest, HeldInv, RemoteTypes
  <2> QED BY <2>1 DEF AddRequest, HeldInv, RemoteTypes, queueVars, recvVars, planVars, workerVars,
                    Status, InQueues
<1>2. Phases'
  BY DEF AddRequest, HeldInv, Phases, planVars, workerVars
<1>3. RunningOnce'
  BY DEF AddRequest, HeldInv, RunningOnce, planVars, RemoteTypes
<1>4. WaitersSkipped'
  BY DEF AddRequest, HeldInv, WaitersSkipped, planVars, RemoteTypes
<1>5. ASSUME NEW q \in Req PROVE Room(q)'
  BY DEF AddRequest, HeldInv, Room, planVars, workerVars, RemoteTypes, Phases, NoStep, InQueues
<1>6. ASSUME NEW q \in Req PROVE TransferAccount(q)'
  <2>1. TransferAccount(q) /\ TransferAccount(r) /\ out = NoOutput
    BY DEF HeldInv, Phases, AddRequest
  <2>2. r \notin Receiving \cup Giving \cup finishedRecving
    BY <2>1 DEF TransferAccount, AddRequest
  <2>3. status'[q] = status[q] \/ q = r
    BY DEF AddRequest, HeldInv, RemoteTypes
  <2>4. UNCHANGED <<load, out, table, cached, finishedRecving>>
    BY DEF AddRequest, workerVars, recvVars
  <2>5. q \notin out.recv \cup out.sent
    BY <2>1 DEF NoOutput
  <2> QED BY <2>1, <2>2, <2>3, <2>4, <2>5, AccountKept DEF TransferAccount
<1> QED BY <1>1, <1>2, <1>3, <1>4, <1>5, <1>6 DEF HeldInv

\* Where the scheduler only turns to something else.
LEMMA TurnHeld ==
  ASSUME HeldInv, BeginSchedule \/ EndRunning \/ EndWaiting
  PROVE  HeldInv'
<1>1. /\ UNCHANGED <<status, computed, table, queueVars, recvVars, cached, sched, stepSkipped,
                     workerVars>>
      /\ pc' \in {"running", "waiting", "commit"}
      /\ pc' = "running" => pc = "idle" /\ idx' = 1
      /\ pc' # "running" => pc # "idle" /\ pc # "worker" /\ pc # "update" /\ idx' = idx
      /\ budget' \in {budget, TokenBudget}
  BY DEF BeginSchedule, EndRunning, EndWaiting, workerVars, Looking
<1>2. RemoteTypes'
  <2>1. UNCHANGED <<status, computed, table, running, waiting, skipped, sched, stepSkipped,
                    step, load>>
    BY <1>1 DEF queueVars, workerVars
  <2>2. idx' \in Nat \ {0} /\ budget' \in Nat
    BY <1>1, ConstantsAssumption DEF HeldInv, RemoteTypes
  <2> QED BY <2>1, <2>2 DEF HeldInv, RemoteTypes
<1>3. Phases'
  BY <1>1 DEF HeldInv, Phases, workerVars, NoStep
<1>4. RunningOnce'
  BY <1>1 DEF HeldInv, RunningOnce, RemoteTypes, queueVars, Phases, NoStep
<1>5. WaitersSkipped'
  BY <1>1 DEF HeldInv, WaitersSkipped, queueVars
<1>6. ASSUME NEW q \in Req PROVE Room(q)'
  BY <1>1 DEF HeldInv, Room, workerVars
<1>7. ASSUME NEW q \in Req PROVE TransferAccount(q)'
  <2>1. TransferAccount(q) /\ UNCHANGED <<load, out, status, table, cached, finishedRecving>>
    BY <1>1 DEF HeldInv, workerVars, recvVars
  <2> QED BY <2>1, AccountKept DEF TransferAccount
<1> QED BY <1>2, <1>3, <1>4, <1>5, <1>6, <1>7 DEF HeldInv

\* The request the RUNNING loop looks at.
LEMMA LookedAt ==
  ASSUME HeldInv, pc = "running", idx <= Len(running), budget > 0
  PROVE  /\ running[idx] \in Req /\ idx \in DOMAIN running
         /\ status[running[idx]] = "RUNNING" /\ sched[running[idx]] = 0
         /\ running[idx] \notin Receiving \cup Giving
         /\ computed[running[idx]] <= Length[running[idx]]
         /\ NumNewRunning(running[idx]) \in Nat
         /\ NumNewRunning(running[idx]) <= budget
         /\ computed[running[idx]] + NumNewRunning(running[idx]) <= Length[running[idx]]
         /\ step = NoStep /\ out = NoOutput
<1> DEFINE r == running[idx]
<1>1. idx \in DOMAIN running /\ r \in Req
  BY DEF HeldInv, RemoteTypes
<1>2. status[r] = "RUNNING" /\ sched[r] = 0 /\ step = NoStep /\ out = NoOutput
  BY <1>1 DEF HeldInv, RunningOnce, Phases, RemoteTypes
<1> HIDE DEF r
<1>3. Room(r) /\ TransferAccount(r)
  BY <1>1 DEF HeldInv
<1>4. r \notin Receiving \cup Giving
  BY <1>2, <1>3 DEF TransferAccount
<1>5. computed[r] \in Nat /\ Length[r] \in Nat /\ budget \in Nat
  BY <1>1, ConstantsAssumption DEF HeldInv, RemoteTypes
<1>6. computed[r] <= Length[r]
  BY <1>2, <1>3, <1>5 DEF Room, InQueues
<1>7. /\ NumNewRunning(r) \in Nat /\ NumNewRunning(r) <= budget
      /\ computed[r] + NumNewRunning(r) <= Length[r]
  BY <1>5, <1>6 DEF NumNewRunning, Lesser
<1> QED BY <1>1, <1>2, <1>4, <1>6, <1>7 DEF r

\* The RUNNING loop plans a request, with what blocks it needs.
LEMMA ScheduleRunningHeld ==
  ASSUME HeldInv, ScheduleRunning
  PROVE  HeldInv'
<1> DEFINE r == running[idx]
           new == NumNewRunning(r)
           n == computed[r] + new
           miss == Missing(table[r], n)
<1>1. pc = "running" /\ idx <= Len(running) /\ budget > 0
  BY DEF ScheduleRunning
<1>2. /\ r \in Req /\ idx \in DOMAIN running /\ status[r] = "RUNNING" /\ sched[r] = 0
      /\ r \notin Receiving \cup Giving /\ computed[r] <= Length[r]
      /\ new \in Nat /\ new <= budget /\ n <= Length[r]
      /\ step = NoStep /\ out = NoOutput
  BY <1>1, LookedAt
<1>3. PICK fresh \in Fresh(miss, {}) :
         /\ table' = [table EXCEPT ![r] = @ \o Ordered(fresh)]
         /\ cached' = CacheBlocks(Emptied(cached, fresh), r, table'[r], n)
         /\ sched' = [sched EXCEPT ![r] = new]
         /\ budget' = budget - new
  BY DEF ScheduleRunning
<1>4. /\ idx' = idx + 1
      /\ UNCHANGED <<status, computed, preemptions, queueVars, recvVars, policy, pc, stepSkipped,
                     preempted, step, out, load, errors>>
  BY DEF ScheduleRunning
<1> HIDE DEF r, new
<1>5. /\ computed[r] \in Nat /\ table[r] \in Seq(Blocks) /\ Length[r] \in Nat
      /\ RemoteTypes
  BY <1>2, ConstantsAssumption DEF HeldInv, RemoteTypes
<1>6. n \in Nat
  BY <1>2, <1>5
<1> HIDE DEF n
<1>7. miss \in Nat /\ n <= (Len(table[r]) + miss) * BlockSize
  BY <1>5, <1>6, RoomMade
<1> HIDE DEF miss
<1>8. /\ fresh \subseteq Free /\ fresh \subseteq Blocks /\ Ordered(fresh) \in Seq(Blocks)
      /\ Len(Ordered(fresh)) = miss /\ Range(Ordered(fresh)) = fresh
  BY <1>3, <1>7, FreshIs
<1> DEFINE more == Ordered(fresh)
           new_table == table[r] \o more
<1>9. /\ new_table \in Seq(Blocks) /\ Len(new_table) = Len(table[r]) + miss
      /\ Range(new_table) = Range(table[r]) \cup fresh
  <2> HIDE DEF more
  <2>1. more \in Seq(Blocks) /\ Len(more) = miss /\ Range(more) = fresh
    BY <1>8 DEF more
  <2>2. table[r] \in Seq(Blocks)
    BY <1>5
  <2> HIDE DEF new_table
  <2> QED BY <2>1, <2>2, TablesJoined DEF new_table
<1> HIDE DEF new_table
<1>10. table' = [table EXCEPT ![r] = new_table] /\ table'[r] = new_table
  BY <1>2, <1>3, <1>5 DEF new_table, RemoteTypes
<1>11. n <= Len(new_table) * BlockSize
  BY <1>7, <1>9
<1>12. RemoteTypes'
  <2>1. UNCHANGED <<status, computed, running, waiting, skipped, stepSkipped, step, load>>
    BY <1>4 DEF queueVars
  <2>2. idx' \in Nat \ {0} /\ budget' \in Nat
    <3>1. idx \in Nat \ {0} /\ budget \in Nat
      BY <1>5 DEF RemoteTypes
    <3>2. idx + 1 \in Nat \ {0}
      BY <3>1
    <3>3. budget - new \in Nat
      BY <1>2, <3>1
    <3> QED BY <1>3, <1>4, <3>2, <3>3
  <2>3. table' \in [Req -> Seq(Blocks)] /\ sched' \in [Req -> Nat]
    BY <1>2, <1>3, <1>5, <1>9, <1>10 DEF RemoteTypes
  <2> QED BY <1>5, <2>1, <2>2, <2>3 DEF RemoteTypes
<1>13. Phases'
  BY <1>1, <1>2, <1>4 DEF HeldInv, Phases
<1>14. RunningOnce'
  <2>1. RunningOnce /\ UNCHANGED <<running, status, pc>>
    BY <1>4 DEF HeldInv, queueVars
  <2>2. ASSUME NEW i \in DOMAIN running, i >= idx' PROVE sched'[running[i]] = 0
    <3>1. i # idx /\ i >= idx /\ running[i] \in Req
      <4>1. running \in Seq(Req) /\ idx \in Nat
        BY <1>5 DEF RemoteTypes
      <4>2. i \in Nat /\ running[i] \in Req
        BY <4>1
      <4>3. i >= idx + 1
        BY <1>4, <2>2
      <4> QED BY <4>1, <4>2, <4>3
    <3>2. running[i] # r
      BY <1>2, <2>1, <3>1 DEF RunningOnce, r
    <3> QED BY <1>1, <1>3, <1>5, <2>1, <3>1, <3>2 DEF RunningOnce, RemoteTypes
  <2> QED BY <2>1, <2>2 DEF RunningOnce
<1>15. WaitersSkipped'
  BY <1>4 DEF HeldInv, WaitersSkipped, queueVars
<1>16. ASSUME NEW q \in Req PROVE Room(q)'
  <2>1. Room(q)
    BY DEF HeldInv
  <2>2. CASE q = r
    <3>1. /\ status'[q] = "RUNNING" /\ computed'[q] = computed[r] /\ sched'[q] = new
          /\ table'[q] = new_table /\ step' = NoStep /\ pc' = "running"
      BY <1>1, <1>2, <1>3, <1>4, <1>5, <1>10, <2>2 DEF RemoteTypes
    <3>2. computed'[q] + sched'[q] = n
      BY <3>1 DEF n
    <3> QED BY <1>2, <1>5, <1>11, <2>2, <3>1, <3>2 DEF Room, NoStep, n
  <2>3. CASE q # r
    <3>1. sched'[q] = sched[q] /\ table'[q] = table[q]
      BY <1>3, <1>5, <1>10, <2>3 DEF RemoteTypes
    <3> QED BY <1>4, <2>1, <3>1 DEF Room
  <2> QED BY <2>2, <2>3
<1>17. ASSUME NEW q \in Req PROVE TransferAccount(q)'
  <2>1. TransferAccount(q)
    BY DEF HeldInv
  <2>2. q \in Receiving \cup Giving => table'[q] = table[q]
    BY <1>2, <1>10
  <2>3. ASSUME q \in Receiving, NEW b \in Target(q)
        PROVE  cached'[b] = {} /\ \A p \in Req \ {q} : b \notin Range(table'[p])
    <3>1. /\ b \in Blocks /\ cached[b] = {} /\ b \in Range(table[q])
          /\ \A p \in Req \ {q} : b \notin Range(table[p])
      BY <2>3, TargetsApart
    <3>2. b \notin fresh
      BY <1>8, <3>1 DEF Free
    <3>3. r # q /\ b \notin Range(new_table)
      BY <1>2, <1>9, <2>3, <3>1, <3>2
    <3>4. \A p \in Req \ {q} : b \notin Range(table'[p])
      BY <1>5, <1>10, <3>1, <3>3 DEF RemoteTypes
    <3>5. cached'[b] = Emptied(cached, fresh)[b]
      <4>1. cached' = CacheBlocks(Emptied(cached, fresh), r, new_table, n)
        BY <1>3, <1>10
      <4> QED BY <1>2, <1>6, <1>9, <1>11, <3>1, <3>3, <4>1, CachesOwn
    <3>6. cached'[b] = {}
      BY <3>1, <3>5 DEF Emptied
    <3> QED BY <3>4, <3>6
  <2>4. UNCHANGED <<load, out, status, finishedRecving>>
    BY <1>4 DEF recvVars
  <2> QED BY <2>1, <2>2, <2>3, <2>4, AccountKept DEF TransferAccount
<1> QED BY <1>12, <1>13, <1>14, <1>15, <1>16, <1>17 DEF HeldInv

\* The RUNNING loop takes the last request off to make room, and may end there.
LEMMA PreemptForHeld ==
  ASSUME HeldInv, PreemptFor
  PROVE  HeldInv'
<1> DEFINE victim == Last(running)
<1>1. /\ pc = "running" /\ idx <= Len(running) /\ budget > 0
      /\ running' = Front(running)
      /\ status' = [status EXCEPT ![victim] = "PREEMPTED"]
      /\ computed' = [computed EXCEPT ![victim] = 0]
      /\ table' = [table EXCEPT ![victim] = <<>>]
      /\ waiting' = <<victim>> \o waiting
      /\ pc' \in {pc, "commit"}
      /\ UNCHANGED <<skipped, recvVars, cached, policy, idx, budget, sched, stepSkipped,
                     workerVars>>
  BY DEF PreemptFor
<1>2. RemoteTypes /\ RunningOnce /\ Phases /\ WaitersSkipped
  BY DEF HeldInv
<1>3. running \in Seq(Req) /\ running # <<>>
  BY <1>1, <1>2 DEF RemoteTypes
<1>4. /\ victim \in Req /\ running' \in Seq(Req) /\ Len(running') = Len(running) - 1
      /\ \A i \in 1 .. Len(running) - 1 : running'[i] = running[i]
  BY <1>1, <1>3, FrontOf
<1>5. /\ status[victim] = "RUNNING" /\ sched[victim] = 0
      /\ \A i \in 1 .. Len(running) - 1 : running[i] # victim
  <2>1. Len(running) \in DOMAIN running /\ Len(running) >= idx /\ victim = running[Len(running)]
    BY <1>1, <1>2, <1>3 DEF RemoteTypes, Last
  <2> HIDE DEF victim
  <2>2. \A i \in 1 .. Len(running) - 1 : i \in DOMAIN running /\ i # Len(running)
    BY <1>3
  <2> QED BY <1>1, <1>2, <2>1, <2>2 DEF RunningOnce
<1>6. TransferAccount(victim) /\ victim \notin Receiving \cup Giving \cup finishedRecving
  BY <1>4, <1>5 DEF HeldInv, TransferAccount
<1> HIDE DEF victim
<1>7. RemoteTypes'
  <2>1. <<victim>> \in Seq(Req)
    BY <1>4
  <2>2. waiting' \in Seq(Req)
    BY <1>1, <1>2, <2>1, Joined DEF RemoteTypes
  <2>3. /\ status' \in [Req -> Status] /\ computed' \in [Req -> Nat]
        /\ table' \in [Req -> Seq(Blocks)]
    <3>1. "PREEMPTED" \in Status /\ <<>> \in Seq(Blocks) /\ 0 \in Nat
      BY DEF Status, InQueues
    <3>2. status \in [Req -> Status] /\ computed \in [Req -> Nat] /\ table \in [Req -> Seq(Blocks)]
      BY <1>2 DEF RemoteTypes
    <3> HIDE DEF Status
    <3> QED BY <1>1, <1>4, <3>1, <3>2
  <2> QED BY <1>1, <1>2, <1>4, <2>2, <2>3 DEF RemoteTypes, workerVars
<1>8. Phases'
  BY <1>1, <1>2 DEF Phases, workerVars
<1>9. RunningOnce'
  <2>1. DOMAIN running' = 1 .. Len(running) - 1
    BY <1>3, <1>4
  <2>2. \A i \in 1 .. Len(running) - 1 : i \in DOMAIN running
    BY <1>3
  <2>3. \A i \in DOMAIN running : running[i] \in Req
    BY <1>3
  <2>4. \A q \in Req : q # victim => status'[q] = status[q]
    BY <1>1, <1>2 DEF RemoteTypes
  <2>5. \A i \in DOMAIN running' :
          /\ i \in DOMAIN running /\ running'[i] = running[i]
          /\ running[i] # victim /\ running[i] \in Req
    BY <1>4, <1>5, <2>1, <2>2, <2>3
  <2>6. \A i, j \in DOMAIN running' : running'[i] = running'[j] => i = j
    BY <1>2, <2>5 DEF RunningOnce
  <2>7. \A i \in DOMAIN running' : status'[running'[i]] = "RUNNING"
    BY <1>2, <2>4, <2>5 DEF RunningOnce
  <2>8. \A i \in DOMAIN running' : i >= idx => sched'[running'[i]] = 0
    BY <1>1, <1>2, <2>5 DEF RunningOnce
  <2> QED BY <1>1, <2>6, <2>7, <2>8 DEF RunningOnce
<1>10. WaitersSkipped'
  BY <1>1, <1>2 DEF WaitersSkipped, RemoteTypes
<1>11. ASSUME NEW q \in Req PROVE Room(q)'
  <2>1. Room(q) /\ step = NoStep /\ step' = NoStep /\ sched' = sched
    BY <1>1, <1>2 DEF HeldInv, Phases, workerVars
  <2>2. CASE q = victim
    <3>1. status'[q] = "PREEMPTED" /\ computed'[q] = 0 /\ table'[q] = <<>> /\ sched'[q] = 0
      BY <1>1, <1>2, <1>5, <2>1, <2>2 DEF RemoteTypes
    <3>2. Len(<<>>) * BlockSize = 0 /\ Length[q] \in Nat
      BY ConstantsAssumption
    <3> QED BY <1>1, <2>1, <3>1, <3>2 DEF Room, NoStep
  <2>3. CASE q # victim
    <3>1. status'[q] = status[q] /\ computed'[q] = computed[q] /\ table'[q] = table[q]
      BY <1>1, <1>2, <2>3 DEF RemoteTypes
    <3> QED BY <1>1, <2>1, <3>1 DEF Room
  <2> QED BY <2>2, <2>3
<1>12. ASSUME NEW q \in Req PROVE TransferAccount(q)'
  <2>1. TransferAccount(q) /\ out = NoOutput
    BY <1>1, <1>2 DEF HeldInv, Phases
  <2>2. q # victim => status'[q] = status[q] /\ table'[q] = table[q]
    BY <1>1, <1>2 DEF RemoteTypes
  <2>3. \A p \in Req : Range(table'[p]) \subseteq Range(table[p])
    BY <1>1, <1>2 DEF RemoteTypes, Range
  <2>4. UNCHANGED <<load, out, cached, finishedRecving>>
    BY <1>1 DEF workerVars, recvVars
  <2>5. q \notin out.recv \cup out.sent
    BY <2>1 DEF NoOutput
  <2>6. q \in Receiving =>
           \A b \in Target(q) : cached'[b] = {} /\ \A p \in Req \ {q} : b \notin Range(table'[p])
    BY <2>1, <2>3, <2>4 DEF TransferAccount
  <2> QED BY <1>6, <2>1, <2>2, <2>4, <2>5, <2>6, AccountKept
<1> QED BY <1>7, <1>8, <1>9, <1>10, <1>11, <1>12 DEF HeldInv

\* The head of the queues, and the queues without it.
LEMMA HeadIs ==
  ASSUME RemoteTypes, Looking
  PROVE  /\ HeadRequest \in Req
         /\ Popped => /\ skipped' \in Seq(Req) /\ waiting' \in Seq(Req)
                      /\ Range(skipped) \subseteq Range(skipped') \cup {HeadRequest}
<1>1. skipped \in Seq(Req) /\ waiting \in Seq(Req) /\ skipped \o waiting # <<>>
  BY DEF RemoteTypes, Looking
<1>2. CASE skipped = <<>>
  <2>1. skipped \o waiting = waiting /\ waiting # <<>>
    BY <1>1, <1>2
  <2>2. Head(waiting) \in Req /\ Tail(waiting) \in Seq(Req)
    BY <1>1, <2>1, HeadAndTail
  <2>3. HeadRequest = Head(waiting)
    BY <2>1 DEF HeadRequest
  <2>4. Range(skipped) = {}
    BY <1>2 DEF Range
  <2> QED BY <1>1, <1>2, <2>2, <2>3, <2>4 DEF Popped
<1>3. CASE skipped # <<>>
  <2>1. HeadRequest = Head(skipped)
    BY <1>1, <1>3 DEF HeadRequest
  <2>2. /\ Head(skipped) \in Req /\ Tail(skipped) \in Seq(Req)
        /\ Range(skipped) = Range(Tail(skipped)) \cup {Head(skipped)}
    BY <1>1, <1>3, HeadAndTail
  <2> QED BY <1>1, <1>3, <2>1, <2>2 DEF Popped
<1> QED BY <1>2, <1>3

\* The WAITING loop puts a request that is not ready aside.
LEMMA SkipWaitingHeld ==
  ASSUME HeldInv, SkipWaiting
  PROVE  HeldInv'
<1> DEFINE r == HeadRequest
<1>1. /\ Looking /\ Popped /\ pc = "waiting" /\ stepSkipped' = Append(stepSkipped, r)
      /\ UNCHANGED <<status, computed, table, running, recvVars, cached, pc, idx, budget,
                     sched, step, out, load>>
  BY DEF SkipWaiting, Looking, workerVars
<1>2. RemoteTypes /\ stepSkipped \in Seq(Req)
  BY DEF HeldInv, RemoteTypes
<1>3. /\ r \in Req /\ skipped' \in Seq(Req) /\ waiting' \in Seq(Req)
      /\ Range(skipped) \subseteq Range(skipped') \cup {r}
  BY <1>1, <1>2, HeadIs
<1> HIDE DEF r
<1>4. stepSkipped' \in Seq(Req) /\ Range(stepSkipped') = Range(stepSkipped) \cup {r}
  BY <1>1, <1>2, <1>3, Appended
<1>5. RemoteTypes'
  BY <1>1, <1>2, <1>3, <1>4 DEF RemoteTypes
<1>6. Phases'
  BY <1>1 DEF HeldInv, Phases
<1>7. RunningOnce'
  BY <1>1 DEF HeldInv, RunningOnce
<1>8. WaitersSkipped'
  BY <1>1, <1>3, <1>4 DEF HeldInv, WaitersSkipped
<1>9. ASSUME NEW q \in Req PROVE Room(q)'
  BY <1>1 DEF HeldInv, Room
<1>10. ASSUME NEW q \in Req PROVE TransferAccount(q)'
  <2>1. TransferAccount(q) /\ UNCHANGED <<load, out, status, table, cached, finishedRecving>>
    BY <1>1 DEF HeldInv, recvVars
  <2> QED BY <2>1, AccountKept DEF TransferAccount
<1> QED BY <1>5, <1>6, <1>7, <1>8, <1>9, <1>10 DEF HeldInv

\* What making a request ready does to its table, computed count and status.
LEMMA PromoteIs ==
  ASSUME Promote, NEW r, r = HeadRequest
  PROVE  /\ Looking /\ pc = "waiting" /\ status[r] = "WAITING_FOR_REMOTE_KVS"
         /\ r \in finishedRecving /\ finishedRecving' = finishedRecving \ {r}
         /\ cached' = CacheBlocks(cached, r, table[r], computed[r])
         /\ \E c \in {computed[r], computed[r] - 1}, t \in {table[r], <<>>},
               s \in {"PREEMPTED", "WAITING"} :
              /\ computed' = [computed EXCEPT ![r] = c]
              /\ table' = [table EXCEPT ![r] = t]
              /\ status' = [status EXCEPT ![r] = s]
              /\ c # computed[r] => computed[r] = Length[r]
              /\ t # table[r] => c = 0
         /\ UNCHANGED <<queueVars, planVars, workerVars>>
<1>1. /\ Looking /\ pc = "waiting" /\ status[r] = "WAITING_FOR_REMOTE_KVS"
      /\ r \in finishedRecving /\ finishedRecving' = finishedRecving \ {r}
      /\ cached' = CacheBlocks(cached, r, table[r], computed[r])
      /\ UNCHANGED <<queueVars, planVars, workerVars>>
  BY DEF Promote, Looking, CachedAfterLoad
<1> DEFINE failed == r \in failedRecving
           c == IF ~failed /\ computed[r] = Length[r] THEN computed[r] - 1 ELSE computed[r]
           t == IF failed /\ computed[r] = 0 THEN <<>> ELSE table[r]
           s == IF r \in preemptions THEN "PREEMPTED" ELSE "WAITING"
<1>2. /\ computed' = [computed EXCEPT ![r] = c]
      /\ table' = [table EXCEPT ![r] = t]
      /\ status' = [status EXCEPT ![r] = s]
  BY DEF Promote
<1>3. /\ c \in {computed[r], computed[r] - 1} /\ t \in {table[r], <<>>}
      /\ s \in {"PREEMPTED", "WAITING"}
      /\ c # computed[r] => computed[r] = Length[r]
      /\ t # table[r] => c = 0
  OBVIOUS
<1> HIDE DEF c, t, s
<1> QED BY <1>1, <1>2, <1>3

\* A request whose transfer has ended is made ready, its blocks cached or its computed
\* count brought down.
LEMMA PromoteHeld ==
  ASSUME HeldInv, Promote
  PROVE  HeldInv'
<1> DEFINE r == HeadRequest
<1>1. /\ Looking /\ pc = "waiting" /\ status[r] = "WAITING_FOR_REMOTE_KVS"
      /\ r \in finishedRecving /\ finishedRecving' = finishedRecving \ {r}
      /\ cached' = CacheBlocks(cached, r, table[r], computed[r])
      /\ \E c \in {computed[r], computed[r] - 1}, t \in {table[r], <<>>},
            s \in {"PREEMPTED", "WAITING"} :
           /\ computed' = [computed EXCEPT ![r] = c]
           /\ table' = [table EXCEPT ![r] = t]
           /\ status' = [status EXCEPT ![r] = s]
           /\ c # computed[r] => computed[r] = Length[r]
           /\ t # table[r] => c = 0
      /\ UNCHANGED <<queueVars, planVars, workerVars>>
  BY PromoteIs
<1>2. PICK c \in {computed[r], computed[r] - 1}, t \in {table[r], <<>>},
            s \in {"PREEMPTED", "WAITING"} :
           /\ computed' = [computed EXCEPT ![r] = c]
           /\ table' = [table EXCEPT ![r] = t]
           /\ status' = [status EXCEPT ![r] = s]
           /\ c # computed[r] => computed[r] = Length[r]
           /\ t # table[r] => c = 0
  BY <1>1
<1>3. RemoteTypes /\ WaitersSkipped /\ RunningOnce /\ Phases
  BY DEF HeldInv
<1>4. r \in Req
  BY <1>1, <1>3, HeadIs
<1> HIDE DEF r
<1>5. /\ TransferAccount(r) /\ Room(r) /\ r \notin Receiving \cup Giving
      /\ computed[r] \in Nat /\ table[r] \in Seq(Blocks) /\ Length[r] \in Nat \ {0}
  <2>1. TransferAccount(r) /\ Room(r)
    BY <1>4 DEF HeldInv
  <2>2. computed[r] \in Nat /\ table[r] \in Seq(Blocks) /\ Length[r] \in Nat \ {0}
    BY <1>3, <1>4, ConstantsAssumption DEF RemoteTypes
  <2> QED BY <1>1, <2>1, <2>2 DEF TransferAccount
<1>6. sched[r] = 0 /\ computed[r] <= Length[r] /\ computed[r] <= Len(table[r]) * BlockSize
  <2>1. sched[r] = 0
    BY <1>1, <1>5 DEF Room
  <2>2. computed[r] + 0 <= Length[r] /\ computed[r] + 0 <= Len(table[r]) * BlockSize
    BY <1>1, <1>5, <2>1 DEF Room, InQueues
  <2> QED BY <1>5, <2>1, <2>2
<1>7. c \in Nat /\ c <= computed[r] /\ t \in Seq(Blocks) /\ Range(t) \subseteq Range(table[r])
  <2>1. c \in Nat /\ c <= computed[r]
    BY <1>2, <1>5
  <2>2. Range(<<>>) = {} /\ <<>> \in Seq(Blocks)
    BY DEF Range
  <2>3. t = table[r] \/ t = <<>>
    OBVIOUS
  <2> QED BY <1>5, <2>1, <2>2, <2>3
<1>8. RemoteTypes'
  <2>1. s \in Status
    BY DEF Status, InQueues
  <2>2. /\ status' \in [Req -> Status] /\ computed' \in [Req -> Nat]
        /\ table' \in [Req -> Seq(Blocks)]
    BY <1>2, <1>3, <1>4, <1>7, <2>1 DEF RemoteTypes
  <2>3. UNCHANGED <<running, waiting, skipped, stepSkipped, idx, budget, sched, step, load>>
    BY <1>1 DEF queueVars, planVars, workerVars
  <2> QED BY <1>3, <2>2, <2>3 DEF RemoteTypes
<1>9. Phases'
  BY <1>1, <1>3 DEF Phases, planVars, workerVars
<1>10. RunningOnce'
  <2>1. \A i \in DOMAIN running : running[i] \in Req /\ running[i] # r
    BY <1>1, <1>3 DEF RunningOnce, RemoteTypes
  <2>2. \A i \in DOMAIN running : status'[running[i]] = status[running[i]]
    BY <1>2, <1>3, <2>1 DEF RemoteTypes
  <2> QED BY <1>1, <1>3, <2>2 DEF RunningOnce, planVars, queueVars
<1>11. WaitersSkipped'
  <2>1. \A q \in Req : status'[q] = "WAITING_FOR_REMOTE_KVS" => status[q] = status'[q]
    BY <1>2, <1>3, <1>4 DEF RemoteTypes
  <2> QED BY <1>1, <1>3, <2>1 DEF WaitersSkipped, planVars, queueVars
<1>12. ASSUME NEW q \in Req PROVE Room(q)'
  <2>1. Room(q) /\ step' = step /\ sched' = sched /\ pc' = pc /\ step.n[q] = 0
    BY <1>1, <1>3 DEF HeldInv, Phases, workerVars, planVars, NoStep
  <2>2. CASE q = r
    <3>1. /\ status'[q] \in {"PREEMPTED", "WAITING"} /\ computed'[q] = c /\ table'[q] = t
          /\ sched'[q] = 0
      BY <1>2, <1>3, <1>6, <2>1, <2>2 DEF RemoteTypes
    <3>2. c + 0 <= Length[q] /\ c + 0 = c
      BY <1>5, <1>6, <1>7, <2>2
    <3>3. c <= Len(t) * BlockSize
      <4>1. CASE t = table[r]
        <5> DEFINE p == Len(table[r]) * BlockSize
        <5>1. p \in Int
          BY <1>5, ConstantsAssumption
        <5>2. computed[r] <= p
          BY <1>6
        <5> HIDE DEF p
        <5>3. c <= p
          BY <1>5, <1>7, <5>1, <5>2
        <5> QED BY <4>1, <5>3 DEF p
      <4>2. CASE t # table[r]
        <5>1. c = 0 /\ Len(t) \in Nat /\ BlockSize \in Nat
          BY <1>2, <1>7, <4>2, ConstantsAssumption
        <5> QED BY <5>1
      <4> QED BY <4>1, <4>2
    <3>4. computed'[q] + sched'[q] = c
      BY <3>1, <3>2
    <3>5. /\ computed'[q] + sched'[q] <= Length[q]
          /\ computed'[q] + sched'[q] <= Len(table'[q]) * BlockSize
      BY <3>1, <3>2, <3>3, <3>4
    <3>6. step'.n[q] = 0 /\ step'.n[q] <= computed'[q] /\ pc' # "worker"
      BY <1>1, <1>7, <2>1, <3>1
    <3> QED BY <3>1, <3>5, <3>6 DEF Room
  <2>3. CASE q # r
    <3>1. status'[q] = status[q] /\ computed'[q] = computed[q] /\ table'[q] = table[q]
      BY <1>2, <1>3, <2>3 DEF RemoteTypes
    <3> QED BY <2>1, <3>1 DEF Room
  <2> QED BY <2>2, <2>3
<1>13. ASSUME NEW q \in Req PROVE TransferAccount(q)'
  <2>1. TransferAccount(q) /\ load' = load /\ out' = out /\ out = NoOutput
    BY <1>1, <1>3 DEF HeldInv, Phases, workerVars
  <2>2. q # r => status'[q] = status[q] /\ table'[q] = table[q]
    BY <1>2, <1>3 DEF RemoteTypes
  <2>3. \A p \in Req : Range(table'[p]) \subseteq Range(table[p])
    BY <1>2, <1>3, <1>7 DEF RemoteTypes
  <2>4. q \notin out.recv \cup out.sent /\ r \notin finishedRecving'
    BY <1>1, <2>1 DEF NoOutput
  <2>5. ASSUME q \in Receiving, NEW b \in Target(q)
        PROVE  cached'[b] = {} /\ \A p \in Req \ {q} : b \notin Range(table'[p])
    <3>1. /\ b \in Blocks /\ cached[b] = {} /\ q # r
          /\ \A p \in Req \ {q} : b \notin Range(table[p])
      BY <1>5, <2>5, TargetsApart
    <3>2. b \notin Range(table[r])
      BY <1>4, <3>1
    <3>3. cached'[b] = cached[b]
      <4> DEFINE n == computed[r]
                 tbl == table[r]
      <4>1. cached' = CacheBlocks(cached, r, tbl, n)
        BY <1>1
      <4>2. /\ n \in Nat /\ tbl \in Seq(Blocks) /\ n <= Len(tbl) * BlockSize
            /\ b \notin Range(tbl)
        BY <1>5, <1>6, <3>2
      <4> HIDE DEF n, tbl
      <4>3. b \in Blocks
        BY <3>1
      <4>4. \A m \in Nat, l \in Seq(Blocks) : m <= Len(l) * BlockSize /\ b \notin Range(l) =>
              CacheBlocks(cached, r, l, m)[b] = cached[b]
        BY <1>4, <4>3, CachesOwn
      <4> QED BY <4>1, <4>2, <4>4
    <3> QED BY <2>3, <3>1, <3>3
  <2> QED BY <1>1, <1>5, <2>1, <2>2, <2>4, <2>5, AccountKept
<1> QED BY <1>8, <1>9, <1>10, <1>11, <1>12, <1>13 DEF HeldInv

\* The skipped requests are put back, and what is planned is computed.
LEMMA CommitHeld ==
  ASSUME HeldInv, Commit
  PROVE  HeldInv'
<1>1. /\ pc = "commit" /\ pc' = "worker" /\ skipped' = stepSkipped \o skipped
      /\ stepSkipped' = <<>>
      /\ computed' = [r \in Req |-> computed[r] + sched[r]]
      /\ step' = [step EXCEPT !.n = sched, !.start = computed, !.tbl = table]
      /\ idx' = 1 /\ budget' = 0 /\ sched' = NoStep.n
      /\ UNCHANGED <<status, table, waiting, running, recvVars, cached, out, load>>
  BY DEF Commit
<1>2. RemoteTypes
  BY DEF HeldInv
<1>3. /\ step'.n = sched /\ step'.start = computed /\ step'.tbl = table /\ step'.ext = step.ext
      /\ step' = [n |-> step'.n, start |-> step'.start, tbl |-> step'.tbl, ext |-> step'.ext,
                  bad |-> step'.bad]
  <2>1. step = [n |-> step.n, start |-> step.start, tbl |-> step.tbl, ext |-> step.ext,
                bad |-> step.bad]
    BY <1>2 DEF RemoteTypes
  <2>2. step' = [n |-> sched, start |-> computed, tbl |-> table, ext |-> step.ext,
                 bad |-> step.bad]
    BY <1>1, <2>1
  <2> QED BY <2>2
<1>4. skipped' \in Seq(Req) /\ Range(skipped') = Range(stepSkipped) \cup Range(skipped)
  <2>1. skipped \in Seq(Req) /\ stepSkipped \in Seq(Req)
    BY <1>2 DEF RemoteTypes
  <2>2. \A l, m \in Seq(Req) : l \o m \in Seq(Req) /\ Range(l \o m) = Range(l) \cup Range(m)
    BY Joined
  <2> QED BY <1>1, <2>1, <2>2
<1>5. RemoteTypes'
  <2>1. computed' \in [Req -> Nat] /\ sched' \in [Req -> Nat]
    BY <1>1, <1>2 DEF RemoteTypes, NoStep
  <2>2. idx' \in Nat \ {0} /\ budget' \in Nat /\ stepSkipped' \in Seq(Req)
    BY <1>1
  <2>3. step'.n \in [Req -> Nat] /\ step'.start \in [Req -> Nat] /\ step'.ext \in [Req -> Nat]
    BY <1>2, <1>3 DEF RemoteTypes
  <2> QED BY <1>1, <1>2, <1>3, <1>4, <2>1, <2>2, <2>3 DEF RemoteTypes
<1>6. Phases'
  BY <1>1, <1>3 DEF HeldInv, Phases
<1>7. RunningOnce'
  BY <1>1 DEF HeldInv, RunningOnce
<1>8. WaitersSkipped'
  BY <1>1, <1>4 DEF HeldInv, WaitersSkipped
<1>9. ASSUME NEW q \in Req PROVE Room(q)'
  <2>1. /\ Room(q) /\ computed'[q] = computed[q] + sched[q] /\ sched'[q] = 0
        /\ computed[q] \in Nat /\ sched[q] \in Nat /\ step.ext[q] \in Nat
    BY <1>1, <1>2 DEF HeldInv, RemoteTypes, NoStep
  <2>2. computed'[q] + sched'[q] = computed[q] + sched[q] /\ sched[q] <= computed'[q]
    BY <2>1
  <2>3. status[q] = "ABSENT" => computed'[q] = 0
    BY <2>1 DEF Room
  <2>4. step.ext[q] <= computed[q] => step.ext[q] + sched[q] <= computed'[q]
    BY <2>1
  <2> QED BY <1>1, <1>3, <2>1, <2>2, <2>3, <2>4 DEF Room
<1>10. ASSUME NEW q \in Req PROVE TransferAccount(q)'
  <2>1. TransferAccount(q) /\ UNCHANGED <<load, out, status, table, cached, finishedRecving>>
    BY <1>1 DEF HeldInv, recvVars
  <2> QED BY <2>1, AccountKept DEF TransferAccount
<1> QED BY <1>5, <1>6, <1>7, <1>8, <1>9, <1>10 DEF HeldInv

\* Where a request may start: at what it has computed, or behind a chain of the cache.
LEMMA LookupIs ==
  ASSUME HeldInv, NEW r \in Req, status[r] \in {"WAITING", "PREEMPTED"}, NEW look \in Lookups(r)
  PROVE  /\ look.tbl \in Seq(Blocks) /\ look.total \in Nat /\ look.local \in Nat
         /\ look.local <= look.total /\ look.total <= Length[r]
         /\ look.mode = "async" => look.local < look.total
         /\ look.mode # "none" => look.local = Len(look.tbl) * BlockSize
         /\ look.mode = "none" => look.local = look.total
         /\ look.mode = "async" \/ look.local = look.total \/ look.total < Length[r]
         /\ \/ /\ look.tbl = table[r] /\ look.local = computed[r]
               /\ look.mode = "none" /\ look.total <= Len(table[r]) * BlockSize
            \/ look.tbl \in Hits(r) /\ look.local = Len(look.tbl) * BlockSize
         /\ \A q \in Receiving : \A b \in Target(q) : b \notin Range(look.tbl)
<1>1. /\ computed[r] \in Nat /\ table[r] \in Seq(Blocks) /\ Length[r] \in Nat /\ BlockSize \in Nat
      /\ sched[r] \in Nat /\ Room(r) /\ TransferAccount(r)
  BY ConstantsAssumption DEF HeldInv, RemoteTypes
<1>2. r \notin Receiving
  BY <1>1 DEF TransferAccount
<1>3. CASE computed[r] # 0
  <2>1. look = [tbl |-> table[r], local |-> computed[r], total |-> computed[r], mode |-> "none"]
    BY <1>3 DEF Lookups
  <2>2. sched[r] = 0
    BY <1>1 DEF Room
  <2>3. computed[r] + 0 <= Length[r] /\ computed[r] + 0 <= Len(table[r]) * BlockSize
    BY <1>1, <2>2 DEF Room, InQueues
  <2>4. computed[r] <= Length[r] /\ computed[r] <= Len(table[r]) * BlockSize
    BY <1>1, <2>3
  <2>5. \A q \in Receiving : \A b \in Target(q) : b \notin Range(table[r])
    BY <1>2, TargetsApart
  <2> QED BY <1>1, <2>1, <2>4, <2>5
<1>4. CASE computed[r] = 0
  <2>1. PICK c \in Hits(r) : \E o \in Offers(r, Len(c) * BlockSize) :
          look = [tbl |-> c, local |-> Len(c) * BlockSize, total |-> o[1], mode |-> o[2]]
    <3> HIDE DEF Hits, Offers
    <3> QED BY <1>4 DEF Lookups
  <2>0. PICK o \in Offers(r, Len(c) * BlockSize) :
          look = [tbl |-> c, local |-> Len(c) * BlockSize, total |-> o[1], mode |-> o[2]]
    BY <2>1
  <2>2. /\ c \in Seq(Blocks) /\ Len(c) * BlockSize < Length[r]
        /\ \A i \in DOMAIN c : cached[c[i]] = TokensOf(r, i)
    BY HitsAre
  <2> DEFINE local == Len(c) * BlockSize
  <2>3. local \in Nat /\ local < Length[r]
    BY <1>1, <2>2
  <2> HIDE DEF local
  <2>4. \/ o = <<local, "none">>
        \/ /\ o \in (local + 1 .. Length[r]) \X LoadModes
           /\ o[2] = "sync" => o[1] < Length[r]
    BY DEF Offers, local
  <2>5. /\ o[1] \in Nat /\ local <= o[1] /\ o[1] <= Length[r]
        /\ o[2] = "async" => local < o[1]
        /\ o[2] = "none" => local = o[1]
        /\ o[2] = "async" \/ local = o[1] \/ o[1] < Length[r]
    <3>1. CASE o = <<local, "none">>
      BY <1>1, <2>3, <3>1
    <3>2. CASE /\ o \in (local + 1 .. Length[r]) \X LoadModes
               /\ o[2] = "sync" => o[1] < Length[r]
      <4>1. o[1] \in local + 1 .. Length[r] /\ o[2] \in LoadModes
        BY <3>2
      <4>2. o[2] = "async" \/ o[2] = "sync"
        BY <4>1, ConstantsAssumption
      <4> QED BY <1>1, <2>3, <3>2, <4>1, <4>2
    <3> QED BY <2>4, <3>1, <3>2
  <2>6. ASSUME NEW q \in Receiving, NEW b \in Target(q), b \in Range(c) PROVE FALSE
    <3>1. PICK i \in DOMAIN c : b = c[i]
      BY <2>6 DEF Range
    <3>2. i \in Nat \ {0}
      BY <2>2
    <3>3. cached[b] = {}
      BY TargetsApart
    <3> QED BY <2>2, <3>1, <3>2, <3>3, TokensHaveBlock
  <2>7. /\ look.tbl = c /\ look.local = local /\ look.total = o[1] /\ look.mode = o[2]
    BY <2>0 DEF local
  <2>8. look.local = Len(look.tbl) * BlockSize
    BY <2>7 DEF local
  <2>9. /\ look.local \in Nat /\ look.total \in Nat /\ look.local <= look.total
        /\ look.total <= Length[r]
        /\ look.mode = "async" => look.local < look.total
        /\ look.mode = "none" => look.local = look.total
        /\ look.mode = "async" \/ look.local = look.total \/ look.total < Length[r]
    BY <2>3, <2>5, <2>7
  <2> HIDE DEF Hits
  <2> QED BY <2>2, <2>6, <2>7, <2>8, <2>9
<1> QED BY <1>3, <1>4

\* What is admitted: a table with room for the tokens, of blocks that nobody fills.
LEMMA AdmittedTable ==
  ASSUME HeldInv, NEW r \in Req, status[r] \in {"WAITING", "PREEMPTED"}, NEW look \in Lookups(r),
         NEW fresh \in Fresh(Wanted(r, look), Range(look.tbl))
  PROVE  /\ NumNewWaiting(r, look) \in Nat /\ look.total + NumNewWaiting(r, look) \in Nat
         /\ look.total + NumNewWaiting(r, look) <= Length[r]
         /\ NumNewWaiting(r, look) <= budget
         /\ fresh \subseteq Free /\ fresh \subseteq Blocks /\ fresh \cap Range(look.tbl) = {}
         /\ Ordered(fresh) \in Seq(Blocks) /\ Range(Ordered(fresh)) = fresh
         /\ look.tbl \o Ordered(fresh) \in Seq(Blocks)
         /\ look.total + NumNewWaiting(r, look) <= Len(look.tbl \o Ordered(fresh)) * BlockSize
         /\ Range(look.tbl \o Ordered(fresh)) = Range(look.tbl) \cup fresh
         /\ Len(look.tbl \o Ordered(fresh)) = Len(look.tbl) + Len(Ordered(fresh))
<1> DEFINE new == NumNewWaiting(r, look)
           n == look.total + new
           more == Ordered(fresh)
<1>1. /\ look.tbl \in Seq(Blocks) /\ look.total \in Nat /\ look.total <= Length[r]
      /\ Length[r] \in Nat /\ budget \in Nat
  BY LookupIs, ConstantsAssumption DEF HeldInv, RemoteTypes
<1>2. new \in Nat /\ new <= budget /\ new <= Length[r] - look.total
  BY <1>1 DEF NumNewWaiting, Lesser
<1> HIDE DEF new
<1>3. n \in Nat /\ n <= Length[r]
  BY <1>1, <1>2
<1>4. Wanted(r, look) = Missing(look.tbl, n)
  BY DEF Wanted, new
<1> HIDE DEF n
<1>5. Missing(look.tbl, n) \in Nat /\ n <= (Len(look.tbl) + Missing(look.tbl, n)) * BlockSize
  BY <1>1, <1>3, RoomMade
<1>6. /\ fresh \subseteq Free \ Range(look.tbl) /\ fresh \subseteq Blocks /\ more \in Seq(Blocks)
      /\ Len(more) = Missing(look.tbl, n) /\ Range(more) = fresh
  <2>1. fresh \in Fresh(Missing(look.tbl, n), Range(look.tbl))
    BY <1>4
  <2> QED BY <1>5, <2>1, FreshIs
<1> HIDE DEF more
<1>7. /\ look.tbl \o more \in Seq(Blocks) /\ Len(look.tbl \o more) = Len(look.tbl) + Len(more)
      /\ Range(look.tbl \o more) = Range(look.tbl) \cup Range(more)
  BY <1>1, <1>6, TablesJoined
<1>8. n <= Len(look.tbl \o more) * BlockSize
  BY <1>5, <1>6, <1>7
<1> QED BY <1>2, <1>3, <1>6, <1>7, <1>8 DEF n, new, more

\* The blocks of an admission leave the transfers under way alone.
LEMMA AdmittedApart ==
  ASSUME HeldInv, NEW r \in Req, status[r] \in {"WAITING", "PREEMPTED"}, NEW look \in Lookups(r),
         NEW fresh \in Fresh(Wanted(r, look), Range(look.tbl)),
         table' = [table EXCEPT ![r] = look.tbl \o Ordered(fresh)],
         cached' = IF CacheNow(look.mode)
                   THEN CacheBlocks(Emptied(cached, fresh), r, table'[r],
                                    look.total + NumNewWaiting(r, look))
                   ELSE Emptied(cached, fresh),
         NEW q \in Receiving, NEW b \in Target(q)
  PROVE  cached'[b] = {} /\ \A p \in Req \ {q} : b \notin Range(table'[p])
<1> DEFINE n == look.total + NumNewWaiting(r, look)
           new_table == look.tbl \o Ordered(fresh)
<1>1. /\ n \in Nat /\ fresh \subseteq Free /\ new_table \in Seq(Blocks)
      /\ n <= Len(new_table) * BlockSize
      /\ Range(new_table) = Range(look.tbl) \cup fresh
  BY AdmittedTable
<1>2. table'[r] = new_table /\ \A p \in Req \ {r} : table'[p] = table[p]
  BY DEF HeldInv, RemoteTypes
<1>3. cached' = CacheBlocks(Emptied(cached, fresh), r, new_table, n) \/ cached' = Emptied(cached, fresh)
  BY <1>2
<1> HIDE DEF n, new_table
<1>4. /\ b \in Blocks /\ cached[b] = {} /\ b \in Range(table[q]) /\ q \in Req
      /\ \A p \in Req \ {q} : b \notin Range(table[p])
  BY TargetsApart
<1>5. b \notin fresh
  BY <1>1, <1>4 DEF Free
<1>6. b \notin Range(look.tbl)
  BY LookupIs
<1>7. b \notin Range(new_table)
  BY <1>1, <1>5, <1>6
<1>8. CacheBlocks(Emptied(cached, fresh), r, new_table, n)[b] = Emptied(cached, fresh)[b]
  <2> DEFINE map == Emptied(cached, fresh)
  <2> HIDE DEF map
  <2>1. \A m \in Nat, l \in Seq(Blocks) : m <= Len(l) * BlockSize /\ b \notin Range(l) =>
          CacheBlocks(map, r, l, m)[b] = map[b]
    BY <1>4, CachesOwn
  <2> QED BY <1>1, <1>7, <2>1 DEF map
<1>9. Emptied(cached, fresh)[b] = {}
  BY <1>4 DEF Emptied
<1>10. cached'[b] = {}
  BY <1>3, <1>8, <1>9
<1> QED BY <1>2, <1>4, <1>7, <1>10

\* The blocks a load of an admission fills are fresh.
LEMMA LoadIntoFresh ==
  ASSUME HeldInv, NEW r \in Req, status[r] \in {"WAITING", "PREEMPTED"}, NEW look \in Lookups(r),
         look.mode = "async", NEW fresh \in Fresh(Wanted(r, look), Range(look.tbl)),
         NEW pos \in look.local .. look.total - 1
  PROVE  (look.tbl \o Ordered(fresh))[pos \div BlockSize + 1] \in fresh
<1> DEFINE a == Len(look.tbl)
           more == Ordered(fresh)
           new_table == look.tbl \o more
           c == Len(more)
           i == pos \div BlockSize + 1
<1>1. /\ look.tbl \in Seq(Blocks) /\ look.total \in Nat /\ look.local \in Nat
      /\ look.local = a * BlockSize
  BY LookupIs
<1>2. /\ look.total + NumNewWaiting(r, look) <= Len(new_table) * BlockSize
      /\ more \in Seq(Blocks) /\ Range(more) = fresh /\ Len(new_table) = a + c
  BY AdmittedTable
<1>3. NumNewWaiting(r, look) = 0
  BY DEF NumNewWaiting
<1>4. a \in Nat /\ c \in Nat /\ DOMAIN more = 1 .. c /\ DOMAIN look.tbl = 1 .. a
  BY <1>1, <1>2
<1>5. \A k \in DOMAIN more : new_table[a + k] = more[k]
  <2>1. \A l, m \in Seq(Blocks) : \A k \in DOMAIN m : (l \o m)[Len(l) + k] = m[k]
    BY Joined
  <2> HIDE DEF more
  <2> QED BY <1>1, <1>2, <2>1
<1> HIDE DEF new_table, a, c, more
<1>6. look.total <= (a + c) * BlockSize
  BY <1>1, <1>2, <1>3
<1>7. pos \in Nat /\ a * BlockSize \in Int /\ (a + c) * BlockSize \in Int
  <2>1. pos \in Nat
    BY <1>1
  <2>2. BlockSize \in Nat /\ a + c \in Nat
    BY <1>4, ConstantsAssumption
  <2> DEFINE k == a + c
  <2> HIDE DEF k
  <2>3. a * BlockSize \in Int /\ k * BlockSize \in Int
    BY <1>4, <2>2 DEF k
  <2> QED BY <2>1, <2>3 DEF k
<1>8. pos < (a + c) * BlockSize /\ ~(pos < a * BlockSize)
  <2> DEFINE p == (a + c) * BlockSize
             o == a * BlockSize
  <2>1. p \in Int /\ o \in Int /\ look.total <= p /\ look.local = o
    BY <1>1, <1>6, <1>7
  <2> HIDE DEF p, o
  <2>2. pos < p /\ ~(pos < o)
    BY <1>1, <1>7, <2>1
  <2> QED BY <2>2 DEF p, o
<1>9. i \in Nat /\ i <= a + c /\ ~(i <= a)
  <2> DEFINE k == a + c
  <2>1. a \in Int /\ k \in Int /\ pos \in Nat
    BY <1>4, <1>7
  <2>2. pos < k * BlockSize /\ ~(pos < a * BlockSize)
    BY <1>8
  <2> HIDE DEF k
  <2>3. /\ pos \div BlockSize \in Nat
        /\ pos \div BlockSize + 1 <= k
        /\ ~(pos \div BlockSize + 1 <= a)
    BY <2>1, <2>2, BlockOf
  <2> QED BY <2>3 DEF k
<1> HIDE DEF i
<1>10. i - a \in 1 .. c /\ a + (i - a) = i
  BY <1>4, <1>9
<1>11. new_table[i] = more[i - a]
  BY <1>4, <1>5, <1>10
<1>12. more[i - a] \in fresh
  BY <1>2, <1>4, <1>10 DEF Range
<1> QED BY <1>11, <1>12 DEF i, new_table, more

\* What changes when a request is admitted to run in this step.
AdmittedNow(r, look, new) ==
  /\ status' = [status EXCEPT ![r] = "RUNNING"]
  /\ running' = Append(running, r)
  /\ sched' = [sched EXCEPT ![r] = new]
  /\ budget' = budget - new
  /\ step' = [step EXCEPT !.ext[r] = look.total - look.local]
  /\ UNCHANGED <<stepSkipped, load>>

\* What changes when it is left to wait for its KV.
AdmittedLater(r, look, tbl) ==
  /\ status' = [status EXCEPT ![r] = "WAITING_FOR_REMOTE_KVS"]
  /\ stepSkipped' = Append(stepSkipped, r)
  /\ load' = [load EXCEPT ![r] =
                [kind |-> "recv", tbl |-> tbl, from |-> look.local, to |-> look.total,
                 failed |-> {}]]
  /\ UNCHANGED <<running, sched, budget, step>>

\* What admitting a request does: to its table, to the cache, and to the state of the request,
\* which runs in this step, or waits for the transfer it starts.
LEMMA AdmitIs ==
  ASSUME Admit
  PROVE  /\ pc = "waiting" /\ Looking /\ Popped /\ status[HeadRequest] \in {"WAITING", "PREEMPTED"}
         /\ \E look \in Lookups(HeadRequest) :
            \E fresh \in Fresh(Wanted(HeadRequest, look), Range(look.tbl)) :
              /\ table' = [table EXCEPT ![HeadRequest] = look.tbl \o Ordered(fresh)]
              /\ kv' = Emptied(kv, fresh)
              /\ cached' = IF CacheNow(look.mode)
                           THEN CacheBlocks(Emptied(cached, fresh), HeadRequest, table'[HeadRequest],
                                            look.total + NumNewWaiting(HeadRequest, look))
                           ELSE Emptied(cached, fresh)
              /\ computed' = [computed EXCEPT ![HeadRequest] = look.total]
              /\ IF look.mode = "async"
                 THEN AdmittedLater(HeadRequest, look, table'[HeadRequest])
                 ELSE AdmittedNow(HeadRequest, look, NumNewWaiting(HeadRequest, look))
         /\ UNCHANGED <<recvVars, pc, idx, out>>
  BY DEF Admit, Looking, AdmittedLater, AdmittedNow

\* The WAITING loop admits a request.
LEMMA AdmitHeld ==
  ASSUME HeldInv, Admit
  PROVE  HeldInv'
<1> DEFINE r == HeadRequest
<1>1. /\ pc = "waiting" /\ Looking /\ Popped /\ status[r] \in {"WAITING", "PREEMPTED"}
      /\ UNCHANGED <<finishedRecving, pc, idx, out>>
  BY AdmitIs DEF recvVars
<1>2. PICK look \in Lookups(r) : \E fresh \in Fresh(Wanted(r, look), Range(look.tbl)) :
              /\ table' = [table EXCEPT ![r] = look.tbl \o Ordered(fresh)]
              /\ kv' = Emptied(kv, fresh)
              /\ cached' = IF CacheNow(look.mode)
                           THEN CacheBlocks(Emptied(cached, fresh), r, table'[r],
                                            look.total + NumNewWaiting(r, look))
                           ELSE Emptied(cached, fresh)
              /\ computed' = [computed EXCEPT ![r] = look.total]
              /\ IF look.mode = "async"
                 THEN AdmittedLater(r, look, table'[r])
                 ELSE AdmittedNow(r, look, NumNewWaiting(r, look))
  BY AdmitIs
<1>3. PICK fresh \in Fresh(Wanted(r, look), Range(look.tbl)) :
              /\ table' = [table EXCEPT ![r] = look.tbl \o Ordered(fresh)]
              /\ kv' = Emptied(kv, fresh)
              /\ cached' = IF CacheNow(look.mode)
                           THEN CacheBlocks(Emptied(cached, fresh), r, table'[r],
                                            look.total + NumNewWaiting(r, look))
                           ELSE Emptied(cached, fresh)
              /\ computed' = [computed EXCEPT ![r] = look.total]
              /\ IF look.mode = "async"
                 THEN AdmittedLater(r, look, table'[r])
                 ELSE AdmittedNow(r, look, NumNewWaiting(r, look))
  BY <1>2
<1>4. RemoteTypes /\ Phases /\ RunningOnce /\ WaitersSkipped
  BY DEF HeldInv
<1>5. /\ r \in Req /\ skipped' \in Seq(Req) /\ waiting' \in Seq(Req)
      /\ Range(skipped) \subseteq Range(skipped') \cup {r}
  BY <1>1, <1>4, HeadIs
<1> HIDE DEF r
<1>0. \A i \in DOMAIN running : running[i] \in Req /\ running[i] # r
  <2>1. running \in Seq(Req)
    BY <1>4 DEF RemoteTypes
  <2>2. \A i \in DOMAIN running : running[i] \in Req
    BY <2>1
  <2> QED BY <1>1, <1>4, <2>2 DEF RunningOnce
<1> DEFINE new == NumNewWaiting(r, look)
           new_table == look.tbl \o Ordered(fresh)
<1>6. /\ look.tbl \in Seq(Blocks) /\ look.total \in Nat /\ look.local \in Nat
      /\ look.local <= look.total /\ look.total <= Length[r]
  BY <1>1, <1>5, LookupIs
<1>7. /\ new \in Nat /\ look.total + new \in Nat /\ look.total + new <= Length[r]
      /\ new <= budget /\ new_table \in Seq(Blocks)
      /\ look.total + new <= Len(new_table) * BlockSize
      /\ fresh \subseteq Free /\ fresh \subseteq Blocks
  BY <1>1, <1>5, AdmittedTable
<1>8. look.mode = "async" => new = 0
  BY DEF NumNewWaiting
<1>9. \A pos \in look.local .. look.total - 1 :
        look.mode = "async" => new_table[pos \div BlockSize + 1] \in fresh
  BY <1>1, <1>5, LoadIntoFresh
<1> HIDE DEF new, new_table
<1>10. /\ TransferAccount(r) /\ r \notin Receiving \cup Giving \cup finishedRecving
       /\ Room(r) /\ sched[r] = 0 /\ load[r] \in {NoLoad} \cup Loads
  BY <1>1, <1>4, <1>5 DEF HeldInv, TransferAccount, Room, RemoteTypes
<1>11. /\ table' = [table EXCEPT ![r] = new_table] /\ table'[r] = new_table
       /\ computed' = [computed EXCEPT ![r] = look.total]
       /\ table' \in [Req -> Seq(Blocks)] /\ computed' \in [Req -> Nat]
  BY <1>3, <1>4, <1>5, <1>6, <1>7 DEF RemoteTypes, new_table
<1>12. ASSUME NEW q \in Receiving, NEW b \in Target(q)
       PROVE  cached'[b] = {} /\ \A p \in Req \ {q} : b \notin Range(table'[p])
  BY <1>1, <1>3, <1>5, AdmittedApart
<1>13. /\ status' \in [Req -> Status]
       /\ \A q \in Req \ {r} : status'[q] = status[q] /\ table'[q] = table[q]
                               /\ computed'[q] = computed[q]
       /\ status'[r] = IF look.mode = "async" THEN "WAITING_FOR_REMOTE_KVS" ELSE "RUNNING"
  <2>1. {"RUNNING", "WAITING_FOR_REMOTE_KVS"} \subseteq Status
    BY DEF Status, InQueues
  <2>2. status \in [Req -> Status] /\ table \in [Req -> Seq(Blocks)] /\ computed \in [Req -> Nat]
    BY <1>4 DEF RemoteTypes
  <2>3. \/ look.mode = "async" /\ status' = [status EXCEPT ![r] = "WAITING_FOR_REMOTE_KVS"]
        \/ look.mode # "async" /\ status' = [status EXCEPT ![r] = "RUNNING"]
    BY <1>3 DEF AdmittedLater, AdmittedNow
  <2> HIDE DEF Status
  <2> QED BY <1>5, <1>11, <2>1, <2>2, <2>3
<1>14. ASSUME NEW q \in Req, q # r, load'[q] = load[q] PROVE TransferAccount(q)'
  <2>1. TransferAccount(q) /\ q \notin out.recv \cup out.sent
    BY <1>1, <1>4 DEF HeldInv, Phases, NoOutput
  <2> QED BY <1>1, <1>12, <1>13, <1>14, <2>1, AccountKept
<1>15. CASE look.mode = "async"
  <2> DEFINE job == [kind |-> "recv", tbl |-> new_table, from |-> look.local, to |-> look.total,
                     failed |-> {}]
  <2>1. /\ stepSkipped' = Append(stepSkipped, r) /\ load' = [load EXCEPT ![r] = job]
        /\ UNCHANGED <<running, sched, budget, step>>
    BY <1>3, <1>11, <1>15 DEF AdmittedLater
  <2>2. job \in Loads
    BY <1>6, <1>7 DEF Loads
  <2>3. /\ load' \in [Req -> {NoLoad} \cup Loads] /\ load'[r] = job
        /\ \A q \in Req \ {r} : load'[q] = load[q]
    <3> HIDE DEF job, Loads
    <3> QED BY <1>4, <1>5, <2>1, <2>2 DEF RemoteTypes
  <2>4. stepSkipped' \in Seq(Req) /\ Range(stepSkipped') = Range(stepSkipped) \cup {r}
    BY <1>4, <1>5, <2>1, Appended DEF RemoteTypes
  <2>5. RemoteTypes'
    BY <1>1, <1>4, <1>5, <1>11, <1>13, <2>1, <2>3, <2>4 DEF RemoteTypes
  <2>6. Phases'
    BY <1>1, <1>4, <2>1 DEF Phases
  <2>7. RunningOnce'
    <3> QED BY <1>0, <1>1, <1>4, <1>13, <2>1 DEF RunningOnce
  <2>8. WaitersSkipped'
    BY <1>4, <1>5, <1>13, <2>4 DEF WaitersSkipped
  <2>9. ASSUME NEW q \in Req PROVE Room(q)'
    <3>1. Room(q) /\ step' = step /\ sched' = sched /\ pc' = pc /\ step.n[q] = 0
      BY <1>1, <1>4, <2>1 DEF HeldInv, Phases, NoStep
    <3>2. CASE q = r
      <4>1. /\ status'[q] = "WAITING_FOR_REMOTE_KVS" /\ computed'[q] = look.total
            /\ table'[q] = new_table /\ sched'[q] = 0
        BY <1>4, <1>5, <1>10, <1>11, <1>13, <1>15, <3>1, <3>2 DEF RemoteTypes
      <4>2. look.total + 0 <= Length[q] /\ look.total + 0 <= Len(new_table) * BlockSize
        BY <1>7, <1>8, <1>15, <3>2
      <4>3. /\ computed'[q] + sched'[q] <= Length[q]
            /\ computed'[q] + sched'[q] <= Len(table'[q]) * BlockSize
            /\ step'.n[q] <= computed'[q] /\ step'.n[q] = 0 /\ pc' # "worker"
        BY <1>1, <1>6, <3>1, <4>1, <4>2
      <4> QED BY <4>1, <4>3 DEF Room
    <3>3. CASE q # r
      BY <1>13, <3>1, <3>3 DEF Room
    <3> QED BY <3>2, <3>3
  <2>10. ASSUME NEW q \in Req, q = r PROVE TransferAccount(q)'
    <3>1. Target(q)' = {new_table[pos \div BlockSize + 1] : pos \in look.local .. look.total - 1}
      BY <2>3, <2>10 DEF Target
    <3>2. Target(q)' \subseteq fresh
      BY <1>9, <1>15, <3>1
    <3>3. ASSUME NEW b \in Target(q)'
          PROVE  cached'[b] = {} /\ \A p \in Req \ {q} : b \notin Range(table'[p])
      <4>1. b \in Blocks /\ b \in Free /\ b \in fresh
        BY <1>7, <3>2
      <4>2. cached' = Emptied(cached, fresh)
        BY <1>3, <1>15 DEF CacheNow
      <4> QED BY <1>13, <2>10, <4>1, <4>2 DEF Emptied, Free
    <3>4. look.total <= Len(new_table) * BlockSize
      <4>1. look.total + 0 = look.total
        BY <1>6
      <4> QED BY <1>7, <1>8, <1>15, <4>1
    <3>5. q \notin Giving' /\ q \notin finishedRecving'
      BY <1>1, <1>10, <2>3, <2>10 DEF Giving
    <3>6. q \notin out'.recv /\ q \notin out'.sent
      BY <1>1, <1>4 DEF Phases, NoOutput
    <3> HIDE DEF Target
    <3> QED BY <1>11, <1>13, <1>15, <2>3, <2>10, <3>3, <3>4, <3>5, <3>6 DEF TransferAccount
  <2>11. ASSUME NEW q \in Req PROVE TransferAccount(q)'
    <3>1. CASE q = r
      BY <2>10, <3>1
    <3>2. CASE q # r
      BY <1>14, <2>3, <3>2
    <3> QED BY <3>1, <3>2
  <2> QED BY <2>5, <2>6, <2>7, <2>8, <2>9, <2>11 DEF HeldInv
<1>16. CASE look.mode # "async"
  <2>1. /\ running' = Append(running, r) /\ sched' = [sched EXCEPT ![r] = new]
        /\ budget' = budget - new
        /\ step' = [step EXCEPT !.ext[r] = look.total - look.local]
        /\ UNCHANGED <<stepSkipped, load>>
    BY <1>3, <1>16 DEF AdmittedNow, new
  <2>2. /\ step'.n = step.n /\ step'.start = step.start /\ step'.tbl = step.tbl
        /\ step'.ext = [step.ext EXCEPT ![r] = look.total - look.local]
        /\ step' = [n |-> step'.n, start |-> step'.start, tbl |-> step'.tbl, ext |-> step'.ext,
                    bad |-> step'.bad]
    <3>1. step = [n |-> step.n, start |-> step.start, tbl |-> step.tbl, ext |-> step.ext,
                  bad |-> step.bad]
      BY <1>4 DEF RemoteTypes
    <3>2. step' = [n |-> step.n, start |-> step.start, tbl |-> step.tbl,
                   ext |-> [step.ext EXCEPT ![r] = look.total - look.local], bad |-> step.bad]
      BY <2>1, <3>1
    <3> QED BY <3>2
  <2>3. look.total - look.local \in Nat /\ look.total - look.local <= look.total
    BY <1>6
  <2>4. /\ step'.ext \in [Req -> Nat] /\ sched' \in [Req -> Nat] /\ budget' \in Nat
        /\ step'.ext[r] = look.total - look.local /\ sched'[r] = new
        /\ \A q \in Req \ {r} : step'.ext[q] = step.ext[q] /\ sched'[q] = sched[q]
    <3>1. step.ext \in [Req -> Nat] /\ sched \in [Req -> Nat] /\ budget \in Nat
      BY <1>4 DEF RemoteTypes
    <3>2. budget - new \in Nat
      BY <1>7, <3>1
    <3> QED BY <1>5, <1>7, <2>1, <2>2, <2>3, <3>1, <3>2
  <2>5. /\ running' \in Seq(Req) /\ Len(running') = Len(running) + 1
        /\ \A i \in 1 .. Len(running) : running'[i] = running[i]
        /\ running'[Len(running) + 1] = r
    BY <1>4, <1>5, <2>1, Appended DEF RemoteTypes
  <2>6. RemoteTypes'
    BY <1>1, <1>4, <1>5, <1>11, <1>13, <2>1, <2>2, <2>4, <2>5 DEF RemoteTypes
  <2>7. Phases'
    BY <1>1, <1>4, <2>1, <2>2 DEF Phases
  <2>8. RunningOnce'
    <3>1. /\ running \in Seq(Req) /\ Len(running) \in Nat /\ DOMAIN running = 1 .. Len(running)
          /\ DOMAIN running' = 1 .. Len(running) + 1
      BY <1>4, <2>5 DEF RemoteTypes
    <3>2. \A i \in DOMAIN running : running[i] \in Req /\ running[i] # r
      BY <1>0
    <3>3. \A i \in DOMAIN running' : i \in DOMAIN running \/ i = Len(running) + 1
      BY <3>1
    <3>4. \A i, j \in DOMAIN running' : running'[i] = running'[j] => i = j
      BY <1>4, <2>5, <3>1, <3>2, <3>3 DEF RunningOnce
    <3>5. \A i \in DOMAIN running' : status'[running'[i]] = "RUNNING"
      BY <1>4, <1>13, <1>16, <2>5, <3>1, <3>2, <3>3 DEF RunningOnce
    <3> QED BY <1>1, <3>4, <3>5 DEF RunningOnce
  <2>9. WaitersSkipped'
    BY <1>4, <1>5, <1>13, <1>16, <2>1 DEF WaitersSkipped
  <2>10. ASSUME NEW q \in Req PROVE Room(q)'
    <3>1. Room(q) /\ step'.n = step.n /\ pc' = pc /\ step.n[q] = 0
      BY <1>1, <1>4, <2>2 DEF HeldInv, Phases, NoStep
    <3>2. CASE q = r
      <4>1. /\ status'[q] = "RUNNING" /\ computed'[q] = look.total /\ table'[q] = new_table
            /\ sched'[q] = new /\ step'.ext[q] <= look.total
        BY <1>4, <1>5, <1>11, <1>13, <1>16, <2>3, <2>4, <3>2 DEF RemoteTypes
      <4>2. /\ computed'[q] + sched'[q] <= Length[q]
            /\ computed'[q] + sched'[q] <= Len(table'[q]) * BlockSize
            /\ step'.n[q] <= computed'[q] /\ step'.n[q] = 0 /\ pc' # "worker"
        BY <1>1, <1>6, <1>7, <3>1, <3>2, <4>1
      <4> QED BY <4>1, <4>2 DEF Room
    <3>3. CASE q # r
      BY <1>13, <2>4, <3>1, <3>3 DEF Room
    <3> QED BY <3>2, <3>3
  <2>11. ASSUME NEW q \in Req, q = r PROVE TransferAccount(q)'
    <3>1. q \notin Receiving' /\ q \notin Giving' /\ q \notin finishedRecving'
      BY <1>1, <1>10, <2>1, <2>11 DEF Receiving, Giving
    <3>2. q \notin out'.recv /\ q \notin out'.sent
      BY <1>1, <1>4 DEF Phases, NoOutput
    <3> QED BY <3>1, <3>2 DEF TransferAccount
  <2>12. ASSUME NEW q \in Req PROVE TransferAccount(q)'
    <3>1. CASE q = r
      BY <2>11, <3>1
    <3>2. CASE q # r
      BY <1>14, <2>1, <3>2
    <3> QED BY <3>1, <3>2
  <2> QED BY <2>6, <2>7, <2>8, <2>9, <2>10, <2>12 DEF HeldInv
<1> QED BY <1>15, <1>16

\* A transfer that goes on or ends, before the scheduler hears of it.
LEMMA TransferMovesHeld ==
  ASSUME HeldInv, pc = "worker", NEW r \in Req, load[r] \in Loads, load[r] # NoLoad,
         NEW job \in Loads, load' = [load EXCEPT ![r] = job],
         job.tbl = load[r].tbl, job.from = load[r].from, job.to = load[r].to,
         job.kind \in {"recv", "received"} <=> load[r].kind \in {"recv", "received"},
         r \in Receiving => job.failed \subseteq Target(r),
         UNCHANGED <<status, computed, table, queueVars, recvVars, cached, planVars, step, out>>
  PROVE  HeldInv'
<1>1. RemoteTypes'
  <2>1. load' \in [Req -> {NoLoad} \cup Loads]
    <3> HIDE DEF Loads
    <3> QED BY DEF HeldInv, RemoteTypes
  <2>2. UNCHANGED <<status, computed, table, running, waiting, skipped, stepSkipped, idx, budget,
                    sched, step>>
    BY DEF queueVars, planVars
  <2> QED BY <2>1, <2>2 DEF HeldInv, RemoteTypes
<1>2. Phases' /\ RunningOnce' /\ WaitersSkipped'
  BY DEF HeldInv, Phases, RunningOnce, WaitersSkipped, queueVars, planVars
<1>3. ASSUME NEW q \in Req PROVE Room(q)'
  BY DEF HeldInv, Room, planVars
<1>4. ASSUME NEW q \in Req PROVE TransferAccount(q)'
  <2>1. TransferAccount(q) /\ load \in [Req -> {NoLoad} \cup Loads]
        /\ UNCHANGED <<table, cached, status, finishedRecving, out>>
    BY DEF HeldInv, RemoteTypes, recvVars
  <2>2. CASE q = r
    <3>1. load'[q] = job
      <4> HIDE DEF Loads
      <4> QED BY <2>1, <2>2
    <3>2. Target(q)' = Target(q)
      BY <2>1, <2>2, <3>1 DEF Target
    <3>3. job.kind \in {"recv", "received", "send", "sent"}
          /\ load[q].kind \in {"recv", "received", "send", "sent"}
      BY <2>2 DEF Loads
    <3>4. (q \in Receiving' => q \in Receiving) /\ (q \in Giving' => q \in Giving)
      BY <2>2, <3>1, <3>3 DEF Receiving, Giving
    <3>5. q \notin out.recv /\ q \notin out.sent
      BY <2>1, <2>2 DEF TransferAccount
    <3> HIDE DEF Target, Receiving, Giving
    <3> QED BY <2>1, <2>2, <3>1, <3>2, <3>4, <3>5 DEF TransferAccount
  <2>3. CASE q # r
    <3>1. load'[q] = load[q]
      <4> HIDE DEF Loads
      <4> QED BY <2>1, <2>3
    <3> QED BY <2>1, <3>1, AccountKept DEF TransferAccount
  <2> QED BY <2>2, <2>3
<1> QED BY <1>1, <1>2, <1>3, <1>4 DEF HeldInv

\* A block of a transfer fails.
LEMMA BlockFailsHeld ==
  ASSUME HeldInv, NEW r \in Req, NEW b \in Blocks, BlockFails(r, b)
  PROVE  HeldInv'
<1> DEFINE job == [load[r] EXCEPT !.failed = @ \cup {b}]
<1>1. /\ pc = "worker" /\ r \in Loading /\ b \in Target(r)
      /\ load' = [load EXCEPT ![r] = job]
      /\ UNCHANGED <<status, computed, table, queueVars, recvVars, cached, planVars, step, out>>
  BY DEF BlockFails
<1>2. r \in Receiving /\ load[r] # NoLoad /\ load[r].kind = "recv"
  BY <1>1 DEF Loading, Receiving
<1>3. load[r] \in Loads
  BY <1>2, TargetsApart
<1>4. /\ job \in Loads /\ job.tbl = load[r].tbl /\ job.from = load[r].from /\ job.to = load[r].to
      /\ job.kind = load[r].kind /\ job.failed = load[r].failed \cup {b}
  BY <1>3 DEF Loads
<1>5. job.failed \subseteq Target(r)
  BY <1>1, <1>2, <1>4 DEF HeldInv, TransferAccount
<1> HIDE DEF job
<1> QED BY <1>1, <1>2, <1>3, <1>4, <1>5, TransferMovesHeld

\* A transfer ends.
LEMMA TransferEndsHeld ==
  ASSUME HeldInv, NEW r \in Req, TransferEnds(r)
  PROVE  HeldInv'
<1> DEFINE end == IF r \in Loading THEN "received" ELSE "sent"
           job == [load[r] EXCEPT !.kind = end]
<1>1. /\ pc = "worker" /\ r \in Loading \cup Sending
      /\ load' = [load EXCEPT ![r] = job]
      /\ UNCHANGED <<status, computed, table, queueVars, recvVars, cached, planVars, step, out>>
  BY DEF TransferEnds
<1>2. /\ load[r] # NoLoad /\ load[r].kind \in {"recv", "send"}
      /\ r \in Loading <=> load[r].kind = "recv"
  BY <1>1 DEF Loading, Sending
<1>3. load[r] \in Loads
  BY <1>2 DEF HeldInv, RemoteTypes
<1>4. end = IF load[r].kind = "recv" THEN "received" ELSE "sent"
  BY <1>2
<1> HIDE DEF end
<1>5. /\ job \in Loads /\ job.tbl = load[r].tbl /\ job.from = load[r].from /\ job.to = load[r].to
      /\ job.kind = end /\ job.failed = load[r].failed
  BY <1>3, <1>4 DEF Loads
<1>6. r \in Receiving => job.failed \subseteq Target(r)
  BY <1>5 DEF HeldInv, TransferAccount
<1>7. job.kind \in {"recv", "received"} <=> load[r].kind \in {"recv", "received"}
  BY <1>2, <1>4, <1>5
<1> HIDE DEF job
<1> QED BY <1>1, <1>2, <1>3, <1>5, <1>6, <1>7, TransferMovesHeld

\* The worker executes the step and reports the transfers that ended.
LEMMA ExecuteHeld ==
  ASSUME HeldInv, Execute
  PROVE  HeldInv'
<1>1. PICK lost \in SUBSET LoadedInStep :
       /\ step' = [step EXCEPT !.bad = WrongReaders(lost)]
       /\ out' = [invalid |-> errors \cup lost,
                  recv |-> {r \in Req : load[r] # NoLoad /\ load[r].kind = "received"},
                  sent |-> {r \in Req : load[r] # NoLoad /\ load[r].kind = "sent"}]
  BY DEF Execute
<1>2. /\ pc = "worker" /\ pc' = "update"
      /\ load' = [r \in Req |-> IF r \in out'.recv \cup out'.sent THEN NoLoad ELSE load[r]]
      /\ UNCHANGED <<status, computed, table, queueVars, finishedRecving, cached, idx, budget,
                     sched, stepSkipped>>
  BY DEF Execute, recvVars
<1>3. RemoteTypes /\ Phases
  BY DEF HeldInv
<1>4. /\ step'.n = step.n /\ step'.start = step.start /\ step'.tbl = step.tbl
      /\ step'.ext = step.ext
      /\ step' = [n |-> step'.n, start |-> step'.start, tbl |-> step'.tbl, ext |-> step'.ext,
                  bad |-> step'.bad]
  <2> DEFINE wrong == WrongReaders(lost)
  <2> HIDE DEF wrong
  <2>1. step' = [step EXCEPT !.bad = wrong]
    BY <1>1 DEF wrong
  <2>2. step = [n |-> step.n, start |-> step.start, tbl |-> step.tbl, ext |-> step.ext,
                bad |-> step.bad]
    BY <1>3 DEF RemoteTypes
  <2>3. step' = [n |-> step.n, start |-> step.start, tbl |-> step.tbl, ext |-> step.ext,
                 bad |-> wrong]
    BY <2>1, <2>2
  <2> QED BY <2>3
<1>5. RemoteTypes'
  <2>1. load' \in [Req -> {NoLoad} \cup Loads]
    <3> HIDE DEF Loads
    <3> QED BY <1>2, <1>3 DEF RemoteTypes
  <2>2. UNCHANGED <<running, waiting, skipped>>
    BY <1>2 DEF queueVars
  <2> QED BY <1>2, <1>3, <1>4, <2>1, <2>2 DEF RemoteTypes
<1>6. Phases'
  BY <1>2, <1>3 DEF Phases
<1>7. RunningOnce' /\ WaitersSkipped'
  BY <1>2 DEF HeldInv, RunningOnce, WaitersSkipped, queueVars
<1>8. ASSUME NEW q \in Req PROVE Room(q)'
  BY <1>2, <1>4 DEF HeldInv, Room
<1>9. ASSUME NEW q \in Req PROVE TransferAccount(q)'
  <2>1. TransferAccount(q) /\ out = NoOutput
    BY <1>2, <1>3 DEF HeldInv, Phases
  <2>2. /\ q \in out'.recv => q \in Receiving
        /\ q \in out'.sent => q \in Giving
        /\ load'[q] = IF q \in out'.recv \cup out'.sent THEN NoLoad ELSE load[q]
    BY <1>1, <1>2 DEF Receiving, Giving
  <2>3. CASE q \in out'.recv \cup out'.sent
    <3>1. load'[q] = NoLoad /\ q \notin Receiving' /\ q \notin Giving'
      BY <2>2, <2>3 DEF Receiving, Giving
    <3> HIDE DEF Receiving, Giving
    <3> QED BY <1>2, <2>1, <2>2, <3>1 DEF TransferAccount
  <2>4. CASE q \notin out'.recv \cup out'.sent
    <3>1. load'[q] = load[q]
      BY <2>2, <2>4
    <3>2. Target(q)' = Target(q)
      BY <3>1 DEF Target
    <3>3. (q \in Receiving' <=> q \in Receiving) /\ (q \in Giving' <=> q \in Giving)
      BY <3>1 DEF Receiving, Giving
    <3> HIDE DEF Receiving, Giving, Target
    <3> QED BY <1>2, <2>1, <2>4, <3>1, <3>2, <3>3 DEF TransferAccount
  <2> QED BY <2>3, <2>4
<1> QED BY <1>5, <1>6, <1>7, <1>8, <1>9 DEF HeldInv

\* The queues without the requests that have ended.
LEMMA QueuesWithout ==
  ASSUME RemoteTypes, RunningOnce, WaitersSkipped, NEW ended \in SUBSET Req,
         stepSkipped = <<>>, stepSkipped' = <<>>, pc' # "running",
         running' = Only(running, Req \ ended), waiting' = Only(waiting, Req \ ended),
         skipped' = Only(skipped, Req \ ended),
         \A q \in Req \ ended : status'[q] = status[q],
         \A q \in ended : status'[q] # "WAITING_FOR_REMOTE_KVS"
  PROVE  /\ running' \in Seq(Req) /\ waiting' \in Seq(Req) /\ skipped' \in Seq(Req)
         /\ RunningOnce' /\ WaitersSkipped'
<1>1. running \in Seq(Req) /\ waiting \in Seq(Req) /\ skipped \in Seq(Req)
  BY DEF RemoteTypes
<1>2. /\ running' \in Seq(Req) /\ waiting' \in Seq(Req) /\ skipped' \in Seq(Req)
      /\ Range(running') = Range(running) \cap (Req \ ended)
      /\ Range(skipped') = Range(skipped) \cap (Req \ ended)
      /\ (\A i, j \in DOMAIN running : running[i] = running[j] => i = j) =>
            \A i, j \in DOMAIN running' : running'[i] = running'[j] => i = j
  BY <1>1, OnlyIs
<1>3. \A i \in DOMAIN running' : status'[running'[i]] = "RUNNING"
  <2> TAKE i \in DOMAIN running'
  <2>1. running'[i] \in Range(running) \cap (Req \ ended)
    BY <1>2 DEF Range
  <2>2. PICK k \in DOMAIN running : running'[i] = running[k]
    BY <2>1 DEF Range
  <2> QED BY <2>1, <2>2 DEF RunningOnce
<1>4. RunningOnce'
  BY <1>2, <1>3 DEF RunningOnce
<1>5. WaitersSkipped'
  <2>1. Range(stepSkipped) = {}
    BY DEF Range
  <2>2. ASSUME NEW q \in Req, status'[q] = "WAITING_FOR_REMOTE_KVS" PROVE q \in Range(skipped')
    <3>1. q \in Req \ ended /\ status[q] = "WAITING_FOR_REMOTE_KVS"
      BY <2>2
    <3> QED BY <1>2, <2>1, <3>1 DEF WaitersSkipped
  <2> QED BY <2>2 DEF WaitersSkipped
<1> QED BY <1>2, <1>4, <1>5

\* A client aborts a request.
LEMMA FinishRequestHeld ==
  ASSUME HeldInv, NEW r \in Req, FinishRequest(r)
  PROVE  HeldInv'
<1> DEFINE held == IF HoldForRecv(r) THEN {r} ELSE {}
           end == IF HoldForRecv(r) THEN "HELD" ELSE "GONE"
<1>1. /\ pc \in {"idle", "update"} /\ status[r] \in InQueues
      /\ status' = [status EXCEPT ![r] = end]
      /\ table' = [q \in Req |-> IF q \in {r} \ held THEN <<>> ELSE table[q]]
      /\ running' = Only(running, Req \ {r}) /\ waiting' = Only(waiting, Req \ {r})
      /\ skipped' = Only(skipped, Req \ {r})
      /\ finishedRecving' = finishedRecving \ {r}
      /\ UNCHANGED <<computed, cached, planVars, step, out, load>>
  BY DEF FinishRequest, Freed, workerVars
<1>2. end \in {"HELD", "GONE"} /\ held \subseteq {r} /\ (r \in held <=> end = "HELD")
      /\ (r \in held <=> HoldForRecv(r))
  OBVIOUS
<1> HIDE DEF held, end
<1>3. RemoteTypes /\ Phases /\ RunningOnce /\ WaitersSkipped
  BY DEF HeldInv
<1>4. /\ status'[r] = end /\ \A q \in Req \ {r} : status'[q] = status[q] /\ table'[q] = table[q]
      /\ status' \in [Req -> Status]
      /\ table'[r] = (IF r \in held THEN table[r] ELSE <<>>)
      /\ table' \in [Req -> Seq(Blocks)]
  <2>1. end \in Status
    BY <1>2 DEF Status
  <2>2. status \in [Req -> Status] /\ table \in [Req -> Seq(Blocks)] /\ <<>> \in Seq(Blocks)
    BY <1>3 DEF RemoteTypes
  <2> HIDE DEF Status
  <2> QED BY <1>1, <2>1, <2>2
<1>5. UNCHANGED <<pc, idx, budget, sched, stepSkipped>> /\ stepSkipped = <<>> /\ sched = NoStep.n
  BY <1>1, <1>3 DEF Phases, planVars
<1>6. /\ running' \in Seq(Req) /\ waiting' \in Seq(Req) /\ skipped' \in Seq(Req)
      /\ RunningOnce' /\ WaitersSkipped'
  <2> DEFINE ended == {r}
  <2>1. /\ ended \in SUBSET Req /\ pc' # "running" /\ stepSkipped' = <<>>
        /\ \A q \in Req \ ended : status'[q] = status[q]
        /\ \A q \in ended : status'[q] # "WAITING_FOR_REMOTE_KVS"
    BY <1>1, <1>2, <1>4, <1>5
  <2>2. /\ running' = Only(running, Req \ ended) /\ waiting' = Only(waiting, Req \ ended)
        /\ skipped' = Only(skipped, Req \ ended)
    BY <1>1
  <2> HIDE DEF ended
  <2> QED BY <1>3, <1>5, <2>1, <2>2, QueuesWithout
<1>7. RemoteTypes'
  BY <1>1, <1>3, <1>4, <1>5, <1>6 DEF RemoteTypes
<1>8. Phases'
  BY <1>1, <1>3, <1>5 DEF Phases
<1>9. ASSUME NEW q \in Req PROVE Room(q)'
  <2>1. Room(q) /\ sched'[q] = 0 /\ pc' # "worker" /\ UNCHANGED <<computed, step, sched>>
    BY <1>1, <1>5 DEF HeldInv, NoStep
  <2>2. CASE q = r
    BY <1>2, <1>4, <2>1, <2>2 DEF Room, InQueues
  <2>3. CASE q # r
    BY <1>4, <2>1, <2>3 DEF Room
  <2> QED BY <2>2, <2>3
<1>10. ASSUME NEW q \in Req PROVE TransferAccount(q)'
  <2>1. TransferAccount(q)
    BY DEF HeldInv
  <2>2. \A p \in Req : Range(table'[p]) \subseteq Range(table[p])
    <3>1. Range(<<>>) = {}
      BY DEF Range
    <3> QED BY <1>4, <3>1
  <2>3. CASE q # r
    <3>1. q \in Receiving =>
            \A b \in Target(q) : cached'[b] = {} /\ \A p \in Req \ {q} : b \notin Range(table'[p])
      BY <1>1, <2>1, <2>2 DEF TransferAccount
    <3> QED BY <1>1, <1>4, <2>1, <2>3, <3>1, AccountKept
  <2>4. CASE q = r
    <3>1. Target(q)' = Target(q)
      BY <1>1 DEF Target
    <3>2. (q \in Receiving' <=> q \in Receiving) /\ (q \in Giving' <=> q \in Giving)
      BY <1>1 DEF Receiving, Giving
    <3>3. status[q] # "HELD" /\ status[q] # "GONE"
      BY <1>1, <2>4 DEF InQueues
    <3>4. q \notin Giving /\ q \notin out.sent /\ q \notin finishedRecving'
      BY <1>1, <2>1, <2>4, <3>3 DEF TransferAccount
    <3>5. q \in Receiving => status'[q] = "HELD" /\ table'[q] = table[q]
      BY <1>2, <1>4, <2>1, <2>4, <3>3 DEF TransferAccount, HoldForRecv
    <3>6. status'[q] \in {"HELD", "GONE"}
      BY <1>2, <1>4, <2>4
    <3> HIDE DEF Receiving, Giving, Target
    <3> QED BY <1>1, <2>1, <2>2, <3>1, <3>2, <3>4, <3>5, <3>6 DEF TransferAccount
  <2> QED BY <2>3, <2>4
<1> QED BY <1>6, <1>7, <1>8, <1>9, <1>10 DEF HeldInv

-----------------------------------------------------------------------------
(* What the loop of _update_requests_with_invalid_blocks does to a list.   *)

\* The requests it has been through.
Passed(list, k) == {list[i] : i \in 1 .. k}

\* No lost block is in two tables.
LostOnce ==
  \A b \in out.invalid : \A q, r \in Req : b \in Range(table[q]) /\ b \in Range(table[r]) => q = r

\* What the loop may be given: requests with room for what they have computed, and once
\* each unless the step has not computed anything for them.
Takable(list, counts) ==
  /\ list \in Seq(Req) /\ counts \in [Req -> Nat]
  /\ \A r \in Range(list) : step.n[r] <= counts[r] /\ counts[r] <= Len(table[r]) * BlockSize
  /\ \A i, j \in DOMAIN list : list[i] = list[j] /\ step.n[list[i]] # 0 => i = j

\* Computed tokens only go down, for the requests passed; what is left of these is in
\* no lost block.
CutRight(acc, list, counts, k) ==
  /\ acc = [computed |-> acc.computed, affected |-> acc.affected, marked |-> acc.marked,
            evict |-> acc.evict]
  /\ acc.computed \in [Req -> Nat]
  /\ \A r \in Req : acc.computed[r] <= counts[r]
  /\ \A r \in Req \ Passed(list, k) : acc.computed[r] = counts[r]
  /\ acc.affected \subseteq Range(list)
  /\ LostOnce =>
       /\ \A b \in acc.marked : \E q \in Passed(list, k) : b \in Range(table[q])
       /\ \A r \in Passed(list, k) : step.n[r] = 0 =>
            \A i \in 1 .. CeilDiv(acc.computed[r]) : table[r][i] \notin out.invalid

\* Where a request is cut: before its first lost block.
LEMMA CutAtIs ==
  ASSUME NEW r \in Req, NEW done \in Nat, NEW fresh \in SUBSET (1 .. CeilDiv(done)), fresh # {}
  PROVE  /\ CutAt(r, fresh) \in Nat /\ CutAt(r, fresh) <= done
         /\ \A i \in 1 .. CeilDiv(CutAt(r, fresh)) : i \in 1 .. CeilDiv(done) /\ i \notin fresh
<1> DEFINE first == CHOOSE i \in fresh : \A j \in fresh : i <= j
<1>1. BlockSize \in Nat \ {0} /\ CeilDiv(done) \in Nat
  BY ConstantsAssumption, BlocksFor
<1>2. fresh \subseteq Nat
  BY <1>1
<1>3. first \in fresh /\ \A j \in fresh : first <= j
  <2>1. \E i \in fresh : \A j \in fresh : i <= j
    BY <1>2, LeastNumber
  <2> QED BY <2>1
<1>4. CutAt(r, fresh) = first * BlockSize - BlockSize
  BY DEF CutAt
<1> HIDE DEF first
<1>5. first \in Nat \ {0} /\ first <= CeilDiv(done)
  BY <1>1, <1>3
<1> DEFINE cut == CutAt(r, fresh)
<1>6. cut = (first - 1) * BlockSize /\ cut \in Nat
  BY <1>1, <1>4, <1>5
<1> HIDE DEF cut
<1>7. cut < done
  <2>1. ~(CeilDiv(done) <= first - 1) /\ first - 1 \in Int
    BY <1>1, <1>5
  <2>2. ~(done <= (first - 1) * BlockSize)
    BY <2>1, BlocksFor
  <2> QED BY <1>6, <2>2
<1>8. CeilDiv(cut) \in Nat /\ CeilDiv(cut) <= first - 1
  <2>1. first - 1 \in Int /\ cut <= (first - 1) * BlockSize
    BY <1>5, <1>6
  <2> QED BY <1>6, <2>1, BlocksFor
<1>9. ASSUME NEW i \in 1 .. CeilDiv(cut) PROVE i \in 1 .. CeilDiv(done) /\ i \notin fresh
  <2>1. i \in Nat \ {0} /\ i < first /\ i <= CeilDiv(done)
    BY <1>1, <1>5, <1>8
  <2>2. i \notin fresh
    BY <1>3, <1>5, <2>1
  <2> QED BY <1>1, <2>1, <2>2
<1> QED BY <1>6, <1>7, <1>9 DEF cut

\* One request of the loop.
LEMMA InvalidateIs ==
  ASSUME RemoteTypes, NEW list, NEW counts, Takable(list, counts),
         NEW k \in Nat, k < Len(list), NEW acc, CutRight(acc, list, counts, k)
  PROVE  CutRight(Invalidate(acc, list[k + 1]), list, counts, k + 1)
<1> DEFINE r == list[k + 1]
           done == acc.computed[r] - step.n[r]
           failing == {i \in 1 .. CeilDiv(done) : table[r][i] \in out.invalid}
           fresh == {i \in failing : table[r][i] \notin acc.marked}
           new == Invalidate(acc, r)
           X == IF fresh = {} THEN done ELSE CutAt(r, fresh)
<1>1. /\ list \in Seq(Req) /\ k + 1 \in DOMAIN list /\ r \in Req /\ r \in Range(list)
      /\ DOMAIN list = 1 .. Len(list) /\ Len(list) \in Nat
  <2>1. list \in Seq(Req) /\ k + 1 \in DOMAIN list
    BY DEF Takable
  <2> QED BY <2>1 DEF Range
<1>2. /\ step.n[r] \in Nat /\ table[r] \in Seq(Blocks) /\ acc.computed \in [Req -> Nat]
      /\ counts[r] \in Nat /\ acc.computed[r] <= counts[r] /\ step.n[r] <= counts[r]
      /\ counts[r] <= Len(table[r]) * BlockSize
  BY <1>1 DEF RemoteTypes, CutRight, Takable
<1>3. Passed(list, k + 1) = Passed(list, k) \cup {r}
  <2>1. 1 .. k + 1 = (1 .. k) \cup {k + 1}
    OBVIOUS
  <2> QED BY <2>1 DEF Passed
<1>4. step.n[r] # 0 => r \notin Passed(list, k)
  <2> SUFFICES ASSUME step.n[r] # 0, NEW i \in 1 .. k, list[i] = r PROVE FALSE
    BY DEF Passed
  <2>1. i \in DOMAIN list /\ i # k + 1
    BY <1>1
  <2> QED BY <1>1, <2>1 DEF Takable
<1>5. done \in Nat /\ done <= acc.computed[r] /\ (step.n[r] = 0 => done = acc.computed[r])
  <2>1. acc.computed[r] \in Nat
    BY <1>1, <1>2
  <2>2. CASE step.n[r] = 0
    BY <2>1, <2>2
  <2>3. CASE step.n[r] # 0
    <3>1. acc.computed[r] = counts[r]
      BY <1>1, <1>4, <2>3 DEF CutRight
    <3> QED BY <1>2, <2>1, <2>3, <3>1
  <2> QED BY <2>2, <2>3
<1>6. new = IF failing = {} THEN acc
            ELSE [acc EXCEPT
                    !.affected = @ \cup {r},
                    !.marked   = @ \cup {table[r][i] : i \in fresh},
                    !.computed[r] = X,
                    !.evict = IF fresh = {} THEN @
                              ELSE @ \cup {table[r][i] : i \in CutAt(r, fresh) \div BlockSize + 1
                                                                .. Len(table[r])}]
  BY DEF Invalidate
<1>7. fresh \subseteq failing /\ fresh \in SUBSET (1 .. CeilDiv(done)) /\ failing \in SUBSET (1 .. CeilDiv(done))
  OBVIOUS
<1>8. \A i \in 1 .. CeilDiv(done) : i \in failing <=> table[r][i] \in out.invalid
  OBVIOUS
<1>9. \A i \in failing : i \in fresh \/ table[r][i] \in acc.marked
  OBVIOUS
<1> HIDE DEF done
<1>10. X \in Nat /\ X <= done
  <2> HIDE DEF fresh
  <2> QED BY <1>1, <1>5, <1>7, CutAtIs
<1>11. \A i \in 1 .. CeilDiv(done) : table[r][i] \in Range(table[r])
  <2>1. done <= Len(table[r]) * BlockSize
    <3> DEFINE p == Len(table[r]) * BlockSize
    <3>1. p \in Int
      BY <1>2, ConstantsAssumption
    <3>2. counts[r] <= p
      BY <1>2
    <3> HIDE DEF p
    <3>3. acc.computed[r] \in Nat
      BY <1>1, <1>2
    <3>4. done <= p
      BY <1>2, <1>5, <3>1, <3>2, <3>3
    <3> QED BY <3>4 DEF p
  <2>2. Len(table[r]) \in Nat /\ DOMAIN table[r] = 1 .. Len(table[r])
    BY <1>2
  <2>3. CeilDiv(done) \in Nat /\ CeilDiv(done) <= Len(table[r])
    <3>1. \A n \in Nat, m \in Int :
            CeilDiv(n) \in Nat /\ (CeilDiv(n) <= m <=> n <= m * BlockSize)
      BY BlocksFor
    <3>2. done \in Nat /\ Len(table[r]) \in Int
      BY <1>5, <2>2
    <3> QED BY <2>1, <3>1, <3>2, Zenon
  <2>4. \A i \in 1 .. CeilDiv(done) : i \in DOMAIN table[r]
    BY <2>2, <2>3
  <2> QED BY <2>4 DEF Range
<1> HIDE DEF r, failing, fresh, new, X
<1>12. CASE failing = {}
  <2>1. new = acc
    BY <1>6, <1>12
  <2>2. step.n[r] = 0 => \A i \in 1 .. CeilDiv(acc.computed[r]) : table[r][i] \notin out.invalid
    BY <1>5, <1>8, <1>12
  <2>3. Passed(list, k) \subseteq Passed(list, k + 1)
    BY <1>3
  <2>4. CutRight(acc, list, counts, k + 1)
    BY <1>3, <2>2, <2>3 DEF CutRight
  <2> QED BY <2>1, <2>4 DEF new, r
<1>13. CASE failing # {}
  <2> DEFINE more == {table[r][i] : i \in fresh}
             gone == IF fresh = {} THEN acc.evict
                     ELSE acc.evict \cup {table[r][i] : i \in CutAt(r, fresh) \div BlockSize + 1
                                                              .. Len(table[r])}
             counted == [acc.computed EXCEPT ![r] = X]
  <2>1. acc = [computed |-> acc.computed, affected |-> acc.affected, marked |-> acc.marked,
               evict |-> acc.evict]
    BY DEF CutRight
  <2>2. new = [acc EXCEPT !.affected = @ \cup {r}, !.marked = @ \cup more,
                          !.computed[r] = X, !.evict = gone]
    BY <1>6, <1>13, Zenon
  <2> HIDE DEF more, gone
  <2>3. new = [computed |-> counted, affected |-> acc.affected \cup {r},
               marked |-> acc.marked \cup more, evict |-> gone]
    BY <2>1, <2>2
  <2> HIDE DEF counted
  <2>4. /\ new.computed = counted /\ new.affected = acc.affected \cup {r}
        /\ new.marked = acc.marked \cup more
        /\ new = [computed |-> new.computed, affected |-> new.affected, marked |-> new.marked,
                  evict |-> new.evict]
    BY <2>3
  <2>5. /\ counted \in [Req -> Nat] /\ counted[r] = X
        /\ \A q \in Req \ {r} : counted[q] = acc.computed[q]
    BY <1>1, <1>2, <1>10 DEF counted
  <2>6. \A q \in Req : counted[q] <= counts[q]
    <3> TAKE q \in Req
    <3>1. acc.computed[q] <= counts[q] /\ acc.computed[q] \in Nat /\ counts[q] \in Nat
      BY <1>2 DEF CutRight, Takable
    <3>2. q = r => X <= acc.computed[q]
      BY <1>5, <1>10, <3>1
    <3> QED BY <1>10, <2>5, <3>1, <3>2
  <2>7. \A q \in Req \ Passed(list, k + 1) : counted[q] = counts[q]
    BY <1>3, <2>5 DEF CutRight
  <2>8. acc.affected \cup {r} \subseteq Range(list)
    BY <1>1 DEF CutRight
  <2>9. ASSUME LostOnce, NEW b \in acc.marked \cup more
        PROVE  \E q \in Passed(list, k + 1) : b \in Range(table[q])
    <3>1. CASE b \in acc.marked
      BY <1>3, <2>9, <3>1 DEF CutRight
    <3>2. CASE b \in more
      <4>1. b \in Range(table[r])
        BY <1>7, <1>11, <3>2 DEF more
      <4> QED BY <1>3, <4>1
    <3> QED BY <3>1, <3>2
  <2>10. ASSUME LostOnce, step.n[r] = 0 PROVE fresh = failing
    <3> SUFFICES ASSUME NEW i \in failing, table[r][i] \in acc.marked PROVE FALSE
      BY <1>7, <1>9
    <3>1. i \in 1 .. CeilDiv(done) /\ table[r][i] \in out.invalid /\ table[r][i] \in Range(table[r])
      BY <1>7, <1>8, <1>11
    <3>2. PICK q \in Passed(list, k) : table[r][i] \in Range(table[q])
      BY <2>10 DEF CutRight
    <3>3. q \in Req
      <4>1. \A j \in 1 .. k : j \in DOMAIN list
        BY <1>1
      <4>2. PICK j \in 1 .. k : q = list[j]
        BY DEF Passed
      <4> QED BY <1>1, <4>1, <4>2
    <3>4. q = r
      BY <1>1, <2>10, <3>1, <3>2, <3>3 DEF LostOnce
    <3>5. \A j \in 1 .. CeilDiv(acc.computed[r]) : table[r][j] \notin out.invalid
      BY <2>10, <3>2, <3>4 DEF CutRight
    <3> QED BY <1>5, <2>10, <3>1, <3>5
  <2>11. ASSUME LostOnce, NEW q \in Passed(list, k + 1), step.n[q] = 0,
                NEW i \in 1 .. CeilDiv(counted[q])
         PROVE  table[q][i] \notin out.invalid
    <3>1. CASE q = r
      <4>1. fresh = failing /\ fresh # {}
        BY <1>13, <2>10, <2>11, <3>1
      <4>2. X = CutAt(r, fresh)
        BY <4>1 DEF X
      <4>3. i \in 1 .. CeilDiv(done) /\ i \notin fresh
        BY <1>1, <1>5, <1>7, <2>5, <2>11, <3>1, <4>1, <4>2, CutAtIs
      <4> QED BY <1>8, <3>1, <4>1, <4>3
    <3>2. CASE q # r
      <4>1. q \in Passed(list, k) /\ counted[q] = acc.computed[q]
        <5>1. q \in Passed(list, k)
          BY <1>3, <2>11, <3>2
        <5>2. PICK j \in 1 .. k : q = list[j]
          BY <5>1 DEF Passed
        <5>3. q \in Req
          BY <1>1, <5>2
        <5> QED BY <2>5, <3>2, <5>1, <5>3
      <4> QED BY <2>11, <4>1 DEF CutRight
    <3> QED BY <3>1, <3>2
  <2>12. CutRight(new, list, counts, k + 1)
    BY <2>4, <2>5, <2>6, <2>7, <2>8, <2>9, <2>11 DEF CutRight
  <2> QED BY <2>12 DEF new, r
<1> QED BY <1>12, <1>13

\* f is the loop over the first n of a list.
LoopTo(f, list, counts, n) ==
  f = [k \in 0 .. n |->
         IF k = 0 THEN [computed |-> counts, affected |-> {}, marked |-> {}, evict |-> {}]
         ELSE Invalidate(f[k - 1], list[k])]

\* There is such a function.
LEMMA LoopExists ==
  ASSUME NEW list, NEW counts, NEW L \in Nat
  PROVE  \E f : LoopTo(f, list, counts, L)
<1> DEFINE T == {n \in 0 .. L : ~ \E f : LoopTo(f, list, counts, n)}
           first == [computed |-> counts, affected |-> {}, marked |-> {}, evict |-> {}]
<1>0. L \in 0 .. L
  OBVIOUS
<1> SUFFICES ASSUME T # {} PROVE FALSE
  BY <1>0
<1>1. PICK n \in T : \A m \in T : n <= m
  <2> T \subseteq Nat
    OBVIOUS
  <2> HIDE DEF T
  <2> QED BY LeastNumber
<1> HIDE DEF first
<1>2. CASE n = 0
  <2> DEFINE f == [i \in 0 .. 0 |-> first]
  <2>1. f = [i \in 0 .. 0 |-> IF i = 0 THEN first ELSE Invalidate(f[i - 1], list[i])]
    OBVIOUS
  <2>2. LoopTo(f, list, counts, 0)
    BY <2>1 DEF LoopTo, first
  <2> QED BY <1>1, <1>2, <2>2
<1>3. CASE n # 0
  <2>1. n - 1 \in 0 .. L /\ n - 1 \notin T
    BY <1>1, <1>3
  <2>2. PICK f : LoopTo(f, list, counts, n - 1)
    BY <2>1
  <2> DEFINE g == [i \in 0 .. n |-> IF i = n THEN Invalidate(f[n - 1], list[n]) ELSE f[i]]
  <2>3. \A i \in 0 .. n : g[i] = IF i = 0 THEN first ELSE Invalidate(g[i - 1], list[i])
    <3>1. \A i \in 0 .. n - 1 : f[i] = IF i = 0 THEN first ELSE Invalidate(f[i - 1], list[i])
      BY <2>2 DEF LoopTo, first
    <3> TAKE i \in 0 .. n
    <3>2. n \in Nat \ {0}
      BY <1>1, <1>3
    <3>3. CASE i = n
      <4>1. i - 1 \in 0 .. n /\ i - 1 # n /\ i # 0 /\ n - 1 = i - 1
        BY <3>2, <3>3
      <4>2. g[i - 1] = f[i - 1] /\ g[i] = Invalidate(f[n - 1], list[n])
        BY <3>3, <4>1
      <4> QED BY <3>3, <4>1, <4>2
    <3>4. CASE i # n /\ i # 0
      <4>1. i \in 0 .. n - 1 /\ i - 1 \in 0 .. n /\ i - 1 # n
        BY <3>2, <3>4
      <4>2. g[i] = f[i] /\ g[i - 1] = f[i - 1]
        BY <3>4, <4>1
      <4> QED BY <3>1, <3>4, <4>1, <4>2
    <3>5. CASE i # n /\ i = 0
      <4>1. i \in 0 .. n - 1 /\ g[i] = f[i]
        BY <3>2, <3>5
      <4> QED BY <3>1, <3>5, <4>1
    <3> QED BY <3>3, <3>4, <3>5
  <2>4. g = [i \in 0 .. n |-> IF i = 0 THEN first ELSE Invalidate(g[i - 1], list[i])]
    <3> HIDE DEF g
    <3>1. g = [i \in 0 .. n |-> g[i]]
      BY DEF g
    <3> QED BY <2>3, <3>1
  <2>5. LoopTo(g, list, counts, n)
    <3> HIDE DEF g
    <3> QED BY <2>4 DEF LoopTo, first
  <2> QED BY <1>1, <2>5
<1> QED BY <1>2, <1>3

\* What the loop makes of the computed tokens.
LEMMA InvalidatedIs ==
  ASSUME RemoteTypes, NEW list, NEW counts, Takable(list, counts)
  PROVE  CutRight(Invalidated(list, counts), list, counts, Len(list))
<1> DEFINE L == Len(list)
           after == CHOOSE f : LoopTo(f, list, counts, L)
<1>1. L \in Nat
  BY DEF Takable
<1>2. Invalidated(list, counts) = after[L]
  BY DEF Invalidated, LoopTo
<1>3. LoopTo(after, list, counts, L)
  <2>1. \E f : LoopTo(f, list, counts, L)
    BY <1>1, LoopExists
  <2> QED BY <2>1
<1> HIDE DEF after
<1> DEFINE T == {n \in 0 .. L : ~CutRight(after[n], list, counts, n)}
<1>4. T = {}
  <2> SUFFICES ASSUME T # {} PROVE FALSE
    OBVIOUS
  <2>1. PICK n \in T : \A m \in T : n <= m
    <3> T \subseteq Nat
      OBVIOUS
    <3> HIDE DEF T
    <3> QED BY LeastNumber
  <2>2. CASE n = 0
    <3>1. after[0] = [computed |-> counts, affected |-> {}, marked |-> {}, evict |-> {}]
      BY <1>1, <1>3 DEF LoopTo
    <3>2. Passed(list, 0) = {}
      BY DEF Passed
    <3>3. counts \in [Req -> Nat]
      BY DEF Takable
    <3>4. CutRight(after[0], list, counts, 0)
      BY <3>1, <3>2, <3>3 DEF CutRight
    <3> QED BY <2>1, <2>2, <3>4
  <2>3. CASE n # 0
    <3> DEFINE k == n - 1
    <3>1. k \in Nat /\ k < L /\ k \in 0 .. L /\ k + 1 = n /\ k \notin T
      BY <1>1, <2>1, <2>3
    <3>2. after[n] = Invalidate(after[k], list[n])
      BY <1>1, <1>3, <2>1, <2>3 DEF LoopTo
    <3>3. CutRight(after[k], list, counts, k)
      BY <3>1
    <3> HIDE DEF k
    <3>4. CutRight(Invalidate(after[k], list[k + 1]), list, counts, k + 1)
      BY <3>1, <3>3, InvalidateIs
    <3> QED BY <2>1, <3>1, <3>2, <3>4
  <2> QED BY <2>2, <2>3
<1>5. CutRight(after[L], list, counts, L)
  BY <1>1, <1>4
<1> QED BY <1>2, <1>5

-----------------------------------------------------------------------------
(* The output of a step.                                                   *)

\* The requests and the accounts of update_from_output.
Waiters == Only(skipped, {r \in Req : status[r] = "WAITING_FOR_REMOTE_KVS"})
AsyncCut == Invalidated(Waiters, computed)
SyncCut == Invalidated(running, AsyncCut.computed)
Failed == AsyncCut.affected \cup SyncCut.affected
Stopped == {r \in {q \in Req : step.n[q] # 0 /\ status[q] = "RUNNING"} \ Failed :
              computed[r] = Length[r]}
Ended == Stopped \cup (IF policy = "fail" THEN Failed ELSE {})
Held(sends) == ({r \in Ended : HoldForRecv(r)} \cup sends) \ out.recv
Gone(sends) == (Ended \ Held(sends)) \cup Released

\* What the scheduler makes of the output of a step, account by account.
LEMMA UpdateIs ==
  ASSUME UpdateFromOutput
  PROVE  /\ pc = "update" /\ pc' = "idle" /\ step' = NoStep /\ out' = NoOutput
         /\ UNCHANGED <<idx, budget, sched, stepSkipped, errors, kv, syncFailed>>
         /\ \E sends \in SUBSET Stopped :
              /\ computed' = SyncCut.computed
              /\ status' = [r \in Req |-> IF r \in Gone(sends) THEN "GONE"
                                          ELSE IF r \in Held(sends) THEN "HELD" ELSE status[r]]
              /\ table' = [r \in Req |-> IF r \in (Ended \cup Released) \ Held(sends) THEN <<>>
                                         ELSE table[r]]
              /\ running' = Only(running, Req \ (Ended \cup Released))
              /\ waiting' = Only(waiting, Req \ (Ended \cup Released))
              /\ skipped' = Only(skipped, Req \ (Ended \cup Released))
              /\ load' = [r \in Req |->
                   IF r \in sends
                   THEN [kind |-> "send", tbl |-> table[r], from |-> 0, to |-> Length[r],
                         failed |-> {}]
                   ELSE load[r]]
              /\ finishedRecving' =
                   (finishedRecving \ Ended)
                     \cup {r \in out.recv \ Ended : status[r] = "WAITING_FOR_REMOTE_KVS"}
              /\ cached' \in {cached, Emptied(cached, SyncCut.evict)}
              /\ badOutputs' = badOutputs \cup (Stopped \cap step.bad)
  BY ZenonT(60)
     DEF UpdateFromOutput, Waiters, AsyncCut, SyncCut, Failed, Stopped, Ended, Held, Gone, Freed

\* At the end of its list the loop has passed all of it.
LEMMA AllPassed ==
  ASSUME NEW list \in Seq(Req)
  PROVE  Passed(list, Len(list)) = Range(list)
<1>1. DOMAIN list = 1 .. Len(list)
  OBVIOUS
<1> QED BY <1>1 DEF Passed, Range

\* Both passes of the loop do right.
LEMMA CutsRight ==
  ASSUME HeldInv, pc = "update"
  PROVE  /\ Waiters \in Seq(Req) /\ running \in Seq(Req)
         /\ Range(Waiters) = {r \in Range(skipped) : status[r] = "WAITING_FOR_REMOTE_KVS"}
         /\ \A r \in Range(running) : r \in Req /\ status[r] = "RUNNING"
         /\ CutRight(AsyncCut, Waiters, computed, Len(Waiters))
         /\ CutRight(SyncCut, running, AsyncCut.computed, Len(running))
<1> DEFINE W == {r \in Req : status[r] = "WAITING_FOR_REMOTE_KVS"}
<1>1. RemoteTypes /\ RunningOnce /\ Phases /\ \A r \in Req : Room(r)
  BY DEF HeldInv
<1>2. skipped \in Seq(Req) /\ running \in Seq(Req)
  BY <1>1 DEF RemoteTypes
<1>3. Waiters \in Seq(Req) /\ Range(Waiters) = Range(skipped) \cap W
  <2> HIDE DEF W
  <2>1. Only(skipped, W) \in Seq(Req) /\ Range(Only(skipped, W)) = Range(skipped) \cap W
    BY <1>2, OnlyIs
  <2> QED BY <2>1 DEF Waiters, W
<1>4. \A r \in Range(skipped) : r \in Req
  BY <1>2 DEF Range
<1>5. \A r \in Range(running) : r \in Req /\ status[r] = "RUNNING"
  BY <1>1, <1>2 DEF Range, RunningOnce
<1>6. ASSUME NEW r \in Req, status[r] \in {"WAITING_FOR_REMOTE_KVS", "RUNNING"}
      PROVE  /\ step.n[r] <= computed[r] /\ computed[r] <= Len(table[r]) * BlockSize
             /\ step.n[r] # 0 => status[r] = "RUNNING"
  <2>1. sched[r] = 0 /\ computed[r] \in Nat
    BY <1>1 DEF Phases, NoStep, RemoteTypes
  <2>2. computed[r] + 0 <= Len(table[r]) * BlockSize /\ step.n[r] <= computed[r]
        /\ (step.n[r] # 0 => status[r] = "RUNNING")
    BY <1>1, <1>6, <2>1 DEF Room, InQueues
  <2>3. computed[r] + 0 = computed[r]
    BY <2>1
  <2> QED BY <2>2, <2>3
<1>7. computed \in [Req -> Nat]
  BY <1>1 DEF RemoteTypes
<1>8. Takable(Waiters, computed)
  <2>1. \A r \in Range(Waiters) : r \in Req /\ status[r] = "WAITING_FOR_REMOTE_KVS"
    BY <1>3
  <2>2. \A r \in Range(Waiters) : step.n[r] <= computed[r] /\ computed[r] <= Len(table[r]) * BlockSize
    BY <1>6, <2>1
  <2>3. \A i \in DOMAIN Waiters : Waiters[i] \in Range(Waiters)
    BY DEF Range
  <2>4. \A i \in DOMAIN Waiters : ~(step.n[Waiters[i]] # 0)
    BY <1>6, <2>1, <2>3
  <2> QED BY <1>3, <1>7, <2>2, <2>4 DEF Takable
<1>9. CutRight(AsyncCut, Waiters, computed, Len(Waiters))
  BY <1>1, <1>8, InvalidatedIs DEF AsyncCut
<1>10. \A r \in Range(running) : AsyncCut.computed[r] = computed[r]
  <2> TAKE r \in Range(running)
  <2>1. r \notin Passed(Waiters, Len(Waiters))
    BY <1>3, <1>5, AllPassed
  <2> QED BY <1>5, <1>9, <2>1 DEF CutRight
<1>11. Takable(running, AsyncCut.computed)
  <2>1. AsyncCut.computed \in [Req -> Nat]
    BY <1>9 DEF CutRight
  <2>2. \A r \in Range(running) : /\ step.n[r] <= AsyncCut.computed[r]
                                 /\ AsyncCut.computed[r] <= Len(table[r]) * BlockSize
    BY <1>5, <1>6, <1>10
  <2> QED BY <1>1, <1>2, <2>1, <2>2 DEF Takable, RunningOnce
<1>12. CutRight(SyncCut, running, AsyncCut.computed, Len(running))
  BY <1>1, <1>11, InvalidatedIs DEF SyncCut
<1> QED BY <1>2, <1>3, <1>4, <1>5, <1>9, <1>12

\* Who ends, who keeps blocks and whose blocks come back.
LEMMA EndsRight ==
  ASSUME HeldInv, pc = "update"
  PROVE  /\ Ended \subseteq Req /\ Released \cap Req \subseteq {r \in Req : status[r] = "HELD"}
         /\ \A r \in Ended : status[r] \in {"WAITING_FOR_REMOTE_KVS", "RUNNING"}
         /\ \A r \in Stopped : /\ r \in Ended /\ status[r] = "RUNNING"
                               /\ Length[r] <= Len(table[r]) * BlockSize
         /\ \A r \in Released \cap Req : load[r] = NoLoad
         /\ SyncCut.computed \in [Req -> Nat]
         /\ \A r \in Req : SyncCut.computed[r] <= computed[r]
<1>1. /\ \A r \in Range(Waiters) : r \in Range(skipped) /\ status[r] = "WAITING_FOR_REMOTE_KVS"
      /\ \A r \in Range(running) : r \in Req /\ status[r] = "RUNNING"
      /\ CutRight(AsyncCut, Waiters, computed, Len(Waiters))
      /\ CutRight(SyncCut, running, AsyncCut.computed, Len(running))
  BY CutsRight
<1>2. \A r \in Range(skipped) : r \in Req
  BY DEF HeldInv, RemoteTypes, Range
<1>3. \A r \in Failed : r \in Req /\ status[r] \in {"WAITING_FOR_REMOTE_KVS", "RUNNING"}
  BY <1>1, <1>2 DEF Failed, CutRight
<1>4. \A r \in Stopped : r \in Req /\ status[r] = "RUNNING" /\ computed[r] = Length[r]
  BY DEF Stopped
<1>5. ASSUME NEW r \in Stopped PROVE Length[r] <= Len(table[r]) * BlockSize
  <2>1. sched[r] = 0 /\ computed[r] \in Nat /\ Room(r)
    BY <1>4 DEF HeldInv, Phases, NoStep, RemoteTypes
  <2>2. computed[r] + 0 <= Len(table[r]) * BlockSize
    BY <1>4, <2>1 DEF Room, InQueues
  <2>3. computed[r] + 0 = Length[r]
    BY <1>4, <2>1
  <2> QED BY <2>2, <2>3
<1>6. \A r \in Req : TransferAccount(r)
  BY DEF HeldInv
<1>7. \A r \in Released \cap Req : status[r] = "HELD" /\ load[r] = NoLoad
  BY <1>6 DEF Released, TransferAccount
<1>8. /\ SyncCut.computed \in [Req -> Nat]
      /\ \A r \in Req : SyncCut.computed[r] <= computed[r]
  <2>1. /\ SyncCut.computed \in [Req -> Nat] /\ AsyncCut.computed \in [Req -> Nat]
        /\ computed \in [Req -> Nat]
        /\ \A r \in Req : SyncCut.computed[r] <= AsyncCut.computed[r]
        /\ \A r \in Req : AsyncCut.computed[r] <= computed[r]
    BY <1>1 DEF CutRight, HeldInv, RemoteTypes
  <2>2. \A r \in Req : SyncCut.computed[r] <= computed[r]
    <3> TAKE r \in Req
    <3> DEFINE x == SyncCut.computed[r]
               y == AsyncCut.computed[r]
               z == computed[r]
    <3>1. x \in Nat /\ y \in Nat /\ z \in Nat /\ x <= y /\ y <= z
      BY <2>1
    <3> HIDE DEF x, y, z
    <3>2. x <= z
      BY <3>1
    <3> QED BY <3>2 DEF x, z
  <2> QED BY <2>1, <2>2
<1> QED BY <1>3, <1>4, <1>5, <1>7, <1>8 DEF Ended

\* The scheduler takes the output of a step, with the failed loads.
LEMMA UpdateHeld ==
  ASSUME HeldInv, UpdateFromOutput
  PROVE  HeldInv'
<1>1. /\ pc = "update" /\ pc' = "idle" /\ step' = NoStep /\ out' = NoOutput
      /\ UNCHANGED <<idx, budget, sched, stepSkipped, errors, kv, syncFailed>>
  BY UpdateIs
<1>2. PICK sends \in SUBSET Stopped :
              /\ computed' = SyncCut.computed
              /\ status' = [r \in Req |-> IF r \in Gone(sends) THEN "GONE"
                                          ELSE IF r \in Held(sends) THEN "HELD" ELSE status[r]]
              /\ table' = [r \in Req |-> IF r \in (Ended \cup Released) \ Held(sends) THEN <<>>
                                         ELSE table[r]]
              /\ running' = Only(running, Req \ (Ended \cup Released))
              /\ waiting' = Only(waiting, Req \ (Ended \cup Released))
              /\ skipped' = Only(skipped, Req \ (Ended \cup Released))
              /\ load' = [r \in Req |->
                   IF r \in sends
                   THEN [kind |-> "send", tbl |-> table[r], from |-> 0, to |-> Length[r],
                         failed |-> {}]
                   ELSE load[r]]
              /\ finishedRecving' =
                   (finishedRecving \ Ended)
                     \cup {r \in out.recv \ Ended : status[r] = "WAITING_FOR_REMOTE_KVS"}
              /\ cached' \in {cached, Emptied(cached, SyncCut.evict)}
  BY UpdateIs
<1>3. RemoteTypes /\ Phases /\ RunningOnce /\ WaitersSkipped
  BY DEF HeldInv
<1>4. /\ Ended \subseteq Req /\ \A r \in Released \cap Req : status[r] = "HELD" /\ load[r] = NoLoad
      /\ \A r \in Ended : status[r] \in {"WAITING_FOR_REMOTE_KVS", "RUNNING"}
      /\ \A r \in Stopped : /\ r \in Ended /\ status[r] = "RUNNING"
                            /\ Length[r] <= Len(table[r]) * BlockSize
      /\ SyncCut.computed \in [Req -> Nat]
      /\ \A r \in Req : SyncCut.computed[r] <= computed[r]
  <2>1. Released \cap Req \subseteq {r \in Req : status[r] = "HELD"}
    BY <1>1, EndsRight
  <2> QED BY <1>1, <2>1, EndsRight
<1>5. sched = NoStep.n /\ stepSkipped = <<>>
  BY <1>1, <1>3 DEF Phases
<1>6. /\ \A r \in Held(sends) : r \in Ended /\ r \notin out.recv
      /\ \A r \in Ended : r \in Held(sends) <=> r \notin Gone(sends)
      /\ \A r \in Req : r \in Gone(sends) <=> r \in (Ended \cup Released) \ Held(sends)
  <2>1. \A r \in Held(sends) : r \in Ended /\ r \notin out.recv
    BY <1>4 DEF Held
  <2>2. \A r \in Ended : r \notin Released
    BY <1>4
  <2> QED BY <2>1, <2>2 DEF Gone
<1> DEFINE away == (Ended \cup Released) \cap Req
<1>7. /\ \A r \in Req \ away : status'[r] = status[r] /\ table'[r] = table[r]
      /\ \A r \in away : status'[r] \in {"GONE", "HELD"}
      /\ \A r \in Held(sends) : status'[r] = "HELD" /\ table'[r] = table[r]
      /\ \A r \in Req : table'[r] \in {table[r], <<>>}
  <2>1. \A r \in Req : status'[r] = (IF r \in Gone(sends) THEN "GONE"
                                     ELSE IF r \in Held(sends) THEN "HELD" ELSE status[r])
    BY <1>2
  <2>2. \A r \in Req : table'[r] = (IF r \in (Ended \cup Released) \ Held(sends) THEN <<>>
                                    ELSE table[r])
    BY <1>2
  <2> QED BY <1>4, <1>6, <2>1, <2>2
<1>8. /\ status' \in [Req -> Status] /\ table' \in [Req -> Seq(Blocks)]
  <2>1. status \in [Req -> Status] /\ table \in [Req -> Seq(Blocks)] /\ <<>> \in Seq(Blocks)
        /\ {"GONE", "HELD"} \subseteq Status
    BY <1>3 DEF RemoteTypes, Status
  <2> HIDE DEF Status
  <2> QED BY <1>2, <2>1
<1>9. /\ running' \in Seq(Req) /\ waiting' \in Seq(Req) /\ skipped' \in Seq(Req)
      /\ RunningOnce' /\ WaitersSkipped'
  <2>1. Req \ (Ended \cup Released) = Req \ away
    OBVIOUS
  <2>2. /\ running' = Only(running, Req \ away) /\ waiting' = Only(waiting, Req \ away)
        /\ skipped' = Only(skipped, Req \ away)
    BY <1>2, <2>1
  <2>3. away \in SUBSET Req /\ \A q \in away : status'[q] # "WAITING_FOR_REMOTE_KVS"
    BY <1>7
  <2> HIDE DEF away
  <2> QED BY <1>1, <1>3, <1>5, <1>7, <2>2, <2>3, QueuesWithout
<1>10. load' \in [Req -> {NoLoad} \cup Loads]
  <2>1. load \in [Req -> {NoLoad} \cup Loads] /\ table \in [Req -> Seq(Blocks)]
    BY <1>3 DEF RemoteTypes
  <2>2. \A r \in Req : [kind |-> "send", tbl |-> table[r], from |-> 0, to |-> Length[r],
                        failed |-> {}] \in Loads
    BY <2>1, ConstantsAssumption DEF Loads
  <2> HIDE DEF Loads
  <2> QED BY <1>2, <2>1, <2>2
<1>11. RemoteTypes'
  <2>1. NoStep.n \in [Req -> Nat] /\ NoStep.start \in [Req -> Nat] /\ NoStep.ext \in [Req -> Nat]
        /\ NoStep = [n |-> NoStep.n, start |-> NoStep.start, tbl |-> NoStep.tbl,
                     ext |-> NoStep.ext, bad |-> NoStep.bad]
    BY DEF NoStep
  <2> QED BY <1>1, <1>2, <1>3, <1>4, <1>8, <1>9, <1>10, <2>1 DEF RemoteTypes
<1>12. Phases'
  BY <1>1, <1>5 DEF Phases
<1>13. ASSUME NEW q \in Req PROVE Room(q)'
  <2>1. Room(q) /\ sched'[q] = 0 /\ sched[q] = 0 /\ step'.n[q] = 0 /\ pc' # "worker"
    BY <1>1, <1>5 DEF HeldInv, NoStep
  <2>2. /\ computed'[q] \in Nat /\ computed[q] \in Nat /\ computed'[q] <= computed[q]
    BY <1>2, <1>3, <1>4 DEF RemoteTypes
  <2>3. CASE q \in away
    BY <1>7, <2>1, <2>3 DEF Room, InQueues
  <2>4. CASE q \notin away
    <3>1. status'[q] = status[q] /\ table'[q] = table[q]
      BY <1>7, <2>4
    <3>2. status[q] \in InQueues \cup {"ABSENT"} =>
             /\ computed'[q] + sched'[q] <= Length[q]
             /\ computed'[q] + sched'[q] <= Len(table'[q]) * BlockSize
      <4> DEFINE l == Length[q]
                 p == Len(table[q]) * BlockSize
      <4> SUFFICES ASSUME status[q] \in InQueues \cup {"ABSENT"}
                   PROVE  computed'[q] + sched'[q] <= l /\ computed'[q] + sched'[q] <= p
        BY <3>1
      <4>1. table[q] \in Seq(Blocks)
        BY <1>3 DEF RemoteTypes
      <4>2. l \in Int /\ p \in Int
        BY <4>1, ConstantsAssumption
      <4>3. computed[q] + 0 <= l /\ computed[q] + 0 <= p
        BY <2>1 DEF Room
      <4> HIDE DEF l, p
      <4> QED BY <2>1, <2>2, <4>2, <4>3
    <3>3. step'.n[q] <= computed'[q]
      BY <2>1, <2>2
    <3>4. status[q] = "ABSENT" => computed'[q] = 0
      <4>1. status[q] = "ABSENT" => computed[q] = 0
        BY <2>1 DEF Room
      <4> QED BY <2>2, <4>1
    <3> QED BY <2>1, <3>1, <3>2, <3>3, <3>4 DEF Room
  <2> QED BY <2>3, <2>4
<1>14. ASSUME NEW q \in Req PROVE TransferAccount(q)'
  <2>1. TransferAccount(q) /\ q \notin out'.recv /\ q \notin out'.sent
    BY <1>1 DEF HeldInv, NoOutput
  <2>2. q \in finishedRecving' => status'[q] = "WAITING_FOR_REMOTE_KVS"
    <3> SUFFICES ASSUME q \in finishedRecving' PROVE status'[q] = "WAITING_FOR_REMOTE_KVS"
      OBVIOUS
    <3>1. q \notin Ended /\ status[q] = "WAITING_FOR_REMOTE_KVS"
      BY <1>2, <2>1 DEF TransferAccount
    <3>2. q \notin Released
      BY <1>4, <3>1
    <3> QED BY <1>7, <3>1, <3>2
  <2>3. CASE q \in sends
    <3>1. status[q] = "RUNNING" /\ q \in Ended /\ Length[q] <= Len(table[q]) * BlockSize
      BY <1>4, <2>3
    <3>2. q \in Held(sends)
      BY <2>1, <2>3, <3>1 DEF TransferAccount, Held
    <3>3. load'[q] = [kind |-> "send", tbl |-> table[q], from |-> 0, to |-> Length[q],
                      failed |-> {}]
      BY <1>2, <2>3
    <3>4. q \notin Receiving'
      BY <3>3 DEF Receiving
    <3>5. load'[q].tbl = table'[q] /\ load'[q].to <= Len(table'[q]) * BlockSize
      BY <1>7, <3>1, <3>2, <3>3
    <3> QED BY <1>7, <2>1, <2>2, <3>2, <3>4, <3>5 DEF TransferAccount
  <2>4. CASE q \notin sends
    <3>1. load'[q] = load[q]
      BY <1>2, <2>4
    <3>2. Target(q)' = Target(q)
      BY <3>1 DEF Target
    <3>3. (q \in Receiving' <=> q \in Receiving) /\ (q \in Giving' <=> q \in Giving)
      BY <3>1 DEF Receiving, Giving
    <3>4. q \in Receiving \cup Giving => load[q] # NoLoad
      BY DEF Receiving, Giving
    <3> HIDE DEF Receiving, Giving, Target
    <3>5. q \in Receiving =>
            /\ status'[q] \in {"WAITING_FOR_REMOTE_KVS", "HELD"} /\ table'[q] = table[q]
            /\ q \notin finishedRecving'
      <4> SUFFICES ASSUME q \in Receiving
                   PROVE  /\ status'[q] \in {"WAITING_FOR_REMOTE_KVS", "HELD"}
                          /\ table'[q] = table[q] /\ q \notin finishedRecving'
        OBVIOUS
      <4>1. /\ status[q] \in {"WAITING_FOR_REMOTE_KVS", "HELD"} /\ q \notin finishedRecving
            /\ q \notin out.recv /\ q \notin Released
        BY <1>4, <2>1, <3>4 DEF TransferAccount
      <4>2. CASE q \in Ended
        <5>1. HoldForRecv(q)
          BY <1>4, <4>1, <4>2 DEF HoldForRecv
        <5>2. q \in Held(sends)
          BY <4>1, <4>2, <5>1 DEF Held
        <5> QED BY <1>2, <1>7, <4>1, <5>2
      <4>3. CASE q \notin Ended
        BY <1>2, <1>7, <4>1, <4>3
      <4> QED BY <4>2, <4>3
    <3>6. q \in Giving => status'[q] = "HELD" /\ table'[q] = table[q]
      <4> SUFFICES ASSUME q \in Giving PROVE status'[q] = "HELD" /\ table'[q] = table[q]
        OBVIOUS
      <4>1. status[q] = "HELD" /\ q \notin Released
        BY <1>4, <2>1, <3>4 DEF TransferAccount
      <4> QED BY <1>4, <1>7, <4>1
    <3>7. ASSUME q \in Receiving, NEW b \in Target(q)
          PROVE  cached'[b] = {} /\ \A p \in Req \ {q} : b \notin Range(table'[p])
      <4>1. /\ b \in Blocks /\ cached[b] = {}
            /\ \A p \in Req \ {q} : b \notin Range(table[p])
        BY <3>7, TargetsApart
      <4>2. cached'[b] = {}
        BY <1>2, <4>1 DEF Emptied
      <4>3. Range(<<>>) = {}
        BY DEF Range
      <4> QED BY <1>7, <4>1, <4>2, <4>3
    <3> QED BY <2>1, <2>2, <3>1, <3>2, <3>3, <3>5, <3>6, <3>7 DEF TransferAccount
  <2> QED BY <2>3, <2>4
<1> QED BY <1>9, <1>11, <1>12, <1>13, <1>14 DEF HeldInv

-----------------------------------------------------------------------------
\* Nothing happens.
LEMMA StutterHeld ==
  ASSUME HeldInv, UNCHANGED vars
  PROVE  HeldInv'
<1>1. UNCHANGED <<status, computed, table, running, waiting, skipped, stepSkipped, idx, budget,
                  sched, step, load, pc, out, cached, finishedRecving>>
  BY DEF vars, queueVars, recvVars, planVars, workerVars
<1>2. RemoteTypes' /\ Phases' /\ RunningOnce' /\ WaitersSkipped'
  BY <1>1 DEF HeldInv, RemoteTypes, Phases, RunningOnce, WaitersSkipped
<1>3. ASSUME NEW q \in Req PROVE Room(q)'
  BY <1>1 DEF HeldInv, Room
<1>4. ASSUME NEW q \in Req PROVE TransferAccount(q)'
  BY <1>1, AccountKept DEF HeldInv, TransferAccount
<1> QED BY <1>2, <1>3, <1>4 DEF HeldInv

\* The tables, queues and transfers stay as the invariant says.
THEOREM RemoteInvariant == Spec => []HeldInv
<1>1. Init => HeldInv
  BY InitHeld
<1>2. HeldInv /\ [Next]_vars => HeldInv'
  <2> SUFFICES ASSUME HeldInv, [Next]_vars PROVE HeldInv'
    OBVIOUS
  <2>1. CASE \E r \in Req : AddRequest(r)
    BY <2>1, AddRequestHeld
  <2>2. CASE \E r \in Req : FinishRequest(r)
    BY <2>2, FinishRequestHeld
  <2>3. CASE BeginSchedule \/ EndRunning \/ EndWaiting
    BY <2>3, TurnHeld
  <2>4. CASE ScheduleRunning
    BY <2>4, ScheduleRunningHeld
  <2>5. CASE PreemptFor
    BY <2>5, PreemptForHeld
  <2>6. CASE SkipWaiting
    BY <2>6, SkipWaitingHeld
  <2>7. CASE Promote
    BY <2>7, PromoteHeld
  <2>8. CASE Admit
    BY <2>8, AdmitHeld
  <2>9. CASE Commit
    BY <2>9, CommitHeld
  <2>10. CASE \E r \in Req, b \in Blocks : BlockFails(r, b)
    BY <2>10, BlockFailsHeld
  <2>11. CASE \E r \in Req : TransferEnds(r)
    BY <2>11, TransferEndsHeld
  <2>12. CASE Execute
    BY <2>12, ExecuteHeld
  <2>13. CASE UpdateFromOutput
    BY <2>13, UpdateHeld
  <2>14. CASE UNCHANGED vars
    BY <2>14, StutterHeld
  <2> QED BY <2>1, <2>2, <2>3, <2>4, <2>5, <2>6, <2>7, <2>8, <2>9, <2>10, <2>11, <2>12, <2>13,
             <2>14 DEF Next, Scheduling
<1> QED BY <1>1, <1>2, PTL DEF Spec

\* TransferTargetsHeld for every number of requests and blocks.
THEOREM TransfersKept == Spec => []TransferTargetsHeld
<1>1. HeldInv => TransferTargetsHeld
  <2> SUFFICES ASSUME HeldInv, NEW r \in Loading \cup Sending
               PROVE  /\ Target(r) \subseteq Range(table[r])
                      /\ r \in Loading => \A q \in Req \ {r} : Target(r) \cap Range(table[q]) = {}
    BY DEF TransferTargetsHeld
  <2>1. r \in Req /\ load[r] # NoLoad /\ TransferAccount(r) /\ RemoteTypes
    BY DEF HeldInv, Loading, Sending
  <2>2. load[r] \in Loads /\ table[r] \in Seq(Blocks)
    BY <2>1 DEF RemoteTypes
  <2>3. (r \in Loading => r \in Receiving) /\ (r \in Sending => r \in Giving)
    BY DEF Loading, Sending, Receiving, Giving
  <2>4. load[r].tbl = table[r] /\ load[r].to <= Len(table[r]) * BlockSize
    BY <2>1, <2>3 DEF TransferAccount
  <2>5. Target(r) \subseteq Range(table[r])
    BY <2>1, <2>2, <2>4, TargetOwned
  <2>6. r \in Loading => \A q \in Req \ {r} : Target(r) \cap Range(table[q]) = {}
    BY <2>1, <2>3 DEF TransferAccount
  <2> QED BY <2>5, <2>6
<1> QED BY <1>1, RemoteInvariant, PTL

-----------------------------------------------------------------------------
(* What the blocks hold.                                                   *)

\* The step that is planned or under way computes tokens of r, ...
InStep(r) == IF pc = "worker" THEN step.n[r] # 0 ELSE sched[r] # 0

\* ... and writes the KV of these positions, those it loads included.
ComingFrom(r) == computed[r] - step.ext[r] - (IF pc = "worker" THEN step.n[r] ELSE 0)
ComingTo(r) == computed[r] + sched[r]

Coming(r, b) ==
  IF InStep(r) THEN Written(r, table[r], b, ComingFrom(r), ComingTo(r)) ELSE {}

\* What the blocks hold after that step, if no load in it fails.
AfterThisStep == [b \in Blocks |-> kv[b] \cup UNION {Coming(r, b) : r \in Req}]

\* The block of a position.
Place(r, pos) == table[r][pos \div BlockSize + 1]

There(r, pos) == <<Prompt[r], pos>> \in AfterThisStep[Place(r, pos)]

\* A block has failed and the scheduler has not heard, or the position is still loaded.
Waited(r, pos) ==
  \/ Place(r, pos) \in errors \cup out.invalid
  \/ /\ r \in Receiving /\ load[r].kind = "recv"
     /\ load[r].from <= pos /\ pos < load[r].to /\ Place(r, pos) \notin load[r].failed

\* What a request has computed is in its blocks, unless it waits and will hear of it.
ComputedThere(r) ==
  status[r] \in InQueues \cup {"ABSENT"} =>
    \A pos \in 0 .. computed[r] + sched[r] - 1 :
      There(r, pos) \/ (status[r] = "WAITING_FOR_REMOTE_KVS" /\ Waited(r, pos))

\* Failed blocks are of transfers the scheduler believes in, then of one table.
LossesKnown ==
  /\ pc # "worker" => errors = {}
  /\ \A b \in errors : \E r \in Receiving : b \in load[r].failed
  /\ LostOnce

CacheTrue == \A b \in Blocks : cached[b] \subseteq AfterThisStep[b]

DataInv ==
  /\ LossesKnown
  /\ \A r \in Req : ComputedThere(r)
  /\ CacheTrue
  /\ pc = "update" => step.bad = {}
  /\ badOutputs = {}

-----------------------------------------------------------------------------
(* Positions and their blocks.                                             *)

\* A position a request has computed, or will in this step, has a block of its own.
LEMMA PlaceIs ==
  ASSUME HeldInv, NEW r \in Req, status[r] \in InQueues \cup {"ABSENT"},
         NEW pos \in 0 .. computed[r] + sched[r] - 1
  PROVE  /\ pos \in Nat /\ pos \div BlockSize + 1 \in DOMAIN table[r]
         /\ Place(r, pos) \in Range(table[r]) /\ Place(r, pos) \in Blocks
<1> DEFINE l == Len(table[r])
           s == l * BlockSize
<1>1. /\ computed[r] \in Nat /\ sched[r] \in Nat /\ table[r] \in Seq(Blocks)
      /\ computed[r] + sched[r] <= s
  BY DEF HeldInv, RemoteTypes, Room
<1>2. l \in Nat /\ DOMAIN table[r] = 1 .. l /\ \A i \in 1 .. l : table[r][i] \in Blocks
  BY <1>1
<1> HIDE DEF l
<1>3. s \in Int
  BY <1>2, ConstantsAssumption
<1> HIDE DEF s
<1>4. pos \in Nat /\ pos < s
  BY <1>1, <1>3
<1>5. pos \div BlockSize \in Nat /\ pos \div BlockSize + 1 <= l
  BY <1>2, <1>4, BlockOf DEF s
<1>6. pos \div BlockSize + 1 \in 1 .. l
  BY <1>2, <1>5
<1> QED BY <1>2, <1>4, <1>6 DEF Place, Range

\* What a step writes for a request.
LEMMA ComingIs ==
  ASSUME NEW r \in Req, InStep(r), NEW pos \in ComingFrom(r) .. ComingTo(r) - 1,
         Place(r, pos) \in Blocks
  PROVE  There(r, pos)
<1>1. <<Prompt[r], pos>> \in Coming(r, Place(r, pos))
  BY DEF Coming, Written, Place
<1> HIDE DEF Coming, Place
<1> QED BY <1>1 DEF There, AfterThisStep

\* What blocks hold after the step stays, when the step writes what it would and
\* the blocks hold what they held.
LEMMA AfterGrows ==
  ASSUME NEW b \in Blocks, kv[b] \subseteq kv'[b],
         \A q \in Req : Coming(q, b) \subseteq Coming(q, b)'
  PROVE  AfterThisStep[b] \subseteq AfterThisStep'[b]
<1> HIDE DEF Coming
<1> QED BY DEF AfterThisStep

\* A request the step writes the same for.
LEMMA ComingKept ==
  ASSUME NEW q \in Req,
         InStep(q) => InStep(q)' /\ table'[q] = table[q] /\ ComingFrom(q)' = ComingFrom(q)
                      /\ ComingTo(q)' = ComingTo(q)
  PROVE  \A b : Coming(q, b) \subseteq Coming(q, b)'
<1> HIDE DEF InStep, ComingFrom, ComingTo
<1> QED BY DEF Coming, Written

\* What was there is still there.
LEMMA StillThere ==
  ASSUME HeldInv, NEW q \in Req, ComputedThere(q),
         status'[q] \in InQueues \cup {"ABSENT"} => status'[q] = status[q],
         status'[q] \in InQueues \cup {"ABSENT"} => table'[q] = table[q],
         computed'[q] \in Nat, sched'[q] \in Nat,
         computed'[q] + sched'[q] <= computed[q] + sched[q],
         \A b \in Range(table[q]) : AfterThisStep[b] \subseteq AfterThisStep'[b],
         \A pos \in 0 .. computed'[q] + sched'[q] - 1 :
           status[q] = "WAITING_FOR_REMOTE_KVS" /\ Waited(q, pos) => Waited(q, pos)' \/ There(q, pos)'
  PROVE  ComputedThere(q)'
<1> SUFFICES ASSUME status'[q] \in InQueues \cup {"ABSENT"},
                    NEW pos \in 0 .. computed'[q] + sched'[q] - 1
             PROVE  There(q, pos)' \/ (status'[q] = "WAITING_FOR_REMOTE_KVS" /\ Waited(q, pos)')
  BY DEF ComputedThere
<1>1. computed[q] \in Nat /\ sched[q] \in Nat
  BY DEF HeldInv, RemoteTypes
<1>2. pos \in 0 .. computed[q] + sched[q] - 1
  BY <1>1
<1>3. status'[q] = status[q] /\ table'[q] = table[q] /\ Place(q, pos)' = Place(q, pos)
  BY DEF Place
<1>4. Place(q, pos) \in Range(table[q])
  BY <1>2, <1>3, PlaceIs
<1>5. There(q, pos) => There(q, pos)'
  BY <1>3, <1>4 DEF There
<1> HIDE DEF There, Waited
<1> QED BY <1>2, <1>3, <1>5 DEF ComputedThere

\* Tokens that are waited for are waited for still.
LEMMA StillWaited ==
  ASSUME NEW q \in Req, load'[q] = load[q], table'[q] = table[q], errors \subseteq errors', out' = out,
         NEW pos, Waited(q, pos)
  PROVE  Waited(q, pos)'
  BY DEF Waited, Place, Receiving

\* Caching the full blocks of a request whose tokens are there names what is there.
LEMMA CachedThere ==
  ASSUME NEW map, NEW r \in Req, NEW tbl \in Seq(Blocks), NEW n \in Nat,
         n <= Len(tbl) * BlockSize, NEW holds, NEW b \in Blocks, map[b] \subseteq holds[b],
         \A pos \in 0 .. n - 1 : <<Prompt[r], pos>> \in holds[tbl[pos \div BlockSize + 1]]
  PROVE  CacheBlocks(map, r, tbl, n)[b] \subseteq holds[b]
<1> DEFINE Full(i) == i \in 1 .. n \div BlockSize /\ tbl[i] = b
           place == CHOOSE i \in 1 .. n \div BlockSize : tbl[i] = b
<1>1. CASE \E i \in 1 .. n \div BlockSize : tbl[i] = b
  <2>1. place \in 1 .. n \div BlockSize /\ tbl[place] = b
    BY <1>1
  <2>2. CacheBlocks(map, r, tbl, n)[b] = TokensOf(r, place)
    BY <1>1 DEF CacheBlocks
  <2> HIDE DEF place
  <2>3. n \div BlockSize \in Nat /\ place \in Nat \ {0} /\ place * BlockSize <= n
    BY <2>1, FullBlocks
  <2> SUFFICES ASSUME NEW pos \in (place - 1) * BlockSize .. place * BlockSize - 1
               PROVE  <<Prompt[r], pos>> \in holds[b]
    BY <2>2 DEF TokensOf
  <2>4. pos \in Nat /\ pos \div BlockSize + 1 = place
    BY <2>3, PositionsOfBlock
  <2> DEFINE p == place * BlockSize
  <2>5. p \in Int /\ p <= n
    BY <2>3, ConstantsAssumption
  <2>6. pos <= p - 1
    <3>1. (place - 1) * BlockSize \in Int
      BY <2>3, ConstantsAssumption
    <3> QED BY <2>5, <3>1
  <2> HIDE DEF p
  <2>7. pos \in 0 .. n - 1
    BY <2>4, <2>5, <2>6
  <2> QED BY <2>1, <2>4, <2>7
<1>2. CASE ~(\E i \in 1 .. n \div BlockSize : tbl[i] = b)
  BY <1>2 DEF CacheBlocks
<1> QED BY <1>1, <1>2

\* Without a worker at work, and no output to take, no failed block is on record.
LEMMA NoLossYet ==
  ASSUME HeldInv, DataInv, pc \notin {"worker", "update"}
  PROVE  errors = {} /\ out = NoOutput /\ out.invalid = {}
  BY DEF HeldInv, Phases, DataInv, LossesKnown, NoOutput

\* The steps of schedule() after which there is no loss on record either.
LEMMA LossesStill ==
  ASSUME HeldInv, DataInv, pc \notin {"worker", "update"}, errors' = errors, out' = out
  PROVE  LossesKnown'
<1>1. errors' = {} /\ out'.invalid = {}
  BY NoLossYet
<1> QED BY <1>1 DEF LossesKnown, LostOnce

-----------------------------------------------------------------------------
(* The steps keep the data invariant.                                      *)

\* A table is of blocks.
LEMMA TableBlocks ==
  ASSUME HeldInv, NEW r \in Req
  PROVE  /\ Range(table[r]) \subseteq Blocks
         /\ computed[r] \in Nat /\ sched[r] \in Nat /\ table[r] \in Seq(Blocks)
<1>1. table[r] \in Seq(Blocks) /\ computed[r] \in Nat /\ sched[r] \in Nat
  BY DEF HeldInv, RemoteTypes
<1> QED BY <1>1 DEF Range

\* Nothing was computed for it, or there is nothing left of it.
LEMMA NothingThere ==
  ASSUME NEW r \in Req, computed[r] = 0, sched[r] = 0
  PROVE  ComputedThere(r)
<1>1. 0 .. computed[r] + sched[r] - 1 = {}
  OBVIOUS
<1> QED BY <1>1 DEF ComputedThere

\* Steps that move requests but no data.
LEMMA QuietData ==
  ASSUME HeldInv, HeldInv', DataInv, LossesKnown',
         UNCHANGED <<kv, cached, load, errors, out, badOutputs>>,
         pc' = "update" => pc = "update" /\ step' = step,
         \A q \in Req :
           /\ InStep(q) => InStep(q)' /\ table'[q] = table[q] /\ ComingFrom(q)' = ComingFrom(q)
                           /\ ComingTo(q)' = ComingTo(q)
           /\ \/ computed'[q] = 0 /\ sched'[q] = 0
              \/ /\ status'[q] \in InQueues \cup {"ABSENT"} =>
                      status'[q] = status[q] /\ table'[q] = table[q]
                 /\ computed'[q] + sched'[q] <= computed[q] + sched[q]
  PROVE  DataInv'
<1> HIDE DEF InStep, ComingFrom, ComingTo
<1>1. ASSUME NEW b \in Blocks PROVE AfterThisStep[b] \subseteq AfterThisStep'[b]
  <2>1. \A q \in Req : Coming(q, b) \subseteq Coming(q, b)'
    BY ComingKept
  <2> QED BY <2>1, AfterGrows
<1>2. ASSUME NEW q \in Req PROVE ComputedThere(q)'
  <2>1. CASE computed'[q] = 0 /\ sched'[q] = 0
    <3>1. 0 .. computed'[q] + sched'[q] - 1 = {}
      BY <2>1
    <3> QED BY <3>1 DEF ComputedThere
  <2>2. CASE /\ status'[q] \in InQueues \cup {"ABSENT"} =>
                  status'[q] = status[q] /\ table'[q] = table[q]
             /\ computed'[q] + sched'[q] <= computed[q] + sched[q]
    <3>1. computed'[q] \in Nat /\ sched'[q] \in Nat
      BY DEF HeldInv, RemoteTypes
    <3>2. \A b \in Range(table[q]) : AfterThisStep[b] \subseteq AfterThisStep'[b]
      BY <1>1, TableBlocks
    <3>3. CASE status'[q] \in InQueues \cup {"ABSENT"}
      <4>1. ASSUME NEW pos, Waited(q, pos) PROVE Waited(q, pos)'
        BY <2>2, <3>3, <4>1, StillWaited
      <4>2. ComputedThere(q)
        BY DEF DataInv
      <4> HIDE DEF Waited, There, ComputedThere
      <4> QED BY <2>2, <3>1, <3>2, <3>3, <4>1, <4>2, StillThere
    <3>4. CASE status'[q] \notin InQueues \cup {"ABSENT"}
      BY <3>4 DEF ComputedThere
    <3> QED BY <3>3, <3>4
  <2> QED BY <2>1, <2>2
<1>3. CacheTrue'
  <2> SUFFICES ASSUME NEW b \in Blocks PROVE cached'[b] \subseteq AfterThisStep'[b]
    BY DEF CacheTrue
  <2>1. cached[b] \subseteq AfterThisStep[b]
    BY DEF DataInv, CacheTrue
  <2> QED BY <1>1, <2>1
<1>4. (pc' = "update" => step'.bad = {}) /\ badOutputs' = {}
  BY DEF DataInv
<1> HIDE DEF ComputedThere, CacheTrue, LossesKnown
<1> QED BY <1>2, <1>3, <1>4 DEF DataInv

\* At the start nothing is computed and nothing is cached.
LEMMA InitData == Init => DataInv
<1> SUFFICES ASSUME Init PROVE DataInv
  OBVIOUS
<1>1. LossesKnown
  BY DEF Init, LossesKnown, LostOnce, NoOutput
<1>2. ASSUME NEW r \in Req PROVE ComputedThere(r)
  <2>1. computed[r] = 0 /\ sched[r] = 0
    BY DEF Init, NoStep
  <2> QED BY <2>1, NothingThere
<1>3. CacheTrue
  BY DEF Init, CacheTrue
<1> QED BY <1>1, <1>2, <1>3 DEF DataInv, Init

\* A request comes.
LEMMA AddRequestData ==
  ASSUME HeldInv, HeldInv', DataInv, NEW r \in Req, AddRequest(r)
  PROVE  DataInv'
<1>1. /\ pc = "idle" /\ status[r] = "ABSENT"
      /\ status' = [status EXCEPT ![r] = "WAITING"]
      /\ UNCHANGED <<kv, cached, load, errors, out, badOutputs, pc, step, sched, computed, table>>
  BY DEF AddRequest, planVars, workerVars, history
<1>2. LossesKnown'
  BY <1>1, LossesStill
<1>3. computed[r] = 0 /\ sched[r] = 0
  BY <1>1 DEF HeldInv, Room
<1>4. ASSUME NEW q \in Req
      PROVE  /\ InStep(q)' = InStep(q) /\ ComingFrom(q)' = ComingFrom(q)
             /\ ComingTo(q)' = ComingTo(q)
  BY <1>1 DEF InStep, ComingFrom, ComingTo
<1>5. ASSUME NEW q \in Req, q # r PROVE status'[q] = status[q]
  BY <1>1, <1>5 DEF HeldInv, RemoteTypes
<1>6. \A q \in Req : computed'[q] + sched'[q] <= computed[q] + sched[q]
  BY <1>1, TableBlocks
<1> HIDE DEF InStep, ComingFrom, ComingTo
<1> QED BY <1>1, <1>2, <1>3, <1>4, <1>5, <1>6, QuietData

\* A loop begins or ends.
LEMMA TurnData ==
  ASSUME HeldInv, HeldInv', DataInv, BeginSchedule \/ EndRunning \/ EndWaiting
  PROVE  DataInv'
<1>1. /\ UNCHANGED <<kv, cached, load, errors, out, badOutputs, step, sched, computed, table, status>>
      /\ pc \notin {"worker", "update"} /\ pc' \notin {"worker", "update"}
  BY DEF BeginSchedule, EndRunning, EndWaiting, Looking, workerVars, history
<1>2. LossesKnown'
  BY <1>1, LossesStill
<1>3. ASSUME NEW q \in Req
      PROVE  /\ InStep(q)' = InStep(q) /\ ComingFrom(q)' = ComingFrom(q)
             /\ ComingTo(q)' = ComingTo(q)
  BY <1>1 DEF InStep, ComingFrom, ComingTo
<1>4. \A q \in Req : computed'[q] + sched'[q] <= computed[q] + sched[q]
  BY <1>1, TableBlocks
<1> HIDE DEF InStep, ComingFrom, ComingTo
<1> QED BY <1>1, <1>2, <1>3, <1>4, QuietData

\* The WAITING loop puts a request that is not ready aside.
LEMMA SkipWaitingData ==
  ASSUME HeldInv, HeldInv', DataInv, SkipWaiting
  PROVE  DataInv'
<1>1. /\ UNCHANGED <<kv, cached, load, errors, out, badOutputs, step, sched, computed, table, status, pc>>
      /\ pc = "waiting"
  BY DEF SkipWaiting, Looking, workerVars, history
<1>2. LossesKnown'
  BY <1>1, LossesStill
<1>3. ASSUME NEW q \in Req
      PROVE  /\ InStep(q)' = InStep(q) /\ ComingFrom(q)' = ComingFrom(q)
             /\ ComingTo(q)' = ComingTo(q)
  BY <1>1 DEF InStep, ComingFrom, ComingTo
<1>4. \A q \in Req : computed'[q] + sched'[q] <= computed[q] + sched[q]
  BY <1>1, TableBlocks
<1> HIDE DEF InStep, ComingFrom, ComingTo
<1> QED BY <1>1, <1>2, <1>3, <1>4, QuietData

\* The last running request is forced out: the step has nothing for it yet.
LEMMA PreemptForData ==
  ASSUME HeldInv, HeldInv', DataInv, PreemptFor
  PROVE  DataInv'
<1> DEFINE victim == Last(running)
<1>1. /\ pc = "running" /\ idx <= Len(running) /\ pc' \in {pc, "commit"}
      /\ status' = [status EXCEPT ![victim] = "PREEMPTED"]
      /\ computed' = [computed EXCEPT ![victim] = 0]
      /\ table' = [table EXCEPT ![victim] = <<>>]
      /\ UNCHANGED <<kv, cached, load, errors, out, badOutputs, step, sched>>
  BY DEF PreemptFor, workerVars, history
<1>2. LossesKnown'
  BY <1>1, LossesStill
<1>3. RemoteTypes
  BY DEF HeldInv
<1>4. /\ victim = running[Len(running)] /\ Len(running) \in DOMAIN running /\ victim \in Req
      /\ Len(running) >= idx
  <2>1. running \in Seq(Req) /\ idx \in Nat \ {0}
    BY <1>3 DEF RemoteTypes
  <2>2. Len(running) \in 1 .. Len(running) /\ DOMAIN running = 1 .. Len(running)
    BY <1>1, <2>1
  <2>3. running[Len(running)] \in Req
    BY <2>1, <2>2
  <2> QED BY <1>1, <2>1, <2>2, <2>3 DEF Last
<1> HIDE DEF victim
<1>5. sched[victim] = 0
  BY <1>1, <1>4 DEF HeldInv, RunningOnce
<1>6. ~InStep(victim)
  BY <1>1, <1>5 DEF InStep
<1>7. \A q \in Req \ {victim} : status'[q] = status[q] /\ table'[q] = table[q]
                                /\ computed'[q] = computed[q]
  BY <1>1, <1>3 DEF RemoteTypes
<1>8. ASSUME NEW q \in Req, q # victim
      PROVE  /\ InStep(q)' = InStep(q) /\ ComingFrom(q)' = ComingFrom(q)
             /\ ComingTo(q)' = ComingTo(q) /\ computed'[q] + sched'[q] <= computed[q] + sched[q]
  BY <1>1, <1>3, <1>7, <1>8 DEF InStep, ComingFrom, ComingTo, RemoteTypes
<1>9. computed'[victim] = 0 /\ sched'[victim] = 0
  BY <1>1, <1>3, <1>4, <1>5 DEF RemoteTypes
<1> HIDE DEF InStep, ComingFrom, ComingTo
<1> QED BY <1>1, <1>2, <1>6, <1>7, <1>8, <1>9, QuietData

\* The step is sent: what was to be computed is taken for computed.
LEMMA CommitData ==
  ASSUME HeldInv, HeldInv', DataInv, Commit
  PROVE  DataInv'
<1>1. /\ pc = "commit" /\ pc' = "worker"
      /\ computed' = [r \in Req |-> computed[r] + sched[r]]
      /\ step' = [step EXCEPT !.n = sched, !.start = computed, !.tbl = table]
      /\ sched' = NoStep.n
      /\ UNCHANGED <<status, table, kv, cached, load, errors, out, badOutputs>>
  BY DEF Commit, history
<1>2. RemoteTypes
  BY DEF HeldInv
<1>3. step'.n = sched /\ step'.ext = step.ext
  <2>1. step = [n |-> step.n, start |-> step.start, tbl |-> step.tbl, ext |-> step.ext,
                bad |-> step.bad]
    BY <1>2 DEF RemoteTypes
  <2> QED BY <1>1, <2>1
<1>4. LossesKnown'
  <2>1. errors' = {} /\ out'.invalid = {}
    BY <1>1, NoLossYet
  <2> QED BY <2>1 DEF LossesKnown, LostOnce
<1>5. ASSUME NEW q \in Req
      PROVE  /\ InStep(q)' = InStep(q) /\ ComingFrom(q)' = ComingFrom(q)
             /\ ComingTo(q)' = ComingTo(q) /\ computed'[q] + sched'[q] <= computed[q] + sched[q]
  <2>1. computed[q] \in Nat /\ sched[q] \in Nat /\ step.ext[q] \in Nat
    BY <1>2 DEF RemoteTypes
  <2>2. computed'[q] = computed[q] + sched[q] /\ sched'[q] = 0 /\ step'.n[q] = sched[q]
        /\ step'.ext[q] = step.ext[q]
    BY <1>1, <1>3 DEF NoStep
  <2> QED BY <1>1, <2>1, <2>2 DEF InStep, ComingFrom, ComingTo
<1> HIDE DEF InStep, ComingFrom, ComingTo
<1> QED BY <1>1, <1>4, <1>5, QuietData

\* Nothing happens.
LEMMA StutterData ==
  ASSUME HeldInv, HeldInv', DataInv, UNCHANGED vars
  PROVE  DataInv'
<1>1. UNCHANGED <<kv, cached, load, errors, out, badOutputs, step, sched, computed, table, status, pc>>
  BY DEF vars, planVars, workerVars, history
<1>2. LossesKnown'
  BY <1>1 DEF DataInv, LossesKnown, LostOnce, Receiving
<1>3. ASSUME NEW q \in Req
      PROVE  /\ InStep(q)' = InStep(q) /\ ComingFrom(q)' = ComingFrom(q)
             /\ ComingTo(q)' = ComingTo(q)
  BY <1>1 DEF InStep, ComingFrom, ComingTo
<1>4. \A q \in Req : computed'[q] + sched'[q] <= computed[q] + sched[q]
  BY <1>1, TableBlocks
<1> HIDE DEF InStep, ComingFrom, ComingTo
<1> QED BY <1>1, <1>2, <1>3, <1>4, QuietData

\* A client aborts a request, with no step under way.
LEMMA FinishRequestData ==
  ASSUME HeldInv, HeldInv', DataInv, NEW r \in Req, FinishRequest(r)
  PROVE  DataInv'
<1>1. /\ pc \in {"idle", "update"}
      /\ status' = [status EXCEPT ![r] = IF HoldForRecv(r) THEN "HELD" ELSE "GONE"]
      /\ \E held : table' = [q \in Req |-> IF q \in {r} \ held THEN <<>> ELSE table[q]]
      /\ UNCHANGED <<kv, cached, load, errors, out, badOutputs, step, sched, computed, pc>>
  BY DEF FinishRequest, Freed, planVars, workerVars, history
<1>2. RemoteTypes /\ Phases
  BY DEF HeldInv
<1>3. status'[r] \in {"HELD", "GONE"} /\ \A q \in Req \ {r} : status'[q] = status[q]
  BY <1>1, <1>2 DEF RemoteTypes
<1>4. \A q \in Req : table'[q] = table[q] \/ (q = r /\ table'[q] = <<>>)
  <2>1. PICK held : table' = [q \in Req |-> IF q \in {r} \ held THEN <<>> ELSE table[q]]
    BY <1>1
  <2> QED BY <2>1
<1>5. \A q \in Req : sched[q] = 0
  BY <1>1, <1>2 DEF Phases, NoStep
<1>6. \A q \in Req : ~InStep(q)
  BY <1>1, <1>5 DEF InStep
<1>7. \A q \in Req : computed'[q] + sched'[q] <= computed[q] + sched[q]
  BY <1>1, TableBlocks
<1>8. LossesKnown'
  <2>1. errors' = {}
    BY <1>1 DEF DataInv, LossesKnown
  <2>2. \A q \in Req : Range(table'[q]) \subseteq Range(table[q])
    BY <1>4 DEF Range
  <2>3. LostOnce'
    BY <1>1, <2>2 DEF DataInv, LossesKnown, LostOnce
  <2> QED BY <2>1, <2>3 DEF LossesKnown
<1>9. ASSUME NEW q \in Req, status'[q] \in InQueues \cup {"ABSENT"}
      PROVE  status'[q] = status[q] /\ table'[q] = table[q]
  <2>1. q # r
    BY <1>3, <1>9 DEF InQueues
  <2> QED BY <1>3, <1>4, <2>1
<1> HIDE DEF InStep, ComingFrom, ComingTo
<1> QED BY <1>1, <1>6, <1>7, <1>8, <1>9, QuietData

\* The block of a position of a table that has room for it.
LEMMA PlaceIn ==
  ASSUME NEW tbl \in Seq(Blocks), NEW n \in Nat, n <= Len(tbl) * BlockSize, NEW pos \in 0 .. n - 1
  PROVE  /\ pos \in Nat /\ pos \div BlockSize + 1 \in DOMAIN tbl
         /\ tbl[pos \div BlockSize + 1] \in Blocks /\ tbl[pos \div BlockSize + 1] \in Range(tbl)
<1> DEFINE l == Len(tbl)
           s == l * BlockSize
<1>1. l \in Nat /\ DOMAIN tbl = 1 .. l /\ \A i \in 1 .. l : tbl[i] \in Blocks
  OBVIOUS
<1>2. n <= s
  OBVIOUS
<1> HIDE DEF l
<1>3. s \in Int
  BY <1>1, ConstantsAssumption
<1> HIDE DEF s
<1>4. pos \in Nat /\ pos < s
  BY <1>2, <1>3
<1>5. pos \div BlockSize \in Nat /\ pos \div BlockSize + 1 <= l
  BY <1>1, <1>4, BlockOf DEF s
<1>6. pos \div BlockSize + 1 \in 1 .. l
  BY <1>1, <1>5
<1> QED BY <1>1, <1>4, <1>6 DEF Range

\* What is written at a position of a table.
LEMMA WrittenIs ==
  ASSUME NEW r, NEW tbl, NEW from, NEW to, NEW pos \in from .. to - 1,
         NEW b, b = tbl[pos \div BlockSize + 1]
  PROVE  <<Prompt[r], pos>> \in Written(r, tbl, b, from, to)
  BY DEF Written

\* Blocks are handed out for r, which runs in this step or waits for a transfer into
\* them; up to local, its tokens are in other blocks.
Allocated(r, fresh, local) ==
  /\ pc \in {"running", "waiting"} /\ pc' = pc /\ sched[r] = 0
  /\ kv' = Emptied(kv, fresh) /\ UNCHANGED <<errors, out, badOutputs>>
  /\ \A q \in Req \ {r} : /\ table'[q] = table[q] /\ computed'[q] = computed[q]
                          /\ sched'[q] = sched[q] /\ status'[q] = status[q]
                          /\ load'[q] = load[q] /\ step'.ext[q] = step.ext[q]
  /\ local <= computed'[r]
  /\ \A pos \in 0 .. local - 1 : /\ table'[r][pos \div BlockSize + 1] \in Blocks \ fresh
                                 /\ <<Prompt[r], pos>> \in AfterThisStep[table'[r][pos \div BlockSize + 1]]
  /\ \/ /\ status'[r] = "RUNNING" /\ local = computed'[r] - step'.ext[r]
        /\ sched'[r] # 0 \/ local = computed'[r]
     \/ /\ status'[r] = "WAITING_FOR_REMOTE_KVS" /\ sched'[r] = 0
        /\ load'[r] \in Loads /\ load'[r].kind = "recv" /\ load'[r].failed = {}
        /\ load'[r].from = local /\ load'[r].to = computed'[r]
  /\ \/ cached' = Emptied(cached, fresh)
     \/ /\ status'[r] = "RUNNING"
        /\ cached' = CacheBlocks(Emptied(cached, fresh), r, table'[r], computed'[r] + sched'[r])

\* Handing out blocks takes no tokens from anybody, and r's get there or are waited for.
LEMMA AllocateData ==
  ASSUME HeldInv, HeldInv', DataInv, NEW r \in Req, NEW fresh \in SUBSET Free, NEW local \in Nat,
         Allocated(r, fresh, local)
  PROVE  DataInv'
<1> USE DEF Allocated
<1>1. ~InStep(r) /\ pc # "worker" /\ pc' # "worker"
  BY DEF InStep
<1>2. ASSUME NEW b \in Blocks \ fresh PROVE AfterThisStep[b] \subseteq AfterThisStep'[b]
  <2>1. kv'[b] = kv[b]
    BY DEF Emptied
  <2>2. ASSUME NEW q \in Req PROVE Coming(q, b) \subseteq Coming(q, b)'
    <3>1. CASE q = r
      BY <1>1, <3>1 DEF Coming
    <3>2. CASE q # r
      <4>1. /\ InStep(q)' = InStep(q) /\ ComingFrom(q)' = ComingFrom(q)
            /\ ComingTo(q)' = ComingTo(q) /\ table'[q] = table[q]
        BY <1>1, <3>2 DEF InStep, ComingFrom, ComingTo
      <4> HIDE DEF InStep, ComingFrom, ComingTo
      <4> QED BY <4>1, ComingKept
    <3> QED BY <3>1, <3>2
  <2> QED BY <2>1, <2>2, AfterGrows
<1>3. ASSUME NEW q \in Req, NEW b \in Range(table[q]) PROVE b \in Blocks \ fresh
  BY TableBlocks DEF Free
<1>4. ASSUME NEW q \in Req, q # r PROVE ComputedThere(q)'
  <2>1. ComputedThere(q)
    BY DEF DataInv
  <2>2. computed'[q] \in Nat /\ sched'[q] \in Nat
    BY DEF HeldInv, RemoteTypes
  <2>3. /\ status'[q] = status[q] /\ table'[q] = table[q] /\ load'[q] = load[q]
        /\ computed'[q] + sched'[q] <= computed[q] + sched[q]
    BY <1>4, <2>2
  <2>4. \A b \in Range(table[q]) : AfterThisStep[b] \subseteq AfterThisStep'[b]
    BY <1>2, <1>3
  <2>5. ASSUME NEW pos, Waited(q, pos) PROVE Waited(q, pos)'
    BY <2>3, <2>5, StillWaited
  <2> HIDE DEF Waited, There, ComputedThere
  <2> QED BY <2>1, <2>2, <2>3, <2>4, <2>5, StillThere
<1> DEFINE n == computed'[r] + sched'[r]
           P(pos) == table'[r][pos \div BlockSize + 1]
<1>5. /\ table'[r] \in Seq(Blocks) /\ computed'[r] \in Nat /\ sched'[r] \in Nat /\ n \in Nat
      /\ step'.ext[r] \in Nat /\ n <= Len(table'[r]) * BlockSize
  <2>1. RemoteTypes' /\ Room(r)'
    BY DEF HeldInv
  <2>2. /\ table'[r] \in Seq(Blocks) /\ computed'[r] \in Nat /\ sched'[r] \in Nat
        /\ step'.ext[r] \in Nat
    BY <2>1 DEF RemoteTypes
  <2>3. status'[r] \in InQueues \cup {"ABSENT"}
    BY DEF InQueues
  <2>4. n <= Len(table'[r]) * BlockSize
    BY <2>1, <2>3 DEF Room
  <2> QED BY <2>2, <2>4
<1>6. ASSUME NEW pos \in 0 .. n - 1
      PROVE  P(pos) \in Blocks
  BY <1>5, PlaceIn
<1>7. ASSUME NEW pos \in 0 .. local - 1
      PROVE  <<Prompt[r], pos>> \in AfterThisStep'[P(pos)]
  BY <1>2
<1>8. ASSUME status'[r] = "RUNNING", NEW pos \in 0 .. n - 1
      PROVE  <<Prompt[r], pos>> \in AfterThisStep'[P(pos)]
  <2>1. CASE pos < local
    BY <1>7, <2>1
  <2>2. CASE ~(pos < local)
    <3>1. sched'[r] # 0 /\ InStep(r)'
      BY <1>1, <1>5, <1>8, <2>2 DEF InStep
    <3>2. ComingFrom(r)' = local /\ ComingTo(r)' = n
      BY <1>1, <1>5, <1>8 DEF ComingFrom, ComingTo
    <3>3. pos \in local .. n - 1 /\ P(pos) \in Blocks
      BY <1>5, <1>6, <2>2
    <3> HIDE DEF n
    <3>4. PICK b \in Blocks : b = P(pos)
      BY <3>3
    <3>5. <<Prompt[r], pos>> \in Written(r, table'[r], b, local, n)
      BY <3>3, <3>4, WrittenIs
    <3>6. Coming(r, b)' = Written(r, table'[r], b, local, n)
      <4> HIDE DEF InStep, ComingFrom, ComingTo
      <4> QED BY <3>1, <3>2 DEF Coming
    <3> HIDE DEF Coming
    <3>7. <<Prompt[r], pos>> \in AfterThisStep'[b]
      BY <3>5, <3>6 DEF AfterThisStep
    <3> QED BY <3>4, <3>7
  <2> QED BY <2>1, <2>2
<1>9. ComputedThere(r)'
  <2>1. CASE status'[r] = "RUNNING"
    <3> SUFFICES ASSUME NEW pos \in 0 .. computed'[r] + sched'[r] - 1
                 PROVE  There(r, pos)' \/ (status'[r] = "WAITING_FOR_REMOTE_KVS" /\ Waited(r, pos)')
      BY DEF ComputedThere
    <3>0. pos \in 0 .. n - 1
      BY <1>5
    <3>1. <<Prompt[r], pos>> \in AfterThisStep'[P(pos)]
      <4> HIDE DEF n, P
      <4> QED BY <1>8, <2>1, <3>0
    <3>2. Place(r, pos)' = P(pos)
      BY DEF Place
    <3>3. There(r, pos)'
      <4> HIDE DEF P, AfterThisStep, Place
      <4> QED BY <3>1, <3>2 DEF There
    <3> QED BY <3>3
  <2>2. CASE status'[r] # "RUNNING"
    <3>1. /\ status'[r] = "WAITING_FOR_REMOTE_KVS" /\ sched'[r] = 0
          /\ load'[r] \in Loads /\ load'[r].kind = "recv" /\ load'[r].failed = {}
          /\ load'[r].from = local /\ load'[r].to = computed'[r]
      BY <2>2
    <3>2. r \in Receiving'
      BY <3>1, ConstantsAssumption DEF Receiving
    <3> SUFFICES ASSUME NEW pos \in 0 .. computed'[r] + sched'[r] - 1
                 PROVE  There(r, pos)' \/ (status'[r] = "WAITING_FOR_REMOTE_KVS" /\ Waited(r, pos)')
      BY DEF ComputedThere
    <3>3. CASE pos < local
      BY <1>7, <3>3 DEF There, Place
    <3>4. CASE ~(pos < local)
      <4>1. load'[r].from <= pos /\ pos < load'[r].to
        BY <1>5, <3>1, <3>4
      <4> QED BY <3>1, <3>2, <4>1 DEF Waited
    <3> QED BY <3>3, <3>4
  <2> QED BY <2>1, <2>2
<1>10. ASSUME NEW b \in Blocks PROVE Emptied(cached, fresh)[b] \subseteq AfterThisStep'[b]
  BY <1>2 DEF Emptied, DataInv, CacheTrue
<1>11. CacheTrue'
  <2> SUFFICES ASSUME NEW b \in Blocks PROVE cached'[b] \subseteq AfterThisStep'[b]
    BY DEF CacheTrue
  <2>1. CASE cached' = Emptied(cached, fresh)
    BY <1>10, <2>1
  <2>2. CASE /\ status'[r] = "RUNNING"
             /\ cached' = CacheBlocks(Emptied(cached, fresh), r, table'[r], n)
    <3> HIDE DEF n
    <3> QED BY <1>5, <1>8, <1>10, <2>2, CachedThere
  <2> QED BY <2>1, <2>2
<1>12. LossesKnown'
  BY LossesStill
<1>13. badOutputs' = {} /\ pc' # "update"
  BY DEF DataInv
<1> HIDE DEF ComputedThere, CacheTrue, LossesKnown
<1> QED BY <1>4, <1>9, <1>11, <1>12, <1>13 DEF DataInv

\* What a ready or running request has computed is in its blocks.
LEMMA ReadyThere ==
  ASSUME HeldInv, DataInv, NEW r \in Req, status[r] \in InQueues, sched[r] = 0,
         status[r] # "WAITING_FOR_REMOTE_KVS" \/ (errors = {} /\ out.invalid = {} /\ r \notin Receiving),
         NEW pos \in 0 .. computed[r] - 1
  PROVE  /\ <<Prompt[r], pos>> \in AfterThisStep[table[r][pos \div BlockSize + 1]]
         /\ table[r][pos \div BlockSize + 1] \in Range(table[r])
         /\ pos \div BlockSize + 1 \in DOMAIN table[r]
<1>1. ComputedThere(r) /\ computed[r] \in Nat
  BY DEF DataInv, HeldInv, RemoteTypes
<1>2. pos \in 0 .. computed[r] + sched[r] - 1
  BY <1>1
<1>3. Place(r, pos) \in Range(table[r]) /\ pos \div BlockSize + 1 \in DOMAIN table[r]
  BY <1>2, PlaceIs
<1>4. ~(status[r] = "WAITING_FOR_REMOTE_KVS" /\ Waited(r, pos))
  BY DEF Waited
<1>5. There(r, pos)
  <2> HIDE DEF There, Waited
  <2> QED BY <1>1, <1>2, <1>4 DEF ComputedThere
<1> QED BY <1>3, <1>5 DEF There, Place

\* The RUNNING loop plans a request.
LEMMA ScheduleRunningData ==
  ASSUME HeldInv, HeldInv', DataInv, ScheduleRunning
  PROVE  DataInv'
<1> DEFINE r == running[idx]
           new == NumNewRunning(r)
           n == computed[r] + new
           miss == Missing(table[r], n)
<1>1. pc = "running" /\ idx <= Len(running) /\ budget > 0
  BY DEF ScheduleRunning
<1>2. /\ r \in Req /\ status[r] = "RUNNING" /\ sched[r] = 0 /\ new \in Nat
      /\ step = NoStep /\ out = NoOutput
  BY <1>1, LookedAt
<1>3. PICK fresh \in Fresh(miss, {}) :
         /\ table' = [table EXCEPT ![r] = @ \o Ordered(fresh)]
         /\ cached' = CacheBlocks(Emptied(cached, fresh), r, table'[r], n)
         /\ kv' = Emptied(kv, fresh)
         /\ sched' = [sched EXCEPT ![r] = new]
  BY DEF ScheduleRunning
<1>4. UNCHANGED <<status, computed, pc, step, out, load, errors, badOutputs>>
  BY DEF ScheduleRunning, history
<1> HIDE DEF r, new
<1>5. /\ computed[r] \in Nat /\ table[r] \in Seq(Blocks) /\ RemoteTypes
  BY <1>2 DEF HeldInv, RemoteTypes
<1>6. n \in Nat
  BY <1>2, <1>5
<1> HIDE DEF n
<1>7. miss \in Nat
  BY <1>5, <1>6, RoomMade
<1> HIDE DEF miss
<1>8. fresh \in SUBSET Free /\ Ordered(fresh) \in Seq(Blocks)
  BY <1>3, <1>7, FreshIs
<1>9. /\ \A q \in Req \ {r} : /\ table'[q] = table[q] /\ computed'[q] = computed[q]
                              /\ sched'[q] = sched[q] /\ status'[q] = status[q]
                              /\ load'[q] = load[q] /\ step'.ext[q] = step.ext[q]
      /\ table'[r] = table[r] \o Ordered(fresh) /\ sched'[r] = new /\ computed'[r] = computed[r]
  BY <1>2, <1>3, <1>4, <1>5 DEF RemoteTypes
<1>10. ASSUME NEW pos \in 0 .. computed[r] - 1
       PROVE  /\ table'[r][pos \div BlockSize + 1] \in Blocks \ fresh
              /\ <<Prompt[r], pos>> \in AfterThisStep[table'[r][pos \div BlockSize + 1]]
  <2> DEFINE i == pos \div BlockSize + 1
             more == Ordered(fresh)
             tbl == table[r]
  <2>1. /\ <<Prompt[r], pos>> \in AfterThisStep[tbl[i]] /\ tbl[i] \in Range(tbl)
        /\ i \in DOMAIN tbl
    BY <1>2, ReadyThere DEF InQueues
  <2>2. tbl[i] \in Blocks \ fresh
    BY <1>2, <1>8, <2>1, TableBlocks DEF Free
  <2>3. table'[r][i] = tbl[i]
    <3>1. more \in Seq(Blocks) /\ tbl \in Seq(Blocks) /\ table'[r] = tbl \o more
      BY <1>5, <1>8, <1>9
    <3> HIDE DEF more, tbl, i
    <3>2. \A k \in DOMAIN tbl : (tbl \o more)[k] = tbl[k]
      BY <3>1, Joined
    <3> QED BY <2>1, <3>1, <3>2
  <2> QED BY <2>1, <2>2, <2>3
<1>11. n = computed'[r] + sched'[r]
  BY <1>9 DEF n
<1>12. /\ status'[r] = "RUNNING" /\ step'.ext[r] = 0 /\ computed[r] = computed'[r] - step'.ext[r]
       /\ sched'[r] # 0 \/ computed[r] = computed'[r]
  BY <1>2, <1>4, <1>5, <1>9 DEF NoStep
<1>13. /\ cached' = CacheBlocks(Emptied(cached, fresh), r, table'[r], computed'[r] + sched'[r])
       /\ kv' = Emptied(kv, fresh)
  BY <1>3, <1>11
<1>14. computed[r] <= computed'[r]
  BY <1>5, <1>9
<1> DEFINE local == computed[r]
<1>15. /\ local \in Nat /\ local <= computed'[r]
       /\ \A pos \in 0 .. local - 1 :
            /\ table'[r][pos \div BlockSize + 1] \in Blocks \ fresh
            /\ <<Prompt[r], pos>> \in AfterThisStep[table'[r][pos \div BlockSize + 1]]
       /\ local = computed'[r] - step'.ext[r]
       /\ sched'[r] # 0 \/ local = computed'[r]
  BY <1>5, <1>10, <1>12, <1>14
<1> HIDE DEF local
<1>16. Allocated(r, fresh, local)
  BY <1>1, <1>2, <1>4, <1>9, <1>12, <1>13, <1>15 DEF Allocated
<1> QED BY <1>2, <1>8, <1>15, <1>16, AllocateData

\* A request whose transfer has ended is made ready.
LEMMA PromoteData ==
  ASSUME HeldInv, HeldInv', DataInv, Promote
  PROVE  DataInv'
<1> SUFFICES ASSUME NEW r, r = HeadRequest PROVE DataInv'
  OBVIOUS
<1>1. /\ Looking /\ pc = "waiting" /\ status[r] = "WAITING_FOR_REMOTE_KVS"
      /\ r \in finishedRecving
      /\ cached' = CacheBlocks(cached, r, table[r], computed[r])
      /\ UNCHANGED <<queueVars, planVars, workerVars>>
  BY PromoteIs
<1>2. PICK c \in {computed[r], computed[r] - 1}, t \in {table[r], <<>>},
            s \in {"PREEMPTED", "WAITING"} :
           /\ computed' = [computed EXCEPT ![r] = c]
           /\ table' = [table EXCEPT ![r] = t]
           /\ status' = [status EXCEPT ![r] = s]
           /\ c # computed[r] => computed[r] = Length[r]
           /\ t # table[r] => c = 0
  BY PromoteIs
<1>3. UNCHANGED <<kv, load, errors, out, badOutputs, step, sched, pc>>
  BY <1>1 DEF Promote, planVars, workerVars, history
<1>4. RemoteTypes
  BY DEF HeldInv
<1>5. r \in Req
  BY <1>1, <1>4, HeadIs
<1>6. /\ r \notin Receiving /\ sched[r] = 0 /\ computed[r] \in Nat /\ table[r] \in Seq(Blocks)
      /\ computed[r] <= Len(table[r]) * BlockSize
  <2>1. Room(r) /\ TransferAccount(r) /\ computed[r] \in Nat /\ table[r] \in Seq(Blocks)
    BY <1>4, <1>5 DEF HeldInv, RemoteTypes
  <2>2. r \notin Receiving /\ sched[r] = 0
    BY <1>1, <2>1 DEF Room, TransferAccount
  <2>3. computed[r] + 0 <= Len(table[r]) * BlockSize
    BY <1>1, <2>1, <2>2 DEF Room, InQueues
  <2> QED BY <2>1, <2>2, <2>3
<1>7. errors = {} /\ out.invalid = {}
  BY <1>1, NoLossYet
<1>8. ASSUME NEW pos \in 0 .. computed[r] - 1
      PROVE  <<Prompt[r], pos>> \in AfterThisStep[table[r][pos \div BlockSize + 1]]
  BY <1>1, <1>5, <1>6, <1>7, ReadyThere DEF InQueues
<1>9. /\ \A q \in Req \ {r} : status'[q] = status[q] /\ table'[q] = table[q]
                              /\ computed'[q] = computed[q]
      /\ status'[r] = s /\ table'[r] = t /\ computed'[r] = c
      /\ c \in Nat /\ c <= computed[r]
  <2>1. c <= computed[r]
    BY <1>6
  <2>2. RemoteTypes'
    BY DEF HeldInv
  <2>3. computed'[r] = c /\ computed'[r] \in Nat
    BY <1>2, <1>4, <1>5, <2>2 DEF RemoteTypes
  <2> QED BY <1>2, <1>4, <1>5, <2>1, <2>3 DEF RemoteTypes
<1>10. ASSUME NEW b \in Blocks PROVE AfterThisStep[b] \subseteq AfterThisStep'[b]
  <2>1. ASSUME NEW q \in Req PROVE Coming(q, b) \subseteq Coming(q, b)'
    <3>1. CASE q = r
      BY <1>1, <1>6, <3>1 DEF Coming, InStep
    <3>2. CASE q # r
      <4>1. /\ InStep(q)' = InStep(q) /\ ComingFrom(q)' = ComingFrom(q)
            /\ ComingTo(q)' = ComingTo(q) /\ table'[q] = table[q]
        BY <1>3, <1>9, <3>2 DEF InStep, ComingFrom, ComingTo
      <4> HIDE DEF InStep, ComingFrom, ComingTo
      <4> QED BY <4>1, ComingKept
    <3> QED BY <3>1, <3>2
  <2> QED BY <1>3, <2>1, AfterGrows
<1>11. ASSUME NEW q \in Req, q # r PROVE ComputedThere(q)'
  <2>1. ComputedThere(q)
    BY DEF DataInv
  <2>2. computed'[q] \in Nat /\ sched'[q] \in Nat
    BY DEF HeldInv, RemoteTypes
  <2>3. /\ status'[q] = status[q] /\ table'[q] = table[q] /\ load'[q] = load[q]
        /\ computed'[q] + sched'[q] <= computed[q] + sched[q]
    BY <1>3, <1>9, <1>11, <2>2
  <2>4. \A b \in Range(table[q]) : AfterThisStep[b] \subseteq AfterThisStep'[b]
    BY <1>10, TableBlocks
  <2>5. ASSUME NEW pos, Waited(q, pos) PROVE Waited(q, pos)'
    BY <1>3, <2>3, <2>5, StillWaited
  <2> HIDE DEF Waited, There, ComputedThere
  <2> QED BY <2>1, <2>2, <2>3, <2>4, <2>5, StillThere
<1>12. ComputedThere(r)'
  <2> SUFFICES ASSUME NEW pos \in 0 .. computed'[r] + sched'[r] - 1
               PROVE  There(r, pos)' \/ (status'[r] = "WAITING_FOR_REMOTE_KVS" /\ Waited(r, pos)')
    BY DEF ComputedThere
  <2>1. pos \in 0 .. computed[r] - 1 /\ c # 0
    BY <1>3, <1>6, <1>9
  <2>2. t = table[r] /\ table'[r] = table[r]
    BY <1>2, <1>9, <2>1
  <2>3. table[r][pos \div BlockSize + 1] \in Blocks
    BY <1>6, <2>1, PlaceIn
  <2>4. <<Prompt[r], pos>> \in AfterThisStep'[table[r][pos \div BlockSize + 1]]
    BY <1>8, <1>10, <2>1, <2>3
  <2>5. Place(r, pos)' = table[r][pos \div BlockSize + 1]
    BY <2>2 DEF Place
  <2>6. There(r, pos)'
    <3> HIDE DEF AfterThisStep, Place
    <3> QED BY <2>4, <2>5 DEF There
  <2> QED BY <2>6
<1>13. CacheTrue'
  <2> SUFFICES ASSUME NEW b \in Blocks PROVE cached'[b] \subseteq AfterThisStep'[b]
    BY DEF CacheTrue
  <2>1. cached[b] \subseteq AfterThisStep[b]
    BY DEF DataInv, CacheTrue
  <2>2. CacheBlocks(cached, r, table[r], computed[r])[b] \subseteq AfterThisStep[b]
    <3> HIDE DEF AfterThisStep
    <3> QED BY <1>5, <1>6, <1>8, <2>1, CachedThere
  <2> QED BY <1>1, <1>10, <2>2
<1>14. LossesKnown'
  BY <1>1, <1>3, LossesStill
<1>15. badOutputs' = {} /\ pc' # "update"
  BY <1>1, <1>3 DEF DataInv
<1> HIDE DEF ComputedThere, CacheTrue, LossesKnown
<1> QED BY <1>11, <1>12, <1>13, <1>14, <1>15 DEF DataInv

\* What a request finds cached, or has computed before, is there, in no block handed out.
LEMMA LookedUpThere ==
  ASSUME HeldInv, DataInv, NEW r \in Req, status[r] \in {"WAITING", "PREEMPTED"},
         NEW look \in Lookups(r), NEW fresh \in Fresh(Wanted(r, look), Range(look.tbl)),
         NEW pos \in 0 .. look.local - 1
  PROVE  /\ pos \div BlockSize + 1 \in DOMAIN look.tbl
         /\ look.tbl[pos \div BlockSize + 1] \in Blocks \ fresh
         /\ <<Prompt[r], pos>> \in AfterThisStep[look.tbl[pos \div BlockSize + 1]]
<1> DEFINE i == pos \div BlockSize + 1
           tbl == look.tbl
<1>1. /\ tbl \in Seq(Blocks) /\ look.local \in Nat
      /\ \/ tbl = table[r] /\ look.local = computed[r]
         \/ tbl \in Hits(r) /\ look.local = Len(tbl) * BlockSize
  BY LookupIs
<1>2. fresh \cap Range(tbl) = {}
  BY AdmittedTable
<1>3. BlockSize \in Nat \ {0}
  BY ConstantsAssumption
<1>4. i \in DOMAIN tbl /\ tbl[i] \in Range(tbl) /\ <<Prompt[r], pos>> \in AfterThisStep[tbl[i]]
  <2>1. CASE tbl = table[r] /\ look.local = computed[r]
    <3>1. sched[r] = 0 /\ status[r] \in InQueues /\ status[r] # "WAITING_FOR_REMOTE_KVS"
      BY DEF HeldInv, Room, InQueues
    <3>2. pos \in 0 .. computed[r] - 1
      BY <2>1
    <3>3. /\ <<Prompt[r], pos>> \in AfterThisStep[table[r][i]] /\ table[r][i] \in Range(table[r])
          /\ i \in DOMAIN table[r]
      BY <3>1, <3>2, ReadyThere
    <3> QED BY <2>1, <3>3
  <2>2. CASE tbl \in Hits(r) /\ look.local = Len(tbl) * BlockSize
    <3> DEFINE n == look.local
    <3>1. n \in Nat /\ n <= Len(tbl) * BlockSize /\ pos \in 0 .. n - 1
      BY <1>1, <2>2
    <3>2. pos \in Nat /\ i \in DOMAIN tbl /\ tbl[i] \in Blocks /\ tbl[i] \in Range(tbl)
      <4> HIDE DEF n, tbl
      <4> QED BY <1>1, <3>1, PlaceIn
    <3>3. cached[tbl[i]] = TokensOf(r, i)
      <4>1. \A k \in DOMAIN tbl : cached[tbl[k]] = TokensOf(r, k)
        BY <2>2, HitsAre
      <4> HIDE DEF tbl, i
      <4> QED BY <3>2, <4>1
    <3>4. pos \in (i - 1) * BlockSize .. i * BlockSize - 1
      <4>1. /\ pos \div BlockSize \in Nat
            /\ pos < (pos \div BlockSize + 1) * BlockSize /\ ~(pos < (pos \div BlockSize) * BlockSize)
        <5>1. \A k \in Int : pos \div BlockSize \in Nat /\ (pos \div BlockSize < k <=> pos < k * BlockSize)
          BY <1>3, <3>2, QuotientBelow
        <5> DEFINE d == pos \div BlockSize
        <5>2. d \in Nat /\ \A k \in Int : d < k <=> pos < k * BlockSize
          BY <5>1
        <5> HIDE DEF d
        <5>3. d + 1 \in Int /\ d \in Int /\ d < d + 1 /\ ~(d < d)
          BY <5>2
        <5>4. pos < (d + 1) * BlockSize /\ ~(pos < d * BlockSize)
          BY <5>2, <5>3
        <5> QED BY <5>2, <5>4 DEF d
      <4> DEFINE d == pos \div BlockSize
                 lo == d * BlockSize
                 hi == (d + 1) * BlockSize
      <4>2. lo \in Int /\ hi \in Int
        BY <1>3, <4>1
      <4>3. pos < hi /\ ~(pos < lo)
        BY <4>1
      <4>4. i - 1 = d /\ i = d + 1
        BY <4>1
      <4> HIDE DEF i, d
      <4>5. (i - 1) * BlockSize = lo /\ i * BlockSize = hi
        BY <4>4
      <4> HIDE DEF lo, hi
      <4> QED BY <3>2, <4>2, <4>3, <4>5
    <3>5. <<Prompt[r], pos>> \in TokensOf(r, i)
      BY <3>4 DEF TokensOf
    <3>6. cached[tbl[i]] \subseteq AfterThisStep[tbl[i]]
      BY <3>2 DEF DataInv, CacheTrue
    <3> QED BY <3>2, <3>3, <3>5, <3>6
  <2> QED BY <1>1, <2>1, <2>2
<1>5. Range(tbl) \subseteq Blocks
  BY <1>1 DEF Range
<1> QED BY <1>2, <1>4, <1>5

\* The WAITING loop admits a request.
LEMMA AdmitData ==
  ASSUME HeldInv, HeldInv', DataInv, Admit
  PROVE  DataInv'
<1> SUFFICES ASSUME NEW r, r = HeadRequest PROVE DataInv'
  OBVIOUS
<1>1. /\ pc = "waiting" /\ Looking /\ Popped /\ status[r] \in {"WAITING", "PREEMPTED"}
      /\ UNCHANGED <<pc, out>>
  BY AdmitIs
<1>2. PICK look \in Lookups(r) : \E fresh \in Fresh(Wanted(r, look), Range(look.tbl)) :
              /\ table' = [table EXCEPT ![r] = look.tbl \o Ordered(fresh)]
              /\ kv' = Emptied(kv, fresh)
              /\ cached' = IF CacheNow(look.mode)
                           THEN CacheBlocks(Emptied(cached, fresh), r, table'[r],
                                            look.total + NumNewWaiting(r, look))
                           ELSE Emptied(cached, fresh)
              /\ computed' = [computed EXCEPT ![r] = look.total]
              /\ IF look.mode = "async"
                 THEN AdmittedLater(r, look, table'[r])
                 ELSE AdmittedNow(r, look, NumNewWaiting(r, look))
  BY AdmitIs
<1>3. PICK fresh \in Fresh(Wanted(r, look), Range(look.tbl)) :
              /\ table' = [table EXCEPT ![r] = look.tbl \o Ordered(fresh)]
              /\ kv' = Emptied(kv, fresh)
              /\ cached' = IF CacheNow(look.mode)
                           THEN CacheBlocks(Emptied(cached, fresh), r, table'[r],
                                            look.total + NumNewWaiting(r, look))
                           ELSE Emptied(cached, fresh)
              /\ computed' = [computed EXCEPT ![r] = look.total]
              /\ IF look.mode = "async"
                 THEN AdmittedLater(r, look, table'[r])
                 ELSE AdmittedNow(r, look, NumNewWaiting(r, look))
  BY <1>2
<1>4. UNCHANGED <<errors, badOutputs>>
  BY DEF Admit, history
<1>5. RemoteTypes /\ r \in Req
  BY <1>1, HeadIs DEF HeldInv
<1> DEFINE new == NumNewWaiting(r, look)
           more == Ordered(fresh)
           local == look.local
<1>6. /\ look.tbl \in Seq(Blocks) /\ look.total \in Nat /\ local \in Nat
      /\ local <= look.total /\ look.total <= Length[r]
      /\ look.mode = "none" => local = look.total
      /\ look.mode = "async" \/ local = look.total \/ look.total < Length[r]
  BY <1>1, <1>5, LookupIs
<1>7. /\ fresh \in SUBSET Free /\ more \in Seq(Blocks) /\ new \in Nat
  BY <1>1, <1>5, AdmittedTable
<1>8. sched[r] = 0 /\ Length[r] \in Nat /\ budget \in Nat \ {0}
  <2>1. sched[r] = 0 /\ Length[r] \in Nat /\ budget \in Nat
    BY <1>1, <1>5, ConstantsAssumption DEF HeldInv, Room, RemoteTypes
  <2>2. budget > 0
    BY <1>1 DEF Looking
  <2> QED BY <2>1, <2>2
<1>9. look.mode = "async" \/ local = look.total \/ new # 0
  <2>1. ASSUME look.mode # "async", look.total < Length[r] PROVE new # 0
    <3>1. new = Lesser(Length[r] - look.total, budget)
      BY <2>1 DEF NumNewWaiting
    <3> QED BY <1>6, <1>8, <2>1, <3>1 DEF Lesser
  <2> QED BY <1>6, <2>1
<1>10. /\ table'[r] = look.tbl \o more /\ computed'[r] = look.total
       /\ \A q \in Req \ {r} : table'[q] = table[q] /\ computed'[q] = computed[q]
  BY <1>3, <1>5 DEF RemoteTypes
<1>11. ASSUME NEW pos \in 0 .. local - 1
       PROVE  /\ table'[r][pos \div BlockSize + 1] \in Blocks \ fresh
              /\ <<Prompt[r], pos>> \in AfterThisStep[table'[r][pos \div BlockSize + 1]]
  <2> DEFINE i == pos \div BlockSize + 1
             tbl == look.tbl
  <2>1. /\ i \in DOMAIN tbl /\ tbl[i] \in Blocks \ fresh
        /\ <<Prompt[r], pos>> \in AfterThisStep[tbl[i]]
    BY <1>1, <1>5, LookedUpThere
  <2>2. table'[r][i] = tbl[i]
    <3>1. more \in Seq(Blocks) /\ tbl \in Seq(Blocks) /\ table'[r] = tbl \o more
      BY <1>6, <1>7, <1>10
    <3> HIDE DEF more, tbl, i
    <3>2. \A k \in DOMAIN tbl : (tbl \o more)[k] = tbl[k]
      BY <3>1, Joined
    <3> QED BY <2>1, <3>1, <3>2
  <2> QED BY <2>1, <2>2
<1>12. kv' = Emptied(kv, fresh)
  BY <1>3
<1>13. CASE look.mode = "async"
  <2> DEFINE job == [kind |-> "recv", tbl |-> table'[r], from |-> local,
                     to |-> look.total, failed |-> {}]
  <2>1. /\ status' = [status EXCEPT ![r] = "WAITING_FOR_REMOTE_KVS"]
        /\ load' = [load EXCEPT ![r] = job]
        /\ UNCHANGED <<sched, step>>
    BY <1>3, <1>13 DEF AdmittedLater
  <2>2. job \in Loads /\ job.kind = "recv" /\ job.failed = {} /\ job.from = local
        /\ job.to = look.total
    <3>1. table'[r] \in Seq(Blocks)
      BY <1>5 DEF HeldInv, RemoteTypes
    <3> QED BY <1>6, <3>1 DEF Loads
  <2> HIDE DEF job
  <2>3. /\ status'[r] = "WAITING_FOR_REMOTE_KVS" /\ load'[r] = job /\ sched'[r] = 0
        /\ \A q \in Req \ {r} : /\ status'[q] = status[q] /\ load'[q] = load[q]
                                /\ sched'[q] = sched[q] /\ step'.ext[q] = step.ext[q]
    BY <1>5, <1>8, <2>1 DEF RemoteTypes
  <2>4. cached' = Emptied(cached, fresh)
    BY <1>3, <1>13 DEF CacheNow
  <2>5. /\ local \in Nat /\ local <= computed'[r]
        /\ load'[r] \in Loads /\ load'[r].kind = "recv" /\ load'[r].failed = {}
        /\ load'[r].from = local /\ load'[r].to = computed'[r]
    BY <1>6, <1>10, <2>2, <2>3
  <2>6. \A q \in Req \ {r} : /\ table'[q] = table[q] /\ computed'[q] = computed[q]
                              /\ sched'[q] = sched[q] /\ status'[q] = status[q]
                              /\ load'[q] = load[q] /\ step'.ext[q] = step.ext[q]
    BY <1>10, <2>3
  <2>7. \A pos \in 0 .. local - 1 :
          /\ table'[r][pos \div BlockSize + 1] \in Blocks \ fresh
          /\ <<Prompt[r], pos>> \in AfterThisStep[table'[r][pos \div BlockSize + 1]]
    BY <1>11
  <2>8. /\ pc \in {"running", "waiting"} /\ pc' = pc /\ sched[r] = 0 /\ fresh \in SUBSET Free
        /\ kv' = Emptied(kv, fresh) /\ UNCHANGED <<errors, out, badOutputs>>
    BY <1>1, <1>4, <1>7, <1>8, <1>12
  <2> HIDE DEF local
  <2>9. \/ /\ status'[r] = "RUNNING" /\ local = computed'[r] - step'.ext[r]
           /\ sched'[r] # 0 \/ local = computed'[r]
        \/ /\ status'[r] = "WAITING_FOR_REMOTE_KVS" /\ sched'[r] = 0
           /\ load'[r] \in Loads /\ load'[r].kind = "recv" /\ load'[r].failed = {}
           /\ load'[r].from = local /\ load'[r].to = computed'[r]
    BY <1>8, <2>3, <2>5
  <2>10. \/ cached' = Emptied(cached, fresh)
         \/ /\ status'[r] = "RUNNING"
            /\ cached' = CacheBlocks(Emptied(cached, fresh), r, table'[r], computed'[r] + sched'[r])
    BY <2>4
  <2>11. local \in Nat /\ local <= computed'[r]
    BY <2>5
  <2>12. Allocated(r, fresh, local)
    BY <2>6, <2>7, <2>8, <2>9, <2>10, <2>11 DEF Allocated
  <2> QED BY <1>5, <1>7, <2>11, <2>12, AllocateData
<1>14. CASE look.mode # "async"
  <2>1. /\ status' = [status EXCEPT ![r] = "RUNNING"]
        /\ sched' = [sched EXCEPT ![r] = new]
        /\ step' = [step EXCEPT !.ext[r] = look.total - look.local]
        /\ UNCHANGED load
    BY <1>3, <1>14 DEF AdmittedNow
  <2>2. step'.ext = [step.ext EXCEPT ![r] = look.total - local]
    <3>1. step = [n |-> step.n, start |-> step.start, tbl |-> step.tbl, ext |-> step.ext,
                  bad |-> step.bad]
      BY <1>5 DEF RemoteTypes
    <3> QED BY <2>1, <3>1
  <2>3. /\ status'[r] = "RUNNING" /\ sched'[r] = new
        /\ step'.ext[r] = look.total - local
        /\ \A q \in Req \ {r} : /\ status'[q] = status[q] /\ load'[q] = load[q]
                                /\ sched'[q] = sched[q] /\ step'.ext[q] = step.ext[q]
    BY <1>5, <2>1, <2>2 DEF RemoteTypes
  <2>4. cached' = CacheBlocks(Emptied(cached, fresh), r, table'[r], computed'[r] + sched'[r])
    BY <1>3, <1>10, <1>14, <2>3 DEF CacheNow
  <2>5. /\ local \in Nat /\ local <= computed'[r]
        /\ local = computed'[r] - step'.ext[r]
        /\ sched'[r] # 0 \/ local = computed'[r]
    BY <1>6, <1>9, <1>10, <1>14, <2>3
  <2>6. \A q \in Req \ {r} : /\ table'[q] = table[q] /\ computed'[q] = computed[q]
                              /\ sched'[q] = sched[q] /\ status'[q] = status[q]
                              /\ load'[q] = load[q] /\ step'.ext[q] = step.ext[q]
    BY <1>10, <2>3
  <2>7. \A pos \in 0 .. local - 1 :
          /\ table'[r][pos \div BlockSize + 1] \in Blocks \ fresh
          /\ <<Prompt[r], pos>> \in AfterThisStep[table'[r][pos \div BlockSize + 1]]
    BY <1>11
  <2>8. /\ pc \in {"running", "waiting"} /\ pc' = pc /\ sched[r] = 0 /\ fresh \in SUBSET Free
        /\ kv' = Emptied(kv, fresh) /\ UNCHANGED <<errors, out, badOutputs>>
    BY <1>1, <1>4, <1>7, <1>8, <1>12
  <2> HIDE DEF local
  <2>9. \/ /\ status'[r] = "RUNNING" /\ local = computed'[r] - step'.ext[r]
           /\ sched'[r] # 0 \/ local = computed'[r]
        \/ /\ status'[r] = "WAITING_FOR_REMOTE_KVS" /\ sched'[r] = 0
           /\ load'[r] \in Loads /\ load'[r].kind = "recv" /\ load'[r].failed = {}
           /\ load'[r].from = local /\ load'[r].to = computed'[r]
    BY <2>3, <2>5
  <2>10. \/ cached' = Emptied(cached, fresh)
         \/ /\ status'[r] = "RUNNING"
            /\ cached' = CacheBlocks(Emptied(cached, fresh), r, table'[r], computed'[r] + sched'[r])
    BY <2>3, <2>4
  <2>11. local \in Nat /\ local <= computed'[r]
    BY <2>5
  <2>12. Allocated(r, fresh, local)
    BY <2>6, <2>7, <2>8, <2>9, <2>10, <2>11 DEF Allocated
  <2> QED BY <1>5, <1>7, <2>11, <2>12, AllocateData
<1> QED BY <1>13, <1>14

\* The worker and its connector change no table, so what was waited for stays so or is there.
LEMMA WorkerThere ==
  ASSUME HeldInv, HeldInv', DataInv, UNCHANGED <<status, table, computed, sched>>,
         \A b \in Blocks : AfterThisStep[b] \subseteq AfterThisStep'[b],
         NEW q \in Req,
         \A pos \in Nat : status[q] = "WAITING_FOR_REMOTE_KVS" /\ Waited(q, pos)
                    /\ Place(q, pos) \in Blocks => Waited(q, pos)' \/ There(q, pos)'
  PROVE  ComputedThere(q)'
<1>1. ComputedThere(q)
  BY DEF DataInv
<1>2. computed'[q] \in Nat /\ sched'[q] \in Nat
  BY DEF HeldInv, RemoteTypes
<1>3. \A b \in Range(table[q]) : AfterThisStep[b] \subseteq AfterThisStep'[b]
  BY TableBlocks
<1>4. CASE status[q] \in InQueues \cup {"ABSENT"}
  <2>1. ASSUME NEW pos \in 0 .. computed'[q] + sched'[q] - 1,
               status[q] = "WAITING_FOR_REMOTE_KVS" /\ Waited(q, pos)
        PROVE  Waited(q, pos)' \/ There(q, pos)'
    <3>1. pos \in 0 .. computed[q] + sched[q] - 1
      OBVIOUS
    <3>2. pos \in Nat /\ Place(q, pos) \in Blocks
      BY <1>4, <3>1, PlaceIs
    <3> HIDE DEF Waited, There, Place
    <3> QED BY <2>1, <3>2
  <2>2. computed'[q] + sched'[q] <= computed[q] + sched[q]
    BY <1>2
  <2> HIDE DEF Waited, There, ComputedThere
  <2> QED BY <1>1, <1>2, <1>3, <2>1, <2>2, StillThere
<1>5. CASE status[q] \notin InQueues \cup {"ABSENT"}
  BY <1>5 DEF ComputedThere
<1> QED BY <1>4, <1>5

\* The step under way writes what it would, as long as it does not change.
LEMMA WorkerWrites ==
  ASSUME HeldInv, UNCHANGED <<table, computed, sched, step, pc>>, NEW b \in Blocks,
         kv[b] \subseteq kv'[b]
  PROVE  AfterThisStep[b] \subseteq AfterThisStep'[b]
<1>1. ASSUME NEW q \in Req PROVE Coming(q, b) \subseteq Coming(q, b)'
  <2>1. /\ InStep(q)' = InStep(q) /\ ComingFrom(q)' = ComingFrom(q)
        /\ ComingTo(q)' = ComingTo(q)
    BY DEF InStep, ComingFrom, ComingTo
  <2> HIDE DEF InStep, ComingFrom, ComingTo
  <2> QED BY <2>1, ComingKept
<1> QED BY <1>1, AfterGrows

\* A block of a transfer fails: the request waits to hear of it.
LEMMA BlockFailsData ==
  ASSUME HeldInv, HeldInv', DataInv, NEW r \in Req, NEW b \in Blocks, BlockFails(r, b)
  PROVE  DataInv'
<1>1. /\ pc = "worker" /\ r \in Loading /\ b \in Target(r) /\ errors' = errors \cup {b}
      /\ load' = [load EXCEPT ![r].failed = @ \cup {b}]
      /\ UNCHANGED <<status, table, computed, sched, step, pc, kv, out, cached, badOutputs>>
  BY DEF BlockFails, planVars, history
<1>2. RemoteTypes /\ RemoteTypes'
  BY DEF HeldInv
<1>3. /\ load[r] # NoLoad /\ load[r].kind = "recv" /\ load[r] \in Loads /\ r \in Receiving
  BY <1>1, <1>2 DEF Loading, Receiving, RemoteTypes
<1>4. /\ load'[r] \in Loads /\ load'[r] # NoLoad /\ load'[r].kind = "recv"
      /\ load'[r].from = load[r].from /\ load'[r].to = load[r].to
      /\ load'[r].failed = load[r].failed \cup {b}
      /\ \A q \in Req \ {r} : load'[q] = load[q]
  <2>1. load'[r] = [load[r] EXCEPT !.failed = @ \cup {b}]
    BY <1>1, <1>2 DEF RemoteTypes
  <2>2. load'[r] \in Loads
    BY <1>3, <2>1 DEF Loads
  <2>3. \A q \in Req \ {r} : load'[q] = load[q]
    BY <1>1, <1>2 DEF RemoteTypes
  <2> QED BY <1>3, <2>1, <2>2, <2>3, ConstantsAssumption DEF Loads
<1>5. \A q \in Req : q \in Receiving' <=> q \in Receiving
  BY <1>3, <1>4 DEF Receiving
<1>6. \A d \in Blocks : AfterThisStep[d] \subseteq AfterThisStep'[d]
  BY <1>1, WorkerWrites
<1>7. ASSUME NEW q \in Req PROVE ComputedThere(q)'
  <2>1. ASSUME NEW pos, Waited(q, pos) PROVE Waited(q, pos)'
    <3>1. Place(q, pos)' = Place(q, pos)
      BY <1>1 DEF Place
    <3> HIDE DEF Place
    <3>2. CASE q # r
      BY <1>1, <1>4, <1>5, <2>1, <3>1, <3>2 DEF Waited
    <3>3. CASE q = r
      BY <1>1, <1>3, <1>4, <1>5, <2>1, <3>1, <3>3 DEF Waited
    <3> QED BY <3>2, <3>3
  <2> HIDE DEF Waited, There, ComputedThere, Place
  <2> QED BY <1>1, <1>6, <2>1, WorkerThere
<1>8. CacheTrue'
  BY <1>1, <1>6 DEF DataInv, CacheTrue
<1>9. LossesKnown'
  <2>1. LostOnce'
    BY <1>1 DEF DataInv, LossesKnown, LostOnce
  <2>2. ASSUME NEW d \in errors' PROVE \E q \in Receiving' : d \in load'[q].failed
    <3>1. CASE d = b
      BY <1>3, <1>4, <1>5, <3>1
    <3>2. CASE d # b
      <4>1. PICK q \in Receiving : d \in load[q].failed
        BY <1>1, <3>2 DEF DataInv, LossesKnown
      <4>2. q \in Req
        BY DEF Receiving
      <4>3. q \in Receiving'
        BY <1>5, <4>2
      <4>4. d \in load'[q].failed
        BY <1>4, <4>1, <4>2
      <4> QED BY <4>3, <4>4
    <3> QED BY <3>1, <3>2
  <2> QED BY <1>1, <2>1, <2>2 DEF LossesKnown
<1>10. badOutputs' = {} /\ pc' # "update"
  BY <1>1 DEF DataInv
<1> HIDE DEF ComputedThere, CacheTrue, LossesKnown
<1> QED BY <1>7, <1>8, <1>9, <1>10 DEF DataInv

\* A transfer ends: what did not fail is there.
LEMMA TransferEndsData ==
  ASSUME HeldInv, HeldInv', DataInv, NEW r \in Req, TransferEnds(r)
  PROVE  DataInv'
<1> DEFINE end == IF r \in Loading THEN "received" ELSE "sent"
           arrived == Target(r) \ load[r].failed
<1>1. /\ pc = "worker" /\ r \in Loading \cup Sending
      /\ load' = [load EXCEPT ![r].kind = end]
      /\ kv' = IF r \in Sending THEN kv
               ELSE [b \in Blocks |->
                       IF b \in arrived
                       THEN kv[b] \cup Written(r, load[r].tbl, b, load[r].from, load[r].to)
                       ELSE kv[b]]
      /\ UNCHANGED <<status, table, computed, sched, step, pc, errors, out, cached, badOutputs>>
  BY DEF TransferEnds, planVars, history
<1>2. RemoteTypes /\ RemoteTypes'
  BY DEF HeldInv
<1>3. /\ load[r] # NoLoad /\ load[r].kind \in {"recv", "send"} /\ load[r] \in Loads
      /\ r \in Loading <=> load[r].kind = "recv"
      /\ r \in Sending <=> load[r].kind = "send"
  BY <1>1, <1>2 DEF Loading, Sending, RemoteTypes
<1> HIDE DEF end
<1>4. /\ load'[r] \in Loads /\ load'[r] # NoLoad /\ load'[r].kind = end
      /\ load'[r].failed = load[r].failed
      /\ \A q \in Req \ {r} : load'[q] = load[q]
  <2>1. load'[r] = [load[r] EXCEPT !.kind = end]
    BY <1>1, <1>2 DEF RemoteTypes
  <2>2. load'[r] \in Loads
    BY <1>3, <2>1 DEF Loads, end
  <2>3. \A q \in Req \ {r} : load'[q] = load[q]
    BY <1>1, <1>2 DEF RemoteTypes
  <2> QED BY <1>3, <2>1, <2>2, <2>3, ConstantsAssumption DEF Loads
<1>5. \A q \in Req : q \in Receiving' <=> q \in Receiving
  BY <1>3, <1>4 DEF Receiving, end
<1>6. \A b \in Blocks : AfterThisStep[b] \subseteq AfterThisStep'[b]
  <2> SUFFICES ASSUME NEW b \in Blocks PROVE AfterThisStep[b] \subseteq AfterThisStep'[b]
    OBVIOUS
  <2>1. kv[b] \subseteq kv'[b]
    <3> HIDE DEF arrived
    <3> QED BY <1>1
  <2> QED BY <1>1, <2>1, WorkerWrites
<1>7. ASSUME NEW q \in Req PROVE ComputedThere(q)'
  <2>1. ASSUME NEW pos \in Nat, status[q] = "WAITING_FOR_REMOTE_KVS" /\ Waited(q, pos),
               Place(q, pos) \in Blocks
        PROVE  Waited(q, pos)' \/ There(q, pos)'
    <3>1. Place(q, pos)' = Place(q, pos)
      BY <1>1 DEF Place
    <3>2. CASE q # r \/ Place(q, pos) \in errors \cup out.invalid
      <4> HIDE DEF Place
      <4> QED BY <1>1, <1>4, <1>5, <2>1, <3>1, <3>2 DEF Waited
    <3>3. CASE q = r /\ Place(q, pos) \notin errors \cup out.invalid
      <4>1. /\ r \in Receiving /\ load[r].kind = "recv"
            /\ load[r].from <= pos /\ pos < load[r].to /\ Place(r, pos) \notin load[r].failed
        BY <2>1, <3>3 DEF Waited
      <4>2. load[r].tbl = table[r] /\ load[r].from \in Nat /\ load[r].to \in Nat
        BY <1>3, <4>1 DEF HeldInv, TransferAccount, Loads
      <4>3. PICK b \in Blocks : b = Place(r, pos)
        BY <2>1, <3>3
      <4>4. /\ pos \in load[r].from .. load[r].to - 1
            /\ b = load[r].tbl[pos \div BlockSize + 1]
        BY <4>1, <4>2, <4>3 DEF Place
      <4>5. b \in arrived
        BY <4>1, <4>3, <4>4 DEF Target
      <4> HIDE DEF arrived
      <4>6. <<Prompt[r], pos>> \in Written(r, load[r].tbl, b, load[r].from, load[r].to)
        BY <4>4 DEF Written
      <4>7. r \notin Sending
        BY <1>3, <4>1
      <4>8. <<Prompt[r], pos>> \in kv'[b]
        BY <1>1, <4>5, <4>6, <4>7
      <4>9. kv'[b] \subseteq AfterThisStep'[b]
        <5> HIDE DEF Coming
        <5> QED BY DEF AfterThisStep
      <4>10. Place(q, pos)' = b
        BY <3>1, <3>3, <4>3
      <4> HIDE DEF Place
      <4> QED BY <3>3, <4>8, <4>9, <4>10 DEF There
    <3> QED BY <3>2, <3>3
  <2> HIDE DEF Waited, There, ComputedThere, Place
  <2> QED BY <1>1, <1>6, <2>1, WorkerThere
<1>8. CacheTrue'
  BY <1>1, <1>6 DEF DataInv, CacheTrue
<1>9. LossesKnown'
  <2>1. LostOnce'
    BY <1>1 DEF DataInv, LossesKnown, LostOnce
  <2>2. ASSUME NEW d \in errors' PROVE \E q \in Receiving' : d \in load'[q].failed
    <3>1. PICK q \in Receiving : d \in load[q].failed
      BY <1>1 DEF DataInv, LossesKnown
    <3>2. q \in Req
      BY DEF Receiving
    <3>3. q \in Receiving'
      BY <1>5, <3>2
    <3>4. d \in load'[q].failed
      BY <1>4, <3>1, <3>2
    <3> QED BY <3>3, <3>4
  <2> QED BY <1>1, <2>1, <2>2 DEF LossesKnown
<1>10. badOutputs' = {} /\ pc' # "update"
  BY <1>1 DEF DataInv
<1> HIDE DEF ComputedThere, CacheTrue, LossesKnown
<1> QED BY <1>7, <1>8, <1>9, <1>10 DEF DataInv

\* A span of positions is written part by part.
LEMMA WrittenSplit ==
  ASSUME NEW r, NEW tbl, NEW b, NEW from \in Int, NEW mid \in Int, NEW to \in Int,
         NEW x \in Written(r, tbl, b, from, to)
  PROVE  x \in Written(r, tbl, b, from, mid) \/ x \in Written(r, tbl, b, mid, to)
<1>1. PICK pos \in from .. to - 1 : tbl[pos \div BlockSize + 1] = b /\ x = <<Prompt[r], pos>>
  BY DEF Written
<1>2. pos \in from .. mid - 1 \/ pos \in mid .. to - 1
  OBVIOUS
<1> QED BY <1>1, <1>2 DEF Written

\* A step in which no load fails and no request reads wrong KV writes all it would.
LEMMA StepWrites ==
  ASSUME HeldInv, pc = "worker", NEW b \in Blocks
  PROVE  AfterThisStep[b] \subseteq AfterStep({}, {})[b]
<1> DEFINE span(r, from, to) == Written(r, step.tbl[r], b, from, to)
           first(r) == step.start[r] - step.ext[r]
           last(r) == step.start[r] + step.n[r]
           inStep == {r \in Req : step.n[r] # 0}
<1>1. ASSUME NEW r \in Req
      PROVE  /\ Coming(r, b) = IF r \in inStep THEN span(r, first(r), last(r)) ELSE {}
             /\ first(r) \in Int /\ step.start[r] \in Int /\ last(r) \in Int
  <2>1. /\ computed[r] = step.start[r] + step.n[r] /\ sched[r] = 0 /\ step.tbl = table
        /\ step.start[r] \in Nat /\ step.n[r] \in Nat /\ step.ext[r] \in Nat
    BY DEF HeldInv, Phases, RemoteTypes, NoStep
  <2>2. ComingFrom(r) = first(r) /\ ComingTo(r) = last(r)
    BY <2>1 DEF ComingFrom, ComingTo
  <2>3. InStep(r) <=> r \in inStep
    BY DEF InStep
  <2> HIDE DEF InStep, ComingFrom, ComingTo
  <2> QED BY <2>1, <2>2, <2>3 DEF Coming
<1>2. AfterThisStep[b] = kv[b] \cup UNION {Coming(r, b) : r \in Req}
  <2> HIDE DEF Coming
  <2> QED BY DEF AfterThisStep
<1> SUFFICES ASSUME NEW x \in AfterThisStep[b] PROVE x \in AfterStep({}, {})[b]
  OBVIOUS
<1>3. CASE \E r \in inStep : x \in span(r, first(r), last(r))
  <2>1. PICK r \in inStep : x \in span(r, first(r), last(r))
    BY <1>3
  <2>2. x \in span(r, first(r), step.start[r]) \/ x \in span(r, step.start[r], last(r))
    <3> HIDE DEF first, last
    <3> QED BY <1>1, <2>1, WrittenSplit
  <2>3. x \in span(r, first(r), step.start[r]) => x \in AfterStep({}, {})[b]
    BY DEF AfterStep
  <2>4. x \in span(r, step.start[r], last(r)) => x \in AfterStep({}, {})[b]
    BY DEF AfterStep
  <2> HIDE DEF span
  <2> QED BY <2>2, <2>3, <2>4
<1>4. CASE \A r \in inStep : x \notin span(r, first(r), last(r))
  <2>1. x \in kv[b]
    <3> HIDE DEF span, first, last, inStep, Coming
    <3> QED BY <1>1, <1>2, <1>4
  <2> QED BY <1>4, <2>1 DEF AfterStep
<1> QED BY <1>3, <1>4

\* Whoever reads, in the step, what its blocks should hold, finds it there.
LEMMA ReadsRight ==
  ASSUME HeldInv, DataInv, pc = "worker", NEW r \in Req, step.n[r] # 0
  PROVE  Holds(AfterStep({}, {}), step.tbl[r], r, 0, step.start[r])
<1> SUFFICES ASSUME NEW pos \in 0 .. step.start[r] - 1
             PROVE  <<Prompt[r], pos>> \in AfterStep({}, {})[step.tbl[r][pos \div BlockSize + 1]]
  BY DEF Holds
<1>1. /\ computed[r] = step.start[r] + step.n[r] /\ sched[r] = 0 /\ step.tbl = table
      /\ step.start[r] \in Nat /\ step.n[r] \in Nat
  BY DEF HeldInv, Phases, RemoteTypes, NoStep
<1>2. status[r] = "RUNNING" /\ ComputedThere(r)
  BY DEF HeldInv, Room, DataInv
<1>3. pos \in 0 .. computed[r] + sched[r] - 1
  BY <1>1
<1>4. Place(r, pos) \in Blocks
  BY <1>2, <1>3, PlaceIs DEF InQueues
<1>5. There(r, pos)
  <2> HIDE DEF There, Waited
  <2> QED BY <1>2, <1>3 DEF ComputedThere, InQueues
<1>6. AfterThisStep[Place(r, pos)] \subseteq AfterStep({}, {})[Place(r, pos)]
  BY <1>4, StepWrites
<1> QED BY <1>1, <1>5, <1>6 DEF There, Place

\* f goes through the readers of wrong KV up to n times.
ReadersTo(f, lost) ==
  f = [n \in 0 .. Cardinality(Req) |->
         IF n = 0 THEN {}
         ELSE {r \in Req : step.n[r] # 0
                 /\ ~Holds(AfterStep(lost, f[n - 1]), step.tbl[r], r, 0, step.start[r])}]

\* Without a failed load nobody reads wrong KV.
LEMMA NobodyWrong ==
  ASSUME HeldInv, DataInv, pc = "worker"
  PROVE  WrongReaders({}) = {}
<1> DEFINE N == Cardinality(Req)
           none == [n \in 0 .. N |-> {}]
           wrong(S) == {r \in Req : step.n[r] # 0
                          /\ ~Holds(AfterStep({}, S), step.tbl[r], r, 0, step.start[r])}
           readers == CHOOSE f : ReadersTo(f, {})
<1>1. N \in Nat
  BY ConstantsAssumption, FS_CardinalityType
<1> HIDE DEF N
<1>2. wrong({}) = {}
  BY ReadsRight
<1> HIDE DEF wrong
<1>3. WrongReaders({}) = readers[N]
  BY DEF WrongReaders, ReadersTo, N
<1>4. \A f : ReadersTo(f, {}) <=> f = [n \in 0 .. N |-> IF n = 0 THEN {} ELSE wrong(f[n - 1])]
  BY DEF ReadersTo, wrong, N
<1>5. ReadersTo(readers, {})
  <2>1. \A n \in 0 .. N : n # 0 => n - 1 \in 0 .. N
    BY <1>1
  <2>2. \A n \in 0 .. N : none[n] = IF n = 0 THEN {} ELSE wrong(none[n - 1])
    BY <1>2, <2>1
  <2>3. none = [n \in 0 .. N |-> IF n = 0 THEN {} ELSE wrong(none[n - 1])]
    <3>1. none = [n \in 0 .. N |-> none[n]]
      OBVIOUS
    <3> HIDE DEF none
    <3> QED BY <2>2, <3>1
  <2>4. ReadersTo(none, {})
    BY <1>4, <2>3
  <2> HIDE DEF none
  <2> QED BY <2>4
<1> HIDE DEF readers
<1>6. readers = [n \in 0 .. N |-> IF n = 0 THEN {} ELSE wrong(readers[n - 1])]
  BY <1>4, <1>5
<1> DEFINE T == {n \in 0 .. N : readers[n] # {}}
<1>7. T = {}
  <2> SUFFICES ASSUME T # {} PROVE FALSE
    OBVIOUS
  <2>1. PICK n \in T : \A m \in T : n <= m
    <3> T \subseteq Nat
      OBVIOUS
    <3> HIDE DEF T
    <3> QED BY LeastNumber
  <2>2. readers[n] = IF n = 0 THEN {} ELSE wrong(readers[n - 1])
    BY <1>6, <2>1
  <2>3. n # 0 /\ n - 1 \in 0 .. N /\ ~(n <= n - 1)
    BY <1>1, <2>1, <2>2
  <2>4. readers[n - 1] = {}
    BY <2>1, <2>3
  <2> QED BY <1>2, <2>1, <2>2, <2>3, <2>4
<1> QED BY <1>1, <1>3, <1>7

\* The step runs and no load fails in it.
LEMMA ExecuteData ==
  ASSUME HeldInv, HeldInv', DataInv, Execute, ~syncFailed'
  PROVE  DataInv'
<1>1. /\ pc = "worker" /\ pc' = "update" /\ errors' = {}
      /\ step' = [step EXCEPT !.bad = WrongReaders({})]
      /\ kv' = AfterStep({}, step'.bad)
      /\ out' = [invalid |-> errors,
                 recv |-> {r \in Req : load[r] # NoLoad /\ load[r].kind = "received"},
                 sent |-> {r \in Req : load[r] # NoLoad /\ load[r].kind = "sent"}]
      /\ load' = [r \in Req |-> IF r \in out'.recv \cup out'.sent THEN NoLoad ELSE load[r]]
      /\ UNCHANGED <<status, computed, table, sched, cached, badOutputs>>
  <2>1. PICK lost \in SUBSET LoadedInStep :
          /\ step' = [step EXCEPT !.bad = WrongReaders(lost)]
          /\ kv' = AfterStep(lost, step'.bad)
          /\ out' = [invalid |-> errors \cup lost,
                     recv |-> {r \in Req : load[r] # NoLoad /\ load[r].kind = "received"},
                     sent |-> {r \in Req : load[r] # NoLoad /\ load[r].kind = "sent"}]
          /\ syncFailed' = (syncFailed \/ lost # {})
    BY Zenon DEF Execute
  <2>2. lost = {}
    BY <2>1
  <2>3. errors \cup {} = errors
    OBVIOUS
  <2> QED BY <2>1, <2>2, <2>3, Zenon DEF Execute
<1>2. step'.bad = {}
  <2> DEFINE wrong == WrongReaders({})
  <2>1. wrong = {}
    BY <1>1, NobodyWrong
  <2> HIDE DEF wrong
  <2>2. step = [n |-> step.n, start |-> step.start, tbl |-> step.tbl, ext |-> step.ext,
                bad |-> step.bad]
    BY DEF HeldInv, RemoteTypes
  <2>3. step' = [step EXCEPT !.bad = wrong]
    BY <1>1 DEF wrong
  <2> QED BY <2>1, <2>2, <2>3
<1>3. \A b \in Blocks : AfterThisStep[b] \subseteq AfterThisStep'[b]
  <2> SUFFICES ASSUME NEW b \in Blocks PROVE AfterThisStep[b] \subseteq AfterThisStep'[b]
    OBVIOUS
  <2>1. AfterThisStep[b] \subseteq kv'[b]
    BY <1>1, <1>2, StepWrites
  <2>2. kv'[b] \subseteq AfterThisStep'[b]
    <3> HIDE DEF Coming
    <3> QED BY DEF AfterThisStep
  <2> QED BY <2>1, <2>2
<1>4. out.invalid = {} /\ out'.invalid = errors
  BY <1>1 DEF HeldInv, Phases, NoOutput
<1>5. ASSUME NEW q \in Req PROVE ComputedThere(q)'
  <2>1. ASSUME NEW pos \in Nat, Waited(q, pos) PROVE Waited(q, pos)'
    <3>1. Place(q, pos)' = Place(q, pos)
      BY <1>1 DEF Place
    <3> HIDE DEF Place
    <3>2. CASE Place(q, pos) \in errors \cup out.invalid
      BY <1>4, <3>1, <3>2 DEF Waited
    <3>3. CASE q \in Receiving /\ load[q].kind = "recv"
      <4>1. q \notin out'.recv /\ q \notin out'.sent
        BY <1>1, <3>3
      <4>2. load'[q] = load[q]
        BY <1>1, <4>1
      <4>3. q \in Receiving'
        BY <3>3, <4>2 DEF Receiving
      <4> QED BY <1>4, <2>1, <3>1, <4>2, <4>3 DEF Waited
    <3> QED BY <2>1, <3>2, <3>3 DEF Waited
  <2> HIDE DEF Waited, There, ComputedThere, Place
  <2> QED BY <1>1, <1>3, <2>1, WorkerThere
<1>6. CacheTrue'
  BY <1>1, <1>3 DEF DataInv, CacheTrue
<1>7. LossesKnown'
  <2>1. ASSUME NEW b \in out'.invalid, NEW q \in Req, NEW r \in Req,
               b \in Range(table'[q]), b \in Range(table'[r])
        PROVE  q = r
    <3>1. PICK s \in Receiving : b \in load[s].failed
      BY <1>4, <2>1 DEF DataInv, LossesKnown
    <3>2. TransferAccount(s)
      BY DEF HeldInv, Receiving
    <3>3. b \in Target(s)
      BY <3>1, <3>2 DEF TransferAccount
    <3>4. \A p \in Req \ {s} : b \notin Range(table[p])
      BY <3>3, TargetsApart
    <3> QED BY <1>1, <2>1, <3>4
  <2>2. LostOnce'
    BY <2>1 DEF LostOnce
  <2> QED BY <1>1, <2>2 DEF LossesKnown
<1>8. badOutputs' = {}
  BY <1>1 DEF DataInv
<1> HIDE DEF ComputedThere, CacheTrue, LossesKnown
<1> QED BY <1>2, <1>5, <1>6, <1>7, <1>8 DEF DataInv

\* What is left to a waiting request after the first pass over the lost blocks is in
\* none of them.
LEMMA NothingLostLeft ==
  ASSUME HeldInv, DataInv, pc = "update", NEW r \in Req, status[r] = "WAITING_FOR_REMOTE_KVS",
         NEW pos \in 0 .. SyncCut.computed[r] - 1
  PROVE  Place(r, pos) \notin out.invalid
<1>1. /\ Range(Waiters) = {q \in Range(skipped) : status[q] = "WAITING_FOR_REMOTE_KVS"}
      /\ Waiters \in Seq(Req) /\ running \in Seq(Req)
      /\ \A q \in Range(running) : status[q] = "RUNNING"
      /\ CutRight(AsyncCut, Waiters, computed, Len(Waiters))
      /\ CutRight(SyncCut, running, AsyncCut.computed, Len(running))
  BY CutsRight
<1>2. r \in Range(skipped)
  <2>1. stepSkipped = <<>> /\ r \in Range(skipped) \cup Range(stepSkipped)
    BY DEF HeldInv, Phases, WaitersSkipped
  <2> QED BY <2>1 DEF Range
<1>3. r \in Passed(Waiters, Len(Waiters)) /\ r \notin Passed(running, Len(running))
  BY <1>1, <1>2, AllPassed
<1>4. step.n[r] = 0
  BY DEF HeldInv, Room, InQueues
<1>5. LostOnce
  BY DEF DataInv, LossesKnown
<1> DEFINE n == SyncCut.computed[r]
           k == CeilDiv(n)
<1>6. n = AsyncCut.computed[r] /\ n \in Nat
  BY <1>1, <1>3 DEF CutRight
<1>7. \A i \in 1 .. k : table[r][i] \notin out.invalid
  BY <1>1, <1>3, <1>4, <1>5, <1>6 DEF CutRight
<1> HIDE DEF n
<1>8. k \in Nat /\ n <= k * BlockSize
  BY <1>6, BlocksFor
<1> HIDE DEF k
<1>9. k * BlockSize \in Int
  BY <1>8, ConstantsAssumption
<1>10. pos \in Nat /\ pos < n
  BY <1>6 DEF n
<1>11. pos < k * BlockSize
  BY <1>6, <1>8, <1>9, <1>10
<1>12. pos \div BlockSize \in Nat /\ pos \div BlockSize + 1 <= k
  BY <1>8, <1>10, <1>11, BlockOf
<1>13. pos \div BlockSize + 1 \in 1 .. k
  BY <1>8, <1>12
<1> QED BY <1>7, <1>13 DEF Place

\* The output of a step is taken.
LEMMA UpdateData ==
  ASSUME HeldInv, HeldInv', DataInv, UpdateFromOutput
  PROVE  DataInv'
<1>1. /\ pc = "update" /\ pc' = "idle" /\ out' = NoOutput
      /\ UNCHANGED <<sched, errors, kv>>
  BY UpdateIs
<1>2. PICK sends \in SUBSET Stopped :
        /\ computed' = SyncCut.computed
        /\ status' = [r \in Req |-> IF r \in Gone(sends) THEN "GONE"
                                    ELSE IF r \in Held(sends) THEN "HELD" ELSE status[r]]
        /\ table' = [r \in Req |-> IF r \in (Ended \cup Released) \ Held(sends) THEN <<>>
                                   ELSE table[r]]
        /\ load' = [r \in Req |->
             IF r \in sends
             THEN [kind |-> "send", tbl |-> table[r], from |-> 0, to |-> Length[r],
                   failed |-> {}]
             ELSE load[r]]
        /\ cached' \in {cached, Emptied(cached, SyncCut.evict)}
        /\ badOutputs' = badOutputs \cup (Stopped \cap step.bad)
  BY UpdateIs
<1>3. /\ \A r \in Stopped : status[r] = "RUNNING"
      /\ SyncCut.computed \in [Req -> Nat]
      /\ \A r \in Req : SyncCut.computed[r] <= computed[r]
  BY <1>1, EndsRight
<1>4. errors = {} /\ errors' = {} /\ out'.invalid = {} /\ step.bad = {} /\ badOutputs = {}
  BY <1>1 DEF DataInv, LossesKnown, NoOutput
<1>5. \A q \in Req : sched[q] = 0
  BY <1>1 DEF HeldInv, Phases, NoStep
<1>6. \A b \in Blocks : AfterThisStep[b] \subseteq AfterThisStep'[b]
  <2> SUFFICES ASSUME NEW b \in Blocks PROVE AfterThisStep[b] \subseteq AfterThisStep'[b]
    OBVIOUS
  <2>1. \A q \in Req : ~InStep(q)
    BY <1>1, <1>5 DEF InStep
  <2> HIDE DEF InStep, ComingFrom, ComingTo
  <2>2. \A q \in Req : Coming(q, b) \subseteq Coming(q, b)'
    BY <2>1, ComingKept
  <2> QED BY <1>1, <2>2, AfterGrows
<1>7. ASSUME NEW q \in Req PROVE ComputedThere(q)'
  <2> SUFFICES ASSUME status'[q] \in InQueues \cup {"ABSENT"},
                      NEW pos \in 0 .. computed'[q] + sched'[q] - 1
               PROVE  There(q, pos)' \/ (status'[q] = "WAITING_FOR_REMOTE_KVS" /\ Waited(q, pos)')
    BY DEF ComputedThere
  <2>1. status'[q] = status[q] /\ table'[q] = table[q]
    <3>1. q \notin Gone(sends) /\ q \notin Held(sends)
      BY <1>2 DEF InQueues
    <3> QED BY <1>2, <3>1 DEF Gone
  <2>2. /\ computed'[q] \in Nat /\ computed[q] \in Nat /\ computed'[q] <= computed[q]
        /\ sched'[q] = 0 /\ sched[q] = 0
    BY <1>1, <1>2, <1>3, <1>5 DEF HeldInv, RemoteTypes
  <2>3. pos \in 0 .. computed[q] + sched[q] - 1 /\ pos \in 0 .. SyncCut.computed[q] - 1
    BY <1>2, <2>2
  <2>4. Place(q, pos)' = Place(q, pos) /\ Place(q, pos) \in Blocks
    <3>1. Place(q, pos)' = Place(q, pos)
      BY <2>1 DEF Place
    <3> HIDE DEF Place
    <3> QED BY <2>1, <2>3, <3>1, PlaceIs
  <2>5. There(q, pos) \/ (status[q] = "WAITING_FOR_REMOTE_KVS" /\ Waited(q, pos))
    <3>1. ComputedThere(q)
      BY DEF DataInv
    <3> HIDE DEF There, Waited
    <3> QED BY <2>1, <2>3, <3>1 DEF ComputedThere
  <2>6. CASE There(q, pos)
    <3> HIDE DEF Place
    <3>1. There(q, pos)'
      BY <1>6, <2>4, <2>6 DEF There
    <3> QED BY <3>1
  <2>7. CASE status[q] = "WAITING_FOR_REMOTE_KVS" /\ Waited(q, pos)
    <3>1. Place(q, pos) \notin out.invalid
      BY <1>1, <2>3, <2>7, NothingLostLeft
    <3> HIDE DEF Place
    <3>2. /\ q \in Receiving /\ load[q].kind = "recv"
          /\ load[q].from <= pos /\ pos < load[q].to /\ Place(q, pos) \notin load[q].failed
      BY <1>4, <2>7, <3>1 DEF Waited
    <3>3. load'[q] = load[q]
      BY <1>2, <1>3, <2>7
    <3>4. q \in Receiving'
      BY <3>2, <3>3 DEF Receiving
    <3>5. Waited(q, pos)'
      BY <2>4, <3>2, <3>3, <3>4 DEF Waited
    <3> QED BY <2>1, <2>7, <3>5
  <2> QED BY <2>5, <2>6, <2>7
<1>8. CacheTrue'
  <2> SUFFICES ASSUME NEW b \in Blocks PROVE cached'[b] \subseteq AfterThisStep'[b]
    BY DEF CacheTrue
  <2>1. cached[b] \subseteq AfterThisStep[b]
    BY DEF DataInv, CacheTrue
  <2>2. cached'[b] \subseteq cached[b]
    BY <1>2 DEF Emptied
  <2> QED BY <1>6, <2>1, <2>2
<1>9. LossesKnown'
  BY <1>4 DEF LossesKnown, LostOnce
<1>10. badOutputs' = {} /\ pc' # "update"
  BY <1>1, <1>2, <1>4
<1> HIDE DEF ComputedThere, CacheTrue, LossesKnown
<1> QED BY <1>7, <1>8, <1>9, <1>10 DEF DataInv

-----------------------------------------------------------------------------
\* As long as no load within a step has failed, blocks hold what the scheduler counts on.
THEOREM RemoteData == Spec => [](HeldInv /\ (~syncFailed => DataInv))
<1>1. Init => HeldInv /\ (~syncFailed => DataInv)
  BY InitHeld, InitData
<1>2. /\ HeldInv /\ (~syncFailed => DataInv)
      /\ HeldInv'
      /\ [Next]_vars
      => (~syncFailed' => DataInv')
  <2> SUFFICES ASSUME HeldInv, ~syncFailed => DataInv, HeldInv', [Next]_vars, ~syncFailed'
               PROVE  DataInv'
    OBVIOUS
  <2>1. ~syncFailed
    <3>1. ASSUME Next PROVE syncFailed' = syncFailed \/ Execute
      BY <3>1 DEF Next, Scheduling, AddRequest, FinishRequest, BeginSchedule, ScheduleRunning,
                  PreemptFor, EndRunning, SkipWaiting, Promote, Admit, EndWaiting, Commit,
                  BlockFails, TransferEnds, UpdateFromOutput, history
    <3>2. Execute => (syncFailed => syncFailed')
      BY DEF Execute
    <3>3. UNCHANGED vars => syncFailed' = syncFailed
      BY DEF vars, history
    <3> QED BY <3>1, <3>2, <3>3
  <2>2. DataInv
    BY <2>1
  <2>3. CASE \E r \in Req : AddRequest(r)
    BY <2>2, <2>3, AddRequestData
  <2>4. CASE \E r \in Req : FinishRequest(r)
    BY <2>2, <2>4, FinishRequestData
  <2>5. CASE BeginSchedule \/ EndRunning \/ EndWaiting
    BY <2>2, <2>5, TurnData
  <2>6. CASE ScheduleRunning
    BY <2>2, <2>6, ScheduleRunningData
  <2>7. CASE PreemptFor
    BY <2>2, <2>7, PreemptForData
  <2>8. CASE SkipWaiting
    BY <2>2, <2>8, SkipWaitingData
  <2>9. CASE Promote
    BY <2>2, <2>9, PromoteData
  <2>10. CASE Admit
    BY <2>2, <2>10, AdmitData
  <2>11. CASE Commit
    BY <2>2, <2>11, CommitData
  <2>12. CASE \E r \in Req, b \in Blocks : BlockFails(r, b)
    BY <2>2, <2>12, BlockFailsData
  <2>13. CASE \E r \in Req : TransferEnds(r)
    BY <2>2, <2>13, TransferEndsData
  <2>14. CASE Execute
    BY <2>2, <2>14, ExecuteData
  <2>15. CASE UpdateFromOutput
    BY <2>2, <2>15, UpdateData
  <2>16. CASE UNCHANGED vars
    BY <2>2, <2>16, StutterData
  <2> QED BY <2>3, <2>4, <2>5, <2>6, <2>7, <2>8, <2>9, <2>10, <2>11, <2>12, <2>13, <2>14,
             <2>15, <2>16 DEF Next, Scheduling
<1> QED BY <1>1, <1>2, RemoteInvariant, PTL DEF Spec

\* CacheTellsTruth for every number of requests and blocks: no block that is still being
\* loaded, or whose load in the background failed, is found in the prefix cache.
THEOREM CacheTruthful == Spec => []CacheTellsTruth
<1>1. HeldInv /\ (~syncFailed => DataInv) => CacheTellsTruth
  <2> SUFFICES ASSUME HeldInv, DataInv, pc \in {"idle", "update"}, NEW b \in Blocks
               PROVE  cached[b] \subseteq kv[b]
    BY DEF CacheTellsTruth
  <2>1. \A q \in Req : ~InStep(q)
    BY DEF InStep, HeldInv, Phases, NoStep
  <2>2. \A q \in Req : Coming(q, b) = {}
    BY <2>1 DEF Coming
  <2>3. AfterThisStep[b] = kv[b]
    <3> HIDE DEF Coming
    <3> QED BY <2>2 DEF AfterThisStep
  <2> QED BY <2>3 DEF DataInv, CacheTrue
<1> QED BY <1>1, RemoteData, PTL

\* TokensFromValidKv for every number of requests and blocks: a request that goes on after
\* a failed transfer has computed again what was lost.
THEOREM TokensValid == Spec => []TokensFromValidKv
<1>1. HeldInv /\ (~syncFailed => DataInv) => TokensFromValidKv
  BY DEF DataInv, TokensFromValidKv
<1> QED BY <1>1, RemoteData, PTL
==============================================================================
