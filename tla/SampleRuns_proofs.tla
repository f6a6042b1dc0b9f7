--------------------------- MODULE SampleRuns_proofs ---------------------------
(***************************************************************************)
(* The three samples that model a device themselves: the block cache, the  *)
(* polled queue pair and the misaligned write, for all values of their     *)
(* constants.                                                              *)
(***************************************************************************)
EXTENDS SampleInvariant, FiniteSetTheorems, SequenceTheorems, TLAPS

-----------------------------------------------------------------------------
(* The block cache *)

LEMMA InitCacheInv == Init => CacheInv
<1> SUFFICES ASSUME Init PROVE CacheInv
  OBVIOUS
<1>1. /\ cache = NoBlock /\ hits = 0 /\ misses = 0 /\ device_reads = 0
  BY Zenon DEF Init, InitCache
<1>2. DOMAIN cache = {}
  BY <1>1 DEF NoBlock
<1>3. IsFiniteSet(DOMAIN cache) /\ Cardinality(DOMAIN cache) = 0
  BY <1>2, FS_EmptySet
<1>4. CacheTypeOK
  BY <1>1, <1>2, CacheAssumption DEF CacheTypeOK
<1>5. CacheServesTheDevice
  BY <1>1, <1>2, <1>3 DEF CacheServesTheDevice
<1> QED BY <1>1, <1>3, <1>4, <1>5 DEF CacheInv

(* The counters with their types, for the arithmetic. *)
LEMMA CacheNumbers ==
    ASSUME CacheInv
    PROVE  /\ hits \in Nat /\ misses \in Nat /\ device_reads \in Nat /\ MaxGets \in Nat
           /\ hits <= MaxGets /\ misses <= MaxGets /\ device_reads <= misses
           /\ DOMAIN cache \subseteq CachedBlocks
           /\ IsFiniteSet(DOMAIN cache)
           /\ device_reads = Cardinality(DOMAIN cache)
BY CacheAssumption DEF CacheInv, CacheTypeOK, CacheServesTheDevice

LEMMA LoseBlocksKeepsCache ==
    ASSUME CacheInv, LoseBlocks
    PROVE  CacheInv'
<1>1. /\ hits + misses = 0
      /\ UNCHANGED <<cache, hits, misses, device_reads, all_good>>
  BY DEF LoseBlocks
<1>2. Cardinality(DOMAIN cache) = 0 /\ IsFiniteSet(DOMAIN cache)
  BY <1>1, CacheNumbers
<1>3. DOMAIN cache = {}
  BY <1>2, FS_EmptySet
<1> QED BY <1>1, <1>3 DEF CacheInv, CacheTypeOK, CacheServesTheDevice

LEMMA HitKeepsCache ==
    ASSUME CacheInv, hits + misses < MaxGets, NEW n \in CachedBlocks, Hit(n)
    PROVE  CacheInv'
<1>1. /\ hits' = hits + 1
      /\ UNCHANGED <<device, cache, misses, device_reads>>
  BY DEF Hit
<1>2. n \in DOMAIN cache /\ (all_good' <=> (all_good /\ cache[n] = n))
  BY Zenon DEF Hit, Judge
<1>3. all_good => cache[n] = n
  BY <1>2, Zenon DEF CacheInv, CacheServesTheDevice
<1>4. all_good' <=> all_good
  BY <1>2, <1>3, Zenon
<1>5. hits' \in Nat /\ hits' <= MaxGets
  BY <1>1, CacheNumbers
<1>6. CacheTypeOK'
  BY <1>1, <1>5, CacheNumbers DEF CacheInv, CacheTypeOK
<1>7. CacheServesTheDevice'
  BY <1>1, <1>4, Zenon DEF CacheInv, CacheServesTheDevice
<1> QED BY <1>1, <1>5, <1>6, <1>7 DEF CacheInv

(* The table after a miss holds one block more. *)
LEMMA MissKeepsCache ==
    ASSUME CacheInv, hits + misses < MaxGets, NEW n \in CachedBlocks, Miss(n)
    PROVE  CacheInv'
<1>1. PICK data \in {None} \union ({n} \intersect device) :
         /\ cache' = [m \in DOMAIN cache \union {n} |-> IF m = n THEN data ELSE cache[m]]
         /\ Judge(n, data)
  BY DEF Miss
<1>2. /\ n \notin DOMAIN cache
      /\ misses' = misses + 1 /\ device_reads' = device_reads + 1
      /\ UNCHANGED <<device, hits>>
  BY DEF Miss
<1>3. all_good' <=> (all_good /\ data = n)
  BY <1>1, Zenon DEF Judge
<1>4. n # None
  BY CacheAssumption DEF None
<1>5. data = n => n \in device
  BY <1>1, <1>4
<1>6. DOMAIN cache' = DOMAIN cache \union {n}
  BY <1>1
<1>7. /\ IsFiniteSet(DOMAIN cache')
      /\ Cardinality(DOMAIN cache') = Cardinality(DOMAIN cache) + 1
  BY <1>2, <1>6, CacheNumbers, FS_AddElement
<1>8. /\ hits' \in Nat /\ hits' <= MaxGets /\ misses' \in Nat /\ misses' <= MaxGets
      /\ device_reads' \in Nat /\ device_reads' <= misses'
      /\ device_reads' = Cardinality(DOMAIN cache')
      /\ (device_reads = misses => device_reads' = misses')
  BY <1>2, <1>7, CacheNumbers
<1>9. CacheTypeOK'
  <2>1. DOMAIN cache' \subseteq CachedBlocks
    BY <1>6, CacheNumbers
  <2>2. {hits', misses', device_reads'} \subseteq 0..MaxGets
    BY <1>8, CacheNumbers
  <2> QED BY <2>1, <2>2 DEF CacheTypeOK
<1>10. ASSUME all_good' PROVE \A m \in DOMAIN cache' : m \in device' /\ cache'[m] = m
  <2>1. all_good /\ data = n
    BY <1>3, <1>10, Zenon
  <2>2. \A m \in DOMAIN cache : m \in device /\ cache[m] = m
    BY <2>1, Zenon DEF CacheInv, CacheServesTheDevice
  <2> QED BY <1>1, <1>2, <1>5, <1>6, <2>1, <2>2
<1>11. ASSUME all_good' PROVE device_reads' = misses'
  <2>1. all_good
    BY <1>3, <1>11, Zenon
  <2>2. device_reads = misses
    BY <2>1, Zenon DEF CacheInv, CacheServesTheDevice
  <2> QED BY <1>8, <2>2
<1>12. CacheServesTheDevice'
  BY <1>8, <1>10, <1>11, Zenon DEF CacheServesTheDevice
<1> QED BY <1>7, <1>8, <1>9, <1>12 DEF CacheInv

LEMMA MissNoMemoryKeepsCache ==
    ASSUME CacheInv, hits + misses < MaxGets, NEW n \in CachedBlocks, MissNoMemory(n)
    PROVE  CacheInv'
<1>1. misses' = misses + 1 /\ UNCHANGED <<device, cache, hits, device_reads>>
  BY DEF MissNoMemory
<1>2. ~all_good'
  <2>1. all_good' <=> (all_good /\ None = n)
    BY Zenon DEF MissNoMemory, Judge
  <2>2. n # None
    BY CacheAssumption DEF None
  <2> QED BY <2>1, <2>2, Zenon
<1>3. misses' \in Nat /\ misses' <= MaxGets /\ device_reads <= misses'
  BY <1>1, CacheNumbers
<1>4. CacheTypeOK'
  BY <1>1, <1>3, CacheNumbers DEF CacheInv, CacheTypeOK
<1>5. CacheServesTheDevice'
  BY <1>1, <1>2, <1>3, CacheNumbers DEF CacheServesTheDevice
<1> QED BY <1>1, <1>3, <1>4, <1>5 DEF CacheInv

LEMMA StepKeepsCache == CacheInv /\ [Next]_allVars => CacheInv'
<1> SUFFICES ASSUME CacheInv, [Next]_allVars PROVE CacheInv'
  OBVIOUS
<1>1. CASE RunCache
  <2>1. CacheStep
    BY <1>1, Zenon DEF RunCache
  <2>2. CASE LoseBlocks
    BY <2>2, LoseBlocksKeepsCache
  <2>3. ASSUME hits + misses < MaxGets,
               NEW n \in CachedBlocks, Hit(n) \/ Miss(n) \/ MissNoMemory(n)
        PROVE  CacheInv'
    BY <2>3, HitKeepsCache, MissKeepsCache, MissNoMemoryKeepsCache
  <2> QED BY <2>1, <2>2, <2>3 DEF CacheStep
<1>2. CASE UNCHANGED cacheVars
  BY <1>2 DEF cacheVars, CacheInv, CacheTypeOK, CacheServesTheDevice
<1>3. RunCache \/ UNCHANGED cacheVars
  BY Zenon DEF Next, RunProgram, RunPoll, RunDevice, Finished, allVars
<1> QED BY <1>1, <1>2, <1>3

(* cache_get never hands main a block that is not the device's without     *)
(* main's flag ok going down, and reads no block from the device twice.    *)
THEOREM CacheIsRight == Spec => []CacheServesTheDevice
<1>1. CacheInv => CacheServesTheDevice
  BY DEF CacheInv
<1> QED BY <1>1, InitCacheInv, StepKeepsCache, PTL DEF Spec

-----------------------------------------------------------------------------
(* Division *)

(* A quotient is determined by the interval it stands for. *)
LEMMA QuotientBounds ==
    ASSUME NEW d \in Nat, d > 0, NEW x \in Nat
    PROVE  /\ x \div d \in Nat
           /\ (x \div d) * d <= x /\ x < (x \div d) * d + d
<1> DEFINE q == x \div d
           r == x % d
<1>1. q \in Int /\ r \in 0 .. d - 1 /\ x = d * q + r
  OBVIOUS
<1>2. q >= 0
  OBVIOUS
<1>3. q * d = d * q /\ q * d \in Int
  BY <1>1
<1> HIDE DEF q, r
<1>4. q \in Nat /\ q * d <= x /\ x < q * d + d
  BY <1>1, <1>2, <1>3
<1> QED BY <1>4 DEF q

LEMMA QuotientIs ==
    ASSUME NEW d \in Nat, d > 0, NEW x \in Nat, NEW q \in Int,
           q * d <= x, x < q * d + d
    PROVE  x \div d = q
<1> DEFINE p == x \div d
<1>1. p \in Nat /\ p * d <= x /\ x < p * d + d
  BY QuotientBounds
<1> HIDE DEF p
<1>2. ASSUME NEW y \in Int, NEW z \in Int, y + 1 <= z
      PROVE  y * d + d <= z * d
  <2>1. z - y - 1 \in Nat
    BY <1>2
  <2>2. (z - y - 1) * d >= 0
    BY <2>1
  <2>3. z * d = y * d + d + (z - y - 1) * d
    OBVIOUS
  <2>4. y * d \in Int /\ z * d \in Int /\ (z - y - 1) * d \in Int
    OBVIOUS
  <2> QED BY <2>2, <2>3, <2>4
<1>3. p * d \in Int /\ q * d \in Int
  BY <1>1
<1>4. ~(p + 1 <= q) /\ ~(q + 1 <= p)
  BY <1>1, <1>2, <1>3
<1> QED BY <1>1, <1>4 DEF p

(* A quotient that is rounded up. *)
LEMMA RoundedUp ==
    ASSUME NEW d \in Nat, d > 0, NEW x \in Nat, NEW q \in Nat,
           x <= q * d, q * d < x + d
    PROVE  (x + d - 1) \div d = q
<1>1. q * d \in Nat
  OBVIOUS
<1>2. x + d - 1 \in Nat /\ q * d <= x + d - 1 /\ x + d - 1 < q * d + d
  BY <1>1
<1> QED BY <1>2, QuotientIs

-----------------------------------------------------------------------------
(* The polled queue pair *)

LEMMA InitPollInv == Init => PollInv
<1> SUFFICES ASSUME Init PROVE PollInv
  OBVIOUS
<1>1. /\ qp = [sq_tail |-> 0, cq_head |-> 0, cq_tail |-> 0, cq_entry |-> 0,
               sq_doorbells |-> 0, cq_doorbells |-> 0,
               now |-> 0, done_at |-> 0, takes |-> 0, in_flight |-> FALSE]
      /\ polls = 0 /\ answers = <<>>
  BY Zenon DEF Init, InitPoll
<1> QED BY <1>1
        DEF PollInv, PollTypeOK, QueuePair, OneAtATime, ClockAndPollsAgree, EntryIsRight,
            CompletionReady, AnswersAreRight

LEMMA PollFields ==
    ASSUME PollInv
    PROVE  /\ qp.sq_tail \in Nat /\ qp.cq_head \in Nat /\ qp.cq_tail \in Nat
           /\ qp.cq_entry \in Nat /\ qp.sq_doorbells \in Nat /\ qp.cq_doorbells \in Nat
           /\ qp.now \in Nat /\ qp.done_at \in Nat /\ qp.takes \in Nat
           /\ polls \in Nat /\ answers \in Seq(Answer) /\ Len(answers) \in Nat
           /\ POLL_NS \in Nat /\ POLL_NS > 0 /\ IDS \in Nat /\ IDS > 0
<1>1. qp \in QueuePair /\ polls \in Nat /\ answers \in Seq(Answer)
  BY DEF PollInv, PollTypeOK
<1> QED BY <1>1, PollAssumption DEF QueuePair

LEMMA SubmitKeepsPoll ==
    ASSUME PollInv, QpSubmit
    PROVE  PollInv'
<1>1. PICK takes \in DEVICE_NS :
         qp' = [qp EXCEPT !.sq_tail = @ + 1, !.sq_doorbells = @ + 1,
                          !.takes = takes, !.done_at = qp.now + takes,
                          !.in_flight = TRUE]
  BY DEF QpSubmit
<1>2. qp.sq_tail = qp.cq_doorbells /\ polls' = 0 /\ answers' = answers
  BY DEF QpSubmit
<1>3. takes \in Nat /\ takes > 0
  BY PollAssumption
<1>4. ~qp.in_flight /\ qp.cq_tail = qp.cq_head /\ qp.sq_tail = qp.cq_tail
  <2>1. CASE qp.in_flight
    BY <1>2, <2>1, PollFields DEF PollInv, OneAtATime
  <2>2. CASE ~qp.in_flight
    BY <1>2, <2>2 DEF PollInv, OneAtATime
  <2> QED BY <2>1, <2>2
<1>5. qp \in QueuePair
  BY DEF PollInv, PollTypeOK
<1>6. /\ qp'.sq_tail = qp.sq_tail + 1 /\ qp'.in_flight = TRUE
      /\ qp'.takes = takes /\ qp'.done_at = qp.now + takes /\ qp'.now = qp.now
      /\ qp'.cq_head = qp.cq_head /\ qp'.cq_tail = qp.cq_tail
      /\ qp'.cq_doorbells = qp.cq_doorbells
  BY <1>1, <1>5 DEF QueuePair
<1>7. PollTypeOK'
  <2>1. qp' \in QueuePair
    <3>1. qp.sq_tail + 1 \in Nat /\ qp.sq_doorbells + 1 \in Nat
      BY PollFields
    <3>2. qp.now + takes \in Nat
      BY <1>3, PollFields
    <3> QED BY <1>1, <1>3, <1>5, <3>1, <3>2 DEF QueuePair
  <2> QED BY <1>2, <2>1 DEF PollInv, PollTypeOK
<1>8. OneAtATime'
  BY <1>2, <1>4, <1>6 DEF PollInv, OneAtATime
<1>9. ClockAndPollsAgree'
  <2>1. polls' * POLL_NS = 0
    BY <1>2, PollFields
  <2>2. qp'.now + qp'.takes = qp'.done_at + 0 /\ 0 < qp'.takes
    BY <1>3, <1>6, PollFields
  <2> QED BY <1>6, <2>1, <2>2 DEF ClockAndPollsAgree
<1>10. EntryIsRight' /\ AnswersAreRight'
  BY <1>2, <1>4, <1>6
     DEF PollInv, EntryIsRight, CompletionReady, AnswersAreRight, PollsFor
<1> QED BY <1>7, <1>8, <1>9, <1>10 DEF PollInv

(* One more turn of the loop: the device answers in the first turn that is *)
(* late enough.                                                            *)
LEMMA TickKeepsPoll ==
    ASSUME PollInv, DeviceTick
    PROVE  PollInv'
<1> DEFINE now == qp.now + POLL_NS
<1>1. /\ qp.sq_tail # qp.cq_doorbells /\ qp.cq_head = qp.cq_tail
      /\ polls' = polls + 1 /\ answers' = answers
      /\ qp' = IF qp.in_flight /\ now >= qp.done_at
               THEN [qp EXCEPT !.now = now, !.cq_entry = (qp.sq_tail - 1) % IDS,
                               !.cq_tail = @ + 1, !.in_flight = FALSE]
               ELSE [qp EXCEPT !.now = now]
  BY DEF DeviceTick, CompletionReady
<1>2. qp.in_flight
  <2>1. CASE ~qp.in_flight
    BY <1>1, <2>1 DEF PollInv, OneAtATime
  <2> QED BY <2>1
<1>3. /\ qp.sq_tail = qp.cq_tail + 1
      /\ qp.cq_head = Len(answers) /\ qp.cq_doorbells = Len(answers)
      /\ qp.takes > 0 /\ qp.now + qp.takes = qp.done_at + polls * POLL_NS
      /\ polls * POLL_NS < qp.takes
  BY <1>2 DEF PollInv, OneAtATime, ClockAndPollsAgree
<1>4. qp \in QueuePair
  BY DEF PollInv, PollTypeOK
<1>5. now \in Nat /\ polls' \in Nat
  <2>1. now \in Nat
    BY PollFields
  <2>2. polls' \in Nat
    BY <1>1, PollFields
  <2> QED BY <2>1, <2>2
<1>6. PICK m \in Nat :
        /\ polls * POLL_NS = m /\ polls' * POLL_NS = m + POLL_NS
  <2>1. PICK n \in Nat : n = polls
    BY PollFields
  <2>2. n * POLL_NS \in Nat /\ (n + 1) * POLL_NS = n * POLL_NS + POLL_NS
    BY <2>1, PollAssumption
  <2> QED BY <1>1, <2>1, <2>2
<1>7. /\ qp.now \in Nat /\ qp.done_at \in Nat /\ qp.takes \in Nat /\ POLL_NS \in Nat
  BY PollFields
<1>8. qp.now + qp.takes = qp.done_at + m /\ m < qp.takes
  BY <1>3, <1>6
<1>9. /\ now + qp.takes = qp.done_at + (m + POLL_NS)
      /\ now >= qp.done_at => m + POLL_NS >= qp.takes
      /\ m + POLL_NS >= qp.takes => now >= qp.done_at
  BY <1>7, <1>8
<1>10. CASE now >= qp.done_at
  <2>1. qp' = [qp EXCEPT !.now = now, !.cq_entry = (qp.sq_tail - 1) % IDS,
                         !.cq_tail = @ + 1, !.in_flight = FALSE]
    BY <1>1, <1>2, <1>10
  <2>2. /\ qp'.sq_tail = qp.sq_tail /\ qp'.in_flight = FALSE
        /\ qp'.takes = qp.takes /\ qp'.cq_entry = (qp.sq_tail - 1) % IDS
        /\ qp'.cq_head = qp.cq_head /\ qp'.cq_tail = qp.cq_tail + 1
        /\ qp'.cq_doorbells = qp.cq_doorbells
    BY <1>4, <2>1 DEF QueuePair
  <2>3. qp.sq_tail - 1 = Len(answers) /\ (qp.sq_tail - 1) % IDS \in Nat
    BY <1>1, <1>3, PollFields
  <2>4. PollTypeOK'
    <3>1. qp' \in QueuePair
      <4>1. qp.cq_tail + 1 \in Nat
        BY PollFields
      <4> HIDE DEF now
      <4> QED BY <1>4, <1>5, <2>1, <2>3, <4>1 DEF QueuePair
    <3> QED BY <1>1, <1>5, <3>1 DEF PollInv, PollTypeOK
  <2>5. OneAtATime'
    BY <1>1, <1>3, <2>2 DEF OneAtATime
  <2>6. polls' = PollsFor(qp.takes)
    <3>1. qp.takes <= polls' * POLL_NS /\ polls' * POLL_NS < qp.takes + POLL_NS
      BY <1>6, <1>10, <1>7, <1>8, <1>9
    <3>2. PICK q : q = polls'
      OBVIOUS
    <3>3. (qp.takes + POLL_NS - 1) \div POLL_NS = q
      BY <1>5, <3>1, <3>2, PollFields, RoundedUp
    <3> QED BY <3>2, <3>3 DEF PollsFor
  <2>7. EntryIsRight'
    BY <1>1, <2>2, <2>3, <2>6 DEF EntryIsRight, PollsFor
  <2>8. ClockAndPollsAgree' /\ AnswersAreRight'
    BY <1>1, <2>2 DEF PollInv, ClockAndPollsAgree, AnswersAreRight, PollsFor
  <2> QED BY <2>4, <2>5, <2>7, <2>8 DEF PollInv
<1>11. CASE ~(now >= qp.done_at)
  <2>1. qp' = [qp EXCEPT !.now = now]
    BY <1>1, <1>11
  <2>2. /\ qp'.sq_tail = qp.sq_tail /\ qp'.in_flight = qp.in_flight
        /\ qp'.takes = qp.takes /\ qp'.now = now /\ qp'.done_at = qp.done_at
        /\ qp'.cq_head = qp.cq_head /\ qp'.cq_tail = qp.cq_tail
        /\ qp'.cq_doorbells = qp.cq_doorbells
    BY <1>4, <2>1 DEF QueuePair
  <2>3. PollTypeOK'
    <3>1. qp' \in QueuePair
      <4> HIDE DEF now
      <4> QED BY <1>4, <1>5, <2>1 DEF QueuePair
    <3> QED BY <1>1, <1>5, <3>1 DEF PollInv, PollTypeOK
  <2>4. OneAtATime'
    BY <1>1, <1>2, <1>3, <2>2 DEF OneAtATime
  <2>5. ClockAndPollsAgree'
    <3>1. polls' * POLL_NS < qp.takes
      BY <1>6, <1>11, <1>7, <1>9
    <3> QED BY <1>3, <1>6, <1>9, <2>2, <3>1 DEF ClockAndPollsAgree
  <2>6. EntryIsRight' /\ AnswersAreRight'
    BY <1>1, <2>2 DEF PollInv, EntryIsRight, CompletionReady, AnswersAreRight, PollsFor
  <2> QED BY <2>3, <2>4, <2>5, <2>6 DEF PollInv
<1> QED BY <1>10, <1>11

LEMMA ReapKeepsPoll ==
    ASSUME PollInv, QpReap
    PROVE  PollInv'
<1> DEFINE a == [id |-> qp.cq_entry, polls |-> polls, takes |-> qp.takes]
           A == Len(answers)
<1>1. /\ CompletionReady /\ polls' = polls
      /\ qp' = [qp EXCEPT !.cq_head = @ + 1, !.cq_doorbells = @ + 1]
      /\ answers' = Append(answers, a)
  BY DEF QpReap
<1>2. /\ qp.cq_entry = A % IDS /\ polls = PollsFor(qp.takes)
      /\ qp.cq_tail = qp.cq_head + 1 /\ ~qp.in_flight
      /\ qp.cq_head = A /\ qp.cq_doorbells = A
      /\ qp.sq_tail = qp.cq_tail
  <2>1. ~qp.in_flight
    BY <1>1 DEF PollInv, OneAtATime, CompletionReady
  <2> QED BY <1>1, <2>1 DEF PollInv, OneAtATime, CompletionReady, EntryIsRight
<1>3. qp \in QueuePair
  BY DEF PollInv, PollTypeOK
<1>4. /\ qp'.sq_tail = qp.sq_tail /\ qp'.in_flight = qp.in_flight
      /\ qp'.cq_head = qp.cq_head + 1 /\ qp'.cq_tail = qp.cq_tail
      /\ qp'.cq_doorbells = qp.cq_doorbells + 1
  BY <1>1, <1>3 DEF QueuePair
<1>5. a \in Answer
  BY PollFields DEF Answer
<1>6. /\ answers' \in Seq(Answer) /\ Len(answers') = A + 1 /\ answers'[A + 1] = a
      /\ \A k \in 1..A : answers'[k] = answers[k]
  <2> HIDE DEF a
  <2> QED BY <1>1, <1>5, PollFields
<1>7. PollTypeOK'
  <2>1. qp' \in QueuePair
    <3>1. qp.cq_head + 1 \in Nat /\ qp.cq_doorbells + 1 \in Nat
      BY PollFields
    <3> QED BY <1>1, <1>3, <3>1 DEF QueuePair
  <2> QED BY <1>1, <1>6, <2>1, PollFields DEF PollTypeOK
<1>8. OneAtATime'
  <2>1. qp'.in_flight = FALSE
    BY <1>2, <1>3, <1>4 DEF QueuePair
  <2> QED BY <1>2, <1>4, <1>6, <2>1, PollFields DEF OneAtATime
<1>9. ClockAndPollsAgree' /\ EntryIsRight'
  BY <1>2, <1>4 DEF ClockAndPollsAgree, EntryIsRight, CompletionReady
<1>10. AnswersAreRight'
  <2> SUFFICES ASSUME NEW k \in 1..(A + 1)
               PROVE  /\ answers'[k].id = (k - 1) % IDS
                      /\ answers'[k].polls = PollsFor(answers'[k].takes)
    BY <1>6 DEF AnswersAreRight, PollsFor
  <2>1. CASE k = A + 1
    <3>1. k - 1 = A /\ answers'[k] = a
      BY <1>6, <2>1, PollFields
    <3> QED BY <1>2, <3>1
  <2>2. CASE k # A + 1
    <3>1. k \in 1..A
      BY <2>2, PollFields
    <3> QED BY <1>6, <3>1 DEF PollInv, AnswersAreRight
  <2> QED BY <2>1, <2>2
<1> QED BY <1>7, <1>8, <1>9, <1>10 DEF PollInv

LEMMA StepKeepsPoll == PollInv /\ [Next]_allVars => PollInv'
<1> SUFFICES ASSUME PollInv, [Next]_allVars PROVE PollInv'
  OBVIOUS
<1>1. CASE RunPoll
  <2>1. QpSubmit \/ DeviceTick \/ QpReap
    BY <1>1, Zenon DEF RunPoll, PollStep
  <2> QED BY <2>1, SubmitKeepsPoll, TickKeepsPoll, ReapKeepsPoll
<1>2. CASE UNCHANGED pollVars
  BY <1>2
     DEF pollVars, PollInv, PollTypeOK, OneAtATime, ClockAndPollsAgree, EntryIsRight,
         CompletionReady, AnswersAreRight, PollsFor
<1>3. RunPoll \/ UNCHANGED pollVars
  BY Zenon DEF Next, RunProgram, RunCache, RunDevice, Finished, allVars
<1> QED BY <1>1, <1>2, <1>3

(* Every command is answered once, under its own id, after as many turns   *)
(* of the loop as the device takes, rounded up, whatever those times are.  *)
THEOREM PollIsRight == Spec => []PollCompletesEachOnce
<1>1. ASSUME PollInv PROVE PollCompletesEachOnce
  <2>1. /\ Len(answers) <= qp.sq_tail
        /\ qp.cq_tail - qp.cq_head = IF qp.in_flight THEN 0 ELSE qp.sq_tail - Len(answers)
    <3>1. CASE qp.in_flight
      BY <1>1, <3>1, PollFields DEF PollInv, OneAtATime
    <3>2. CASE ~qp.in_flight
      BY <1>1, <3>2, PollFields DEF PollInv, OneAtATime
    <3> QED BY <3>1, <3>2
  <2> QED BY <1>1, <2>1 DEF PollInv, PollCompletesEachOnce, AnswersAreRight, PollsFor
<1> QED BY <1>1, InitPollInv, StepKeepsPoll, PTL DEF Spec

-----------------------------------------------------------------------------
(* The misaligned write *)

(* The numbers of the write in progress: the range starts and ends inside  *)
(* the device, its blocks First to Last are blocks of the device.          *)
LEMMA RangeNumbers ==
    ASSUME RangeOK
    PROVE  /\ range.offset \in Nat /\ range.len \in Nat /\ range.len > 0
           /\ range.offset + range.len <= DBLOCK * DBLOCKS
           /\ DBLOCK \in Nat /\ DBLOCK > 0 /\ DBLOCKS \in Nat
           /\ First \in Nat /\ Last \in Nat /\ next_block \in Nat
           /\ First <= next_block /\ next_block <= Last + 1
<1>1. /\ range.offset \in Nat /\ range.len \in Nat /\ range.len > 0
      /\ range.offset + range.len <= DBLOCK * DBLOCKS
      /\ DBLOCK \in Nat /\ DBLOCK > 0 /\ DBLOCKS \in Nat
      /\ next_block \in First..(Last + 1)
  BY DeviceAssumption DEF RangeOK
<1>2. range.offset + range.len - 1 \in Nat
  BY <1>1
<1>3. First \in Nat /\ Last \in Nat
  BY <1>1, <1>2, QuotientBounds DEF First, Last
<1> QED BY <1>1, <1>3

(* Where block b of the device lies, and which of its bytes the turn of    *)
(* the loop at b is to overwrite.                                          *)
LEMMA BlockBounds ==
    ASSUME NEW x \in Bytes
    PROVE  /\ x \in Nat /\ x \div DBLOCK \in Nat
           /\ (x \div DBLOCK) * DBLOCK <= x /\ x < (x \div DBLOCK) * DBLOCK + DBLOCK
<1>1. x \in Nat /\ DBLOCK \in Nat /\ DBLOCK > 0
  BY DeviceAssumption DEF Bytes
<1> QED BY <1>1, QuotientBounds

LEMMA NextMultiple ==
    ASSUME NEW b \in Nat
    PROVE  b * DBLOCK \in Nat /\ (b + 1) * DBLOCK = b * DBLOCK + DBLOCK
BY DeviceAssumption

LEMMA EarlierBlock ==
    ASSUME NEW b \in Nat, NEW c \in Nat, b < c
    PROVE  /\ b * DBLOCK \in Nat /\ c * DBLOCK \in Nat
           /\ b * DBLOCK + DBLOCK <= c * DBLOCK
<1>1. DBLOCK \in Nat /\ b * DBLOCK \in Nat /\ c * DBLOCK \in Nat
  BY DeviceAssumption
<1>2. c - b - 1 \in Nat
  OBVIOUS
<1>3. (c - b - 1) * DBLOCK \in Nat
  BY <1>1, <1>2
<1>4. c * DBLOCK = b * DBLOCK + DBLOCK + (c - b - 1) * DBLOCK
  BY <1>1
<1> QED BY <1>1, <1>3, <1>4

LEMMA PartOfBlock ==
    ASSUME RangeOK, NEW b \in Nat, NEW x \in Bytes, x \div DBLOCK = b
    PROVE  x \in Lo(b)..(Hi(b) - 1) <=> x \in Written
<1>1. /\ x \in Nat /\ b * DBLOCK <= x /\ x < b * DBLOCK + DBLOCK
  BY BlockBounds
<1>2. b * DBLOCK \in Nat /\ (b + 1) * DBLOCK = b * DBLOCK + DBLOCK
  BY NextMultiple
<1>3. /\ range.offset \in Nat /\ range.len \in Nat
      /\ DBLOCK \in Nat
  BY RangeNumbers
<1> DEFINE p == b * DBLOCK
           q == (b + 1) * DBLOCK
<1>4. p \in Nat /\ q = p + DBLOCK /\ p <= x /\ x < q
  BY <1>1, <1>2, <1>3
<1> HIDE DEF p, q
<1>5. /\ Lo(b) = IF range.offset > p THEN range.offset ELSE p
      /\ Hi(b) = IF range.offset + range.len < q THEN range.offset + range.len ELSE q
  BY DEF Lo, Hi, p, q
<1> QED BY <1>1, <1>3, <1>4, <1>5 DEF Written

(* The blocks that need no read are the ones covered as a whole. *)
LEMMA WholeBlock ==
    ASSUME RangeOK, NEW b \in Nat, First <= b, b <= Last
    PROVE  /\ b \in 0..(DBLOCKS - 1)
           /\ Hi(b) - Lo(b) = DBLOCK <=> b \in Whole
<1> DEFINE o == range.offset
           e == range.offset + range.len
           p == b * DBLOCK
           q == (b + 1) * DBLOCK
<1>1. /\ o \in Nat /\ e \in Nat /\ o < e /\ e <= DBLOCK * DBLOCKS
      /\ range.len \in Nat /\ DBLOCK \in Nat /\ DBLOCK > 0 /\ DBLOCKS \in Nat
      /\ First \in Nat /\ Last \in Nat
  BY RangeNumbers
<1>2. p \in Nat /\ q = p + DBLOCK
  BY NextMultiple
<1>3. p < e
  <2>1. Last * DBLOCK <= e - 1
    <3>1. e - 1 \in Nat /\ Last = (e - 1) \div DBLOCK
      BY <1>1 DEF Last
    <3> QED BY <1>1, <3>1, QuotientBounds
  <2>2. p <= Last * DBLOCK
    BY <1>1
  <2>3. Last * DBLOCK \in Nat
    BY <1>1
  <2> QED BY <1>1, <1>2, <2>1, <2>2, <2>3
<1>4. o < q
  <2>1. o < First * DBLOCK + DBLOCK
    BY <1>1, QuotientBounds DEF First
  <2>2. First * DBLOCK <= p
    BY <1>1
  <2>3. First * DBLOCK \in Nat
    BY <1>1
  <2> QED BY <1>1, <1>2, <2>1, <2>2, <2>3
<1>5. b < DBLOCKS
  <2> SUFFICES ASSUME DBLOCKS <= b PROVE FALSE
    BY <1>1
  <2>1. DBLOCKS * DBLOCK <= b * DBLOCK
    BY <1>1
  <2>2. DBLOCKS * DBLOCK = DBLOCK * DBLOCKS /\ DBLOCK * DBLOCKS \in Nat
    BY <1>1
  <2> QED BY <1>1, <1>2, <1>3, <2>1, <2>2
<1>6. /\ Lo(b) = IF o > p THEN o ELSE p
      /\ Hi(b) = IF e < q THEN e ELSE q
  BY DEF Lo, Hi
<1>7. b \in 0..(DBLOCKS - 1)
  BY <1>1, <1>5
<1>8. b \in Whole <=> p \in o..(e - 1) /\ q - 1 \in o..(e - 1)
  <2>1. b \in Whole <=> b * DBLOCK \in Written /\ (b + 1) * DBLOCK - 1 \in Written
    BY <1>7 DEF Whole
  <2>2. Written = o..(e - 1)
    BY <1>1 DEF Written
  <2> QED BY <2>1, <2>2
<1> HIDE DEF o, e, p, q
<1>9. Hi(b) - Lo(b) = DBLOCK <=> o <= p /\ q <= e
  BY <1>1, <1>2, <1>3, <1>4, <1>6
<1>10. p \in o..(e - 1) /\ q - 1 \in o..(e - 1) <=> o <= p /\ q <= e
  BY <1>1, <1>2, <1>3, <1>4
<1> QED BY <1>7, <1>8, <1>9, <1>10

LEMMA WholeIsFinite ==
    IsFiniteSet(Whole)
<1>1. 0 \in Int /\ DBLOCKS - 1 \in Int
  BY DeviceAssumption
<1>2. IsFiniteSet(0..(DBLOCKS - 1))
  BY <1>1, FS_Interval
<1>3. Whole \subseteq 0..(DBLOCKS - 1)
  BY DEF Whole
<1> QED BY <1>2, <1>3, FS_Subset

LEMMA InitDeviceInv == Init => DeviceInv
<1> SUFFICES ASSUME Init PROVE DeviceInv
  OBVIOUS
<1>1. /\ media = [x \in Bytes |-> Old] /\ range = NoRange /\ block_reads = 0 /\ block_writes = 0
  BY Zenon DEF Init, InitDevice
<1> QED BY <1>1 DEF DeviceInv, Old, New

LEMMA StartKeepsDevice ==
    ASSUME DeviceInv, StartWrite
    PROVE  DeviceInv'
<1>1. /\ range = NoRange
      /\ UNCHANGED <<media, block_reads, block_writes>>
  BY DEF StartWrite
<1>2. PICK offset \in Bytes, len \in 1..Cardinality(Bytes) :
        /\ offset + len <= Cardinality(Bytes)
        /\ range' = [offset |-> offset, len |-> len]
        /\ next_block' = offset \div DBLOCK
  BY DEF StartWrite
<1>3. /\ media = [x \in Bytes |-> Old] /\ block_reads = 0 /\ block_writes = 0
  BY <1>1 DEF DeviceInv
<1>4. DBLOCK \in Nat /\ DBLOCK > 0 /\ DBLOCKS \in Nat /\ DBLOCK * DBLOCKS \in Nat
  BY DeviceAssumption
<1>5. Cardinality(Bytes) = DBLOCK * DBLOCKS
  <2> DEFINE n == DBLOCK * DBLOCKS
  <2>1. n \in Nat /\ 0 \in Int /\ n - 1 \in Int
    BY <1>4
  <2> HIDE DEF n
  <2>2. Cardinality(0..(n - 1)) = IF 0 > n - 1 THEN 0 ELSE (n - 1) - 0 + 1
    BY <2>1, FS_Interval
  <2>3. Cardinality(0..(n - 1)) = n
    BY <2>1, <2>2
  <2> QED BY <2>3 DEF n, Bytes
<1>6. offset \in Nat /\ len \in Nat /\ len > 0 /\ offset + len <= DBLOCK * DBLOCKS
  BY <1>2, <1>4, <1>5 DEF Bytes
<1>7. /\ range'.offset = offset /\ range'.len = len /\ range' # NoRange
      /\ range' \in [offset : Nat, len : Nat \ {0}]
  BY <1>2, <1>6 DEF NoRange
<1>8. /\ First' = offset \div DBLOCK /\ Last' = (offset + len - 1) \div DBLOCK
      /\ next_block' = First'
  BY <1>2, <1>7 DEF First, Last
<1>9. First' \in Nat /\ Last' \in Nat /\ First' <= Last'
  <2> DEFINE f == offset \div DBLOCK
             l == (offset + len - 1) \div DBLOCK
  <2>1. /\ f \in Nat /\ f * DBLOCK <= offset
        /\ l \in Nat /\ offset + len - 1 < l * DBLOCK + DBLOCK
    <3>1. offset + len - 1 \in Nat
      BY <1>6
    <3> QED BY <1>4, <1>6, <3>1, QuotientBounds
  <2> HIDE DEF f, l
  <2>2. f <= l
    <3> SUFFICES ASSUME l + 1 <= f PROVE FALSE
      BY <2>1
    <3>1. l * DBLOCK \in Nat /\ f * DBLOCK \in Nat /\ l * DBLOCK + DBLOCK <= f * DBLOCK
      BY <2>1, EarlierBlock
    <3> QED BY <1>4, <1>6, <2>1, <3>1
  <2> QED BY <1>8, <2>1, <2>2 DEF f, l
<1>10. RangeOK'
  BY <1>6, <1>7, <1>8, <1>9 DEF RangeOK
<1>11. ASSUME NEW x \in Bytes PROVE ~Done(x)'
  <2> SUFFICES ASSUME x \in offset..(offset + len - 1), x \div DBLOCK < First' PROVE FALSE
    BY <1>7, <1>8 DEF Done, Written
  <2>1. x \in Nat /\ x \div DBLOCK \in Nat /\ x < (x \div DBLOCK) * DBLOCK + DBLOCK
    BY BlockBounds
  <2>2. PICK f \in Nat : f = First'
    BY <1>9
  <2>3. f * DBLOCK <= offset
    BY <1>4, <1>6, <1>8, <2>2, QuotientBounds
  <2>4. PICK b \in Nat : b = x \div DBLOCK
    BY <2>1
  <2>5. b * DBLOCK \in Nat /\ f * DBLOCK \in Nat /\ b * DBLOCK + DBLOCK <= f * DBLOCK
    BY <2>2, <2>4, EarlierBlock
  <2> QED BY <1>4, <1>6, <2>1, <2>3, <2>4, <2>5
<1>12. {b \in Whole : b < next_block}' = {}
  <2> SUFFICES ASSUME NEW b \in 0..(DBLOCKS - 1), b * DBLOCK \in offset..(offset + len - 1),
                      b < First'
               PROVE  FALSE
    BY <1>7, <1>8 DEF Whole, Written
  <2>1. PICK f \in Nat : f = First' /\ f * DBLOCK <= offset
    <3>1. PICK f \in Nat : f = First'
      BY <1>9
    <3> QED BY <1>4, <1>6, <1>8, <3>1, QuotientBounds
  <2>2. b \in Nat /\ b < f
    BY <1>4, <2>1
  <2>3. b * DBLOCK \in Nat /\ f * DBLOCK \in Nat /\ b * DBLOCK + DBLOCK <= f * DBLOCK
    BY <2>2, EarlierBlock
  <2>4. offset <= b * DBLOCK
    BY <1>6, <2>3
  <2>5. offset \in Nat /\ DBLOCK \in Nat /\ DBLOCK > 0 /\ f * DBLOCK <= offset
    BY <1>4, <1>6, <2>1
  <2> QED BY <2>3, <2>4, <2>5
<1>13. DeviceInv'
  <2>1. media' \in [Bytes -> {Old, New}] /\ \A x \in Bytes : media'[x] = IF Done(x)' THEN New ELSE Old
    BY <1>1, <1>3, <1>11
  <2>2. block_writes' = next_block' - First'
    BY <1>1, <1>3, <1>8, <1>9
  <2>3. block_reads' = block_writes' - Cardinality({b \in Whole : b < next_block}')
    BY <1>1, <1>3, <1>12, FS_EmptySet
  <2> QED BY <1>7, <1>10, <2>1, <2>2, <2>3 DEF DeviceInv
<1> QED BY <1>13

(* A block covered as a whole has no byte outside the range. *)
LEMMA WholeIsWritten ==
    ASSUME RangeOK, NEW b \in Whole, NEW x \in Bytes, x \div DBLOCK = b
    PROVE  x \in Written
<1>1. b \in Nat /\ b * DBLOCK \in Written /\ (b + 1) * DBLOCK - 1 \in Written
  BY DeviceAssumption DEF Whole
<1>2. /\ x \in Nat /\ b * DBLOCK <= x /\ x < b * DBLOCK + DBLOCK
  BY BlockBounds
<1>3. b * DBLOCK \in Nat /\ (b + 1) * DBLOCK = b * DBLOCK + DBLOCK
  BY <1>1, NextMultiple
<1>4. DBLOCK \in Nat /\ range.offset \in Nat /\ range.len \in Nat
  BY RangeNumbers
<1> QED BY <1>1, <1>2, <1>3, <1>4 DEF Written

(* A turn of the loop: the bytes of one block. *)
LEMMA WriteKeepsDevice ==
    ASSUME DeviceInv, WriteBlock
    PROVE  DeviceInv'
<1> DEFINE b == next_block
           full == Hi(b) - Lo(b) = DBLOCK
<1>1. /\ range # NoRange /\ b <= Last
      /\ media' = [x \in Bytes |->
                     IF x \div DBLOCK # b THEN media[x]
                     ELSE IF x \in Lo(b)..(Hi(b) - 1) THEN New ELSE Staging(b, x)]
      /\ block_reads' = IF ~full THEN block_reads + 1 ELSE block_reads
      /\ block_writes' = block_writes + 1
      /\ next_block' = b + 1
      /\ range' = range
  BY DEF WriteBlock
<1>2. /\ RangeOK
      /\ media \in [Bytes -> {Old, New}]
      /\ \A x \in Bytes : media[x] = IF Done(x) THEN New ELSE Old
      /\ block_writes = b - First
      /\ block_reads = block_writes - Cardinality({c \in Whole : c < b})
  BY <1>1 DEF DeviceInv
<1>3. /\ b \in Nat /\ First \in Nat /\ Last \in Nat /\ First <= b /\ b <= Last
      /\ DBLOCK \in Nat
  BY <1>1, <1>2, RangeNumbers
<1>4. b \in 0..(DBLOCKS - 1) /\ (full <=> b \in Whole)
  BY <1>2, <1>3, WholeBlock
<1>5. /\ First' = First /\ Last' = Last /\ Written' = Written /\ Whole' = Whole
  BY <1>1 DEF First, Last, Written, Whole
<1>6. RangeOK'
  <2>1. b + 1 \in First..(Last + 1)
    BY <1>3
  <2>2. next_block' \in First'..(Last' + 1)
    BY <1>1, <1>5, <2>1
  <2> QED BY <1>1, <1>2, <2>2 DEF RangeOK
<1>7. ASSUME NEW x \in Bytes
      PROVE  media'[x] = IF Done(x)' THEN New ELSE Old
  <2>1. x \div DBLOCK \in Nat
    BY BlockBounds
  <2>2. Done(x)' <=> x \in Written /\ x \div DBLOCK < b + 1
    BY <1>1, <1>5 DEF Done
  <2>3. CASE x \div DBLOCK # b
    <3>1. media'[x] = media[x]
      BY <1>1, <2>3
    <3>2. Done(x)' <=> Done(x)
      BY <1>3, <2>1, <2>2, <2>3 DEF Done
    <3> QED BY <1>2, <3>1, <3>2
  <2>4. CASE x \div DBLOCK = b
    <3>1. media'[x] = IF x \in Lo(b)..(Hi(b) - 1) THEN New ELSE Staging(b, x)
      BY <1>1, <2>4
    <3>2. x \in Lo(b)..(Hi(b) - 1) <=> x \in Written
      BY <1>2, <1>3, <2>4, PartOfBlock
    <3>3. Done(x)' <=> x \in Written
      BY <1>3, <2>2, <2>4
    <3>4. CASE x \in Written
      BY <3>1, <3>2, <3>3, <3>4
    <3>5. CASE x \notin Written
      <4>1. ~full
        BY <1>2, <1>4, <2>4, <3>5, WholeIsWritten
      <4>2. media'[x] = media[x]
        BY <3>1, <3>2, <3>5, <4>1 DEF Staging
      <4>3. ~Done(x)
        BY <3>5 DEF Done
      <4> QED BY <1>2, <3>3, <3>5, <4>2, <4>3
    <3> QED BY <3>4, <3>5
  <2> QED BY <2>3, <2>4
<1>8. media' \in [Bytes -> {Old, New}]
  <2>1. media' = [x \in Bytes |-> media'[x]]
    BY <1>1
  <2>2. \A x \in Bytes : media'[x] \in {Old, New}
    BY <1>7
  <2> QED BY <2>1, <2>2
<1>9. block_writes' = next_block' - First'
  BY <1>1, <1>2, <1>3, <1>5
<1> DEFINE before == {c \in Whole : c < b}
           after == {c \in Whole : c < b + 1}
<1>10. IsFiniteSet(before) /\ Cardinality(before) \in Nat /\ b \notin before
  <2>1. before \subseteq Whole
    OBVIOUS
  <2>2. b \notin before
    BY <1>3
  <2> QED BY <2>1, <2>2, WholeIsFinite, FS_Subset, FS_CardinalityType
<1>11. \A c \in Whole : c \in Nat
  BY DeviceAssumption DEF Whole
<1>12. Cardinality(after) = Cardinality(before) + IF full THEN 1 ELSE 0
  <2>1. CASE full
    <3>1. after = before \union {b}
      BY <1>3, <1>4, <1>11, <2>1
    <3> HIDE DEF before, after
    <3> QED BY <1>10, <2>1, <3>1, FS_AddElement
  <2>2. CASE ~full
    <3>1. after = before
      BY <1>3, <1>4, <1>11, <2>2
    <3>2. Cardinality(after) = Cardinality(before)
      BY <3>1
    <3> HIDE DEF before, after, full
    <3> QED BY <1>10, <2>2, <3>2
  <2> QED BY <2>1, <2>2
<1>13. block_reads' = block_writes' - Cardinality({c \in Whole : c < next_block}')
  <2>1. {c \in Whole : c < next_block}' = after
    BY <1>1, <1>5
  <2>2. /\ block_reads = block_writes - Cardinality(before) /\ block_writes \in Int
        /\ Cardinality(before) \in Int
    BY <1>2, <1>3, <1>10
  <2> HIDE DEF before, after
  <2>3. CASE full
    <3>1. /\ block_reads' = block_reads /\ block_writes' = block_writes + 1
          /\ Cardinality(after) = Cardinality(before) + 1
      BY <1>1, <1>12, <2>3
    <3> QED BY <2>1, <2>2, <3>1
  <2>4. CASE ~full
    <3>1. /\ block_reads' = block_reads + 1 /\ block_writes' = block_writes + 1
          /\ Cardinality(after) = Cardinality(before) + 0
      BY <1>1, <1>12, <2>4
    <3> QED BY <2>1, <2>2, <3>1
  <2> QED BY <2>3, <2>4
<1> QED BY <1>1, <1>6, <1>7, <1>8, <1>9, <1>13 DEF DeviceInv

LEMMA StepKeepsDevice == DeviceInv /\ [Next]_allVars => DeviceInv'
<1> SUFFICES ASSUME DeviceInv, [Next]_allVars PROVE DeviceInv'
  OBVIOUS
<1>1. CASE RunDevice
  <2>1. StartWrite \/ WriteBlock
    BY <1>1, Zenon DEF RunDevice, DeviceStep
  <2> QED BY <2>1, StartKeepsDevice, WriteKeepsDevice
<1>2. CASE UNCHANGED deviceVars
  BY <1>2 DEF deviceVars, DeviceInv, RangeOK, Done, Whole, Written, First, Last
<1>3. RunDevice \/ UNCHANGED deviceVars
  BY Zenon DEF Next, RunProgram, RunCache, RunPoll, Finished, allVars
<1> QED BY <1>1, <1>2, <1>3

(* The arithmetic of samples 08, 10 and 11: the quotient of the last byte, *)
(* rounded up and down, is the number of blocks touched.                   *)
LEMMA BlocksOfRange ==
    ASSUME NEW o \in Nat, NEW n \in Nat, n > 0
    PROVE  /\ AlignUp(o + n, DBLOCK) - AlignDown(o, DBLOCK) = DBLOCK * BlocksTouched(o, n)
           /\ o..(o + n - 1) \subseteq
                 AlignDown(o, DBLOCK)..(AlignUp(o + n, DBLOCK) - 1)
<1> DEFINE f == o \div DBLOCK
           l == (o + n - 1) \div DBLOCK
           u == (o + n + DBLOCK - 1) \div DBLOCK
<1>1. DBLOCK \in Nat /\ DBLOCK > 0
  BY DeviceAssumption
<1>2. /\ f \in Nat /\ f * DBLOCK <= o
      /\ l \in Nat /\ l * DBLOCK <= o + n - 1 /\ o + n - 1 < l * DBLOCK + DBLOCK
  <2>1. o + n - 1 \in Nat
    OBVIOUS
  <2> QED BY <1>1, <2>1, QuotientBounds
<1>3. f * DBLOCK \in Nat /\ l * DBLOCK \in Nat /\ (l + 1) * DBLOCK = l * DBLOCK + DBLOCK
  BY <1>1, <1>2
<1>4. u = l + 1
  <2>1. o + n + DBLOCK - 1 \in Nat /\ l + 1 \in Int
    BY <1>1, <1>2
  <2> HIDE DEF l
  <2>2. (l + 1) * DBLOCK <= o + n + DBLOCK - 1 /\ o + n + DBLOCK - 1 < (l + 1) * DBLOCK + DBLOCK
    BY <1>1, <1>2, <1>3
  <2> QED BY <1>1, <2>1, <2>2, QuotientIs
<1>5. /\ AlignDown(o, DBLOCK) = f * DBLOCK
      /\ AlignUp(o + n, DBLOCK) = (l + 1) * DBLOCK
      /\ BlocksTouched(o, n) = l - f + 1
  BY <1>4 DEF AlignDown, AlignUp, BlocksTouched
<1> HIDE DEF f, l, u
<1>6. (l + 1) * DBLOCK - f * DBLOCK = DBLOCK * (l - f + 1)
  BY <1>1, <1>2
<1>7. o..(o + n - 1) \subseteq f * DBLOCK..((l + 1) * DBLOCK - 1)
  BY <1>1, <1>2, <1>3
<1> QED BY <1>5, <1>6, <1>7

(* LBA and block number with their remainders lead back to the offset. *)
LEMMA LocateLeadsBack ==
    ASSUME NEW o \in Nat, NEW start \in Nat
    PROVE  /\ (Locate(start, o).lba - start) * SECTOR + Locate(start, o).in_sector = o
           /\ Locate(start, o).block * DBLOCK + Locate(start, o).in_block = o
<1>1. ASSUME NEW d \in Nat, d > 0 PROVE o \div d \in Nat /\ (o \div d) * d + (o % d) = o
  <2>1. o \div d \in Int /\ o % d \in Int /\ o = d * (o \div d) + (o % d)
    BY <1>1
  <2>2. o \div d \in Nat
    BY <1>1, QuotientBounds
  <2>3. (o \div d) * d = d * (o \div d)
    BY <1>1, <2>1
  <2> QED BY <2>1, <2>2, <2>3
<1>2. SECTOR \in Nat /\ SECTOR > 0 /\ DBLOCK \in Nat /\ DBLOCK > 0
  BY DeviceAssumption
<1>3. /\ o \div SECTOR \in Nat /\ (o \div SECTOR) * SECTOR + (o % SECTOR) = o
      /\ (o \div DBLOCK) * DBLOCK + (o % DBLOCK) = o
  BY <1>1, <1>2
<1>4. (start + o \div SECTOR) - start = o \div SECTOR
  BY <1>3
<1> QED BY <1>3, <1>4 DEF Locate

(* A write of one block covers parts of one physical sector just if it     *)
(* starts on one, where sectors are as large as blocks; a smaller sector   *)
(* is never in the way.                                                    *)
LEMMA AlignedIsClean ==
    ASSUME NEW start \in Nat
    PROVE  /\ CleanWrite(start, DBLOCK) = IsAligned(start, DBLOCK)
           /\ CleanWrite(start, SECTOR)
<1> DEFINE x == start * SECTOR
           q == x \div DBLOCK
           r == x % DBLOCK
<1>1. /\ SECTOR \in Nat /\ SECTOR > 0 /\ DBLOCK \in Nat /\ DBLOCK > 0 /\ SECTOR <= DBLOCK
      /\ x \in Nat
  BY DeviceAssumption
<1>2. x = q * DBLOCK + r /\ q \in Nat /\ r \in 0..(DBLOCK - 1)
  <2> HIDE DEF x
  <2>1. q \in Int /\ r \in 0..(DBLOCK - 1) /\ x = DBLOCK * q + r
    BY <1>1
  <2>2. q \in Nat
    BY <1>1, QuotientBounds
  <2>3. q * DBLOCK = DBLOCK * q
    BY <1>1, <2>1
  <2> QED BY <2>1, <2>2, <2>3
<1>3. q * DBLOCK \in Nat /\ (q + 1) * DBLOCK = q * DBLOCK + DBLOCK
  BY <1>1, <1>2
<1>4. x + DBLOCK - 1 \in Nat
  BY <1>1
<1>5. (x + DBLOCK - 1) \div DBLOCK = q <=> r = 0
  <2> HIDE DEF x, q, r
  <2>1. CASE r = 0
    <3>1. q * DBLOCK <= x + DBLOCK - 1 /\ x + DBLOCK - 1 < q * DBLOCK + DBLOCK
      BY <1>1, <1>2, <1>3, <2>1
    <3> QED BY <1>1, <1>2, <1>4, <2>1, <3>1, QuotientIs
  <2>2. CASE r # 0
    <3>1. /\ (q + 1) * DBLOCK <= x + DBLOCK - 1 /\ x + DBLOCK - 1 < (q + 1) * DBLOCK + DBLOCK
          /\ q + 1 \in Int
      BY <1>1, <1>2, <1>3, <2>2
    <3>2. (x + DBLOCK - 1) \div DBLOCK = q + 1
      BY <1>1, <1>4, <3>1, QuotientIs
    <3> QED BY <1>2, <2>2, <3>2
  <2> QED BY <2>1, <2>2
<1>6. CleanWrite(start, DBLOCK) = IsAligned(start, DBLOCK)
  <2>1. CleanWrite(start, DBLOCK) <=> (x + DBLOCK - 1) \div DBLOCK = q
    BY <1>1 DEF CleanWrite
  <2>2. IsAligned(start, DBLOCK) <=> r = 0
    BY DEF IsAligned
  <2>3. CleanWrite(start, DBLOCK) \in BOOLEAN /\ IsAligned(start, DBLOCK) \in BOOLEAN
    BY DEF CleanWrite, IsAligned
  <2> QED BY <1>5, <2>1, <2>2, <2>3
<1>7. CleanWrite(start, SECTOR)
  <2>1. CASE SECTOR < DBLOCK
    BY <2>1 DEF CleanWrite
  <2>2. CASE SECTOR = DBLOCK
    <3>1. start * DBLOCK <= x /\ x < start * DBLOCK + DBLOCK /\ start * DBLOCK \in Nat
      BY <1>1, <2>2
    <3>2. start * DBLOCK <= x + DBLOCK - 1 /\ x + DBLOCK - 1 < start * DBLOCK + DBLOCK
      BY <1>1, <2>2, <3>1
    <3>3. x \div DBLOCK = start /\ (x + DBLOCK - 1) \div DBLOCK = start
      <4> HIDE DEF x
      <4> QED BY <1>1, <1>4, <3>1, <3>2, QuotientIs
    <3> QED BY <2>2, <3>3 DEF CleanWrite
  <2> QED BY <1>1, <2>1, <2>2
<1> QED BY <1>6, <1>7

(* device_write changes the bytes of the range and no others, at no turn   *)
(* of its loop, with one write per block touched and one read per block    *)
(* partly covered, whatever the sizes of blocks and device.                *)
THEOREM BlocksAreRight == Spec => []BlocksAgree
<1>1. ASSUME DeviceInv PROVE BlocksAgree
  <2> DEFINE o == range.offset
             n == range.len
  <2> SUFFICES ASSUME range # NoRange
               PROVE  LET first == AlignDown(o, DBLOCK)
                          end == AlignUp(o + n, DBLOCK)
                          where == Locate(3, o)
                      IN  /\ \A x \in Bytes \ Written : media[x] = Old
                          /\ (next_block > Last) =>
                               /\ \A x \in Written : media[x] = New
                               /\ block_writes = BlocksTouched(o, n)
                               /\ block_reads = block_writes - Cardinality(Whole)
                          /\ end - first = DBLOCK * BlocksTouched(o, n)
                          /\ Written \subseteq first..(end - 1)
                          /\ (where.lba - 3) * SECTOR + where.in_sector = o
                          /\ where.block * DBLOCK + where.in_block = o
                          /\ \A start \in 0..(2 * DBLOCK) :
                               /\ CleanWrite(start, DBLOCK) = IsAligned(start, DBLOCK)
                               /\ CleanWrite(start, SECTOR)
    BY DEF BlocksAgree, Whole
  <2>1. /\ RangeOK
        /\ \A x \in Bytes : media[x] = IF Done(x) THEN New ELSE Old
        /\ block_writes = next_block - First
        /\ block_reads = block_writes - Cardinality({c \in Whole : c < next_block})
    BY <1>1 DEF DeviceInv
  <2>2. /\ o \in Nat /\ n \in Nat /\ n > 0 /\ DBLOCK \in Nat /\ DBLOCK > 0
        /\ o + n <= DBLOCK * DBLOCKS /\ DBLOCK * DBLOCKS \in Nat
        /\ First \in Nat /\ Last \in Nat /\ next_block \in Nat /\ next_block <= Last + 1
    BY <2>1, RangeNumbers
  <2>3. \A x \in Bytes \ Written : media[x] = Old
    BY <2>1 DEF Done
  <2>4. ASSUME next_block > Last
        PROVE  /\ \A x \in Written : media[x] = New
               /\ block_writes = BlocksTouched(o, n)
               /\ block_reads = block_writes - Cardinality(Whole)
    <3>1. next_block = Last + 1
      BY <2>2, <2>4
    <3>2. ASSUME NEW x \in Written PROVE media[x] = New
      <4>1. x \in Nat /\ x <= o + n - 1 /\ x \in Bytes
        BY <2>2 DEF Written, Bytes
      <4>2. x \div DBLOCK < Last + 1
        <5>1. x \div DBLOCK \in Nat /\ (x \div DBLOCK) * DBLOCK <= x
          BY <4>1, BlockBounds
        <5>2. o + n - 1 \in Nat
          BY <2>2
        <5>3. o + n - 1 < Last * DBLOCK + DBLOCK
          BY <2>2, <5>2, QuotientBounds DEF Last
        <5>4. PICK b \in Nat : b = x \div DBLOCK
          BY <5>1
        <5>5. SUFFICES ASSUME Last < b PROVE FALSE
          BY <2>2, <5>4
        <5>6. PICK l \in Nat : l = Last
          BY <2>2
        <5>7. l * DBLOCK \in Nat /\ b * DBLOCK \in Nat /\ l * DBLOCK + DBLOCK <= b * DBLOCK
          BY <5>5, <5>6, EarlierBlock
        <5>8. b * DBLOCK <= x /\ x < l * DBLOCK + DBLOCK
          BY <4>1, <5>1, <5>2, <5>3, <5>4, <5>6, <5>7, <2>2
        <5> QED BY <4>1, <5>7, <5>8, <2>2
      <4> QED BY <2>1, <3>1, <4>1, <4>2 DEF Done
    <3>3. block_writes = BlocksTouched(o, n)
      <4>1. BlocksTouched(o, n) = Last - First + 1
        BY DEF BlocksTouched, Last, First
      <4> QED BY <2>1, <2>2, <3>1, <4>1
    <3>4. {c \in Whole : c < next_block} = Whole
      <4> SUFFICES ASSUME NEW c \in Whole PROVE c < Last + 1
        BY <3>1
      <4>1. c \in Nat /\ c * DBLOCK \in Written
        BY DeviceAssumption DEF Whole
      <4>2. o + n - 1 \in Nat
        BY <2>2
      <4>3. o + n - 1 < Last * DBLOCK + DBLOCK
        BY <2>2, <4>2, QuotientBounds DEF Last
      <4>4. SUFFICES ASSUME Last < c PROVE FALSE
        BY <2>2, <4>1
      <4>5. PICK l \in Nat : l = Last
        BY <2>2
      <4>6. l * DBLOCK \in Nat /\ c * DBLOCK \in Nat /\ l * DBLOCK + DBLOCK <= c * DBLOCK
        BY <4>1, <4>4, <4>5, EarlierBlock
      <4>7. c * DBLOCK <= o + n - 1
        BY <2>2, <4>1 DEF Written
      <4> QED BY <2>2, <4>2, <4>3, <4>5, <4>6, <4>7
    <3> QED BY <2>1, <3>2, <3>3, <3>4
  <2>5. /\ AlignUp(o + n, DBLOCK) - AlignDown(o, DBLOCK) = DBLOCK * BlocksTouched(o, n)
        /\ Written \subseteq AlignDown(o, DBLOCK)..(AlignUp(o + n, DBLOCK) - 1)
    BY <2>2, BlocksOfRange DEF Written
  <2>6. /\ (Locate(3, o).lba - 3) * SECTOR + Locate(3, o).in_sector = o
        /\ Locate(3, o).block * DBLOCK + Locate(3, o).in_block = o
    BY <2>2, LocateLeadsBack
  <2>7. ASSUME NEW start \in 0..(2 * DBLOCK)
        PROVE  /\ CleanWrite(start, DBLOCK) = IsAligned(start, DBLOCK)
               /\ CleanWrite(start, SECTOR)
    <3>1. start \in Nat
      BY <2>2
    <3> QED BY <3>1, AlignedIsClean
  <2> QED BY <2>3, <2>4, <2>5, <2>6, <2>7
<1> QED BY <1>1, InitDeviceInv, StepKeepsDevice, PTL DEF Spec
=============================================================================
