--------------------------- MODULE UringRings_proofs ---------------------------
(***************************************************************************)
(* Safety of the two io_uring rings for every ring size and counter width. *)
(* The first part is arithmetic around a ring; afterwards Fill, Increment, *)
(* Slide and the index counter % n are only used through these lemmas.     *)
(***************************************************************************)
EXTENDS UringInvariant, SequenceTheorems, TLAPS

LEMMA CountersWrap ==
    /\ SQ_N \in Nat /\ SQ_N > 0 /\ SQ_N < Width /\ Width % SQ_N = 0
    /\ CQ_N \in Nat /\ CQ_N > 0 /\ CQ_N < Width /\ Width % CQ_N = 0
    /\ Width \in Nat /\ Width > 1
BY RingAssumption

(* The remainder, spelled out for a number below twice the modulus. *)
LEMMA OnceAround ==
    ASSUME NEW n \in Nat, n > 0, NEW x \in 0 .. 2 * n - 1
    PROVE  x % n = IF x < n THEN x ELSE x - n
<1>1. CASE x < n
  BY <1>1
<1>2. CASE x >= n
  <2>1. x = n * 1 + (x - n) /\ x - n \in 0 .. n - 1
    BY <1>2
  <2> QED BY <2>1
<1> QED BY <1>1, <1>2

LEMMA IncrementSteps ==
    ASSUME NEW c \in Counter
    PROVE  /\ Increment(c) = IF c + 1 < Width THEN c + 1 ELSE 0
           /\ Increment(c) \in Counter
<1> DEFINE x == c + 1
<1>1. x \in 0 .. 2 * Width - 1 /\ Width \in Nat /\ Width > 0
  BY CountersWrap DEF Counter
<1>2. x % Width = IF x < Width THEN x ELSE x - Width
  <2> HIDE DEF x
  <2> QED BY <1>1, OnceAround
<1> QED BY <1>2, CountersWrap DEF Increment, Counter

LEMMA FillMeasures ==
    ASSUME NEW h \in Counter, NEW t \in Counter
    PROVE  /\ Fill(h, t) = IF h <= t THEN t - h ELSE t + Width - h
           /\ Fill(h, t) \in 0 .. Width - 1
<1> DEFINE x == t + Width - h
<1>1. x \in 0 .. 2 * Width - 1 /\ Width \in Nat /\ Width > 0
  BY CountersWrap DEF Counter
<1>2. x % Width = IF x < Width THEN x ELSE x - Width
  <2> HIDE DEF x
  <2> QED BY <1>1, OnceAround
<1> QED BY <1>2, CountersWrap DEF Fill, Counter

(* Moving the tail, moving the head, an empty ring. *)
LEMMA FillGrows ==
    ASSUME NEW h \in Counter, NEW t \in Counter, Fill(h, t) < Width - 1
    PROVE  Fill(h, Increment(t)) = Fill(h, t) + 1
<1>1. Increment(t) = (IF t + 1 < Width THEN t + 1 ELSE 0) /\ Increment(t) \in Counter
  BY IncrementSteps
<1>2. Fill(h, t) = IF h <= t THEN t - h ELSE t + Width - h
  BY FillMeasures
<1>3. Fill(h, Increment(t)) = IF h <= Increment(t) THEN Increment(t) - h ELSE Increment(t) + Width - h
  BY <1>1, FillMeasures
<1> QED BY <1>1, <1>2, <1>3, CountersWrap DEF Counter

LEMMA FillShrinks ==
    ASSUME NEW h \in Counter, NEW t \in Counter, h # t
    PROVE  Fill(Increment(h), t) = Fill(h, t) - 1
<1>1. Increment(h) = (IF h + 1 < Width THEN h + 1 ELSE 0) /\ Increment(h) \in Counter
  BY IncrementSteps
<1>2. Fill(h, t) = IF h <= t THEN t - h ELSE t + Width - h
  BY FillMeasures
<1>3. Fill(Increment(h), t) = IF Increment(h) <= t THEN t - Increment(h) ELSE t + Width - Increment(h)
  BY <1>1, FillMeasures
<1> QED BY <1>1, <1>2, <1>3, CountersWrap DEF Counter

LEMMA FillZero ==
    ASSUME NEW h \in Counter, NEW t \in Counter
    PROVE  Fill(h, t) = 0 <=> h = t
<1>1. Fill(h, t) = IF h <= t THEN t - h ELSE t + Width - h
  BY FillMeasures
<1> QED BY <1>1, CountersWrap DEF Counter

(* A quotient and a remainder are determined by what they are the parts of. *)
LEMMA DivisionIsUnique ==
    ASSUME NEW n \in Nat, n > 0, NEW p \in Int, NEW q \in Int,
           NEW r \in 0 .. n - 1, NEW s \in 0 .. n - 1,
           n * p + r = n * q + s
    PROVE  r = s
<1>1. ASSUME NEW x \in Int, NEW y \in Int, x + 1 <= y
      PROVE  n * x + n <= n * y
  <2>1. PICK d \in Nat : y = x + 1 + d
    <3>1. y - x - 1 \in Nat /\ y = x + 1 + (y - x - 1)
      BY <1>1
    <3> QED BY <3>1
  <2>2. n * y = n * x + n + n * d
    BY <2>1
  <2>3. n * d >= 0
    OBVIOUS
  <2> QED BY <2>2, <2>3
<1>2. n * p \in Int /\ n * q \in Int
  OBVIOUS
<1>3. CASE p + 1 <= q
  BY <1>1, <1>2, <1>3
<1>4. CASE q + 1 <= p
  BY <1>1, <1>2, <1>4
<1>5. CASE p = q
  BY <1>2, <1>5
<1> QED BY <1>3, <1>4, <1>5

LEMMA RemainderSteps ==
    ASSUME NEW n \in Nat, n > 0, NEW c \in Nat
    PROVE  /\ c % n \in 0 .. n - 1
           /\ (c + 1) % n = IF (c % n) + 1 < n THEN (c % n) + 1 ELSE 0
<1> DEFINE p == c \div n
           q == (c + 1) \div n
           r == c % n
           s == (c + 1) % n
<1>1. p \in Int /\ q \in Int /\ r \in 0 .. n - 1 /\ s \in 0 .. n - 1
  OBVIOUS
<1>2. c = n * p + r /\ c + 1 = n * q + s
  OBVIOUS
<1> HIDE DEF p, q, r, s
<1>3. CASE r + 1 < n
  <2>1. r + 1 \in 0 .. n - 1 /\ n * p + (r + 1) = n * q + s
    BY <1>1, <1>2, <1>3
  <2>2. s = r + 1
    BY <1>1, <2>1, DivisionIsUnique
  <2> QED BY <1>1, <1>3, <2>2 DEF r, s
<1>4. CASE r + 1 = n
  <2>1. p + 1 \in Int /\ 0 \in 0 .. n - 1 /\ n * (p + 1) + 0 = n * q + s
    BY <1>1, <1>2, <1>4
  <2>2. s = 0
    BY <1>1, <2>1, DivisionIsUnique
  <2> QED BY <1>1, <1>4, <2>2 DEF r, s
<1> QED BY <1>1, <1>3, <1>4

(* The index of a free running counter goes once around the ring at a      *)
(* time, the step from Width - 1 to 0 included: here the ring size has to  *)
(* divide the counter's range.                                             *)
LEMMA IndexSteps ==
    ASSUME NEW n \in Nat, n > 0, Width % n = 0, NEW c \in Counter
    PROVE  /\ c % n \in 0 .. n - 1
           /\ Increment(c) % n = IF (c % n) + 1 < n THEN (c % n) + 1 ELSE 0
<1>1. c \in Nat /\ Width \in Nat /\ c + 1 <= Width
  BY CountersWrap DEF Counter
<1>2. c % n \in 0 .. n - 1
  BY <1>1, RemainderSteps
<1>3. (c + 1) % n = IF (c % n) + 1 < n THEN (c % n) + 1 ELSE 0
  BY <1>1, RemainderSteps
<1>4. CASE c + 1 < Width
  BY <1>2, <1>3, <1>4, IncrementSteps
<1>5. CASE c + 1 = Width
  <2>1. 0 \in 0 .. 2 * n - 1
    OBVIOUS
  <2>2. 0 % n = 0
    BY <2>1, OnceAround
  <2>3. Increment(c) = 0
    BY <1>1, <1>5, IncrementSteps
  <2> QED BY <1>2, <1>3, <1>5, <2>2, <2>3
<1> QED BY <1>1, <1>2, <1>4, <1>5

LEMMA SlideLands ==
    ASSUME NEW n \in Nat, NEW i \in 0 .. n - 1, NEW k \in 0 .. n
    PROVE  Slide(i, k, n) \in 0 .. n - 1
BY DEF Slide

LEMMA SlideApart ==
    ASSUME NEW n \in Nat, NEW i \in 0 .. n - 1,
           NEW j \in 0 .. n - 1, NEW k \in 0 .. n - 1, j # k
    PROVE  Slide(i, j, n) # Slide(i, k, n)
BY DEF Slide

(* One more entry behind the last, one entry fewer in front. *)
LEMMA SlideOn ==
    ASSUME NEW n \in Nat, NEW i \in 0 .. n - 1, NEW k \in 0 .. n - 1, NEW s,
           s = Slide(i, k, n)
    PROVE  Slide(i, k + 1, n) = IF s + 1 < n THEN s + 1 ELSE 0
BY DEF Slide

LEMMA SlideFrom ==
    ASSUME NEW n \in Nat, NEW i \in 0 .. n - 1, NEW k \in 0 .. n - 1, NEW j,
           j = IF i + 1 < n THEN i + 1 ELSE 0
    PROVE  Slide(j, k, n) = Slide(i, k + 1, n)
BY DEF Slide

LEMMA SlideFromZero ==
    ASSUME NEW n \in Nat, NEW i \in 0 .. n - 1
    PROVE  Slide(i, 0, n) = i
BY DEF Slide

-----------------------------------------------------------------------------
(* The rings, however many requests are in flight *)

(* What the invariant says about the lengths and the indices. *)
LEMMA Bookkeeping ==
    ASSUME RingInv
    PROVE  /\ sq_head \in Counter /\ sq_tail \in Counter
           /\ cq_head \in Counter /\ cq_tail \in Counter
           /\ Len(issued) \in Nat /\ Len(answered) \in Nat
           /\ InSq \in 0 .. SQ_N /\ InCq \in 0 .. CQ_N
           /\ sq_head % SQ_N \in 0 .. SQ_N - 1 /\ sq_tail % SQ_N \in 0 .. SQ_N - 1
           /\ cq_head % CQ_N \in 0 .. CQ_N - 1 /\ cq_tail % CQ_N \in 0 .. CQ_N - 1
<1>1. /\ sq_head \in Counter /\ sq_tail \in Counter
      /\ cq_head \in Counter /\ cq_tail \in Counter
      /\ issued \in Seq(Cqe) /\ answered \in Seq(Cqe)
  BY DEF RingInv, TypeOK
<1>2. Len(issued) \in Nat /\ Len(answered) \in Nat
  BY <1>1
<1>3. InSq \in 0 .. Width - 1 /\ InCq \in 0 .. Width - 1
  BY <1>1, FillMeasures DEF InSq, InCq
<1>4. InSq \in 0 .. SQ_N /\ InCq \in 0 .. CQ_N
  BY <1>3, CountersWrap DEF RingInv, RoomInTheRings
<1>5. /\ sq_head % SQ_N \in 0 .. SQ_N - 1 /\ sq_tail % SQ_N \in 0 .. SQ_N - 1
      /\ cq_head % CQ_N \in 0 .. CQ_N - 1 /\ cq_tail % CQ_N \in 0 .. CQ_N - 1
  BY <1>1, CountersWrap, IndexSteps
<1> QED BY <1>1, <1>2, <1>4, <1>5

LEMMA InitRings == Init => RingInv
<1> SUFFICES ASSUME Init PROVE RingInv
  OBVIOUS
<1>1. 0 \in Counter
  BY CountersWrap DEF Counter
<1>2. InSq = 0 /\ InCq = 0
  BY <1>1, FillZero DEF Init, InSq, InCq
<1>3. TypeOK
  BY <1>1 DEF Init, TypeOK
<1>4. RoomInTheRings
  BY <1>2, CountersWrap DEF RoomInTheRings
<1>5. SlotsLineUp
  <2>1. 0 % SQ_N \in 0 .. SQ_N - 1 /\ 0 % CQ_N \in 0 .. CQ_N - 1
    BY <1>1, CountersWrap, IndexSteps
  <2>2. Slide(0 % SQ_N, 0, SQ_N) = 0 % SQ_N /\ Slide(0 % CQ_N, 0, CQ_N) = 0 % CQ_N
    BY <2>1, CountersWrap, SlideFromZero
  <2> QED BY <1>2, <2>2 DEF Init, SlotsLineUp, SqSlot, CqSlot
<1>6. SubmissionsInOrder /\ CompletionsAreThere
  BY <1>2 DEF Init, SubmissionsInOrder, CompletionsAreThere
<1> QED BY <1>3, <1>4, <1>5, <1>6 DEF RingInv

(* A request has one completion due. *)
LEMMA DueIsCompletion ==
    ASSUME NEW s \in Sqe
    PROVE  Due(s) \in Cqe
BY DEF Due, Sqe, Cqe

(* The producer's side of the submission ring: its slot is free and stands *)
(* behind the last entry.                                                  *)
LEMMA PushKeepsRings ==
    ASSUME RingInv, NEW valid \in BOOLEAN, SqPush(valid)
    PROVE  RingInv' /\ InSq' = InSq + 1 /\ InCq' = InCq
<1> DEFINE s == [user_data |-> Len(issued) + 1, valid |-> valid]
           t == sq_tail % SQ_N
           I == Len(issued)
<1>1. /\ ~SqFull /\ I < MaxRequests
      /\ sq_slots' = [sq_slots EXCEPT ![t] = s]
      /\ sq_tail' = Increment(sq_tail) /\ issued' = Append(issued, Due(s))
      /\ UNCHANGED <<sq_head, cq_slots, cq_head, cq_tail, kernel, answered>>
  BY DEF SqPush
<1>2. s \in Sqe /\ Due(s) \in Cqe /\ issued \in Seq(Cqe)
  <2>1. Len(issued) + 1 \in 1 .. MaxRequests
    BY <1>1, Bookkeeping, RingAssumption
  <2>2. s \in Sqe
    BY <2>1 DEF Sqe
  <2> QED BY <2>2, DueIsCompletion DEF RingInv, TypeOK
<1>3. /\ Len(issued') = I + 1 /\ issued'[I + 1] = Due(s)
      /\ \A n \in 1 .. I : issued'[n] = issued[n]
      /\ issued' \in Seq(Cqe)
  BY <1>1, <1>2
<1>4. InSq < SQ_N /\ InSq \in Nat /\ I \in Nat
  BY <1>1, Bookkeeping, CountersWrap DEF SqFull, InSq
<1>5. InSq' = InSq + 1 /\ InCq' = InCq
  <2>1. Fill(sq_head, sq_tail) < Width - 1
    BY <1>4, CountersWrap DEF InSq
  <2>2. Fill(sq_head, Increment(sq_tail)) = Fill(sq_head, sq_tail) + 1
    BY <2>1, Bookkeeping, FillGrows
  <2> QED BY <1>1, <2>2 DEF InSq, InCq
<1>6. t = SqSlot(InSq) /\ t \in 0 .. SQ_N - 1
  BY Bookkeeping DEF RingInv, SlotsLineUp
<1>7. \A k : SqSlot(k)' = SqSlot(k) /\ CqSlot(k)' = CqSlot(k)
  BY <1>1 DEF SqSlot, CqSlot
<1>8. TypeOK'
  <2>1. sq_slots' \in [0 .. SQ_N - 1 -> Sqe \cup {Blank}]
    BY <1>1, <1>2 DEF RingInv, TypeOK
  <2>2. sq_tail' \in Counter
    BY <1>1, Bookkeeping, IncrementSteps
  <2> QED BY <1>1, <1>3, <2>1, <2>2 DEF RingInv, TypeOK
<1>9. RoomInTheRings'
  BY <1>4, <1>5, CountersWrap DEF RingInv, RoomInTheRings
<1>10. SlotsLineUp'
  <2>1. Increment(sq_tail) % SQ_N = IF t + 1 < SQ_N THEN t + 1 ELSE 0
    BY Bookkeeping, CountersWrap, IndexSteps
  <2>2. SqSlot(InSq + 1) = IF t + 1 < SQ_N THEN t + 1 ELSE 0
    BY <1>4, <1>6, Bookkeeping, CountersWrap, SlideOn DEF SqSlot
  <2> QED BY <1>1, <1>5, <1>7, <2>1, <2>2 DEF RingInv, SlotsLineUp
<1>11. SubmissionsInOrder'
  <2>1. InSq <= I
    BY DEF RingInv, SubmissionsInOrder
  <2> SUFFICES ASSUME NEW k \in 0 .. InSq
               PROVE  /\ sq_slots'[SqSlot(k)] \in Sqe
                      /\ Due(sq_slots'[SqSlot(k)]) = issued'[I - InSq + 1 + k]
    <3>1. Len(issued') - InSq' = I - InSq /\ InSq' - 1 = InSq /\ InSq' <= Len(issued')
      BY <1>3, <1>4, <1>5, <2>1
    <3> QED BY <1>7, <3>1 DEF SubmissionsInOrder
  <2>2. CASE k = InSq
    <3>1. I - InSq + 1 + k = I + 1
      BY <1>4, <2>2
    <3>2. sq_slots'[SqSlot(k)] = s
      BY <1>1, <1>6, <2>2 DEF RingInv, TypeOK
    <3> QED BY <1>2, <1>3, <3>1, <3>2
  <2>3. CASE k # InSq
    <3>1. k \in 0 .. InSq - 1 /\ k \in 0 .. SQ_N - 1 /\ InSq \in 0 .. SQ_N - 1
          /\ I - InSq + 1 + k \in 1 .. I
      BY <1>4, <2>1, <2>3, CountersWrap
    <3>2. /\ sq_slots[SqSlot(k)] \in Sqe
          /\ Due(sq_slots[SqSlot(k)]) = issued[I - InSq + 1 + k]
      BY <3>1 DEF RingInv, SubmissionsInOrder
    <3>3. SqSlot(k) # t
      BY <1>6, <2>3, <3>1, Bookkeeping, CountersWrap, SlideApart DEF SqSlot
    <3>4. sq_slots'[SqSlot(k)] = sq_slots[SqSlot(k)]
      BY <1>1, <3>3 DEF RingInv, TypeOK
    <3> QED BY <1>3, <3>1, <3>2, <3>4
  <2> QED BY <2>2, <2>3
<1>12. CompletionsAreThere'
  BY <1>1, <1>5, <1>7 DEF RingInv, CompletionsAreThere
<1> QED BY <1>5, <1>8, <1>9, <1>10, <1>11, <1>12 DEF RingInv

(* The kernel's side: one entry leaves the submission ring, one enters the *)
(* completion ring unless that is full.                                    *)
LEMMA ConsumeKeepsRings ==
    ASSUME RingInv, Consume
    PROVE  /\ RingInv' /\ InSq' = InSq - 1 /\ InSq > 0
           /\ InCq' = IF CqFull THEN InCq ELSE InCq + 1
<1> DEFINE s == sq_slots[sq_head % SQ_N]
           h == sq_head % SQ_N
           t == cq_tail % CQ_N
           I == Len(issued)
<1>1. /\ sq_head # sq_tail /\ sq_head' = Increment(sq_head)
      /\ cq_slots' = IF CqFull THEN cq_slots ELSE [cq_slots EXCEPT ![t] = Due(s)]
      /\ cq_tail' = IF CqFull THEN cq_tail ELSE Increment(cq_tail)
      /\ UNCHANGED <<sq_slots, sq_tail, cq_head, kernel, issued, answered>>
  BY DEF Consume
<1>2. InSq \in 1 .. SQ_N /\ I \in Nat /\ InSq' = InSq - 1
  <2>1. InSq # 0 /\ Fill(Increment(sq_head), sq_tail) = InSq - 1
    BY <1>1, Bookkeeping, FillZero, FillShrinks DEF InSq
  <2>2. InSq \in 0 .. SQ_N /\ I \in Nat
    BY Bookkeeping
  <2>3. InSq \in 1 .. SQ_N
    BY <2>1, <2>2, CountersWrap
  <2> QED BY <1>1, <2>1, <2>2, <2>3 DEF InSq
<1>3. CqFull <=> InCq = CQ_N
  BY DEF CqFull, InCq
<1>4. InCq' = (IF CqFull THEN InCq ELSE InCq + 1) /\ InCq' \in 0 .. CQ_N
  <2>1. CASE CqFull
    BY <1>1, <2>1, Bookkeeping DEF InCq
  <2>2. CASE ~CqFull
    <3>1. InCq < CQ_N /\ InCq \in Nat /\ Fill(cq_head, cq_tail) < Width - 1
      BY <1>3, <2>2, Bookkeeping, CountersWrap DEF InCq
    <3>2. Fill(cq_head, Increment(cq_tail)) = InCq + 1
      BY <3>1, Bookkeeping, FillGrows DEF InCq
    <3>3. InCq' = InCq + 1
      BY <1>1, <2>2, <3>2 DEF InCq
    <3> QED BY <2>2, <3>1, <3>3, CountersWrap
  <2> QED BY <2>1, <2>2
<1>5. /\ h \in 0 .. SQ_N - 1
      /\ sq_head' % SQ_N = IF h + 1 < SQ_N THEN h + 1 ELSE 0
  BY <1>1, Bookkeeping, CountersWrap, IndexSteps
<1>6. ASSUME NEW k \in 0 .. SQ_N - 1 PROVE SqSlot(k)' = SqSlot(k + 1)
  <2>1. PICK j : j = sq_head' % SQ_N
    OBVIOUS
  <2>2. Slide(j, k, SQ_N) = Slide(h, k + 1, SQ_N)
    BY <1>5, <2>1, CountersWrap, SlideFrom
  <2> QED BY <2>1, <2>2 DEF SqSlot
<1>7. \A k : CqSlot(k)' = CqSlot(k)
  BY <1>1 DEF CqSlot
<1>8. s \in Sqe /\ Due(s) \in Cqe /\ Due(s) = issued[I - InSq + 1]
  <2>1. 0 \in 0 .. InSq - 1 /\ I - InSq + 1 + 0 = I - InSq + 1
    BY <1>2, CountersWrap
  <2>2. SqSlot(0) = h
    BY <1>5, CountersWrap, SlideFromZero DEF SqSlot
  <2>3. s \in Sqe /\ Due(s) = issued[I - InSq + 1]
    BY <2>1, <2>2 DEF RingInv, SubmissionsInOrder
  <2> QED BY <2>3, DueIsCompletion
<1>9. TypeOK'
  <2>1. cq_slots' \in [0 .. CQ_N - 1 -> Cqe \cup {Blank}]
    BY <1>1, <1>8 DEF RingInv, TypeOK
  <2>2. sq_head' \in Counter /\ cq_tail' \in Counter
    BY <1>1, Bookkeeping, IncrementSteps
  <2> QED BY <1>1, <2>1, <2>2 DEF RingInv, TypeOK
<1>10. RoomInTheRings'
  BY <1>2, <1>4, CountersWrap DEF RoomInTheRings
<1>11. SlotsLineUp'
  <2>1. sq_tail' % SQ_N = SqSlot(InSq)'
    <3>1. PICK k : k = InSq - 1
      OBVIOUS
    <3>2. k \in 0 .. SQ_N - 1 /\ k + 1 = InSq
      BY <1>2, <3>1, CountersWrap
    <3>3. SqSlot(k)' = sq_tail % SQ_N
      BY <1>6, <3>2 DEF RingInv, SlotsLineUp
    <3> QED BY <1>1, <1>2, <3>1, <3>3 DEF SqSlot
  <2>2. cq_tail' % CQ_N = CqSlot(InCq)'
    <3>1. CASE CqFull
      BY <1>1, <1>4, <3>1 DEF RingInv, SlotsLineUp, CqSlot
    <3>2. CASE ~CqFull
      <4>1. InCq \in 0 .. CQ_N - 1
        BY <1>3, <3>2, Bookkeeping, CountersWrap
      <4>2. Increment(cq_tail) % CQ_N = IF t + 1 < CQ_N THEN t + 1 ELSE 0
        BY Bookkeeping, CountersWrap, IndexSteps
      <4>3. t = Slide(cq_head % CQ_N, InCq, CQ_N)
        BY DEF RingInv, SlotsLineUp, CqSlot
      <4>4. CqSlot(InCq + 1) = IF t + 1 < CQ_N THEN t + 1 ELSE 0
        BY <4>1, <4>3, Bookkeeping, CountersWrap, SlideOn DEF CqSlot
      <4> QED BY <1>1, <1>4, <3>2, <4>2, <4>4 DEF CqSlot
    <3> QED BY <3>1, <3>2
  <2> QED BY <2>1, <2>2 DEF SlotsLineUp
<1>12. SubmissionsInOrder'
  <2>1. InSq <= I
    BY DEF RingInv, SubmissionsInOrder
  <2> SUFFICES ASSUME NEW k \in 0 .. InSq - 2
               PROVE  /\ sq_slots[SqSlot(k)'] \in Sqe
                      /\ Due(sq_slots[SqSlot(k)']) = issued[I - (InSq - 1) + 1 + k]
    <3>1. InSq' - 1 = InSq - 2 /\ InSq' <= I
      BY <1>2, <2>1
    <3> QED BY <1>1, <1>2, <3>1 DEF SubmissionsInOrder
  <2>2. /\ k \in 0 .. SQ_N - 1 /\ k + 1 \in 0 .. InSq - 1
        /\ I - (InSq - 1) + 1 + k = I - InSq + 1 + (k + 1)
    BY <1>2, CountersWrap
  <2>3. /\ sq_slots[SqSlot(k + 1)] \in Sqe
        /\ Due(sq_slots[SqSlot(k + 1)]) = issued[I - InSq + 1 + (k + 1)]
    BY <2>2 DEF RingInv, SubmissionsInOrder
  <2> QED BY <1>6, <2>2, <2>3
<1>13. CompletionsAreThere'
  <2>1. CASE CqFull
    BY <1>1, <1>4, <1>7, <2>1 DEF RingInv, CompletionsAreThere
  <2>2. CASE ~CqFull
    <3>1. InCq \in 0 .. CQ_N - 1 /\ InCq' - 1 = InCq
      BY <1>3, <1>4, <2>2, Bookkeeping, CountersWrap
    <3>2. t = CqSlot(InCq) /\ t \in 0 .. CQ_N - 1
      BY Bookkeeping DEF RingInv, SlotsLineUp
    <3>3. cq_slots'[t] = Due(s)
      BY <1>1, <2>2, <3>2 DEF RingInv, TypeOK
    <3>4. ASSUME NEW k \in 0 .. InCq PROVE cq_slots'[CqSlot(k)] \in Cqe
      <4>1. CASE k = InCq
        BY <1>8, <3>2, <3>3, <4>1
      <4>2. CASE k # InCq
        <5>1. k \in 0 .. InCq - 1 /\ cq_slots[CqSlot(k)] \in Cqe
          BY <3>1, <4>2 DEF RingInv, CompletionsAreThere
        <5> QED BY <1>1, <1>8, <2>2, <3>2, <3>3, <5>1 DEF RingInv, TypeOK
      <4> QED BY <4>1, <4>2
    <3> QED BY <1>7, <3>1, <3>4 DEF CompletionsAreThere
  <2> QED BY <2>1, <2>2
<1> QED BY <1>2, <1>4, <1>9, <1>10, <1>11, <1>12, <1>13 DEF RingInv

(* The consumer's side of the completion ring. *)
LEMMA PopKeepsRings ==
    ASSUME RingInv, CqPop
    PROVE  /\ RingInv' /\ InSq' = InSq /\ InCq' = InCq - 1 /\ InCq > 0
           /\ cq_slots[CqSlot(0)] \in Cqe
           /\ answered' = Append(answered, cq_slots[CqSlot(0)])
           /\ \A k \in 0 .. CQ_N - 1 : CqSlot(k)' = CqSlot(k + 1)
<1> DEFINE h == cq_head % CQ_N
<1>1. /\ cq_head # cq_tail /\ answered' = Append(answered, cq_slots[h])
      /\ cq_head' = Increment(cq_head)
      /\ UNCHANGED <<sq_slots, sq_head, sq_tail, cq_slots, cq_tail, kernel, issued>>
  BY DEF CqPop
<1>2. InCq \in 1 .. CQ_N /\ InCq' = InCq - 1 /\ InSq' = InSq
  <2>1. InCq # 0 /\ Fill(Increment(cq_head), cq_tail) = InCq - 1
    BY <1>1, Bookkeeping, FillZero, FillShrinks DEF InCq
  <2>2. InCq \in 1 .. CQ_N
    BY <2>1, Bookkeeping, CountersWrap
  <2> QED BY <1>1, <2>1, <2>2 DEF InCq, InSq
<1>3. /\ h \in 0 .. CQ_N - 1
      /\ cq_head' % CQ_N = IF h + 1 < CQ_N THEN h + 1 ELSE 0
  BY <1>1, Bookkeeping, CountersWrap, IndexSteps
<1>4. \A k \in 0 .. CQ_N - 1 : CqSlot(k)' = CqSlot(k + 1)
  <2> SUFFICES ASSUME NEW k \in 0 .. CQ_N - 1 PROVE CqSlot(k)' = CqSlot(k + 1)
    OBVIOUS
  <2>1. PICK j : j = cq_head' % CQ_N
    OBVIOUS
  <2>2. Slide(j, k, CQ_N) = Slide(h, k + 1, CQ_N)
    BY <1>3, <2>1, CountersWrap, SlideFrom
  <2> QED BY <2>1, <2>2 DEF CqSlot
<1>5. \A k : SqSlot(k)' = SqSlot(k)
  BY <1>1 DEF SqSlot
<1>6. CqSlot(0) = h /\ cq_slots[h] \in Cqe
  <2>1. CqSlot(0) = h /\ 0 \in 0 .. InCq - 1
    BY <1>2, <1>3, CountersWrap, SlideFromZero DEF CqSlot
  <2> QED BY <2>1 DEF RingInv, CompletionsAreThere
<1>7. TypeOK'
  <2>1. answered' \in Seq(Cqe)
    BY <1>1, <1>6 DEF RingInv, TypeOK
  <2>2. cq_head' \in Counter
    BY <1>1, Bookkeeping, IncrementSteps
  <2> QED BY <1>1, <2>1, <2>2 DEF RingInv, TypeOK
<1>8. RoomInTheRings'
  BY <1>2, CountersWrap DEF RingInv, RoomInTheRings
<1>9. SlotsLineUp'
  <2>1. PICK k : k = InCq - 1
    OBVIOUS
  <2>2. k \in 0 .. CQ_N - 1 /\ k + 1 = InCq
    BY <1>2, <2>1, CountersWrap
  <2>3. CqSlot(k)' = cq_tail % CQ_N
    BY <1>4, <2>2 DEF RingInv, SlotsLineUp
  <2>4. cq_tail' % CQ_N = CqSlot(InCq)'
    BY <1>1, <1>2, <2>1, <2>3 DEF CqSlot
  <2> QED BY <1>1, <1>2, <1>5, <2>4 DEF RingInv, SlotsLineUp
<1>10. SubmissionsInOrder'
  BY <1>1, <1>2, <1>5 DEF RingInv, SubmissionsInOrder
<1>11. CompletionsAreThere'
  <2> SUFFICES ASSUME NEW k \in 0 .. InCq - 2 PROVE cq_slots[CqSlot(k)'] \in Cqe
    <3>1. InCq' - 1 = InCq - 2
      BY <1>2
    <3> QED BY <1>1, <3>1 DEF CompletionsAreThere
  <2>1. k \in 0 .. CQ_N - 1 /\ k + 1 \in 0 .. InCq - 1
    BY <1>2, CountersWrap
  <2> QED BY <1>4, <2>1 DEF RingInv, CompletionsAreThere
<1> QED BY <1>1, <1>2, <1>4, <1>6, <1>7, <1>8, <1>9, <1>10, <1>11 DEF RingInv

(* enter() starts or returns: no ring moves. *)
LEMMA QuietStepsKeepRings ==
    ASSUME RingInv, Enter \/ Return \/ AllDone \/ UNCHANGED vars
    PROVE  RingInv' /\ InSq' = InSq /\ InCq' = InCq
<1>1. /\ UNCHANGED <<sq_slots, sq_head, sq_tail, cq_slots, cq_head, cq_tail, issued, answered>>
      /\ kernel' \in {"in", "out"}
  BY DEF Enter, Return, AllDone, vars, RingInv, TypeOK
<1>2. TypeOK'
  BY <1>1 DEF RingInv, TypeOK
<1>3. InSq' = InSq /\ InCq' = InCq /\ \A k : SqSlot(k)' = SqSlot(k) /\ CqSlot(k)' = CqSlot(k)
  BY <1>1 DEF InSq, InCq, SqSlot, CqSlot
<1> QED BY <1>1, <1>2, <1>3
        DEF RingInv, RoomInTheRings, SlotsLineUp, SubmissionsInOrder, CompletionsAreThere

LEMMA StepKeepsRings == RingInv /\ [Next]_vars => RingInv'
<1> SUFFICES ASSUME RingInv, [Next]_vars PROVE RingInv'
  OBVIOUS
<1>1. CASE \E valid \in BOOLEAN : SqPush(valid)
  BY <1>1, PushKeepsRings
<1>2. CASE Consume
  BY <1>2, ConsumeKeepsRings
<1>3. CASE CqPop
  BY <1>3, PopKeepsRings
<1>4. CASE Enter \/ Return \/ AllDone \/ UNCHANGED vars
  BY <1>4, QuietStepsKeepRings
<1> QED BY <1>1, <1>2, <1>3, <1>4 DEF Next

-----------------------------------------------------------------------------
(* The completions, when the callers keep within the completion ring *)

LEMMA InitCounts == Init => UringInv
<1> SUFFICES ASSUME Init PROVE UringInv
  OBVIOUS
<1>1. RingInv
  BY InitRings
<1>2. 0 \in Counter
  BY CountersWrap DEF Counter
<1>3. InSq = 0 /\ InCq = 0
  BY <1>2, FillZero DEF Init, InSq, InCq
<1>4. Len(issued) = 0 /\ Len(answered) = 0
  BY DEF Init
<1>5. NoEntryLostOrInvented
  BY <1>3, <1>4 DEF NoEntryLostOrInvented, InSq, InCq
<1>6. FewInFlight
  BY <1>4, RingAssumption DEF FewInFlight
<1>7. CompletionsInOrder /\ AnswersInOrder
  BY <1>3, <1>4 DEF CompletionsInOrder, AnswersInOrder
<1> QED BY <1>1, <1>5, <1>6, <1>7 DEF UringInv

(* The accounting, with every term a number.                               *)
LEMMA InFlight ==
    ASSUME UringInv
    PROVE  /\ Len(issued) \in Nat /\ Len(answered) \in Nat
           /\ InSq \in Nat /\ InCq \in Nat
           /\ InSq + InCq = Len(issued) - Len(answered)
           /\ Len(issued) - Len(answered) <= MaxInFlight
           /\ MaxInFlight \in Nat
<1>1. /\ Len(issued) \in Nat /\ Len(answered) \in Nat
      /\ InSq \in 0 .. SQ_N /\ InCq \in 0 .. CQ_N
  BY Bookkeeping DEF UringInv
<1>2. InSq + InCq = Len(issued) - Len(answered)
  BY DEF UringInv, NoEntryLostOrInvented, InSq, InCq
<1> QED BY <1>1, <1>2, CountersWrap, RingAssumption DEF UringInv, FewInFlight

LEMMA PushKeepsCounts ==
    ASSUME UringInv, NEW valid \in BOOLEAN, SqPush(valid)
    PROVE  UringInv'
<1> DEFINE s == [user_data |-> Len(issued) + 1, valid |-> valid]
           I == Len(issued)
           A == Len(answered)
<1>1. RingInv' /\ InSq' = InSq + 1 /\ InCq' = InCq
  BY PushKeepsRings DEF UringInv
<1>2. /\ issued' = Append(issued, Due(s)) /\ I - A < MaxInFlight
      /\ UNCHANGED <<cq_slots, cq_head, answered>>
  BY DEF SqPush
<1>3. Len(issued') = I + 1 /\ \A n \in 1 .. I : issued'[n] = issued[n]
  <2>1. issued \in Seq(Cqe) /\ issued' \in Seq(Cqe)
    BY <1>1 DEF UringInv, RingInv, TypeOK
  <2> QED BY <1>2, <2>1
<1>4. NoEntryLostOrInvented'
  <2>1. InSq' + InCq' = Len(issued') - Len(answered')
    BY <1>1, <1>2, <1>3, InFlight
  <2> QED BY <2>1 DEF NoEntryLostOrInvented, InSq, InCq
<1>5. FewInFlight'
  BY <1>2, <1>3, InFlight DEF FewInFlight
<1>6. CompletionsInOrder'
  <2> SUFFICES ASSUME NEW k \in 0 .. InCq - 1
               PROVE  cq_slots[CqSlot(k)] = issued'[A + 1 + k]
    BY <1>1, <1>2 DEF CompletionsInOrder, CqSlot
  <2>1. A + 1 + k \in 1 .. I
    BY InFlight
  <2> QED BY <1>3, <2>1 DEF UringInv, CompletionsInOrder
<1>7. AnswersInOrder'
  <2>1. \A n \in 1 .. A : n \in 1 .. I
    BY InFlight
  <2> QED BY <1>2, <1>3, <2>1 DEF UringInv, AnswersInOrder
<1> QED BY <1>1, <1>4, <1>5, <1>6, <1>7 DEF UringInv

(* Here the callers' rule is needed: the kernel finds a free slot for      *)
(* every completion, so that none is dropped.                              *)
LEMMA ConsumeKeepsCounts ==
    ASSUME MaxInFlight <= CQ_N, UringInv, Consume
    PROVE  UringInv'
<1> DEFINE s == sq_slots[sq_head % SQ_N]
           t == cq_tail % CQ_N
           I == Len(issued)
           A == Len(answered)
<1>1. /\ RingInv' /\ InSq' = InSq - 1 /\ InSq > 0
      /\ InCq' = IF CqFull THEN InCq ELSE InCq + 1
  BY ConsumeKeepsRings DEF UringInv
<1>2. ~CqFull
  <2>1. InCq < CQ_N
    BY <1>1, InFlight, CountersWrap
  <2> QED BY <2>1, InFlight, CountersWrap DEF CqFull, InCq
<1>3. /\ cq_slots' = [cq_slots EXCEPT ![t] = Due(s)] /\ InCq' = InCq + 1
      /\ UNCHANGED <<cq_head, issued, answered>>
  BY <1>1, <1>2 DEF Consume
<1>4. NoEntryLostOrInvented'
  <2>1. InSq' + InCq' = Len(issued') - Len(answered')
    BY <1>1, <1>3, InFlight
  <2> QED BY <2>1 DEF NoEntryLostOrInvented, InSq, InCq
<1>5. FewInFlight' /\ AnswersInOrder'
  BY <1>3 DEF UringInv, FewInFlight, AnswersInOrder
<1>6. Due(s) = issued[I - InSq + 1]
  <2>1. sq_head % SQ_N \in 0 .. SQ_N - 1
    BY Bookkeeping DEF UringInv
  <2>2. SqSlot(0) = sq_head % SQ_N
    BY <2>1, CountersWrap, SlideFromZero DEF SqSlot
  <2>3. 0 \in 0 .. InSq - 1 /\ I - InSq + 1 + 0 = I - InSq + 1
    BY <1>1, InFlight
  <2> QED BY <2>2, <2>3 DEF UringInv, RingInv, SubmissionsInOrder
<1>7. CompletionsInOrder'
  <2> SUFFICES ASSUME NEW k \in 0 .. InCq
               PROVE  cq_slots'[CqSlot(k)] = issued[A + 1 + k]
    <3>1. InCq' - 1 = InCq
      BY <1>3, InFlight
    <3> QED BY <1>3, <3>1 DEF CompletionsInOrder, CqSlot
  <2>1. t = CqSlot(InCq) /\ t \in 0 .. CQ_N - 1
    BY Bookkeeping DEF UringInv, RingInv, SlotsLineUp
  <2>2. cq_slots \in [0 .. CQ_N - 1 -> Cqe \cup {Blank}]
    BY DEF UringInv, RingInv, TypeOK
  <2>3. CASE k = InCq
    <3>1. I - InSq + 1 = A + 1 + k
      BY <2>3, InFlight
    <3>2. cq_slots'[t] = Due(s)
      BY <1>3, <2>1, <2>2
    <3> QED BY <1>6, <2>1, <2>3, <3>1, <3>2
  <2>4. CASE k # InCq
    <3>1. k \in 0 .. InCq - 1 /\ k \in 0 .. CQ_N - 1 /\ InCq \in 0 .. CQ_N - 1
      BY <1>1, <2>4, InFlight, CountersWrap
    <3>2. CqSlot(k) # t
      BY <2>1, <2>4, <3>1, Bookkeeping, CountersWrap, SlideApart DEF UringInv, CqSlot
    <3>3. cq_slots'[CqSlot(k)] = cq_slots[CqSlot(k)]
      <4>1. CqSlot(k) \in 0 .. CQ_N - 1
        <5>1. cq_head % CQ_N \in 0 .. CQ_N - 1 /\ k \in 0 .. CQ_N
          BY <3>1, Bookkeeping, CountersWrap DEF UringInv
        <5> QED BY <5>1, CountersWrap, SlideLands DEF CqSlot
      <4> QED BY <1>3, <2>2, <3>2, <4>1
    <3> QED BY <3>1, <3>3 DEF UringInv, CompletionsInOrder
  <2> QED BY <2>3, <2>4
<1> QED BY <1>1, <1>4, <1>5, <1>7 DEF UringInv

LEMMA PopKeepsCounts ==
    ASSUME UringInv, CqPop
    PROVE  /\ UringInv' /\ Len(answered) < Len(issued)
           /\ answered' = Append(answered, issued[Len(answered) + 1])
<1> DEFINE I == Len(issued)
           A == Len(answered)
           c == cq_slots[CqSlot(0)]
<1>1. /\ RingInv' /\ InSq' = InSq /\ InCq' = InCq - 1 /\ InCq > 0
      /\ c \in Cqe /\ answered' = Append(answered, c)
      /\ \A k \in 0 .. CQ_N - 1 : CqSlot(k)' = CqSlot(k + 1)
  BY PopKeepsRings DEF UringInv
<1>2. UNCHANGED <<cq_slots, issued>>
  BY DEF CqPop
<1>3. c = issued[A + 1] /\ A < I
  <2>1. 0 \in 0 .. InCq - 1 /\ A + 1 + 0 = A + 1 /\ A < I
    BY <1>1, InFlight
  <2> QED BY <2>1 DEF UringInv, CompletionsInOrder
<1>4. /\ Len(answered') = A + 1 /\ answered'[A + 1] = c
      /\ \A n \in 1 .. A : answered'[n] = answered[n]
  <2>1. answered \in Seq(Cqe)
    BY DEF UringInv, RingInv, TypeOK
  <2> QED BY <1>1, <2>1
<1>5. NoEntryLostOrInvented'
  <2>1. InSq' + InCq' = Len(issued') - Len(answered')
    BY <1>1, <1>2, <1>4, InFlight
  <2> QED BY <2>1 DEF NoEntryLostOrInvented, InSq, InCq
<1>6. FewInFlight'
  BY <1>2, <1>4, InFlight DEF FewInFlight
<1>7. CompletionsInOrder'
  <2> SUFFICES ASSUME NEW k \in 0 .. InCq - 2
               PROVE  cq_slots[CqSlot(k)'] = issued[A + 2 + k]
    <3>1. InCq' - 1 = InCq - 2 /\ \A k \in 0 .. InCq - 2 : Len(answered') + 1 + k = A + 2 + k
      BY <1>1, <1>4, InFlight
    <3> QED BY <1>2, <3>1 DEF CompletionsInOrder
  <2>1. InCq <= CQ_N
    BY Bookkeeping, CountersWrap DEF UringInv
  <2>2. k \in 0 .. CQ_N - 1 /\ k + 1 \in 0 .. InCq - 1 /\ A + 1 + (k + 1) = A + 2 + k
    BY <2>1, InFlight, CountersWrap
  <2>3. cq_slots[CqSlot(k + 1)] = issued[A + 1 + (k + 1)]
    BY <2>2 DEF UringInv, CompletionsInOrder
  <2> QED BY <1>1, <2>2, <2>3
<1>8. AnswersInOrder'
  <2> SUFFICES ASSUME NEW n \in 1 .. A + 1 PROVE answered'[n] = issued[n]
    BY <1>2, <1>4 DEF AnswersInOrder
  <2>1. CASE n = A + 1
    BY <1>3, <1>4, <2>1
  <2>2. CASE n # A + 1
    <3>1. n \in 1 .. A
      BY <2>2, InFlight
    <3> QED BY <1>4, <3>1 DEF UringInv, AnswersInOrder
  <2> QED BY <2>1, <2>2
<1> QED BY <1>1, <1>3, <1>5, <1>6, <1>7, <1>8 DEF UringInv

LEMMA StepKeepsCounts ==
    ASSUME MaxInFlight <= CQ_N
    PROVE  UringInv /\ [Next]_vars => UringInv'
<1> SUFFICES ASSUME UringInv, [Next]_vars PROVE UringInv'
  OBVIOUS
<1>1. CASE \E valid \in BOOLEAN : SqPush(valid)
  BY <1>1, PushKeepsCounts
<1>2. CASE Consume
  BY <1>2, ConsumeKeepsCounts
<1>3. CASE CqPop
  BY <1>3, PopKeepsCounts
<1>4. CASE Enter \/ Return \/ AllDone \/ UNCHANGED vars
  <2>1. RingInv' /\ InSq' = InSq /\ InCq' = InCq
    BY <1>4, QuietStepsKeepRings DEF UringInv
  <2>2. UNCHANGED <<sq_head, sq_tail, cq_slots, cq_head, cq_tail, issued, answered>>
    BY <1>4 DEF Enter, Return, AllDone, vars
  <2> QED BY <2>1, <2>2
          DEF UringInv, NoEntryLostOrInvented, FewInFlight, CompletionsInOrder,
              AnswersInOrder, CqSlot
<1> QED BY <1>1, <1>2, <1>3, <1>4 DEF Next

-----------------------------------------------------------------------------
(* What follows *)

(* The rings never hold more than their slots, and the slots in use hold   *)
(* the entries pushed, across counter wrap-around and however many         *)
(* requests are in flight.                                                 *)
THEOREM RingInvHolds == Spec => []RingInv
BY InitRings, StepKeepsRings, PTL DEF Spec

(* Every variable of the two rings keeps its type: cq_pop() never hands    *)
(* the program a slot nobody has written.                                  *)
THEOREM TypeCorrect == Spec => []TypeOK
<1>1. RingInv => TypeOK
  BY DEF RingInv
<1> QED BY <1>1, RingInvHolds, PTL

(* With no more requests in flight than the completion ring has slots, the *)
(* rings also hold the right entries: what sq_push(), enter() and cq_pop() *)
(* do to them keeps the accounting and the order.                          *)
THEOREM UringInvHolds ==
    ASSUME MaxInFlight <= CQ_N
    PROVE  Spec => []UringInv
BY InitCounts, StepKeepsCounts, PTL DEF Spec

(* Under that rule the fill levels account for every request in flight.    *)
THEOREM EntriesAreCounted ==
    ASSUME MaxInFlight <= CQ_N
    PROVE  Spec => []NoEntryLostOrInvented
<1>1. UringInv => NoEntryLostOrInvented
  BY DEF UringInv
<1> QED BY <1>1, UringInvHolds, PTL

(* Under that rule the comment on enter() is right: once both rings are    *)
(* empty, every request has had its completion.                            *)
THEOREM EveryRequestCompletes ==
    ASSUME MaxInFlight <= CQ_N
    PROVE  Spec => []OneCompletionEach
<1>1. ASSUME UringInv PROVE OneCompletionEach
  <2> SUFFICES ASSUME sq_head = sq_tail, cq_head = cq_tail
               PROVE  Len(answered) = Len(issued)
    BY DEF OneCompletionEach
  <2>1. InSq = 0 /\ InCq = 0
    BY <1>1, Bookkeeping, FillZero DEF UringInv, InSq, InCq
  <2> QED BY <1>1, <2>1, InFlight
<1> QED BY <1>1, UringInvHolds, PTL

-----------------------------------------------------------------------------
(* The two rings as an in-order queue *)

LEMMA StepIsQueueStep ==
    ASSUME UringInv, [Next]_vars
    PROVE  [Queue!Next]_<<issued, answered>>
<1>1. CASE \E valid \in BOOLEAN : SqPush(valid)
  <2>1. PICK valid \in BOOLEAN : SqPush(valid)
    BY <1>1
  <2> DEFINE s == [user_data |-> Len(issued) + 1, valid |-> valid]
  <2>2. issued' = Append(issued, Due(s)) /\ answered' = answered /\ Len(issued) < MaxRequests
    BY <2>1 DEF SqPush
  <2>3. s \in Sqe
    <3>1. Len(issued) + 1 \in 1 .. MaxRequests
      BY <2>2, InFlight, RingAssumption
    <3> QED BY <3>1 DEF Sqe
  <2>4. Due(s) \in Cqe
    BY <2>3, DueIsCompletion
  <2> HIDE DEF s
  <2>5. PICK c : c = Due(s)
    OBVIOUS
  <2>6. Queue!Issue(c) /\ c \in Cqe
    BY <2>2, <2>4, <2>5 DEF Queue!Issue
  <2> QED BY <2>6 DEF Queue!Next
<1>2. CASE CqPop
  <2>1. Queue!Answer
    BY <1>2, PopKeepsCounts DEF CqPop, Queue!Answer
  <2> QED BY <2>1 DEF Queue!Next
<1>3. CASE Enter \/ Consume \/ Return \/ AllDone \/ UNCHANGED vars
  <2>1. issued' = issued /\ answered' = answered
    BY <1>3 DEF Enter, Consume, Return, AllDone, vars
  <2> QED BY <2>1
<1> QED BY <1>1, <1>2, <1>3 DEF Next

(* The safety half of ImplementsInOrderQueue: the program never receives a *)
(* completion that is not the one due to its oldest unanswered request.    *)
THEOREM RefinesInOrderQueue ==
    ASSUME MaxInFlight <= CQ_N
    PROVE  Spec => Queue!SafeSpec
<1>1. Spec => []UringInv
  BY UringInvHolds
<1>2. Init => Queue!Init
  BY DEF Init, Queue!Init
<1> QED BY <1>1, <1>2, StepIsQueueStep, PTL DEF Spec, Queue!SafeSpec
=============================================================================
