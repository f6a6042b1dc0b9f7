------------------------ MODULE NvmeQueuePair_proofs ------------------------
(***************************************************************************)
(* Safety of the NVMe queue pair for every ring size.  The first part is   *)
(* arithmetic around a ring; afterwards NextIndex, Dist and Slide are only *)
(* used through these lemmas.                                              *)
(***************************************************************************)
EXTENDS NvmeInvariant, SequenceTheorems, TLAPS

(* The remainder, spelled out for a number below twice the modulus. *)
LEMMA OnceAround ==
    ASSUME NEW n \in Nat, n > 0, NEW x \in 0 .. 2 * n - 1
    PROVE  x % n = IF x < n THEN x ELSE x - n
<1>1. CASE x < n
  BY <1>1
<1>2. CASE x >= n
  <2>1. x = n * 1 + (x - n) /\ x - n \in 0 .. n - 1
    BY <1>2
  <2> QED BY <2>1
<1> QED BY <1>1, <1>2

LEMMA NextIndexSteps ==
    ASSUME NEW i \in Slot
    PROVE  /\ NextIndex(i) = IF i + 1 < Size THEN i + 1 ELSE 0
           /\ NextIndex(i) \in Slot
<1> DEFINE x == i + 1
<1>1. x \in 0 .. 2 * Size - 1 /\ Size \in Nat /\ Size > 0
  BY QueueAssumption DEF Slot
<1>2. x % Size = IF x < Size THEN x ELSE x - Size
  <2> HIDE DEF x
  <2> QED BY <1>1, OnceAround
<1> QED BY <1>2, QueueAssumption DEF NextIndex, Slot

LEMMA DistMeasures ==
    ASSUME NEW i \in Slot, NEW j \in Slot
    PROVE  /\ Dist(i, j) = IF i <= j THEN j - i ELSE j + Size - i
           /\ Dist(i, j) \in 0 .. Size - 1
<1> DEFINE x == j + Size - i
<1>1. x \in 0 .. 2 * Size - 1 /\ Size \in Nat /\ Size > 0
  BY QueueAssumption DEF Slot
<1>2. x % Size = IF x < Size THEN x ELSE x - Size
  <2> HIDE DEF x
  <2> QED BY <1>1, OnceAround
<1> QED BY <1>2, QueueAssumption DEF Dist, Slot

(* Moving the far end, moving the near end, joining two stretches. *)
LEMMA DistGrows ==
    ASSUME NEW i \in Slot, NEW j \in Slot, Dist(i, j) < Size - 1
    PROVE  Dist(i, NextIndex(j)) = Dist(i, j) + 1
<1>1. NextIndex(j) = (IF j + 1 < Size THEN j + 1 ELSE 0) /\ NextIndex(j) \in Slot
  BY NextIndexSteps
<1>2. Dist(i, j) = IF i <= j THEN j - i ELSE j + Size - i
  BY DistMeasures
<1>3. Dist(i, NextIndex(j)) = IF i <= NextIndex(j) THEN NextIndex(j) - i ELSE NextIndex(j) + Size - i
  BY <1>1, DistMeasures
<1> QED BY <1>1, <1>2, <1>3, QueueAssumption DEF Slot

LEMMA DistShrinks ==
    ASSUME NEW i \in Slot, NEW j \in Slot, i # j
    PROVE  Dist(NextIndex(i), j) = Dist(i, j) - 1
<1>1. NextIndex(i) = (IF i + 1 < Size THEN i + 1 ELSE 0) /\ NextIndex(i) \in Slot
  BY NextIndexSteps
<1>2. Dist(i, j) = IF i <= j THEN j - i ELSE j + Size - i
  BY DistMeasures
<1>3. Dist(NextIndex(i), j) = IF NextIndex(i) <= j THEN j - NextIndex(i) ELSE j + Size - NextIndex(i)
  BY <1>1, DistMeasures
<1> QED BY <1>1, <1>2, <1>3, QueueAssumption DEF Slot

LEMMA DistJoins ==
    ASSUME NEW i \in Slot, NEW j \in Slot, NEW k \in Slot, Dist(i, j) + Dist(j, k) < Size
    PROVE  Dist(i, k) = Dist(i, j) + Dist(j, k)
<1>1. Dist(i, j) = IF i <= j THEN j - i ELSE j + Size - i
  BY DistMeasures
<1>2. Dist(j, k) = IF j <= k THEN k - j ELSE k + Size - j
  BY DistMeasures
<1>3. Dist(i, k) = IF i <= k THEN k - i ELSE k + Size - i
  BY DistMeasures
<1> QED BY <1>1, <1>2, <1>3, QueueAssumption DEF Slot

LEMMA DistZero ==
    ASSUME NEW i \in Slot, NEW j \in Slot
    PROVE  Dist(i, j) = 0 <=> i = j
<1>1. Dist(i, j) = IF i <= j THEN j - i ELSE j + Size - i
  BY DistMeasures
<1> QED BY <1>1, QueueAssumption DEF Slot

(* A ring that is not full has room for one more. *)
LEMMA NotFull ==
    ASSUME NEW i \in Slot, NEW j \in Slot, NextIndex(j) # i
    PROVE  Dist(i, j) < Size - 1
<1>1. NextIndex(j) = (IF j + 1 < Size THEN j + 1 ELSE 0) /\ NextIndex(j) \in Slot
  BY NextIndexSteps
<1>2. Dist(i, j) = IF i <= j THEN j - i ELSE j + Size - i
  BY DistMeasures
<1> QED BY <1>1, <1>2, QueueAssumption DEF Slot

LEMMA SlideLands ==
    ASSUME NEW i \in Slot, NEW k \in 0 .. Size - 1
    PROVE  Slide(i, k) \in Slot
BY QueueAssumption DEF Slot, Slide

LEMMA SlideToEnd ==
    ASSUME NEW i \in Slot, NEW j \in Slot
    PROVE  Slide(i, Dist(i, j)) = j
<1>1. Dist(i, j) = IF i <= j THEN j - i ELSE j + Size - i
  BY DistMeasures
<1> QED BY <1>1, QueueAssumption DEF Slot, Slide

LEMMA SlideFromNext ==
    ASSUME NEW i \in Slot, NEW k \in 0 .. Size - 2
    PROVE  Slide(NextIndex(i), k) = Slide(i, k + 1)
<1>1. NextIndex(i) = IF i + 1 < Size THEN i + 1 ELSE 0
  BY NextIndexSteps
<1> QED BY <1>1, QueueAssumption DEF Slot, Slide

LEMMA SlideFromZero ==
    ASSUME NEW i \in Slot
    PROVE  Slide(i, 0) = i
BY QueueAssumption DEF Slot, Slide

LEMMA SlideApart ==
    ASSUME NEW i \in Slot, NEW j \in 0 .. Size - 1, NEW k \in 0 .. Size - 1, j # k
    PROVE  Slide(i, j) # Slide(i, k)
BY QueueAssumption DEF Slot, Slide

-----------------------------------------------------------------------------
(* The inductive invariant *)

(* What the invariant says about the lengths and the indices. *)
LEMMA Bookkeeping ==
    ASSUME NvmeInv
    PROVE  /\ Len(issued) \in Nat /\ Len(answered) \in Nat
           /\ sq_tail \in Slot /\ cq_head \in Slot /\ sq_head \in Slot
           /\ cq_tail \in Slot /\ sq_doorbell \in Slot
           /\ Dist(sq_doorbell, sq_tail) \in 0 .. Size - 1
           /\ Dist(sq_head, sq_doorbell) \in 0 .. Size - 1
           /\ Dist(cq_head, cq_tail) \in 0 .. Size - 1
           /\ Dist(sq_head, sq_tail) =
                 Dist(sq_head, sq_doorbell) + Dist(sq_doorbell, sq_tail)
           /\ Len(issued) - Posted = Dist(sq_head, sq_tail)
           /\ Posted = Len(answered) + Dist(cq_head, cq_tail)
           /\ \A n \in 1 .. Len(issued) : issued[n] \in Command
<1>1. /\ sq_tail \in Slot /\ cq_head \in Slot /\ sq_head \in Slot
      /\ cq_tail \in Slot /\ sq_doorbell \in Slot
      /\ issued \in Seq(Command) /\ answered \in Seq(Id)
  BY DEF NvmeInv, TypeOK
<1>2. Len(issued) \in Nat /\ Len(answered) \in Nat
      /\ \A n \in 1 .. Len(issued) : issued[n] \in Command
  BY <1>1
<1>3. /\ Dist(sq_doorbell, sq_tail) \in 0 .. Size - 1
      /\ Dist(sq_head, sq_doorbell) \in 0 .. Size - 1
      /\ Dist(cq_head, cq_tail) \in 0 .. Size - 1
  BY <1>1, DistMeasures
<1>4. Dist(sq_head, sq_tail) = Dist(sq_head, sq_doorbell) + Dist(sq_doorbell, sq_tail)
  BY <1>1, DistJoins DEF NvmeInv, RoomInTheRings
<1>5. Len(issued) - Len(answered) =
        Dist(sq_doorbell, sq_tail) + Dist(sq_head, sq_doorbell) + Dist(cq_head, cq_tail)
  BY DEF NvmeInv, NothingLostInTheRings
<1>6. Len(issued) - Posted = Dist(sq_head, sq_tail)
  <2>1. /\ Dist(sq_doorbell, sq_tail) \in Int /\ Dist(sq_head, sq_doorbell) \in Int
        /\ Dist(cq_head, cq_tail) \in Int /\ Dist(sq_head, sq_tail) \in Int
    BY <1>3, <1>4, QueueAssumption
  <2>2. Len(issued) \in Int /\ Len(answered) \in Int
    BY <1>2
  <2> QED BY <1>4, <1>5, <2>1, <2>2 DEF Posted
<1> QED BY <1>1, <1>2, <1>3, <1>4, <1>6 DEF Posted

LEMMA InitEstablishesInv == Init => NvmeInv
<1> SUFFICES ASSUME Init PROVE NvmeInv
  OBVIOUS
<1>1. 0 \in Slot /\ 0 \in Id
  BY QueueAssumption DEF Slot, Id
<1>2. Dist(0, 0) = 0
  BY <1>1, DistZero
<1>3. TypeOK
  BY <1>1 DEF Init, TypeOK, Completion, Slot
<1> QED BY <1>2, <1>3, QueueAssumption
        DEF Init, NvmeInv, NothingLostInTheRings, RoomInTheRings, SubmissionsInOrder,
            CompletionsInOrder, AnswersInOrder, IdsCountUp, BuffersDoNotClash,
            DataBeforeCompletion, Posted

(* The ids stay apart because fewer commands than ids are outstanding. *)
LEMMA FewOutstanding ==
    ASSUME NvmeInv, ~RingFull
    PROVE  /\ Dist(sq_head, sq_tail) < Size - 1
           /\ Len(issued) - Len(answered) < IdSpace
<1>1. Dist(sq_head, sq_tail) < Size - 1
  BY Bookkeeping, NotFull DEF RingFull
<1>2. Dist(cq_head, cq_tail) <= Size - 1 /\ Dist(cq_head, cq_tail) \in Int
  BY Bookkeeping, QueueAssumption
<1>3. Dist(sq_head, sq_tail) \in Int /\ Len(issued) \in Int /\ Len(answered) \in Int
  BY Bookkeeping, QueueAssumption
<1>4. Len(issued) - Len(answered) = Dist(sq_head, sq_tail) + Dist(cq_head, cq_tail)
  BY <1>2, <1>3, Bookkeeping
<1> QED BY <1>1, <1>2, <1>3, <1>4, QueueAssumption

LEMMA NextIdSteps ==
    ASSUME NEW i \in Id
    PROVE  /\ (i + 1) % IdSpace = IF i + 1 < IdSpace THEN i + 1 ELSE 0
           /\ (i + 1) % IdSpace \in Id
<1> DEFINE x == i + 1
<1>1. x \in 0 .. 2 * IdSpace - 1 /\ IdSpace \in Nat /\ IdSpace > 0
  BY QueueAssumption DEF Id
<1>2. x % IdSpace = IF x < IdSpace THEN x ELSE x - IdSpace
  <2> HIDE DEF x
  <2> QED BY <1>1, OnceAround
<1> QED BY <1>2, QueueAssumption DEF Id

LEMMA SubmitKeepsInv ==
    ASSUME NvmeInv, NEW l \in Lba, NEW b \in Buffer, Submit(l, b)
    PROVE  NvmeInv'
<1> DEFINE c == [id |-> next_id, lba |-> l, buf |-> b]
           I == Len(issued)
           A == Len(answered)
<1>1. /\ sq' = [sq EXCEPT ![sq_tail] = c] /\ sq_tail' = NextIndex(sq_tail)
      /\ next_id' = (next_id + 1) % IdSpace /\ issued' = Append(issued, c)
      /\ cq' = cq /\ cq_head' = cq_head /\ sq_head' = sq_head /\ cq_tail' = cq_tail
      /\ sq_doorbell' = sq_doorbell /\ cq_doorbell' = cq_doorbell
      /\ ram' = ram /\ host' = host /\ answered' = answered
      /\ ~RingFull
      /\ \A o \in Outstanding : o.buf = b => o.lba = l
  BY DEF Submit
<1>2. c \in Command /\ next_id \in Id /\ issued \in Seq(Command)
  BY DEF NvmeInv, TypeOK, Command
<1>3. /\ I \in Nat /\ A \in Nat /\ I' = I + 1 /\ A' = A
      /\ issued'[I + 1] = c
      /\ \A n \in 1 .. I : issued'[n] = issued[n]
  BY <1>1, <1>2, Bookkeeping
<1>4. /\ Dist(sq_head, sq_tail) < Size - 1 /\ I - A < IdSpace
      /\ Dist(sq_doorbell, sq_tail) < Size - 1
  <2>1. Dist(sq_head, sq_doorbell) \in Nat /\ Dist(sq_doorbell, sq_tail) \in Nat
    BY Bookkeeping, QueueAssumption
  <2> QED BY <1>1, <2>1, FewOutstanding, Bookkeeping, QueueAssumption
<1>5. /\ Dist(sq_doorbell, sq_tail)' = Dist(sq_doorbell, sq_tail) + 1
      /\ Dist(sq_head, sq_doorbell)' = Dist(sq_head, sq_doorbell)
      /\ Dist(cq_head, cq_tail)' = Dist(cq_head, cq_tail)
      /\ Posted' = Posted
  BY <1>1, <1>4, Bookkeeping, DistGrows DEF Posted
<1>6. TypeOK'
  <2>1. sq_tail' \in Slot /\ next_id' \in Id
    BY <1>1, <1>2, Bookkeeping, NextIndexSteps, NextIdSteps
  <2>2. issued' \in Seq(Command)
    BY <1>1, <1>2
  <2>3. sq' \in [Slot -> Command \cup {Blank}]
    BY <1>1, <1>2 DEF NvmeInv, TypeOK
  <2> QED BY <1>1, <2>1, <2>2, <2>3 DEF NvmeInv, TypeOK
<1>7. NothingLostInTheRings'
  <2>1. /\ Dist(sq_doorbell, sq_tail) \in Int /\ Dist(sq_head, sq_doorbell) \in Int
        /\ Dist(cq_head, cq_tail) \in Int
    BY Bookkeeping, QueueAssumption
  <2>2. Dist(sq_doorbell, sq_tail) + Dist(sq_head, sq_doorbell) + Dist(cq_head, cq_tail) = I - A
    BY DEF NvmeInv, NothingLostInTheRings
  <2>3. Dist(sq_doorbell, sq_tail)' + Dist(sq_head, sq_doorbell)' + Dist(cq_head, cq_tail)' = I' - A'
    BY <1>3, <1>5, <2>1, <2>2
  <2> QED BY <2>3 DEF NothingLostInTheRings
<1>8. RoomInTheRings'
  <2>1. /\ Dist(sq_doorbell, sq_tail) \in Int /\ Dist(sq_head, sq_doorbell) \in Int
    BY Bookkeeping, QueueAssumption
  <2>2. Dist(sq_head, sq_doorbell)' + Dist(sq_doorbell, sq_tail)' < Size
    BY <1>4, <1>5, <2>1, Bookkeeping, QueueAssumption
  <2> QED BY <1>5, <2>2 DEF NvmeInv, RoomInTheRings
<1>9. SubmissionsInOrder'
  <2>1. I - Posted = Dist(sq_head, sq_tail) /\ Dist(sq_head, sq_tail) \in 0 .. Size - 1
        /\ Posted \in Nat /\ Size \in Nat
    <3>1. Dist(cq_head, cq_tail) \in Nat /\ Posted = A + Dist(cq_head, cq_tail)
      BY Bookkeeping
    <3>2. Dist(sq_head, sq_tail) \in 0 .. Size - 1
      BY Bookkeeping, DistMeasures
    <3> QED BY <1>3, <3>1, <3>2, Bookkeeping, QueueAssumption
  <2>2. Slide(sq_head, I - Posted) = sq_tail
    BY <2>1, Bookkeeping, SlideToEnd
  <2>a. I' - Posted' - 1 = I - Posted
    BY <1>3, <1>5, <2>1
  <2> SUFFICES ASSUME NEW k \in 0 .. I - Posted
               PROVE  sq'[Slide(sq_head, k)] = issued'[Posted + 1 + k]
    BY <1>1, <1>5, <2>a DEF SubmissionsInOrder, Slide
  <2>3. CASE k = I - Posted
    BY <1>1, <1>3, <2>1, <2>2, <2>3, Bookkeeping DEF NvmeInv, TypeOK
  <2>4. CASE k # I - Posted
    <3>1. k \in 0 .. I - Posted - 1 /\ k \in 0 .. Size - 1 /\ I - Posted \in 0 .. Size - 1
          /\ Posted + 1 + k \in 1 .. I
      BY <1>3, <2>1, <2>4
    <3>2. sq[Slide(sq_head, k)] = issued[Posted + 1 + k]
      BY <3>1 DEF NvmeInv, SubmissionsInOrder
    <3>3. Slide(sq_head, k) # sq_tail /\ Slide(sq_head, k) \in Slot
      BY <2>2, <2>4, <3>1, Bookkeeping, SlideApart, SlideLands
    <3> QED BY <1>1, <1>3, <3>1, <3>2, <3>3 DEF NvmeInv, TypeOK
  <2> QED BY <2>3, <2>4
<1>10. CompletionsInOrder'
  <2> SUFFICES ASSUME NEW k \in 0 .. Dist(cq_head, cq_tail) - 1
               PROVE  cq[Slide(cq_head, k)].id = issued'[A + 1 + k].id
    BY <1>1, <1>3, <1>5 DEF CompletionsInOrder, Slide
  <2>1. A + 1 + k \in 1 .. I
    <3>1. I - Posted \in Nat /\ Posted = A + Dist(cq_head, cq_tail) /\ Dist(cq_head, cq_tail) \in Nat
      BY Bookkeeping, DistMeasures, QueueAssumption
    <3> QED BY <1>3, <3>1
  <2> QED BY <1>3, <2>1 DEF NvmeInv, CompletionsInOrder
<1>11. I - A \in Nat
  <2>1. Dist(sq_head, sq_tail) \in Nat /\ Dist(cq_head, cq_tail) \in Nat
    BY Bookkeeping, DistMeasures, QueueAssumption
  <2> QED BY <1>3, <2>1, Bookkeeping
<1>12. AnswersInOrder'
  BY <1>1, <1>3, <1>11 DEF NvmeInv, AnswersInOrder
<1>13. IdsCountUp'
  <2> SUFFICES ASSUME NEW n \in A + 1 .. I + 1
               PROVE  issued'[n].id = IF I + 2 - n <= next_id' THEN next_id' - (I + 2 - n)
                                      ELSE next_id' + IdSpace - (I + 2 - n)
    <3>1. \A n \in A + 1 .. I + 1 : I' + 1 - n = I + 2 - n
      BY <1>3
    <3> QED BY <1>1, <1>3, <3>1 DEF IdsCountUp, IdBefore
  <2>1. next_id' = IF next_id + 1 < IdSpace THEN next_id + 1 ELSE 0
    BY <1>1, <1>2, NextIdSteps
  <2>2. next_id \in 0 .. IdSpace - 1 /\ IdSpace \in Nat
    BY <1>2, QueueAssumption DEF Id
  <2>3. CASE n = I + 1
    BY <1>3, <2>1, <2>2, <2>3 DEF IdBefore
  <2>4. CASE n # I + 1
    <3>1. n \in A + 1 .. I /\ n \in 1 .. I
      BY <1>3, <2>4
    <3>2. issued'[n].id = IdBefore(I + 1 - n)
      BY <1>3, <3>1 DEF NvmeInv, IdsCountUp
    <3> DEFINE i == I + 1 - n
    <3>3. i \in 1 .. IdSpace - 1 /\ I + 2 - n = i + 1
      <4>1. n \in Int
        BY <1>3
      <4> QED BY <1>3, <1>4, <2>2, <3>1, <4>1
    <3>4. issued'[n].id = IF i <= next_id THEN next_id - i ELSE next_id + IdSpace - i
      BY <3>2 DEF IdBefore
    <3> HIDE DEF i
    <3> QED BY <2>1, <2>2, <3>3, <3>4
  <2> QED BY <2>3, <2>4
<1>14. BuffersDoNotClash'
  <2>1. \A n \in A + 1 .. I : issued[n] \in Outstanding /\ issued'[n] = issued[n]
    BY <1>3 DEF Outstanding
  <2>2. \A n \in A + 1 .. I : issued'[n].buf = b => issued'[n].lba = l
    BY <1>1, <2>1
  <2>3. \A m, n \in A + 1 .. I :
           issued'[m].buf = issued'[n].buf => issued'[m].lba = issued'[n].lba
    BY <2>1 DEF NvmeInv, BuffersDoNotClash
  <2>4. issued'[I + 1].buf = b /\ issued'[I + 1].lba = l
    BY <1>3
  <2>5. A + 1 .. I' = (A + 1 .. I) \cup {I + 1}
    BY <1>3, <1>11
  <2> QED BY <1>3, <2>2, <2>3, <2>4, <2>5 DEF BuffersDoNotClash
<1>15. DataBeforeCompletion'
  <2>1. Posted \in Nat /\ Posted <= I
    <3>1. Dist(sq_head, sq_tail) \in Nat /\ Dist(cq_head, cq_tail) \in Nat
      BY Bookkeeping, DistMeasures, QueueAssumption
    <3> QED BY <1>3, <3>1, Bookkeeping
  <2>2. \A n \in A + 1 .. Posted : n \in 1 .. I /\ n \in DOMAIN issued
    BY <1>2, <1>3, <2>1
  <2>3. \A n \in A + 1 .. Posted : ram[issued[n].buf] = issued[n].lba
    BY <2>2, Bookkeeping DEF NvmeInv, DataBeforeCompletion
  <2> QED BY <1>1, <1>3, <1>5, <2>2, <2>3, Bookkeeping DEF DataBeforeCompletion, Posted
<1> QED BY <1>6, <1>7, <1>8, <1>9, <1>10, <1>12, <1>13, <1>14, <1>15 DEF NvmeInv

LEMMA RingKeepsInv ==
    ASSUME NvmeInv, RingSqDoorbell
    PROVE  NvmeInv'
<1> DEFINE I == Len(issued)
           A == Len(answered)
<1>1. /\ sq_doorbell' = sq_tail /\ I - A <= MaxOutstanding
      /\ UNCHANGED <<sq, cq, sq_tail, cq_head, sq_head, cq_tail, cq_doorbell,
                     next_id, ram, host, issued, answered>>
  BY DEF RingSqDoorbell
<1>2. /\ Dist(sq_doorbell, sq_tail)' = 0
      /\ Dist(sq_head, sq_doorbell)' = Dist(sq_head, sq_tail)
      /\ Dist(cq_head, cq_tail)' = Dist(cq_head, cq_tail)
  BY <1>1, Bookkeeping, DistZero
<1>3. /\ Dist(sq_head, sq_tail) \in 0 .. Size - 1 /\ Dist(cq_head, cq_tail) \in Nat
      /\ I - A = Dist(sq_head, sq_tail) + Dist(cq_head, cq_tail)
  <2>1. Dist(sq_head, sq_tail) \in 0 .. Size - 1 /\ Dist(cq_head, cq_tail) \in Nat
    BY Bookkeeping, DistMeasures
  <2> QED BY <2>1, Bookkeeping, QueueAssumption
<1>4. NothingLostInTheRings'
  BY <1>1, <1>2, <1>3, QueueAssumption DEF NothingLostInTheRings
<1>5. RoomInTheRings'
  BY <1>1, <1>2, <1>3, QueueAssumption DEF RoomInTheRings
<1>6. TypeOK'
  BY <1>1, Bookkeeping DEF NvmeInv, TypeOK
<1> QED BY <1>1, <1>2, <1>4, <1>5, <1>6
        DEF NvmeInv, SubmissionsInOrder, CompletionsInOrder, AnswersInOrder, IdsCountUp,
            IdBefore, BuffersDoNotClash, DataBeforeCompletion, Posted, Slide

(* The command the controller fetches is the oldest one without completion. *)
LEMMA FetchesNextCommand ==
    ASSUME NvmeInv, sq_head # sq_doorbell
    PROVE  /\ Posted \in Nat /\ Posted + 1 \in Len(answered) + 1 .. Len(issued)
           /\ Posted + 1 \in 1 .. Len(issued)
           /\ sq[sq_head] = issued[Posted + 1]
           /\ sq[sq_head] \in Command
           /\ Dist(cq_head, cq_tail) < Size - 1
           /\ Dist(cq_head, cq_tail) + 1 <= MaxOutstanding
<1>1. /\ Dist(sq_head, sq_doorbell) \in Nat /\ Dist(sq_doorbell, sq_tail) \in Nat
      /\ Dist(cq_head, cq_tail) \in Nat /\ Size \in Nat /\ MaxOutstanding \in Nat
      /\ Len(issued) \in Nat /\ Len(answered) \in Nat
  BY Bookkeeping, QueueAssumption
<1>2. Dist(sq_head, sq_doorbell) # 0
  BY Bookkeeping, DistZero
<1>3. Dist(sq_head, sq_doorbell) + Dist(cq_head, cq_tail) <= MaxOutstanding
  BY DEF NvmeInv, RoomInTheRings
<1>4. Dist(cq_head, cq_tail) < Size - 1 /\ Dist(cq_head, cq_tail) + 1 <= MaxOutstanding
  BY <1>1, <1>2, <1>3, QueueAssumption
<1>5. Posted \in Nat /\ Posted >= Len(answered) /\ Len(issued) - Posted >= 1
  <2>1. Posted = Len(answered) + Dist(cq_head, cq_tail)
        /\ Len(issued) - Posted = Dist(sq_head, sq_doorbell) + Dist(sq_doorbell, sq_tail)
    BY Bookkeeping
  <2> QED BY <1>1, <1>2, <2>1
<1>6. Posted + 1 \in Len(answered) + 1 .. Len(issued) /\ Posted + 1 \in 1 .. Len(issued)
      /\ 0 \in 0 .. Len(issued) - Posted - 1
  BY <1>1, <1>5
<1>7. sq[Slide(sq_head, 0)] = issued[Posted + 1 + 0]
  BY <1>6 DEF NvmeInv, SubmissionsInOrder
<1>8. Slide(sq_head, 0) = sq_head /\ Posted + 1 + 0 = Posted + 1
  BY <1>5, Bookkeeping, SlideFromZero
<1> QED BY <1>4, <1>5, <1>6, <1>7, <1>8, Bookkeeping

LEMMA ControllerKeepsInv ==
    ASSUME NvmeInv, ControllerRun
    PROVE  NvmeInv'
<1> DEFINE e == sq[sq_head]
           D == Dist(cq_head, cq_tail)
           I == Len(issued)
           A == Len(answered)
           c == [sq_head |-> sq_head', id |-> e.id, code |-> 0, phase |-> 1]
<1>1. /\ sq_head # sq_doorbell /\ sq_head' = NextIndex(sq_head)
      /\ ram' = [ram EXCEPT ![e.buf] = e.lba]
      /\ cq' = [cq EXCEPT ![cq_tail] = c]
      /\ cq_tail' = NextIndex(cq_tail)
      /\ UNCHANGED <<sq, sq_tail, cq_head, sq_doorbell, cq_doorbell, next_id, host, issued,
                     answered>>
  BY DEF ControllerRun
<1>2. /\ Posted \in Nat /\ Posted + 1 \in A + 1 .. I /\ Posted + 1 \in 1 .. I
      /\ e = issued[Posted + 1] /\ e \in Command
      /\ D < Size - 1 /\ D + 1 <= MaxOutstanding
  BY <1>1, FetchesNextCommand
<1>3. I \in Nat /\ A \in Nat /\ D \in Nat /\ Size \in Nat /\ Posted = A + D
  BY Bookkeeping, QueueAssumption
<1>4. /\ Dist(sq_head, sq_doorbell)' = Dist(sq_head, sq_doorbell) - 1
      /\ Dist(sq_doorbell, sq_tail)' = Dist(sq_doorbell, sq_tail)
      /\ Dist(cq_head, cq_tail)' = D + 1
  BY <1>1, <1>2, Bookkeeping, DistShrinks, DistGrows
<1>5. Posted' = Posted + 1
  BY <1>1, <1>3, <1>4 DEF Posted
<1>6. e.id \in Id /\ e.buf \in Buffer /\ e.lba \in Lba
  BY <1>2 DEF Command
<1>7. TypeOK'
  <2>1. sq_head' \in Slot /\ cq_tail' \in Slot
    BY <1>1, Bookkeeping, NextIndexSteps
  <2>2. c \in Completion
    BY <1>6, <2>1 DEF Completion
  <2>3. cq' \in [Slot -> Completion]
    BY <1>1, <2>2 DEF NvmeInv, TypeOK
  <2>4. ram' \in [Buffer -> Lba \cup {Blank}]
    BY <1>1, <1>6 DEF NvmeInv, TypeOK
  <2> QED BY <1>1, <2>1, <2>3, <2>4 DEF NvmeInv, TypeOK
<1>8. Dist(sq_head, sq_doorbell) \in Int /\ Dist(sq_doorbell, sq_tail) \in Int
  BY Bookkeeping, QueueAssumption
<1>9. NothingLostInTheRings'
  <2>1. Dist(sq_doorbell, sq_tail) + Dist(sq_head, sq_doorbell) + D = I - A
    BY DEF NvmeInv, NothingLostInTheRings
  <2>2. Dist(sq_doorbell, sq_tail)' + Dist(sq_head, sq_doorbell)' + Dist(cq_head, cq_tail)' = I - A
    BY <1>3, <1>4, <1>8, <2>1
  <2> QED BY <1>1, <2>2 DEF NothingLostInTheRings
<1>10. RoomInTheRings'
  <2>1. /\ Dist(sq_head, sq_doorbell) + Dist(sq_doorbell, sq_tail) < Size
        /\ Dist(sq_head, sq_doorbell) + D <= MaxOutstanding
    BY DEF NvmeInv, RoomInTheRings
  <2>2. /\ Dist(sq_head, sq_doorbell)' + Dist(sq_doorbell, sq_tail)' < Size
        /\ Dist(sq_head, sq_doorbell)' + Dist(cq_head, cq_tail)' <= MaxOutstanding
    BY <1>3, <1>4, <1>8, <2>1, QueueAssumption
  <2> QED BY <2>2 DEF RoomInTheRings
<1>11. SubmissionsInOrder'
  <2>1. I - Posted \in 0 .. Size - 1
    BY Bookkeeping, DistMeasures
  <2>2. I - Posted' - 1 = I - Posted - 2
    BY <1>2, <1>3, <1>5
  <2> SUFFICES ASSUME NEW k \in 0 .. I - Posted - 2
               PROVE  sq[Slide(NextIndex(sq_head), k)] = issued[Posted + 2 + k]
    <3>1. \A k \in 0 .. I - Posted - 2 : Posted' + 1 + k = Posted + 2 + k
      BY <1>2, <1>3, <1>5
    <3> QED BY <1>1, <2>2, <3>1 DEF SubmissionsInOrder, Slide
  <2>3. k \in 0 .. Size - 2 /\ k + 1 \in 0 .. I - Posted - 1 /\ Posted + 1 + (k + 1) = Posted + 2 + k
    <3>1. I \in Int /\ Posted \in Int /\ Size \in Int
      BY <1>2, <1>3
    <3> HIDE DEF I
    <3>2. k \in Int /\ 0 <= k /\ k <= I - Posted - 2
      BY <3>1
    <3>3. I - Posted <= Size - 1
      BY <2>1, <3>1
    <3> QED BY <3>1, <3>2, <3>3
  <2>4. sq[Slide(sq_head, k + 1)] = issued[Posted + 1 + (k + 1)]
    BY <2>3 DEF NvmeInv, SubmissionsInOrder
  <2> QED BY <2>3, <2>4, Bookkeeping, SlideFromNext
<1>12. CompletionsInOrder'
  <2> SUFFICES ASSUME NEW k \in 0 .. D
               PROVE  cq'[Slide(cq_head, k)].id = issued[A + 1 + k].id
    <3>1. Dist(cq_head, cq_tail)' - 1 = D
      BY <1>3, <1>4
    <3> QED BY <1>1, <3>1 DEF CompletionsInOrder, Slide
  <2>1. Slide(cq_head, D) = cq_tail
    BY Bookkeeping, SlideToEnd
  <2>2. CASE k = D
    <3>1. A + 1 + D = Posted + 1
      BY <1>3
    <3> QED BY <1>1, <1>2, <2>1, <2>2, <3>1, Bookkeeping DEF NvmeInv, TypeOK
  <2>3. CASE k # D
    <3>1. k \in 0 .. D - 1 /\ k \in 0 .. Size - 1 /\ D \in 0 .. Size - 1
      BY <1>2, <1>3, <2>3
    <3>2. Slide(cq_head, k) # cq_tail /\ Slide(cq_head, k) \in Slot
      BY <2>1, <2>3, <3>1, Bookkeeping, SlideApart, SlideLands
    <3> QED BY <1>1, <3>1, <3>2 DEF NvmeInv, TypeOK, CompletionsInOrder
  <2> QED BY <2>2, <2>3
<1>13. DataBeforeCompletion'
  <2> SUFFICES ASSUME NEW n \in A + 1 .. Posted + 1
               PROVE  ram'[issued[n].buf] = issued[n].lba
    <3>1. A + Dist(cq_head, cq_tail)' = Posted + 1
      BY <1>3, <1>4
    <3> QED BY <1>1, <3>1 DEF DataBeforeCompletion
  <2>1. n \in A + 1 .. I /\ n \in 1 .. I /\ n \in DOMAIN issued
    <3>1. issued \in Seq(Command)
      BY DEF NvmeInv, TypeOK
    <3> QED BY <1>2, <1>3, <3>1
  <2>2. issued[n].buf \in Buffer /\ issued[n].buf = e.buf => issued[n].lba = e.lba
    BY <1>2, <2>1 DEF NvmeInv, BuffersDoNotClash
  <2>3. issued[n].buf \in Buffer
    BY <2>1, Bookkeeping DEF Command
  <2>4. CASE issued[n].buf = e.buf
    BY <1>1, <1>6, <2>2, <2>4 DEF NvmeInv, TypeOK
  <2>5. CASE issued[n].buf # e.buf
    <3>1. n \in A + 1 .. Posted
      BY <1>2, <1>3, <2>5
    <3>2. ram[issued[n].buf] = issued[n].lba
      BY <1>3, <2>1, <3>1 DEF NvmeInv, DataBeforeCompletion
    <3> QED BY <1>1, <2>3, <2>5, <3>2 DEF NvmeInv, TypeOK
  <2> QED BY <2>4, <2>5
<1>14. AnswersInOrder' /\ IdsCountUp' /\ BuffersDoNotClash'
  BY <1>1 DEF NvmeInv, AnswersInOrder, IdsCountUp, IdBefore, BuffersDoNotClash
<1> QED BY <1>7, <1>9, <1>10, <1>11, <1>12, <1>13, <1>14 DEF NvmeInv

LEMMA ReapOneKeepsInv ==
    ASSUME NvmeInv, ReapOne
    PROVE  NvmeInv'
<1> DEFINE D == Dist(cq_head, cq_tail)
           I == Len(issued)
           A == Len(answered)
           id == cq[cq_head].id
<1>1. /\ cq_head # cq_tail
      /\ answered' = Append(answered, id)
      /\ cq_head' = NextIndex(cq_head)
      /\ UNCHANGED <<sq, cq, sq_tail, sq_head, cq_tail, sq_doorbell, cq_doorbell,
                     next_id, ram, host, issued>>
  BY DEF ReapOne
<1>2. I \in Nat /\ A \in Nat /\ D \in Nat /\ D # 0 /\ Posted = A + D /\ D \in 0 .. Size - 1
      /\ Size \in Nat
  BY <1>1, Bookkeeping, DistZero, QueueAssumption
<1>3. /\ Dist(cq_head, cq_tail)' = D - 1
      /\ Dist(sq_head, sq_doorbell)' = Dist(sq_head, sq_doorbell)
      /\ Dist(sq_doorbell, sq_tail)' = Dist(sq_doorbell, sq_tail)
  BY <1>1, Bookkeeping, DistShrinks
<1>4. id \in Id
  BY Bookkeeping DEF NvmeInv, TypeOK, Completion
<1>5. /\ Len(answered') = A + 1
      /\ answered'[A + 1] = id
      /\ \A n \in 1 .. A : answered'[n] = answered[n]
  BY <1>1, <1>2, <1>4 DEF NvmeInv, TypeOK
<1>6. Posted' = Posted
  BY <1>2, <1>3, <1>5 DEF Posted
<1>7. TypeOK'
  <2>1. cq_head' \in Slot /\ answered' \in Seq(Id)
    BY <1>1, <1>4, Bookkeeping, NextIndexSteps DEF NvmeInv, TypeOK
  <2> QED BY <1>1, <2>1 DEF NvmeInv, TypeOK
<1>8. Dist(sq_head, sq_doorbell) \in Int /\ Dist(sq_doorbell, sq_tail) \in Int
  BY Bookkeeping, QueueAssumption
<1>9. NothingLostInTheRings'
  <2>1. Dist(sq_doorbell, sq_tail) + Dist(sq_head, sq_doorbell) + D = I - A
    BY DEF NvmeInv, NothingLostInTheRings
  <2>2. Dist(sq_doorbell, sq_tail)' + Dist(sq_head, sq_doorbell)' + Dist(cq_head, cq_tail)'
          = I - Len(answered')
    BY <1>2, <1>3, <1>5, <1>8, <2>1
  <2> QED BY <1>1, <2>2 DEF NothingLostInTheRings
<1>10. RoomInTheRings'
  <2>1. /\ Dist(sq_head, sq_doorbell) + Dist(sq_doorbell, sq_tail) < Size
        /\ Dist(sq_head, sq_doorbell) + D <= MaxOutstanding
    BY DEF NvmeInv, RoomInTheRings
  <2>2. Dist(sq_head, sq_doorbell) + (D - 1) <= MaxOutstanding
    BY <1>2, <1>8, <2>1, QueueAssumption
  <2> QED BY <1>3, <2>1, <2>2 DEF RoomInTheRings
<1>11. SubmissionsInOrder'
  BY <1>1, <1>6 DEF NvmeInv, SubmissionsInOrder, Slide
<1>12. CompletionsInOrder'
  <2> SUFFICES ASSUME NEW k \in 0 .. D - 2
               PROVE  cq[Slide(NextIndex(cq_head), k)].id = issued[A + 2 + k].id
    <3>1. Dist(cq_head, cq_tail)' - 1 = D - 2
      BY <1>2, <1>3
    <3>2. \A k \in 0 .. D - 2 : Len(answered') + 1 + k = A + 2 + k
      BY <1>2, <1>5
    <3> QED BY <1>1, <3>1, <3>2 DEF CompletionsInOrder, Slide
  <2>1. k \in 0 .. Size - 2 /\ k + 1 \in 0 .. D - 1 /\ A + 1 + (k + 1) = A + 2 + k
    BY <1>2
  <2>2. cq[Slide(cq_head, k + 1)].id = issued[A + 1 + (k + 1)].id
    BY <2>1 DEF NvmeInv, CompletionsInOrder
  <2> QED BY <2>1, <2>2, Bookkeeping, SlideFromNext
<1>13. id = issued[A + 1].id
  <2>1. 0 \in 0 .. D - 1 /\ A + 1 + 0 = A + 1
    BY <1>2
  <2>2. cq[Slide(cq_head, 0)].id = issued[A + 1 + 0].id
    BY <2>1 DEF NvmeInv, CompletionsInOrder
  <2> QED BY <2>1, <2>2, Bookkeeping, SlideFromZero
<1>14. AnswersInOrder'
  BY <1>1, <1>2, <1>5, <1>13 DEF NvmeInv, AnswersInOrder
<1>15. \A n \in Len(answered') + 1 .. I : n \in A + 1 .. I
  BY <1>2, <1>5
<1>16. IdsCountUp' /\ BuffersDoNotClash'
  BY <1>1, <1>15 DEF NvmeInv, IdsCountUp, IdBefore, BuffersDoNotClash
<1>17. DataBeforeCompletion'
  <2>1. Len(answered') + Dist(cq_head, cq_tail)' = A + D
    BY <1>2, <1>3, <1>5
  <2>2. \A n \in Len(answered') + 1 .. A + D : n \in A + 1 .. A + D
    BY <1>2, <1>5
  <2> QED BY <1>1, <2>1, <2>2 DEF NvmeInv, DataBeforeCompletion
<1> QED BY <1>7, <1>9, <1>10, <1>11, <1>12, <1>14, <1>16, <1>17 DEF NvmeInv

(* Steps that move no index and touch no ring. *)
LEMMA QuietStepsKeepInv ==
    ASSUME NvmeInv, StartReap \/ FinishReap \/ UNCHANGED vars
    PROVE  NvmeInv'
<1>1. /\ UNCHANGED <<sq, cq, sq_tail, cq_head, sq_head, cq_tail, sq_doorbell, next_id, ram,
                     issued, answered>>
      /\ host' \in {"ready", "reaping"} /\ cq_doorbell' \in Slot
  BY DEF StartReap, FinishReap, vars, NvmeInv, TypeOK
<1>2. TypeOK'
  BY <1>1 DEF NvmeInv, TypeOK
<1> QED BY <1>1, <1>2
        DEF NvmeInv, NothingLostInTheRings, RoomInTheRings, SubmissionsInOrder,
            CompletionsInOrder, AnswersInOrder, IdsCountUp, IdBefore, BuffersDoNotClash,
            DataBeforeCompletion, Posted, Slide, Dist

LEMMA StepKeepsInv == NvmeInv /\ [Next]_vars => NvmeInv'
<1> SUFFICES ASSUME NvmeInv, [Next]_vars PROVE NvmeInv'
  OBVIOUS
<1>1. CASE \E l \in Lba, b \in Buffer : Submit(l, b)
  BY <1>1, SubmitKeepsInv
<1>2. CASE RingSqDoorbell
  BY <1>2, RingKeepsInv
<1>3. CASE ControllerRun
  BY <1>3, ControllerKeepsInv
<1>4. CASE ReapOne
  BY <1>4, ReapOneKeepsInv
<1>5. CASE StartReap \/ FinishReap \/ UNCHANGED vars
  BY <1>5, QuietStepsKeepInv
<1>6. CASE AllDone
  BY <1>6, QuietStepsKeepInv DEF AllDone
<1> QED BY <1>1, <1>2, <1>3, <1>4, <1>5, <1>6 DEF Next, Reap

-----------------------------------------------------------------------------
(* What follows from it *)

(* The invariant holds in every state: no index laps another, and the      *)
(* rings hold the outstanding commands in order, whatever the ring size.   *)
THEOREM NvmeSafety == Spec => []NvmeInv
BY InitEstablishesInv, StepKeepsInv, PTL DEF Spec

(* Every variable keeps its type: the indices stay on the ring. *)
THEOREM NvmeTypes == Spec => []TypeOK
<1>1. NvmeInv => TypeOK
  BY DEF NvmeInv
<1> QED BY <1>1, NvmeSafety, PTL

(* submit, controller_run and reap together lose and duplicate no command. *)
THEOREM NvmeNothingLost == Spec => []NothingLostInTheRings
<1>1. NvmeInv => NothingLostInTheRings
  BY DEF NvmeInv
<1> QED BY <1>1, NvmeSafety, PTL

(* A completion reap can read has its block in host memory already. *)
THEOREM NvmeDataFirst == Spec => []DataBeforeCompletion
<1>1. NvmeInv => DataBeforeCompletion
  BY DEF NvmeInv
<1> QED BY <1>1, NvmeSafety, PTL

(* However often the id generator wraps, outstanding commands differ in id. *)
THEOREM NvmeIdsDistinct == Spec => []OutstandingIdsDistinct
<1>1. ASSUME NvmeInv PROVE OutstandingIdsDistinct
  <2> DEFINE I == Len(issued)
             A == Len(answered)
  <2>1. I \in Nat /\ A \in Nat /\ I - A <= IdSpace
    <3>1. /\ Dist(sq_head, sq_tail) \in Nat /\ Dist(sq_head, sq_tail) <= Size - 1
          /\ Dist(cq_head, cq_tail) \in Nat /\ Dist(cq_head, cq_tail) <= Size - 1
      BY <1>1, Bookkeeping, DistMeasures, QueueAssumption
    <3>2. I \in Nat /\ A \in Nat /\ I - A = Dist(sq_head, sq_tail) + Dist(cq_head, cq_tail)
      BY <1>1, <3>1, Bookkeeping
    <3> QED BY <3>1, <3>2, QueueAssumption
  <2>2. next_id \in 0 .. IdSpace - 1 /\ IdSpace \in Nat
    BY <1>1, QueueAssumption DEF NvmeInv, TypeOK, Id
  <2> SUFFICES ASSUME NEW m \in A + 1 .. I, NEW n \in A + 1 .. I, issued[m].id = issued[n].id
               PROVE  m = n
    BY DEF OutstandingIdsDistinct
  <2>3. IdBefore(I + 1 - m) = IdBefore(I + 1 - n)
    BY <1>1 DEF NvmeInv, IdsCountUp
  <2>4. I + 1 - m \in 1 .. IdSpace /\ I + 1 - n \in 1 .. IdSpace
    <3> HIDE DEF I, A
    <3> QED BY <2>1, <2>2
  <2>5. \A i, j \in 1 .. IdSpace : IdBefore(i) = IdBefore(j) => i = j
    BY <2>2 DEF IdBefore
  <2>6. I + 1 - m = I + 1 - n
    BY <2>3, <2>4, <2>5
  <2> QED BY <2>1, <2>6
<1> QED BY <1>1, NvmeSafety, PTL

-----------------------------------------------------------------------------
(* The queue pair as an in-order queue *)

LEMMA InitIsQueueInit == Init => Queue!Init
<1> SUFFICES ASSUME Init PROVE Queue!Init
  OBVIOUS
<1>1. issued = <<>> /\ answered = <<>>
  BY DEF Init
<1>2. [n \in DOMAIN issued |-> issued[n].id] = <<>>
  BY <1>1
<1> QED BY <1>1, <1>2 DEF Queue!Init

LEMMA SubmitIsIssue ==
    ASSUME NvmeInv, NEW l \in Lba, NEW b \in Buffer, Submit(l, b)
    PROVE  Queue!Issue(next_id)
<1> DEFINE c == [id |-> next_id, lba |-> l, buf |-> b]
           Ids(s) == [n \in DOMAIN s |-> s[n].id]
<1>1. issued' = Append(issued, c) /\ answered' = answered /\ c.id = next_id
  BY DEF Submit
<1>2. issued \in Seq(Command) /\ c \in Command /\ Len(issued) \in Nat
  BY DEF NvmeInv, TypeOK, Command
<1>3. /\ Ids(issued) \in Seq(Id) /\ Len(Ids(issued)) = Len(issued)
      /\ next_id \in Id
  <2>1. DOMAIN issued = 1 .. Len(issued)
    BY <1>2
  <2>2. \A n \in 1 .. Len(issued) : issued[n].id \in Id
    BY Bookkeeping DEF Command
  <2>3. Ids(issued) \in [1 .. Len(issued) -> Id]
    BY <2>1, <2>2
  <2>4. Ids(issued) \in Seq(Id)
    BY <1>2, <2>3, SeqDef
  <2> QED BY <1>2, <2>1, <2>4 DEF NvmeInv, TypeOK
<1>4. Ids(issued') = Append(Ids(issued), next_id)
  <2>1. /\ DOMAIN issued' = 1 .. Len(issued) + 1
        /\ issued'[Len(issued) + 1] = c
        /\ \A n \in 1 .. Len(issued) : issued'[n] = issued[n]
    BY <1>1, <1>2
  <2>2. /\ Append(Ids(issued), next_id) \in Seq(Id)
        /\ Len(Append(Ids(issued), next_id)) = Len(issued) + 1
        /\ Append(Ids(issued), next_id)[Len(issued) + 1] = next_id
        /\ \A n \in 1 .. Len(issued) : Append(Ids(issued), next_id)[n] = Ids(issued)[n]
    <3> DEFINE f == Ids(issued)
    <3>1. f \in Seq(Id) /\ Len(f) = Len(issued) /\ next_id \in Id
      BY <1>3
    <3> HIDE DEF f
    <3>2. /\ Append(f, next_id) \in Seq(Id)
          /\ Len(Append(f, next_id)) = Len(f) + 1
          /\ Append(f, next_id)[Len(f) + 1] = next_id
          /\ \A n \in 1 .. Len(f) : Append(f, next_id)[n] = f[n]
      BY <3>1
    <3> QED BY <3>1, <3>2 DEF f
  <2>3. Ids(issued') = [n \in 1 .. Len(issued) + 1 |-> issued'[n].id]
    BY <2>1
  <2>4. Append(Ids(issued), next_id)
          = [n \in 1 .. Len(issued) + 1 |-> Append(Ids(issued), next_id)[n]]
    <3> DEFINE g == Append(Ids(issued), next_id)
    <3>1. g \in Seq(Id) /\ Len(g) = Len(issued) + 1
      BY <2>2
    <3> HIDE DEF g
    <3>2. g = [n \in 1 .. Len(issued) + 1 |-> g[n]]
      BY <3>1
    <3> QED BY <3>2 DEF g
  <2>5. \A n \in 1 .. Len(issued) + 1 : issued'[n].id = Append(Ids(issued), next_id)[n]
    <3> SUFFICES ASSUME NEW n \in 1 .. Len(issued) + 1
                 PROVE  issued'[n].id = Append(Ids(issued), next_id)[n]
      OBVIOUS
    <3>1. CASE n = Len(issued) + 1
      BY <1>1, <2>1, <2>2, <3>1
    <3>2. CASE n # Len(issued) + 1
      <4>1. n \in 1 .. Len(issued) /\ n \in DOMAIN issued
        BY <1>2, <3>2
      <4>2. Ids(issued)[n] = issued[n].id
        BY <4>1
      <4> QED BY <2>1, <2>2, <4>1, <4>2
    <3> QED BY <3>1, <3>2
  <2> QED BY <2>3, <2>4, <2>5
<1> QED BY <1>1, <1>4 DEF Queue!Issue

LEMMA ReapOneIsAnswer ==
    ASSUME NvmeInv, ReapOne
    PROVE  Queue!Answer
<1> DEFINE A == Len(answered)
           ids == [n \in DOMAIN issued |-> issued[n].id]
<1>1. /\ cq_head # cq_tail /\ answered' = Append(answered, cq[cq_head].id)
      /\ issued' = issued
  BY DEF ReapOne
<1>2. /\ A \in Nat /\ Len(issued) \in Nat /\ issued \in Seq(Command)
      /\ Dist(cq_head, cq_tail) \in Nat /\ Dist(cq_head, cq_tail) # 0
      /\ Dist(sq_head, sq_tail) \in Nat
  <2>1. issued \in Seq(Command)
    BY DEF NvmeInv, TypeOK
  <2>2. /\ A \in Nat /\ Len(issued) \in Nat
        /\ Dist(cq_head, cq_tail) \in Nat /\ Dist(cq_head, cq_tail) # 0
    BY <1>1, Bookkeeping, DistZero
  <2>3. Dist(sq_head, sq_tail) \in Nat
    BY Bookkeeping, DistMeasures
  <2> QED BY <2>1, <2>2, <2>3
<1>3. A < Len(issued) /\ 0 \in 0 .. Dist(cq_head, cq_tail) - 1
  BY <1>2, Bookkeeping
<1>4. A + 1 \in DOMAIN issued /\ A + 1 + 0 = A + 1
  BY <1>2, <1>3
<1>5. cq[cq_head].id = issued[A + 1].id
  <2>1. cq[Slide(cq_head, 0)].id = issued[A + 1 + 0].id
    BY <1>3 DEF NvmeInv, CompletionsInOrder
  <2> QED BY <1>4, <2>1, Bookkeeping, SlideFromZero
<1>6. Len(ids) = Len(issued) /\ ids[A + 1] = issued[A + 1].id
  <2>1. DOMAIN ids = 1 .. Len(issued)
    BY <1>2
  <2> QED BY <1>2, <1>4, <2>1
<1> QED BY <1>1, <1>3, <1>5, <1>6 DEF Queue!Answer

LEMMA StepIsQueueStep ==
    ASSUME NvmeInv, [Next]_vars
    PROVE  [Queue!Next]_<<[n \in DOMAIN issued |-> issued[n].id], answered>>
<1>1. CASE \E l \in Lba, b \in Buffer : Submit(l, b)
  <2>1. next_id \in Id
    BY DEF NvmeInv, TypeOK
  <2>2. PICK l \in Lba, b \in Buffer : Submit(l, b)
    BY <1>1
  <2>3. Queue!Issue(next_id)
    BY <2>2, SubmitIsIssue
  <2>4. Queue!Next
    BY <2>1, <2>3 DEF Queue!Next, Queue!Issue
  <2> QED BY <2>4
<1>2. CASE ReapOne
  BY <1>2, ReapOneIsAnswer DEF Queue!Next
<1>3. CASE RingSqDoorbell \/ ControllerRun \/ StartReap \/ FinishReap \/ AllDone \/ UNCHANGED vars
  <2>1. issued' = issued /\ answered' = answered
    BY <1>3 DEF RingSqDoorbell, ControllerRun, StartReap, FinishReap, AllDone, vars
  <2> QED BY <2>1
<1> QED BY <1>1, <1>2, <1>3 DEF Next, Reap

(* The safety half of ImplementsInOrderQueue: the program never receives   *)
(* an answer that is not the next one due.                                 *)
THEOREM NvmeAnswersInOrder == Spec => Queue!SafeSpec
<1>1. Spec => []NvmeInv
  BY NvmeSafety
<1> QED BY <1>1, InitIsQueueInit, StepIsQueueStep, PTL DEF Spec, Queue!SafeSpec

=============================================================================
