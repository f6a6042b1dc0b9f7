----------------------------- MODULE Ftl_proofs -----------------------------
(***************************************************************************)
(* Safety of the flash translation layer for every geometry.               *)
(***************************************************************************)
EXTENDS FtlInvariant, FiniteSetTheorems, WellFoundedInduction, TLAPS

(* Two members make a cardinality of two, and conversely. *)
LEMMA AtLeastTwo ==
    ASSUME NEW S, IsFiniteSet(S)
    PROVE  Cardinality(S) >= 2 <=> \E x, y \in S : x # y
<1>1. ASSUME Cardinality(S) >= 2 PROVE \E x, y \in S : x # y
  <2>1. PICK x \in S : TRUE
    BY <1>1, FS_EmptySet
  <2>2. IsFiniteSet(S \ {x}) /\ Cardinality(S \ {x}) = Cardinality(S) - 1
    BY <2>1, FS_RemoveElement
  <2>3. Cardinality(S) \in Nat
    BY FS_CardinalityType
  <2>4. S \ {x} # {}
    BY <1>1, <2>2, <2>3, FS_EmptySet
  <2> QED BY <2>1, <2>4
<1>2. ASSUME NEW x \in S, NEW y \in S, x # y PROVE Cardinality(S) >= 2
  <2>1. IsFiniteSet({x}) /\ Cardinality({x}) = 1
    BY FS_Singleton
  <2>2. IsFiniteSet({x} \cup {y}) /\ Cardinality({x} \cup {y}) = 2
    BY <1>2, <2>1, FS_AddElement
  <2>3. {x} \cup {y} \in SUBSET S
    BY <1>2
  <2>4. Cardinality({x} \cup {y}) <= Cardinality(S)
    BY <2>3, FS_Subset
  <2>5. Cardinality(S) \in Nat
    BY FS_CardinalityType
  <2> QED BY <2>2, <2>4, <2>5
<1> QED BY <1>1, <1>2

(* Every non-empty set of numbers has a least one. *)
LEMMA LeastNumber ==
    ASSUME NEW S \in SUBSET Nat, S # {}
    PROVE  \E m \in S : \A n \in S : m <= n
<1> DEFINE F == {0..(m - 1) : m \in S}
<1>1. F \subseteq FiniteSubsetsOf(Nat)
  <2> SUFFICES ASSUME NEW m \in S PROVE 0..(m - 1) \in FiniteSubsetsOf(Nat)
    OBVIOUS
  <2>1. IsFiniteSet(0..(m - 1))
    BY FS_Interval
  <2> QED BY <2>1 DEF FiniteSubsetsOf
<1>2. F # {}
  OBVIOUS
<1>3. \E Z \in F : \A T \in F : ~(<<T, Z>> \in StrictSubsetOrdering(Nat))
  <2> HIDE DEF F
  <2> QED BY <1>1, <1>2, FS_StrictSubsetOrderingWellFounded, WFMin
<1>4. PICK m \in S : \A T \in F : ~(<<T, 0..(m - 1)>> \in StrictSubsetOrdering(Nat))
  BY <1>3
<1>5. ASSUME NEW n \in S, n < m PROVE FALSE
  <2>1. /\ 0..(n - 1) \in SUBSET Nat /\ 0..(m - 1) \in SUBSET Nat
        /\ 0..(n - 1) \subseteq 0..(m - 1) /\ 0..(n - 1) # 0..(m - 1)
    <3>1. n \in 0..(m - 1) /\ n \notin 0..(n - 1)
      BY <1>5
    <3> QED BY <1>5, <3>1
  <2>2. 0..(n - 1) \in F
    OBVIOUS
  <2>3. <<0..(n - 1), 0..(m - 1)>> \in StrictSubsetOrdering(Nat)
    <3>1. 0..(n - 1) \in FiniteSubsetsOf(Nat) /\ 0..(m - 1) \in FiniteSubsetsOf(Nat)
      BY <1>1
    <3> HIDE DEF F
    <3> QED BY <2>1, <3>1 DEF StrictSubsetOrdering, FiniteSubsetsOf
  <2> QED BY <1>4, <2>2, <2>3
<1> QED BY <1>5

(* What a loop finds that keeps the best candidate so far: the first one   *)
(* under two ranks, the lowest index on a tie.                             *)
LEMMA FirstOfAll ==
    ASSUME NEW S \in SUBSET Nat, S # {}, NEW f \in [S -> Nat], NEW g \in [S -> Nat]
    PROVE  \E b \in S : \A c \in S :
              \/ f[b] < f[c]
              \/ f[b] = f[c] /\ g[b] < g[c]
              \/ f[b] = f[c] /\ g[b] = g[c] /\ b <= c
<1>1. PICK m \in {f[b] : b \in S} : \A n \in {f[b] : b \in S} : m <= n
  <2>1. {f[b] : b \in S} \in SUBSET Nat /\ {f[b] : b \in S} # {}
    OBVIOUS
  <2> QED BY <2>1, LeastNumber
<1> DEFINE Best == {b \in S : f[b] = m}
<1>2. PICK k \in {g[b] : b \in Best} : \A n \in {g[b] : b \in Best} : k <= n
  <2>1. {g[b] : b \in Best} \in SUBSET Nat /\ {g[b] : b \in Best} # {}
    BY <1>1
  <2> HIDE DEF Best
  <2> QED BY <2>1, LeastNumber
<1> DEFINE Firsts == {b \in Best : g[b] = k}
<1>3. PICK b \in Firsts : \A c \in Firsts : b <= c
  <2>1. Firsts \in SUBSET Nat /\ Firsts # {}
    BY <1>2
  <2> HIDE DEF Firsts
  <2> QED BY <2>1, LeastNumber
<1>4. ASSUME NEW c \in S
      PROVE  \/ f[b] < f[c]
             \/ f[b] = f[c] /\ g[b] < g[c]
             \/ f[b] = f[c] /\ g[b] = g[c] /\ b <= c
  <2>1. b \in S /\ f[b] = m /\ g[b] = k /\ f[c] \in Nat /\ g[c] \in Nat /\ m <= f[c]
    BY <1>1, <1>3
  <2>2. CASE f[c] = m
    <3>1. k <= g[c] /\ k \in Nat
      BY <1>2, <2>1, <2>2
    <3>2. g[c] = k => b <= c
      BY <1>3, <2>2
    <3> QED BY <2>1, <2>2, <3>1, <3>2
  <2> QED BY <2>1, <2>2
<1> QED BY <1>3, <1>4

LEMMA ErasedBlocksFinite == IsFiniteSet(ErasedBlocks)
<1>1. IsFiniteSet(Block)
  BY GeometryAssumption, FS_Interval DEF Block
<1>2. ErasedBlocks \in SUBSET Block
  BY DEF ErasedBlocks
<1> QED BY <1>1, <1>2, FS_Subset

(* The reserve test of write() in terms of two named blocks. *)
LEMMA ReserveTest == Cardinality(ErasedBlocks) >= 2 <=> TwoErased
BY ErasedBlocksFinite, AtLeastTwo DEF TwoErased, ErasedBlocks

(* erased_block() finds a block whenever one is erased, ... *)
LEMMA ErasedBlockFound ==
    ASSUME TypeOK, ErasedBlocks # {}
    PROVE  \E b \in Block : IsErasedBlock(b)
<1> DEFINE wear == [b \in ErasedBlocks |-> IF Naive THEN 0 ELSE erases[b]]
           tie == [b \in ErasedBlocks |-> 0]
<1>1. ErasedBlocks \in SUBSET Nat /\ ErasedBlocks \subseteq Block
  BY DEF ErasedBlocks, Block
<1>2. wear \in [ErasedBlocks -> Nat] /\ tie \in [ErasedBlocks -> Nat]
  BY <1>1 DEF TypeOK
<1>3. PICK b \in ErasedBlocks : \A c \in ErasedBlocks :
              \/ wear[b] < wear[c]
              \/ wear[b] = wear[c] /\ tie[b] < tie[c]
              \/ wear[b] = wear[c] /\ tie[b] = tie[c] /\ b <= c
  <2> HIDE DEF wear, tie
  <2> QED BY <1>1, <1>2, FirstOfAll
<1>4. IsErasedBlock(b)
  BY <1>3, GeometryAssumption DEF IsErasedBlock
<1> QED BY <1>1, <1>4

(* ... and victim() whenever a page outside the open block is stale. *)
LEMMA VictimFound ==
    ASSUME TypeOK, Collectable # {}
    PROVE  \E b \in Block : IsVictim(b)
<1> DEFINE stale(b) == Cardinality(StalePages(b))
           kept == [b \in Collectable |-> PAGES - stale(b)]
           wear == [b \in Collectable |-> IF Naive THEN 0 ELSE erases[b]]
<1>1. Collectable \in SUBSET Nat /\ Collectable \subseteq Block
  BY DEF Collectable, Block
<1>2. ASSUME NEW b \in Block PROVE stale(b) \in 0..PAGES
  <2>1. IsFiniteSet(Page) /\ Cardinality(Page) = PAGES
    BY GeometryAssumption, FS_Interval DEF Page
  <2>2. StalePages(b) \in SUBSET Page
    BY DEF StalePages
  <2>3. IsFiniteSet(StalePages(b)) /\ stale(b) <= PAGES
    BY <2>1, <2>2, FS_Subset
  <2> QED BY <2>3, FS_CardinalityType, GeometryAssumption
<1> HIDE DEF stale
<1>3. kept \in [Collectable -> Nat] /\ wear \in [Collectable -> Nat]
  BY <1>1, <1>2, GeometryAssumption DEF TypeOK
<1>4. PICK b \in Collectable : \A c \in Collectable :
              \/ kept[b] < kept[c]
              \/ kept[b] = kept[c] /\ wear[b] < wear[c]
              \/ kept[b] = kept[c] /\ wear[b] = wear[c] /\ b <= c
  <2> HIDE DEF kept, wear
  <2> QED BY <1>1, <1>3, FirstOfAll
<1>5. ASSUME NEW c \in Collectable
      PROVE  \/ stale(b) > stale(c)
             \/ stale(b) = stale(c) /\ ~Naive /\ erases[b] < erases[c]
             \/ stale(b) = stale(c) /\ (Naive \/ erases[b] = erases[c]) /\ b <= c
  <2>1. stale(b) \in 0..PAGES /\ stale(c) \in 0..PAGES /\ PAGES \in Nat
    BY <1>1, <1>2, GeometryAssumption
  <2>2. /\ kept[b] = PAGES - stale(b) /\ kept[c] = PAGES - stale(c)
        /\ wear[b] = (IF Naive THEN 0 ELSE erases[b])
        /\ wear[c] = (IF Naive THEN 0 ELSE erases[c])
    OBVIOUS
  <2> HIDE DEF kept, wear
  <2> QED BY <1>4, <2>1, <2>2, GeometryAssumption
<1>6. IsVictim(b)
  BY <1>5 DEF IsVictim, stale
<1> QED BY <1>1, <1>6

-----------------------------------------------------------------------------
(* What program() does, whoever calls it *)

(* The target of program() has a free page, the next one in order. *)
LEMMA TargetHasRoom ==
    ASSUME TypeOK, BlocksFillInOrder, NEW b \in Block, IsTarget(b)
    PROVE  /\ next[b] \in 0 .. PAGES - 1
           /\ <<b, next[b]>> \in Ppn
           /\ state[<<b, next[b]>>] = "Free"
<1>1. next[b] \in 0 .. PAGES /\ next[b] < PAGES
  BY GeometryAssumption DEF TypeOK, IsTarget, IsErasedBlock, ErasedBlocks, Block
<1>2. next[b] \in Page /\ next[b] >= next[b]
  BY <1>1, GeometryAssumption DEF Page
<1>3. state[<<b, next[b]>>] = "Free"
  BY <1>2 DEF BlocksFillInOrder
<1> QED BY <1>1, <1>2, <1>3, GeometryAssumption DEF Ppn, Page

(* Types after program(). *)
LEMMA ProgramTypes ==
    ASSUME TypeOK, BlocksFillInOrder, NEW b \in Block, IsTarget(b), NEW l \in LBA,
           NEW before \in [Ppn -> {"Free", "Valid", "Stale"}], Program(l, before, b)
    PROVE  /\ state' \in [Ppn -> {"Free", "Valid", "Stale"}]
           /\ lba' \in [Ppn -> LBA \cup {None}]
           /\ next' \in [Block -> 0 .. PAGES]
           /\ map' \in [LBA -> Ppn \cup {None}]
           /\ active' \in Block
           /\ nand_writes' \in Nat
<1>1. next[b] \in 0 .. PAGES - 1 /\ <<b, next[b]>> \in Ppn
  BY TargetHasRoom
<1>2. next[b] + 1 \in 0 .. PAGES
  BY <1>1, GeometryAssumption
<1> QED BY <1>1, <1>2 DEF Program, TypeOK

(* program() keeps the order of a block, and a block it leaves is full. *)
LEMMA ProgramKeepsOrder ==
    ASSUME TypeOK, BlocksFillInOrder, NEW b \in Block, IsTarget(b), NEW l \in LBA,
           NEW before \in [Ppn -> {"Free", "Valid", "Stale"}],
           \A ppn \in Ppn : before[ppn] = "Free" <=> state[ppn] = "Free",
           Program(l, before, b)
    PROVE  BlocksFillInOrder'
<1>1. next[b] \in 0 .. PAGES - 1 /\ <<b, next[b]>> \in Ppn
  BY TargetHasRoom
<1>2. ASSUME NEW c \in Block, NEW p \in Page
      PROVE  state'[<<c, p>>] = "Free" <=> p >= next'[c]
  <2>1. <<c, p>> \in Ppn
    BY DEF Ppn
  <2>2. state[<<c, p>>] = "Free" <=> p >= next[c]
    BY DEF BlocksFillInOrder
  <2>3. next[c] \in Nat /\ p \in Nat
    BY GeometryAssumption DEF TypeOK, Page
  <2>4. CASE c = b /\ p = next[b]
    BY <2>1, <2>3, <2>4, <1>1 DEF Program, TypeOK
  <2>5. CASE c = b /\ p # next[b]
    <3>1. state'[<<c, p>>] = before[<<c, p>>] /\ next'[c] = next[c] + 1
      BY <2>1, <2>5, <1>1 DEF Program, TypeOK
    <3> QED BY <3>1, <2>1, <2>2, <2>3, <2>5
  <2>6. CASE c # b
    <3>1. state'[<<c, p>>] = before[<<c, p>>] /\ next'[c] = next[c]
      BY <2>1, <2>6, <1>1 DEF Program, TypeOK
    <3> QED BY <3>1, <2>1, <2>2
  <2> QED BY <2>4, <2>5, <2>6
<1>3. ASSUME NEW c \in Block \ {active'}
      PROVE  next'[c] \in {0, PAGES}
  <2>1. active' = b /\ next'[c] = next[c]
    BY <1>3 DEF Program, TypeOK
  <2> QED BY <2>1, <1>3 DEF IsTarget, BlocksFillInOrder
<1> QED BY <1>2, <1>3 DEF BlocksFillInOrder

(* program() leaves every LBA mapped to a Valid page of its own, provided  *)
(* the caller has retired no page but the old copy of l.                   *)
LEMMA ProgramKeepsMap ==
    ASSUME TypeOK, BlocksFillInOrder, MapPointsAtOwnPage,
           NEW b \in Block, IsTarget(b), NEW l \in LBA,
           NEW before \in [Ppn -> {"Free", "Valid", "Stale"}],
           \A k \in LBA \ {l} : map[k] # None => before[map[k]] = "Valid",
           Program(l, before, b)
    PROVE  MapPointsAtOwnPage'
<1> DEFINE new == <<b, next[b]>>
<1>1. new \in Ppn /\ state[new] = "Free"
  BY TargetHasRoom
<1>2. state' = [before EXCEPT ![new] = "Valid"] /\ lba' = [lba EXCEPT ![new] = l]
      /\ map' = [map EXCEPT ![l] = new]
  BY DEF Program
<1> HIDE DEF new
<1> SUFFICES ASSUME NEW k \in LBA, map'[k] # None
             PROVE  state'[map'[k]] = "Valid" /\ lba'[map'[k]] = k
  BY DEF MapPointsAtOwnPage
<1>3. CASE k = l
  BY <1>1, <1>2, <1>3 DEF TypeOK
<1>4. CASE k # l
  <2>1. map'[k] = map[k] /\ map[k] # None /\ map[k] \in Ppn
    BY <1>2, <1>4 DEF TypeOK
  <2>2. state[map[k]] = "Valid" /\ lba[map[k]] = k
    BY <2>1 DEF MapPointsAtOwnPage
  <2>3. map[k] # new
    BY <2>2, <1>1
  <2>4. before[map[k]] = "Valid"
    BY <1>4, <2>1
  <2> QED BY <1>1, <1>2, <2>1, <2>2, <2>3, <2>4 DEF TypeOK
<1> QED BY <1>3, <1>4

-----------------------------------------------------------------------------
(* The map, whoever collects: write(), or main by hand *)

LEMMA InitEstablishesMapInv == Init => MapInv
<1> SUFFICES ASSUME Init PROVE MapInv
  OBVIOUS
<1>1. TypeOK
  BY GeometryAssumption DEF Init, TypeOK, Block
<1>2. MapPointsAtOwnPage /\ ValidPagesAreMapped /\ CopiedPagesAreUnmapped /\ VictimIsClosed
  BY DEF Init, MapPointsAtOwnPage, ValidPagesAreMapped, CopiedPagesAreUnmapped, VictimIsClosed
<1>3. BlocksFillInOrder
  BY GeometryAssumption DEF Init, BlocksFillInOrder, Ppn, Page
<1> QED BY <1>1, <1>2, <1>3 DEF MapInv

(* What write() and write_no_gc() share: the old copy dies, a page is      *)
(* programmed.                                                             *)
LEMMA HostProgramKeepsMapInv ==
    ASSUME MapInv, pc = "idle", pc' \in {"idle", "collect"}, host_writes' \in Nat,
           UNCHANGED <<erases, victim, cursor>>,
           NEW l \in LBA, NEW b \in Block, IsTarget(b), Program(l, Retire(l), b)
    PROVE  MapInv'
<1> USE DEF MapInv
<1> DEFINE new == <<b, next[b]>>
<1>1. new \in Ppn /\ state[new] = "Free" /\ next[b] \in 0 .. PAGES - 1
  BY TargetHasRoom
<1>2. Retire(l) \in [Ppn -> {"Free", "Valid", "Stale"}]
  BY DEF Retire, TypeOK
<1>3. ASSUME NEW ppn \in Ppn
      PROVE  Retire(l)[ppn] = IF ppn = map[l] THEN "Stale" ELSE state[ppn]
  BY NoneAssumption DEF Retire, TypeOK
<1>4. \A ppn \in Ppn : Retire(l)[ppn] = "Free" <=> state[ppn] = "Free"
  BY <1>3, NoneAssumption DEF MapPointsAtOwnPage
<1>5. \A k \in LBA \ {l} : map[k] # None => Retire(l)[map[k]] = "Valid"
  BY <1>3 DEF MapPointsAtOwnPage, TypeOK
<1>6. TypeOK'
  BY <1>2, ProgramTypes DEF TypeOK
<1>7. MapPointsAtOwnPage'
  BY <1>2, <1>5, ProgramKeepsMap
<1>8. BlocksFillInOrder'
  BY <1>2, <1>4, ProgramKeepsOrder
<1>9. state' = [Retire(l) EXCEPT ![new] = "Valid"] /\ lba' = [lba EXCEPT ![new] = l]
      /\ map' = [map EXCEPT ![l] = new]
  BY DEF Program
<1>10. ValidPagesAreMapped'
  <2> HIDE DEF new
  <2> SUFFICES ASSUME NEW ppn \in Ppn, state'[ppn] = "Valid"
               PROVE  lba'[ppn] \in LBA /\ map'[lba'[ppn]] = ppn
    BY DEF ValidPagesAreMapped
  <2>1. CASE ppn = new
    BY <1>1, <1>9, <2>1 DEF TypeOK
  <2>2. CASE ppn # new
    <3>1. Retire(l)[ppn] = "Valid" /\ lba'[ppn] = lba[ppn]
      BY <1>2, <1>9, <2>2 DEF TypeOK
    <3>2. ppn # map[l] /\ state[ppn] = "Valid"
      BY <1>3, <3>1
    <3>3. lba[ppn] \in LBA /\ map[lba[ppn]] = ppn
      BY <3>2 DEF ValidPagesAreMapped
    <3> QED BY <1>9, <3>1, <3>2, <3>3 DEF TypeOK
  <2> QED BY <2>1, <2>2
<1>11. VictimIsClosed' /\ CopiedPagesAreUnmapped'
  BY DEF VictimIsClosed, CopiedPagesAreUnmapped
<1> QED BY <1>6, <1>7, <1>8, <1>10, <1>11

(* garbage_collect() has found a victim. *)
LEMMA StartKeepsMapInv ==
    ASSUME MapInv, pc # "copy", pc' = "copy", cursor' = 0, NEW b \in Block, IsVictim(b),
           victim' = b,
           UNCHANGED <<state, lba, next, erases, map, active, host_writes, nand_writes>>
    PROVE  MapInv'
<1> USE DEF MapInv
<1>1. TypeOK'
  BY GeometryAssumption DEF TypeOK
<1>2. MapPointsAtOwnPage' /\ ValidPagesAreMapped' /\ BlocksFillInOrder'
  BY DEF MapPointsAtOwnPage, ValidPagesAreMapped, BlocksFillInOrder
<1>3. CopiedPagesAreUnmapped'
  BY GeometryAssumption DEF CopiedPagesAreUnmapped, Page
<1>4. VictimIsClosed'
  <2>1. b # active /\ \E q \in Page : state[<<b, q>>] = "Stale"
    BY DEF IsVictim, Collectable, StalePages
  <2>2. PICK q \in Page : state[<<b, q>>] = "Stale"
    BY <2>1
  <2>3. q < next[b]
    BY <2>2, GeometryAssumption DEF BlocksFillInOrder, TypeOK, Page
  <2>4. next[b] = PAGES
    BY <2>1, <2>3, GeometryAssumption DEF BlocksFillInOrder, Page
  <2> QED BY <2>1, <2>4 DEF VictimIsClosed
<1> QED BY <1>1, <1>2, <1>3, <1>4

(* The copies never go to the victim itself. *)
LEMMA TargetIsNotVictim ==
    ASSUME MapInv, pc = "copy", NEW b \in Block, IsTarget(b)
    PROVE  b # victim
BY GeometryAssumption DEF MapInv, VictimIsClosed, IsTarget, IsErasedBlock, ErasedBlocks

LEMMA CopyPageKeepsMapInv ==
    ASSUME MapInv, CopyPage
    PROVE  MapInv'
<1> USE DEF MapInv
<1> DEFINE old == <<victim, cursor>>
<1>1. pc = "copy" /\ pc' = "copy" /\ cursor < PAGES /\ cursor' = cursor + 1
      /\ erases' = erases /\ host_writes' = host_writes /\ victim' = victim
  BY DEF CopyPage
<1>2. cursor \in Page /\ cursor' \in 0 .. PAGES /\ old \in Ppn /\ cursor \in Nat
  BY <1>1, GeometryAssumption DEF TypeOK, Page, Ppn
<1>3. CASE state[old] # "Valid"
  <2>1. UNCHANGED <<state, lba, next, map, active, nand_writes>>
    BY <1>3 DEF CopyPage
  <2>2. TypeOK'
    BY <1>1, <1>2, <2>1 DEF TypeOK
  <2>3. MapPointsAtOwnPage' /\ BlocksFillInOrder' /\ VictimIsClosed'
    BY <1>1, <2>1 DEF MapPointsAtOwnPage, BlocksFillInOrder, VictimIsClosed
  <2>4. ValidPagesAreMapped'
    BY <1>1, <1>2, <2>1 DEF ValidPagesAreMapped, Ppn, Page
  <2>5. CopiedPagesAreUnmapped'
    <3> SUFFICES ASSUME NEW l \in LBA, NEW p \in Page, map[l] = <<victim, p>>
                 PROVE  p >= cursor + 1
      BY <1>1, <2>1 DEF CopiedPagesAreUnmapped
    <3>1. p >= cursor
      BY <1>1 DEF CopiedPagesAreUnmapped
    <3>2. map[l] # old
      BY <1>2, <1>3, NoneAssumption DEF MapPointsAtOwnPage
    <3> QED BY <1>2, <3>1, <3>2 DEF Page
  <2> QED BY <2>2, <2>3, <2>4, <2>5
<1>4. CASE state[old] = "Valid"
  <2> DEFINE l == lba[old]
  <2>1. PICK b \in Block : IsTarget(b) /\ Program(l, state, b)
    BY <1>4 DEF CopyPage
  <2> DEFINE new == <<b, next[b]>>
  <2>2. l \in LBA /\ map[l] = old
    BY <1>2, <1>4 DEF ValidPagesAreMapped
  <2>3. state \in [Ppn -> {"Free", "Valid", "Stale"}]
    BY DEF TypeOK
  <2>4. new \in Ppn /\ state[new] = "Free" /\ next[b] \in 0 .. PAGES - 1
    BY <2>1, TargetHasRoom
  <2>5. TypeOK'
    BY <1>1, <1>2, <2>1, <2>2, <2>3, ProgramTypes DEF TypeOK
  <2>6. MapPointsAtOwnPage'
    <3>1. \A k \in LBA \ {l} : map[k] # None => state[map[k]] = "Valid"
      BY DEF MapPointsAtOwnPage
    <3> HIDE DEF l
    <3> QED BY <2>1, <2>2, <2>3, <3>1, ProgramKeepsMap
  <2>7. BlocksFillInOrder'
    BY <2>1, <2>2, <2>3, ProgramKeepsOrder
  <2>8. state' = [state EXCEPT ![new] = "Valid"] /\ lba' = [lba EXCEPT ![new] = l]
        /\ map' = [map EXCEPT ![l] = new] /\ active' = b
        /\ next' = [next EXCEPT ![b] = @ + 1]
    BY <2>1 DEF Program
  <2>9. victim # b /\ victim \in Block
    BY <1>1, <2>1, TargetIsNotVictim DEF TypeOK
  <2>10. ValidPagesAreMapped'
    <3> HIDE DEF new, l
    <3> SUFFICES ASSUME NEW ppn \in Ppn, state'[ppn] = "Valid"
                 PROVE  \/ lba'[ppn] \in LBA /\ map'[lba'[ppn]] = ppn
                        \/ ppn[1] = victim /\ ppn[2] < cursor + 1
      BY <1>1 DEF ValidPagesAreMapped
    <3>1. CASE ppn = new
      BY <2>2, <2>4, <2>8, <3>1 DEF TypeOK
    <3>2. CASE ppn = old
      BY <1>2, <3>2
    <3>3. CASE ppn # new /\ ppn # old
      <4>1. state[ppn] = "Valid" /\ lba'[ppn] = lba[ppn]
        BY <2>8, <3>3 DEF TypeOK
      <4>2. CASE ppn[1] = victim /\ ppn[2] < cursor
        BY <1>2, <4>2 DEF Ppn, Page
      <4>3. CASE lba[ppn] \in LBA /\ map[lba[ppn]] = ppn
        <5>1. lba[ppn] # l
          BY <2>2, <3>3, <4>3
        <5> QED BY <2>8, <4>1, <4>3, <5>1 DEF TypeOK
      <4> QED BY <4>1, <4>2, <4>3 DEF ValidPagesAreMapped
    <3> QED BY <3>1, <3>2, <3>3
  <2>11. CopiedPagesAreUnmapped'
    <3> SUFFICES ASSUME NEW k \in LBA, NEW p \in Page, map'[k] = <<victim, p>>
                 PROVE  p >= cursor + 1
      BY <1>1 DEF CopiedPagesAreUnmapped
    <3>1. k # l
      <4>1. map'[l] = new
        BY <2>2, <2>8 DEF TypeOK
      <4> QED BY <2>9, <4>1
    <3>2. map[k] = <<victim, p>>
      BY <2>8, <3>1 DEF TypeOK
    <3>3. p >= cursor
      BY <1>1, <3>2 DEF CopiedPagesAreUnmapped
    <3>4. p # cursor
      <4>1. SUFFICES ASSUME p = cursor PROVE FALSE
        OBVIOUS
      <4>2. map[k] = old
        BY <3>2, <4>1
      <4>3. lba[old] = k
        BY <1>2, <4>2, NoneAssumption DEF MapPointsAtOwnPage
      <4> QED BY <3>1, <4>3
    <3> QED BY <1>2, <3>3, <3>4 DEF Page
  <2>12. VictimIsClosed'
    BY <1>1, <2>8, <2>9 DEF VictimIsClosed, TypeOK
  <2> QED BY <2>5, <2>6, <2>7, <2>10, <2>11, <2>12
<1> QED BY <1>3, <1>4

LEMMA EraseVictimKeepsMapInv ==
    ASSUME MapInv, EraseVictim
    PROVE  MapInv'
<1> USE DEF MapInv
<1>1. /\ pc = "copy" /\ pc' = "collect" /\ cursor = PAGES /\ cursor' = cursor
      /\ victim' = victim /\ map' = map /\ active' = active
      /\ host_writes' = host_writes /\ nand_writes' = nand_writes
  BY DEF EraseVictim
<1>2. /\ state' = [ppn \in Ppn |-> IF ppn[1] = victim THEN "Free" ELSE state[ppn]]
      /\ lba' = [ppn \in Ppn |-> IF ppn[1] = victim THEN None ELSE lba[ppn]]
      /\ next' = [next EXCEPT ![victim] = 0]
      /\ erases' = [erases EXCEPT ![victim] = @ + 1]
  BY DEF EraseVictim
<1>3. victim \in Block /\ victim # active
  BY <1>1 DEF VictimIsClosed, TypeOK
<1>4. TypeOK'
  <2>1. 0 \in 0 .. PAGES /\ erases[victim] + 1 \in Nat
    BY <1>3, GeometryAssumption DEF TypeOK
  <2> QED BY <1>1, <1>2, <2>1 DEF TypeOK
<1>5. \A l \in LBA : map[l] # None => map[l] \in Ppn /\ map[l][1] # victim
  <2> SUFFICES ASSUME NEW l \in LBA, map[l] # None, map[l][1] = victim PROVE FALSE
    BY DEF TypeOK
  <2>1. PICK b \in Block, p \in Page : map[l] = <<b, p>>
    BY DEF TypeOK, Ppn
  <2>2. p >= cursor
    BY <1>1, <2>1 DEF CopiedPagesAreUnmapped
  <2> QED BY <1>1, <2>2, GeometryAssumption DEF Page
<1>6. MapPointsAtOwnPage'
  BY <1>1, <1>2, <1>5 DEF MapPointsAtOwnPage
<1>7. ValidPagesAreMapped'
  <2> SUFFICES ASSUME NEW ppn \in Ppn, state'[ppn] = "Valid"
               PROVE  lba'[ppn] \in LBA /\ map'[lba'[ppn]] = ppn
    BY DEF ValidPagesAreMapped
  <2>1. ppn[1] # victim /\ state[ppn] = "Valid" /\ lba'[ppn] = lba[ppn]
    BY <1>2
  <2> QED BY <1>1, <2>1 DEF ValidPagesAreMapped
<1>8. BlocksFillInOrder'
  <2>1. ASSUME NEW b \in Block, NEW p \in Page
        PROVE  state'[<<b, p>>] = "Free" <=> p >= next'[b]
    <3>1. <<b, p>> \in Ppn
      BY DEF Ppn
    <3>2. CASE b = victim
      BY <1>2, <1>3, <3>1, <3>2, GeometryAssumption DEF TypeOK, Page
    <3>3. CASE b # victim
      <4>1. state'[<<b, p>>] = state[<<b, p>>] /\ next'[b] = next[b]
        BY <1>2, <3>1, <3>3 DEF TypeOK
      <4> QED BY <4>1 DEF BlocksFillInOrder
    <3> QED BY <3>2, <3>3
  <2>2. \A b \in Block \ {active'} : next'[b] \in {0, PAGES}
    BY <1>1, <1>2 DEF TypeOK, BlocksFillInOrder
  <2> QED BY <2>1, <2>2 DEF BlocksFillInOrder
<1>9. CopiedPagesAreUnmapped' /\ VictimIsClosed'
  BY <1>1 DEF CopiedPagesAreUnmapped, VictimIsClosed
<1> QED BY <1>4, <1>6, <1>7, <1>8, <1>9

LEMMA TrimKeepsMapInv ==
    ASSUME MapInv, NEW l \in LBA, Trim(l)
    PROVE  MapInv'
<1> USE DEF MapInv
<1>1. /\ pc = "idle" /\ pc' = pc /\ map[l] # None
      /\ state' = [state EXCEPT ![map[l]] = "Stale"] /\ map' = [map EXCEPT ![l] = None]
      /\ UNCHANGED <<lba, next, erases, active, host_writes, nand_writes, victim, cursor>>
  BY DEF Trim, Retire
<1>2. map[l] \in Ppn /\ state[map[l]] = "Valid" /\ lba[map[l]] = l
  BY <1>1 DEF TypeOK, MapPointsAtOwnPage
<1>3. TypeOK'
  BY <1>1, <1>2 DEF TypeOK
<1>4. MapPointsAtOwnPage'
  BY <1>1, <1>2 DEF MapPointsAtOwnPage, TypeOK
<1>5. ValidPagesAreMapped'
  <2> SUFFICES ASSUME NEW ppn \in Ppn, state'[ppn] = "Valid"
               PROVE  lba[ppn] \in LBA /\ map'[lba[ppn]] = ppn
    BY <1>1 DEF ValidPagesAreMapped
  <2>1. ppn # map[l] /\ state[ppn] = "Valid"
    BY <1>1, <1>2 DEF TypeOK
  <2>2. lba[ppn] \in LBA /\ map[lba[ppn]] = ppn
    BY <1>1, <2>1 DEF ValidPagesAreMapped
  <2> QED BY <1>1, <2>1, <2>2 DEF TypeOK
<1>6. BlocksFillInOrder'
  <2>1. \A ppn \in Ppn : state'[ppn] = "Free" <=> state[ppn] = "Free"
    BY <1>1, <1>2 DEF TypeOK
  <2> QED BY <1>1, <2>1 DEF BlocksFillInOrder, Ppn
<1>7. CopiedPagesAreUnmapped' /\ VictimIsClosed'
  BY <1>1 DEF CopiedPagesAreUnmapped, VictimIsClosed
<1> QED BY <1>3, <1>4, <1>5, <1>6, <1>7

(* Steps that move nothing: the return of write(), zeroing the counters. *)
LEMMA QuietStepsKeepMapInv ==
    ASSUME MapInv, host_writes' \in Nat, nand_writes' \in Nat,
           UNCHANGED <<state, lba, next, erases, map, active, victim, cursor>>,
           pc' = pc \/ (pc # "copy" /\ pc' \in {"idle", "collect"})
    PROVE  MapInv'
<1> USE DEF MapInv
<1>1. TypeOK'
  BY DEF TypeOK
<1>2. MapPointsAtOwnPage' /\ ValidPagesAreMapped' /\ BlocksFillInOrder'
  BY DEF MapPointsAtOwnPage, ValidPagesAreMapped, BlocksFillInOrder
<1>3. CopiedPagesAreUnmapped' /\ VictimIsClosed'
  BY DEF CopiedPagesAreUnmapped, VictimIsClosed
<1> QED BY <1>1, <1>2, <1>3

-----------------------------------------------------------------------------
(* The reserve and its price, action by action *)

LEMMA InitEstablishesInv == Init => FtlInv
<1> SUFFICES ASSUME Init PROVE FtlInv
  OBVIOUS
<1>1. Reserve
  <2>1. 1 \in Block /\ 2 \in Block
    BY GeometryAssumption DEF Block
  <2> QED BY <2>1 DEF Init, Reserve, TwoErased
<1>2. Amplification
  BY GeometryAssumption DEF Init, Amplification, AmplificationBounded
<1> QED BY <1>1, <1>2, InitEstablishesMapInv DEF FtlInv

LEMMA WriteKeepsInv ==
    ASSUME FtlInv, NEW l \in LBA, Write(l)
    PROVE  FtlInv'
<1> USE DEF FtlInv, MapInv
<1>1. PICK b \in Block : IsTarget(b) /\ Program(l, Retire(l), b)
  BY DEF Write
<1>2. pc = "idle" /\ pc' = "collect" /\ host_writes' = host_writes + 1
      /\ UNCHANGED <<erases, victim, cursor>>
  BY DEF Write
<1> DEFINE new == <<b, next[b]>>
<1>3. new \in Ppn /\ state[new] = "Free" /\ next[b] \in 0 .. PAGES - 1
  BY <1>1, TargetHasRoom
<1>4. Retire(l) \in [Ppn -> {"Free", "Valid", "Stale"}]
  BY DEF Retire, TypeOK
<1>5. MapInv'
  <2>1. host_writes' \in Nat
    BY <1>2 DEF TypeOK
  <2> QED BY <1>1, <1>2, <2>1, HostProgramKeepsMapInv
<1>6. next' = [next EXCEPT ![b] = @ + 1] /\ active' = b /\ nand_writes' = nand_writes + 1
      /\ state' = [Retire(l) EXCEPT ![new] = "Valid"]
  BY <1>1 DEF Program
<1>7. PICK e \in Block, f \in Block : e # active /\ f # active /\ e # f
                                      /\ next[e] = 0 /\ next[f] = 0
  BY <1>2 DEF Reserve, TwoErased
<1>8. (TwoErased \/ FreshlyOpened)'
  <2>1. CASE b = active
    <3>1. next'[e] = 0 /\ next'[f] = 0 /\ e # active' /\ f # active'
      BY <1>6, <1>7, <2>1 DEF TypeOK
    <3> QED BY <1>7, <3>1 DEF TwoErased
  <2>2. CASE b # active
    <3>1. next[b] = 0 /\ next'[active'] = 1
      BY <1>1, <1>6, <2>2 DEF IsTarget, IsErasedBlock, ErasedBlocks, TypeOK
    <3>2. AnErased'
      <4>1. PICK g \in {e, f} : g # b
        BY <1>7
      <4> QED BY <1>6, <1>7, <4>1 DEF AnErased, TypeOK
    <3>3. state'[<<active', 0>>] = "Valid"
      BY <1>3, <1>4, <1>6, <3>1 DEF TypeOK
    <3> QED BY <3>1, <3>2, <3>3 DEF FreshlyOpened
  <2> QED BY <2>1, <2>2
<1>9. Reserve'
  BY <1>2, <1>8 DEF Reserve
<1>10. Amplification'
  <2>1. host_writes \in Nat /\ nand_writes \in Nat /\ PAGES \in Nat /\ PAGES > 0
    BY GeometryAssumption DEF TypeOK
  <2>2. PAGES * (host_writes + 1) = PAGES * host_writes + PAGES /\ PAGES * host_writes \in Nat
    BY <2>1
  <2>3. host_writes' - 1 = host_writes
    BY <1>2, <2>1
  <2>4. AmplificationBounded'
    BY <1>2, <1>6, <2>1, <2>2 DEF Amplification, AmplificationBounded
  <2>5. nand_writes' <= PAGES * (host_writes' - 1) + 1
    BY <1>6, <2>1, <2>2, <2>3 DEF Amplification, AmplificationBounded
  <2> QED BY <1>2, <2>1, <2>4, <2>5 DEF Amplification
<1> QED BY <1>5, <1>9, <1>10 DEF FtlInv

LEMMA StartCollectionKeepsInv ==
    ASSUME FtlInv, StartCollection
    PROVE  FtlInv'
<1> USE DEF FtlInv, MapInv
<1>1. /\ pc = "collect" /\ pc' = "copy" /\ cursor' = 0
      /\ UNCHANGED <<state, lba, next, erases, map, active, host_writes, nand_writes>>
  BY DEF StartCollection
<1>2. PICK b \in Block : IsVictim(b) /\ victim' = b
  BY DEF StartCollection
<1>3. ~TwoErased
  BY ErasedBlocksFinite, ReserveTest, FS_CardinalityType DEF StartCollection
<1>4. MapInv'
  BY <1>1, <1>2, StartKeepsMapInv
<1>5. FreshlyOpened
  BY <1>1, <1>3 DEF Reserve
<1>6. RoomForCopies'
  <2>1. PICK q \in Page : state[<<victim', q>>] = "Stale"
    BY <1>2 DEF IsVictim, Collectable, StalePages
  <2>2. next[active] <= 0 + (IF q < 0 THEN 0 ELSE 1)
    BY <1>5, GeometryAssumption DEF FreshlyOpened, Page
  <2> QED BY <1>1, <1>5, <2>1, <2>2 DEF RoomForCopies, FreshlyOpened, AnErased
<1>7. Reserve'
  BY <1>1, <1>6 DEF Reserve
<1>8. Amplification'
  <2>1. nand_writes' <= PAGES * (host_writes' - 1) + next'[active']
    BY <1>1, <1>3, <1>5 DEF Amplification, FreshlyOpened
  <2> QED BY <1>1, <2>1 DEF Amplification, AmplificationBounded
<1> QED BY <1>4, <1>7, <1>8 DEF FtlInv

(* The pigeonhole argument: with one erased block and one page used in the *)
(* open block, there is something to collect.  Otherwise every page of the *)
(* BLOCKS - 2 closed blocks and one page of the open block would hold a    *)
(* different LBA: one more than the host has.                              *)
LEMMA SomethingToCollect ==
    ASSUME FtlInv, pc = "collect", FreshlyOpened, ~TwoErased
    PROVE  Collectable # {}
<1> USE DEF FtlInv, MapInv
<1> SUFFICES ASSUME Collectable = {} PROVE FALSE
  OBVIOUS
<1>1. PICK e \in Block : e # active /\ next[e] = 0
  BY DEF FreshlyOpened, AnErased
<1> DEFINE Closed == (Block \ {active}) \ {e}
           Cells  == Closed \X Page
           First  == <<active, 0>>
           Holder == Cells \cup {First}
<1>2. active \in Block /\ 0 \in Page /\ First \in Ppn /\ Cells \in SUBSET Ppn
  BY GeometryAssumption DEF TypeOK, Page, Ppn
<1>3. \A ppn \in Holder : state[ppn] = "Valid"
  <2>1. ASSUME NEW c \in Closed, NEW p \in Page
        PROVE  state[<<c, p>>] = "Valid"
    <3>1. next[c] = PAGES
      BY <1>1 DEF TwoErased, BlocksFillInOrder
    <3>2. state[<<c, p>>] # "Free"
      BY <3>1, GeometryAssumption DEF BlocksFillInOrder, Page
    <3>3. state[<<c, p>>] # "Stale"
      BY DEF Collectable, StalePages
    <3> QED BY <3>2, <3>3 DEF TypeOK, Ppn
  <2> QED BY <2>1 DEF FreshlyOpened
<1>4. \A ppn \in Holder : lba[ppn] \in LBA /\ map[lba[ppn]] = ppn
  BY <1>2, <1>3 DEF ValidPagesAreMapped
<1>5. [ppn \in Holder |-> lba[ppn]] \in Injection(Holder, LBA)
  BY <1>4 DEF Injection, IsInjective
<1>6. IsFiniteSet(Holder) /\ Cardinality(Holder) <= Cardinality(LBA)
  BY <1>5, GeometryAssumption, FS_Injection
<1>7. IsFiniteSet(Block) /\ Cardinality(Block) = BLOCKS
      /\ IsFiniteSet(Page) /\ Cardinality(Page) = PAGES
  BY GeometryAssumption, FS_Interval DEF Block, Page
<1>8. IsFiniteSet(Closed) /\ Cardinality(Closed) = BLOCKS - 2
  <2>1. IsFiniteSet(Block \ {active}) /\ Cardinality(Block \ {active}) = BLOCKS - 1
    BY <1>2, <1>7, FS_RemoveElement
  <2>2. e \in Block \ {active}
    BY <1>1
  <2>3. IsFiniteSet(Closed) /\ Cardinality(Closed) = Cardinality(Block \ {active}) - 1
    BY <2>1, <2>2, FS_RemoveElement
  <2> QED BY <2>1, <2>3, GeometryAssumption
<1>9. IsFiniteSet(Cells) /\ Cardinality(Cells) = (BLOCKS - 2) * PAGES
  <2> HIDE DEF Closed
  <2> QED BY <1>7, <1>8, FS_Product
<1>10. First \notin Cells
  OBVIOUS
<1>11. Cardinality(Holder) = (BLOCKS - 2) * PAGES + 1
  <2> HIDE DEF Cells, First
  <2> QED BY <1>9, <1>10, FS_AddElement
<1>12. (BLOCKS - 2) * PAGES \in Nat /\ Cardinality(LBA) \in Nat
  BY GeometryAssumption, FS_CardinalityType
<1> HIDE DEF Holder
<1> QED BY <1>6, <1>11, <1>12, GeometryAssumption

LEMMA FinishWriteKeepsInv ==
    ASSUME FtlInv, FinishWrite
    PROVE  FtlInv'
<1> USE DEF FtlInv, MapInv
<1>1. pc = "collect" /\ pc' = "idle" /\ UNCHANGED <<state, lba, next, erases, map, active,
           host_writes, nand_writes, victim, cursor>>
  BY DEF FinishWrite
<1>2. TwoErased
  BY <1>1, ReserveTest, SomethingToCollect DEF FinishWrite, Reserve
<1>3. MapInv'
  BY <1>1, QuietStepsKeepMapInv DEF TypeOK
<1>4. Reserve'
  BY <1>1, <1>2 DEF Reserve, TwoErased
<1>5. Amplification'
  BY <1>1 DEF Amplification, AmplificationBounded
<1> QED BY <1>3, <1>4, <1>5 DEF FtlInv

(* The copy always goes to the open block: the room for it was there when  *)
(* the collection started.                                                 *)
LEMMA CopyStaysInOpenBlock ==
    ASSUME FtlInv, pc = "copy", cursor < PAGES, state[<<victim, cursor>>] = "Valid"
    PROVE  next[active] < PAGES
<1>1. PICK q \in Page : /\ state[<<victim, q>>] = "Stale"
                        /\ next[active] <= cursor + (IF q < cursor THEN 0 ELSE 1)
  BY DEF FtlInv, Reserve, RoomForCopies
<1>2. q # cursor /\ q \in 0 .. PAGES - 1 /\ cursor \in Nat /\ next[active] \in Nat
  BY <1>1, GeometryAssumption DEF FtlInv, MapInv, TypeOK, Page
<1> QED BY <1>1, <1>2, GeometryAssumption

LEMMA CopyPageKeepsInv ==
    ASSUME FtlInv, CopyPage
    PROVE  FtlInv'
<1> USE DEF FtlInv, MapInv
<1> DEFINE old == <<victim, cursor>>
<1>1. pc = "copy" /\ pc' = "copy" /\ cursor < PAGES /\ cursor' = cursor + 1
      /\ erases' = erases /\ host_writes' = host_writes /\ victim' = victim
  BY DEF CopyPage
<1>2. MapInv'
  BY CopyPageKeepsMapInv
<1>3. RoomForCopies
  BY <1>1 DEF Reserve
<1>4. PICK q \in Page : /\ state[<<victim, q>>] = "Stale"
                        /\ next[active] <= cursor + (IF q < cursor THEN 0 ELSE 1)
  BY <1>3 DEF RoomForCopies
<1>5. q \in Nat /\ cursor \in Nat /\ next[active] \in Nat
  BY <1>1, GeometryAssumption DEF TypeOK, Page
<1>6. CASE state[old] # "Valid"
  <2>1. UNCHANGED <<state, lba, next, map, active, nand_writes>>
    BY <1>6 DEF CopyPage
  <2>2. RoomForCopies'
    <3>1. next[active] <= (cursor + 1) + (IF q < cursor + 1 THEN 0 ELSE 1)
      BY <1>4, <1>5
    <3> QED BY <1>1, <1>3, <1>4, <2>1, <3>1 DEF RoomForCopies, AnErased
  <2>3. Reserve'
    BY <1>1, <2>2 DEF Reserve
  <2>4. Amplification'
    BY <1>1, <2>1 DEF Amplification, AmplificationBounded
  <2> QED BY <1>2, <2>3, <2>4 DEF FtlInv
<1>7. CASE state[old] = "Valid"
  <2> DEFINE new == <<active, next[active]>>
  <2>1. next[active] < PAGES
    BY <1>1, <1>7, CopyStaysInOpenBlock
  <2>2. IsTarget(active) /\ Program(lba[old], state, active)
    <3>1. PICK b \in Block : IsTarget(b) /\ Program(lba[old], state, b)
      BY <1>7 DEF CopyPage
    <3>2. b = active
      BY <2>1, <3>1, GeometryAssumption DEF IsTarget
    <3> QED BY <3>1, <3>2
  <2>3. state' = [state EXCEPT ![new] = "Valid"] /\ active' = active
        /\ next' = [next EXCEPT ![active] = @ + 1] /\ nand_writes' = nand_writes + 1
    BY <2>2 DEF Program
  <2>4. RoomForCopies'
    <3>1. next'[active'] = next[active] + 1
      BY <2>3 DEF TypeOK
    <3>2. AnErased'
      <4>1. PICK e \in Block \ {active} : next[e] = 0
        BY <1>3 DEF RoomForCopies, AnErased
      <4> QED BY <2>3, <4>1 DEF AnErased, TypeOK
    <3>3. <<victim, q>> \in Ppn /\ <<victim, q>> # new
      BY <1>1 DEF Ppn, VictimIsClosed, TypeOK
    <3>4. state'[<<victim, q>>] = "Stale"
      BY <1>4, <2>3, <3>3 DEF TypeOK
    <3>5. next[active] + 1 <= (cursor + 1) + (IF q < cursor + 1 THEN 0 ELSE 1)
      <4>1. q # cursor
        BY <1>4, <1>7
      <4> QED BY <1>4, <1>5, <4>1
    <3> QED BY <1>1, <3>1, <3>2, <3>4, <3>5 DEF RoomForCopies
  <2>5. Reserve'
    BY <1>1, <2>4 DEF Reserve
  <2>6. Amplification'
    <3>1. next'[active'] = next[active] + 1 /\ next[active] + 1 <= PAGES
      BY <1>5, <2>1, <2>3, GeometryAssumption DEF TypeOK
    <3>2. host_writes \in Nat /\ nand_writes \in Nat /\ PAGES \in Nat
      BY GeometryAssumption DEF TypeOK
    <3>3. nand_writes <= PAGES * (host_writes - 1) + next[active]
          /\ host_writes <= nand_writes /\ host_writes > 0
      BY <1>1 DEF Amplification, AmplificationBounded
    <3>4. PAGES * (host_writes - 1) = PAGES * host_writes - PAGES
          /\ PAGES * host_writes \in Nat
      BY <3>2
    <3>5. nand_writes' <= PAGES * (host_writes' - 1) + next'[active']
      BY <1>1, <1>5, <2>3, <3>1, <3>2, <3>3, <3>4
    <3>6. AmplificationBounded'
      BY <1>1, <1>5, <2>3, <3>1, <3>2, <3>3, <3>4 DEF AmplificationBounded
    <3> QED BY <1>1, <3>3, <3>5, <3>6 DEF Amplification
  <2> QED BY <1>2, <2>5, <2>6 DEF FtlInv
<1> QED BY <1>6, <1>7

(* One collection is enough. *)
LEMMA EraseLeavesTwo ==
    ASSUME FtlInv, EraseVictim
    PROVE  TwoErased'
<1> USE DEF FtlInv, MapInv
<1>1. pc = "copy" /\ active' = active /\ next' = [next EXCEPT ![victim] = 0]
  BY DEF EraseVictim
<1>2. RoomForCopies /\ victim \in Block /\ victim # active /\ next[victim] = PAGES
  BY <1>1 DEF Reserve, VictimIsClosed, TypeOK
<1>3. PICK e \in Block \ {active} : next[e] = 0
  BY <1>2 DEF RoomForCopies, AnErased
<1>4. e # victim
  BY <1>2, <1>3, GeometryAssumption
<1>5. next'[e] = 0 /\ next'[victim] = 0
  BY <1>1, <1>2, <1>3, <1>4 DEF TypeOK
<1> QED BY <1>1, <1>2, <1>3, <1>4, <1>5 DEF TwoErased

LEMMA EraseVictimKeepsInv ==
    ASSUME FtlInv, EraseVictim
    PROVE  FtlInv'
<1> USE DEF FtlInv, MapInv
<1>1. /\ pc = "copy" /\ pc' = "collect" /\ cursor = PAGES /\ active' = active
      /\ host_writes' = host_writes /\ nand_writes' = nand_writes
      /\ next' = [next EXCEPT ![victim] = 0]
  BY DEF EraseVictim
<1>2. TwoErased'
  BY EraseLeavesTwo
<1>3. Reserve'
  BY <1>1, <1>2 DEF Reserve
<1>4. Amplification'
  BY <1>1, <1>2 DEF Amplification, AmplificationBounded
<1> QED BY <1>3, <1>4, EraseVictimKeepsMapInv DEF FtlInv

LEMMA TrimKeepsInv ==
    ASSUME FtlInv, NEW l \in LBA, Trim(l)
    PROVE  FtlInv'
<1> USE DEF FtlInv
<1>1. pc = "idle" /\ pc' = pc /\ UNCHANGED <<next, active, host_writes, nand_writes>>
  BY DEF Trim
<1>2. Reserve'
  BY <1>1 DEF Reserve, TwoErased
<1>3. Amplification'
  BY <1>1 DEF Amplification, AmplificationBounded
<1> QED BY <1>2, <1>3, TrimKeepsMapInv DEF FtlInv

(* Steps that move nothing: zeroing the counters, and no step at all. *)
LEMMA QuietStepsKeepInv ==
    ASSUME FtlInv, ResetCounters \/ UNCHANGED vars
    PROVE  FtlInv'
<1> USE DEF FtlInv
<1>1. UNCHANGED <<state, lba, next, erases, map, active, pc, victim, cursor>>
  BY DEF ResetCounters, vars
<1>2. \/ host_writes' = host_writes /\ nand_writes' = nand_writes
      \/ pc = "idle" /\ host_writes' = 0 /\ nand_writes' = 0
  BY DEF ResetCounters, vars
<1>3. MapInv'
  BY <1>1, <1>2, QuietStepsKeepMapInv DEF MapInv, TypeOK
<1>4. Reserve'
  BY <1>1 DEF Reserve, TwoErased, AnErased, FreshlyOpened, RoomForCopies
<1>5. Amplification'
  BY <1>1, <1>2, GeometryAssumption DEF Amplification, AmplificationBounded, TwoErased
<1> QED BY <1>3, <1>4, <1>5 DEF FtlInv

LEMMA StepKeepsInv == FtlInv /\ [Next]_vars => FtlInv'
<1> SUFFICES ASSUME FtlInv, [Next]_vars PROVE FtlInv'
  OBVIOUS
<1>1. ASSUME NEW l \in LBA, Write(l) PROVE FtlInv'
  BY <1>1, WriteKeepsInv
<1>2. ASSUME NEW l \in LBA, Trim(l) PROVE FtlInv'
  BY <1>2, TrimKeepsInv
<1>3. CASE StartCollection
  BY <1>3, StartCollectionKeepsInv
<1>4. CASE FinishWrite
  BY <1>4, FinishWriteKeepsInv
<1>5. CASE CopyPage
  BY <1>5, CopyPageKeepsInv
<1>6. CASE EraseVictim
  BY <1>6, EraseVictimKeepsInv
<1>7. CASE ResetCounters \/ UNCHANGED vars
  BY <1>7, QuietStepsKeepInv
<1> QED BY <1>1, <1>2, <1>3, <1>4, <1>5, <1>6, <1>7 DEF Next, InsideWrite, HostPauses

-----------------------------------------------------------------------------
(* The theorems *)

(* The inductive invariant holds in every reachable state, whatever the    *)
(* number of blocks, pages and LBAs, with wear leveling or without.        *)
THEOREM FtlSafety == Spec => []FtlInv
<1>1. Init => FtlInv
  BY InitEstablishesInv
<1>2. FtlInv /\ [Next]_vars => FtlInv'
  BY StepKeepsInv
<1> QED BY <1>1, <1>2, PTL DEF Spec

(* The variables of the drive stay within their types. *)
THEOREM FtlTypes == Spec => []TypeOK
<1>1. FtlInv => TypeOK
  BY DEF FtlInv, MapInv
<1> QED BY <1>1, FtlSafety, PTL

(* consistent() of the samples holds at every step: every mapped LBA is    *)
(* held by a Valid page tagged with it.                                    *)
THEOREM FtlMap == Spec => []MapPointsAtOwnPage
<1>1. FtlInv => MapPointsAtOwnPage
  BY DEF FtlInv, MapInv
<1> QED BY <1>1, FtlSafety, PTL

(* No two Valid pages claim one LBA, but for the copies a collection has   *)
(* made and not yet made good by its erase.                                *)
THEOREM FtlValidPages == Spec => []ValidPagesAreMapped
<1>1. FtlInv => ValidPagesAreMapped
  BY DEF FtlInv, MapInv
<1> QED BY <1>1, FtlSafety, PTL

(* Pages are programmed in order, blocks one at a time.                    *)
THEOREM FtlFillOrder == Spec => []BlocksFillInOrder
<1>1. FtlInv => BlocksFillInOrder
  BY DEF FtlInv, MapInv
<1> QED BY <1>1, FtlSafety, PTL

(* write() always returns with two erased blocks in reserve, because the   *)
(* drive hides two blocks from the host (SomethingToCollect).              *)
THEOREM FtlReserve == Spec => []ReserveRestored
<1>1. FtlInv => ReserveRestored
  BY ReserveTest DEF FtlInv, Reserve, ReserveRestored
<1> QED BY <1>1, FtlSafety, PTL

(* program() never asks erased_block() for a block that does not exist:    *)
(* the index -1 cannot reach the flash array.                              *)
THEOREM FtlNeverOut == Spec => []NeverOutOfErasedBlocks
<1>1. FtlInv => NeverOutOfErasedBlocks
  <2> SUFFICES ASSUME FtlInv,
                      \/ pc = "idle"
                      \/ pc = "copy" /\ cursor < PAGES /\ state[<<victim, cursor>>] = "Valid"
               PROVE  next[active] < PAGES \/ ErasedBlocks # {}
    BY DEF NeverOutOfErasedBlocks
  <2>1. CASE pc = "idle"
    BY <2>1 DEF FtlInv, Reserve, TwoErased, ErasedBlocks
  <2>2. CASE pc = "copy" /\ cursor < PAGES /\ state[<<victim, cursor>>] = "Valid"
    BY <2>2, CopyStaysInOpenBlock
  <2> QED BY <2>1, <2>2
<1> QED BY <1>1, FtlSafety, PTL

(* Write amplification is at most PAGES: the worst victim has PAGES - 1    *)
(* pages to copy, and one write collects at most one victim.               *)
THEOREM FtlAmplification == Spec => []AmplificationBounded
<1>1. FtlInv => AmplificationBounded
  BY DEF FtlInv, Amplification
<1> QED BY <1>1, FtlSafety, PTL

(* Only the collector erases, never a page an LBA lives in, and no Stale   *)
(* page comes back to life.                                                *)
THEOREM FtlLivePages == Spec => LivePagesSurvive
<1> DEFINE Survives(ppn) ==
              /\ state[ppn] # "Free" /\ state'[ppn] = "Free" => \A l \in LBA : map[l] # ppn
              /\ state[ppn] = "Stale" => state'[ppn] # "Valid"
<1>1. ASSUME FtlInv, Next, NEW ppn \in Ppn PROVE Survives(ppn)
  <2> USE <1>1 DEF FtlInv, MapInv
  <2>1. ASSUME NEW l \in LBA, NEW b \in Block, IsTarget(b),
               NEW before \in [Ppn -> {"Free", "Valid", "Stale"}],
               \A q \in Ppn : /\ before[q] = "Free" <=> state[q] = "Free"
                              /\ state[q] = "Stale" => before[q] = "Stale",
               Program(l, before, b)
        PROVE  Survives(ppn)
    <3>1. state[<<b, next[b]>>] = "Free" /\ <<b, next[b]>> \in Ppn
      BY <2>1, TargetHasRoom
    <3> QED BY <2>1, <3>1 DEF Program
  <2>2. ASSUME NEW l \in LBA, Write(l) PROVE Survives(ppn)
    <3>1. PICK b \in Block : IsTarget(b) /\ Program(l, Retire(l), b)
      BY <2>2 DEF Write
    <3>2. Retire(l) \in [Ppn -> {"Free", "Valid", "Stale"}]
      BY DEF Retire, TypeOK
    <3>3. \A q \in Ppn : /\ Retire(l)[q] = "Free" <=> state[q] = "Free"
                         /\ state[q] = "Stale" => Retire(l)[q] = "Stale"
      BY NoneAssumption DEF Retire, TypeOK, MapPointsAtOwnPage
    <3> QED BY <2>1, <3>1, <3>2, <3>3
  <2>3. ASSUME NEW l \in LBA, Trim(l) PROVE Survives(ppn)
    BY <2>3 DEF Trim, Retire, TypeOK, MapPointsAtOwnPage
  <2>4. CASE CopyPage
    <3>1. CASE UNCHANGED state
      BY <3>1
    <3>2. CASE state[<<victim, cursor>>] = "Valid"
      <4>1. PICK b \in Block : IsTarget(b) /\ Program(lba[<<victim, cursor>>], state, b)
        BY <2>4, <3>2 DEF CopyPage
      <4>2. state[<<b, next[b]>>] = "Free"
        BY <4>1, TargetHasRoom
      <4> QED BY <4>1, <4>2 DEF Program, TypeOK
    <3> QED BY <2>4, <3>1, <3>2 DEF CopyPage
  <2>5. CASE EraseVictim
    <3>1. state'[ppn] = IF ppn[1] = victim THEN "Free" ELSE state[ppn]
      BY <2>5 DEF EraseVictim
    <3>2. ASSUME NEW l \in LBA, map[l] = ppn, ppn[1] = victim PROVE FALSE
      <4>1. PICK b \in Block, p \in Page : ppn = <<b, p>>
        BY DEF Ppn
      <4>2. p >= cursor
        BY <2>5, <3>2, <4>1 DEF EraseVictim, CopiedPagesAreUnmapped
      <4> QED BY <2>5, <4>2, GeometryAssumption DEF EraseVictim, Page
    <3> QED BY <3>1, <3>2
  <2>6. CASE StartCollection \/ FinishWrite \/ ResetCounters \/ HostPauses
    BY <2>6 DEF StartCollection, FinishWrite, ResetCounters, HostPauses, vars
  <2> QED BY <2>2, <2>3, <2>4, <2>5, <2>6 DEF Next, InsideWrite
<1>2. FtlInv /\ [Next]_vars => [\A ppn \in Ppn : Survives(ppn)]_vars
  BY <1>1
<1> QED BY <1>2, FtlSafety, PTL DEF Spec, LivePagesSurvive

-----------------------------------------------------------------------------
(* write() returns *)

(* The turns write() has left in its loops: one collection is enough. *)
WorkLeft ==
    IF pc = "idle" THEN 0
    ELSE IF pc = "copy" THEN PAGES - cursor + 2
    ELSE IF TwoErased THEN 1 ELSE PAGES + 3

(* No turn of write() and its loops is ever without a next step: garbage_collect()  *)
(* finds its victim and program() its block, so the early exit for nothing *)
(* to collect is not taken.                                                *)
WriteGoesOn ==
    /\ pc = "idle" => \E b \in Block : IsTarget(b)
    /\ pc = "collect" /\ Cardinality(ErasedBlocks) < 2 => \E b \in Block : IsVictim(b)
    /\ pc = "copy" /\ cursor < PAGES /\ state[<<victim, cursor>>] = "Valid" =>
          \E b \in Block : IsTarget(b)

THEOREM WriteIsNeverStuck == Spec => []WriteGoesOn
<1>1. FtlInv => WriteGoesOn
  <2> SUFFICES ASSUME FtlInv PROVE WriteGoesOn
    OBVIOUS
  <2>1. TypeOK /\ active \in Block
    BY DEF FtlInv, MapInv, TypeOK
  <2>2. ASSUME pc = "collect", Cardinality(ErasedBlocks) < 2
        PROVE  \E b \in Block : IsVictim(b)
    <3>1. ~TwoErased
      BY <2>2, ReserveTest, ErasedBlocksFinite, FS_CardinalityType
    <3>2. FreshlyOpened
      BY <2>2, <3>1 DEF FtlInv, Reserve
    <3> QED BY <2>1, <2>2, <3>1, <3>2, SomethingToCollect, VictimFound
  <2>3. ASSUME pc = "copy", cursor < PAGES, state[<<victim, cursor>>] = "Valid"
        PROVE  \E b \in Block : IsTarget(b)
    BY <2>1, <2>3, CopyStaysInOpenBlock DEF IsTarget
  <2>4. ASSUME pc = "idle" PROVE \E b \in Block : IsTarget(b)
    <3>1. \E b \in Block : IsErasedBlock(b)
      BY <2>1, <2>4, ErasedBlockFound DEF FtlInv, Reserve, TwoErased, ErasedBlocks
    <3>2. next[active] < PAGES \/ next[active] = PAGES
      BY <2>1, GeometryAssumption DEF TypeOK
    <3> QED BY <2>1, <3>1, <3>2 DEF IsTarget
  <2> QED BY <2>2, <2>3, <2>4 DEF WriteGoesOn
<1> QED BY <1>1, FtlSafety, PTL

(* Each turn of the loops of write() brings its return nearer: the part of *)
(* WriteReturns that does not rest on fairness.                            *)
THEOREM WriteCountsDown ==
    Spec => [][pc # "idle" => WorkLeft \in Nat /\ WorkLeft' \in Nat /\ WorkLeft' < WorkLeft]_vars
<1> DEFINE Down == WorkLeft \in Nat /\ WorkLeft' \in Nat /\ WorkLeft' < WorkLeft
<1>1. ASSUME FtlInv, FtlInv', Next, pc # "idle" PROVE Down
  <2>1. /\ cursor \in 0..PAGES /\ cursor' \in 0..PAGES /\ PAGES \in Nat
        /\ pc \in {"collect", "copy"}
    BY <1>1, GeometryAssumption DEF FtlInv, MapInv, TypeOK
  <2>2. InsideWrite
    BY <1>1 DEF Next, Write, Trim, ResetCounters, HostPauses
  <2>3. CASE StartCollection
    <3>1. pc = "collect" /\ pc' = "copy" /\ cursor' = 0 /\ ~TwoErased
      BY <2>3, ReserveTest, ErasedBlocksFinite, FS_CardinalityType DEF StartCollection
    <3> QED BY <2>1, <3>1 DEF WorkLeft
  <2>4. CASE FinishWrite
    BY <2>1, <2>4 DEF FinishWrite, WorkLeft
  <2>5. CASE CopyPage
    BY <2>1, <2>5 DEF CopyPage, WorkLeft
  <2>6. CASE EraseVictim
    <3>1. pc = "copy" /\ pc' = "collect" /\ cursor = PAGES
      BY <2>6 DEF EraseVictim
    <3>2. TwoErased'
      BY <1>1, <2>6, EraseLeavesTwo
    <3> QED BY <2>1, <3>1, <3>2 DEF WorkLeft
  <2> QED BY <2>2, <2>3, <2>4, <2>5, <2>6 DEF InsideWrite
<1>2. FtlInv /\ FtlInv' /\ [Next]_vars => [pc # "idle" => Down]_vars
  BY <1>1
<1> QED BY <1>2, FtlSafety, PTL DEF Spec
=============================================================================
