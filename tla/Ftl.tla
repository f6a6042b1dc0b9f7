-------------------------------- MODULE Ftl --------------------------------
(***************************************************************************)
(* The flash translation layer of src/06-...: a log-structured map from    *)
(* logical blocks (LBAs) to flash pages, with greedy garbage collection,   *)
(* TRIM and dynamic wear leveling.  Six samples carry the same model       *)
(* (07_ftl_model.c ... 12_wear_leveling.c); each adds one operation.       *)
(*                                                                         *)
(* The program is sequential, but write() is a long operation: it programs *)
(* the new page, then collects victims, page by page, until two erased     *)
(* blocks are in reserve.  The variable pc unrolls that loop so that every *)
(* intermediate state is checked, not only the state write() returns in.   *)
(*                                                                         *)
(* A flash page is named <<block, page>>; the code packs the pair in one   *)
(* integer, ppn = block * PAGES + page, and unpacks it with / and %.       *)
(***************************************************************************)
EXTENDS Integers, FiniteSets

CONSTANTS
    BLOCKS,     \* erase blocks of the drive
    PAGES,      \* pages per erase block
    LBA,        \* the logical blocks the host sees
    Naive,      \* g_naive: TRUE switches wear leveling off (the comparison run)
    MaxErases,  \* bound: no new host write once a block has been erased so often
    None        \* the -1 of map[]: not mapped

(* The drive hides two blocks from the host: LBAS = (BLOCKS - 2) * PAGES.  *)
ASSUME GeometryAssumption ==
    /\ BLOCKS \in Nat /\ BLOCKS > 2
    /\ PAGES \in Nat /\ PAGES > 0
    /\ IsFiniteSet(LBA) /\ Cardinality(LBA) <= (BLOCKS - 2) * PAGES
    /\ Naive \in BOOLEAN
    /\ MaxErases \in Nat

Block == 0 .. BLOCKS - 1
Page  == 0 .. PAGES - 1
Ppn   == Block \X Page

ASSUME NoneAssumption == None \notin Ppn /\ None \notin LBA

VARIABLES
    state,        \* state[ppn]: "Free", "Valid" or "Stale"
    lba,          \* lba[ppn]: the reverse map the collector reads
    next,         \* next[b]: the next page of b to program
    erases,       \* erases[b]: wear of b
    map,          \* map[l]: the page that holds l, or None
    active,       \* the open block
    host_writes,  \* writes the host asked for
    nand_writes,  \* pages programmed
    pc,           \* "idle", "collect" (the while test of write), "copy"
    victim,       \* the block being collected
    cursor        \* the loop index of garbage_collect

vars == <<state, lba, next, erases, map, active, host_writes, nand_writes,
          pc, victim, cursor>>

TypeOK ==
    /\ state \in [Ppn -> {"Free", "Valid", "Stale"}]
    /\ lba \in [Ppn -> LBA \cup {None}]
    /\ next \in [Block -> 0 .. PAGES]
    /\ erases \in [Block -> Nat]
    /\ map \in [LBA -> Ppn \cup {None}]
    /\ active \in Block
    /\ host_writes \in Nat
    /\ nand_writes \in Nat
    /\ pc \in {"idle", "collect", "copy"}
    /\ victim \in Block
    /\ cursor \in 0 .. PAGES

(* make_ftl: a factory fresh drive. *)
Init ==
    /\ state = [ppn \in Ppn |-> "Free"]
    /\ lba = [ppn \in Ppn |-> None]
    /\ next = [b \in Block |-> 0]
    /\ erases = [b \in Block |-> 0]
    /\ map = [l \in LBA |-> None]
    /\ active = 0
    /\ host_writes = 0
    /\ nand_writes = 0
    /\ pc = "idle"
    /\ victim = 0
    /\ cursor = 0

-----------------------------------------------------------------------------
(* Choosing blocks *)

ErasedBlocks == {b \in Block \ {active} : next[b] = 0}

StalePages(b) == {p \in Page : state[<<b, p>>] = "Stale"}

(* Fault: the first erased block, whatever its wear. *)
IsFirstErasedBlock(b) == b \in ErasedBlocks /\ \A c \in ErasedBlocks : b <= c

(* erased_block(): the erased block with the fewest erases, the first of   *)
(* them on a tie; the first erased block when wear leveling is off.        *)
IsErasedBlock(b) ==
    /\ b \in ErasedBlocks
    /\ \A c \in ErasedBlocks :
          \/ ~Naive /\ erases[b] < erases[c]
          \/ (Naive \/ erases[b] = erases[c]) /\ b <= c

Collectable == {b \in Block \ {active} : StalePages(b) # {}}

(* victim(): most stale pages, then fewest erases, then the lowest index.  *)
IsVictim(b) ==
    /\ b \in Collectable
    /\ \A c \in Collectable :
         LET sb == Cardinality(StalePages(b))
             sc == Cardinality(StalePages(c))
         IN  \/ sb > sc
             \/ sb = sc /\ ~Naive /\ erases[b] < erases[c]
             \/ sb = sc /\ (Naive \/ erases[b] = erases[c]) /\ b <= c

(* Fault: the full test is off by one. *)
IsTargetOffByOne(b) ==
    \/ next[active] <= PAGES /\ b = active
    \/ next[active] > PAGES /\ IsErasedBlock(b)

(* The block program() writes to: the open one, or an erased one when the  *)
(* open one is full.  No such block is the -1 that erased_block() returns  *)
(* and program() would index the flash with.                               *)
IsTarget(b) ==
    \/ next[active] < PAGES /\ b = active
    \/ next[active] = PAGES /\ IsErasedBlock(b)

-----------------------------------------------------------------------------
(* Operations *)

(* program(): the next free page of block b now holds l.  before is the    *)
(* page-state table the caller has prepared.                               *)
Program(l, before, b) ==
    LET ppn == <<b, next[b]>>
    IN  /\ active' = b
        /\ state' = [before EXCEPT ![ppn] = "Valid"]
        /\ lba' = [lba EXCEPT ![ppn] = l]
        /\ map' = [map EXCEPT ![l] = ppn]
        /\ next' = [next EXCEPT ![b] = @ + 1]
        /\ nand_writes' = nand_writes + 1

(* Fault: an overwrite leaves the old copy Valid. *)
RetireNothing(l) == state

(* The page states once the current copy of l, if any, is declared stale.  *)
Retire(l) == IF map[l] = None THEN state ELSE [state EXCEPT ![map[l]] = "Stale"]

(* write(), up to its while loop: the old copy dies, a new page is         *)
(* programmed.                                                             *)
Write(l) ==
    /\ pc = "idle"
    /\ \A b \in Block : erases[b] < MaxErases
    /\ host_writes' = host_writes + 1
    /\ \E b \in Block : IsTarget(b) /\ Program(l, Retire(l), b)
    /\ pc' = "collect"
    /\ UNCHANGED <<erases, victim, cursor>>

(* Fault: the copy loop starts at the second page. *)
StartCollectionAtOne ==
    /\ pc = "collect"
    /\ Cardinality(ErasedBlocks) < 2
    /\ \E b \in Block : IsVictim(b) /\ victim' = b
    /\ cursor' = 1
    /\ pc' = "copy"
    /\ UNCHANGED <<state, lba, next, erases, map, active, host_writes, nand_writes>>

(* The while test holds: fewer than two erased blocks, and garbage_collect *)
(* has found a victim.                                                     *)
StartCollection ==
    /\ pc = "collect"
    /\ Cardinality(ErasedBlocks) < 2
    /\ \E b \in Block : IsVictim(b) /\ victim' = b
    /\ cursor' = 0
    /\ pc' = "copy"
    /\ UNCHANGED <<state, lba, next, erases, map, active, host_writes, nand_writes>>

(* Fault: write() returns with one erased block left. *)
FinishWriteEarly ==
    /\ pc = "collect"
    /\ Cardinality(ErasedBlocks) >= 1 \/ Collectable = {}
    /\ pc' = "idle"
    /\ UNCHANGED <<state, lba, next, erases, map, active, host_writes,
                   nand_writes, victim, cursor>>

(* Fault: write() may return without collecting, as write_no_gc() does.    *)
FinishWriteAnyTime ==
    /\ pc = "collect"
    /\ pc' = "idle"
    /\ UNCHANGED <<state, lba, next, erases, map, active, host_writes,
                   nand_writes, victim, cursor>>

(* The while test fails and write() returns: enough erased blocks, or      *)
(* nothing stale to collect.                                               *)
FinishWrite ==
    /\ pc = "collect"
    /\ Cardinality(ErasedBlocks) >= 2 \/ Collectable = {}
    /\ pc' = "idle"
    /\ UNCHANGED <<state, lba, next, erases, map, active, host_writes,
                   nand_writes, victim, cursor>>

(* Fault: stale pages are copied too. *)
CopyPageEvenStale ==
    LET ppn == <<victim, cursor>>
    IN  /\ pc = "copy"
        /\ cursor < PAGES
        /\ \E b \in Block : IsTarget(b) /\ Program(lba[ppn], state, b)
        /\ cursor' = cursor + 1
        /\ UNCHANGED <<erases, host_writes, pc, victim>>

(* Fault: the loop only advances past the pages it copies. *)
CopyPageStuck ==
    LET ppn == <<victim, cursor>>
    IN  /\ pc = "copy"
        /\ cursor < PAGES
        /\ state[ppn] = "Valid"
        /\ \E b \in Block : IsTarget(b) /\ Program(lba[ppn], state, b)
        /\ cursor' = cursor + 1
        /\ UNCHANGED <<erases, host_writes, pc, victim>>

(* One iteration of garbage_collect's copy loop.  The victim's own copy    *)
(* keeps its state: it disappears with the erase, not before.              *)
CopyPage ==
    LET ppn == <<victim, cursor>>
    IN  /\ pc = "copy"
        /\ cursor < PAGES
        /\ \/ /\ state[ppn] = "Valid"
              /\ \E b \in Block : IsTarget(b) /\ Program(lba[ppn], state, b)
           \/ /\ state[ppn] # "Valid"
              /\ UNCHANGED <<state, lba, next, map, active, nand_writes>>
        /\ cursor' = cursor + 1
        /\ UNCHANGED <<erases, host_writes, pc, victim>>

(* Fault: the erase does not reset the programming order of the block.     *)
EraseVictimKeepsNext ==
    /\ pc = "copy"
    /\ cursor = PAGES
    /\ state' = [ppn \in Ppn |-> IF ppn[1] = victim THEN "Free" ELSE state[ppn]]
    /\ lba' = [ppn \in Ppn |-> IF ppn[1] = victim THEN None ELSE lba[ppn]]
    /\ erases' = [erases EXCEPT ![victim] = @ + 1]
    /\ pc' = "collect"
    /\ UNCHANGED <<next, map, active, host_writes, nand_writes, victim, cursor>>

(* The end of garbage_collect: the whole block at once, its wear kept.     *)
EraseVictim ==
    /\ pc = "copy"
    /\ cursor = PAGES
    /\ state' = [ppn \in Ppn |-> IF ppn[1] = victim THEN "Free" ELSE state[ppn]]
    /\ lba' = [ppn \in Ppn |-> IF ppn[1] = victim THEN None ELSE lba[ppn]]
    /\ next' = [next EXCEPT ![victim] = 0]
    /\ erases' = [erases EXCEPT ![victim] = @ + 1]
    /\ pc' = "collect"
    /\ UNCHANGED <<map, active, host_writes, nand_writes, victim, cursor>>

(* Fault: the LBA stays mapped to the page it no longer owns. *)
TrimKeepsMap(l) ==
    /\ pc = "idle"
    /\ map[l] # None
    /\ state' = Retire(l)
    /\ UNCHANGED <<lba, next, erases, map, active, host_writes, nand_writes, pc,
                   victim, cursor>>

(* trim(): the filesystem no longer needs l.  Nothing is collected here.   *)
Trim(l) ==
    /\ pc = "idle"
    /\ map[l] # None
    /\ state' = Retire(l)
    /\ map' = [map EXCEPT ![l] = None]
    /\ UNCHANGED <<lba, next, erases, active, host_writes, nand_writes, pc,
                   victim, cursor>>

(* The samples zero both counters to measure the steady state only.        *)
ResetCounters ==
    /\ pc = "idle"
    /\ host_writes > 0
    /\ host_writes' = 0
    /\ nand_writes' = 0
    /\ UNCHANGED <<state, lba, next, erases, map, active, pc, victim, cursor>>

(* The host has nothing to ask for: the only place the program may stop.   *)
HostPauses == pc = "idle" /\ UNCHANGED vars

InsideWrite == StartCollection \/ FinishWrite \/ CopyPage \/ EraseVictim

Next ==
    \/ \E l \in LBA : Write(l) \/ Trim(l)
    \/ InsideWrite
    \/ ResetCounters
    \/ HostPauses

(* write() is one function call: once entered it runs to its return.       *)
Spec == Init /\ [][Next]_vars /\ WF_vars(InsideWrite)
-----------------------------------------------------------------------------
(* Correctness properties *)

(* consistent() of the samples, at every step and not only between calls:  *)
(* a mapped LBA is held by a Valid page tagged with it, even half way      *)
(* through a collection.                                                   *)
MapPointsAtOwnPage ==
    \A l \in LBA : map[l] # None => state[map[l]] = "Valid" /\ lba[map[l]] = l

(* The second half of consistent(): a Valid page is the current copy of    *)
(* the LBA it carries, so no two Valid pages claim the same LBA, except    *)
(* those the running collection has copied and not yet erased.             *)
ValidPagesAreMapped ==
    \A ppn \in Ppn :
        \/ state[ppn] # "Valid"
        \/ lba[ppn] \in LBA /\ map[lba[ppn]] = ppn
        \/ pc = "copy" /\ ppn[1] = victim /\ ppn[2] < cursor

(* Flash pages are programmed in order and only after an erase: the free   *)
(* pages of a block are those from next on, and a block that is not open   *)
(* is either erased or full.                                               *)
BlocksFillInOrder ==
    /\ \A b \in Block, p \in Page : state[<<b, p>>] = "Free" <=> p >= next[b]
    /\ \A b \in Block \ {active} : next[b] \in {0, PAGES}

(* The reserve: write() never returns with fewer than two erased blocks.   *)
ReserveRestored == pc = "idle" => Cardinality(ErasedBlocks) >= 2

(* Whenever program() runs it has a block to write to, so erased_block()   *)
(* never hands it -1.  Inside a collection this needs the copies of one    *)
(* victim to fit next to the page the host has just written.               *)
NeverOutOfErasedBlocks ==
    \/ pc = "idle"
    \/ pc = "copy" /\ cursor < PAGES /\ state[<<victim, cursor>>] = "Valid"
    => next[active] < PAGES \/ ErasedBlocks # {}

(* Write amplification lies between 1 and PAGES, from any point the        *)
(* counters are reset at: one host write costs at most one collection, and *)
(* a victim has at least one page that need not be copied.                 *)
AmplificationBounded ==
    host_writes <= nand_writes /\ nand_writes <= PAGES * host_writes

(* Only the collector erases, it never erases the page an LBA lives in,    *)
(* and a Stale page never becomes Valid again.                             *)
LivePagesSurvive ==
    [][\A ppn \in Ppn :
          /\ state[ppn] # "Free" /\ state'[ppn] = "Free" =>
                \A l \in LBA : map[l] # ppn
          /\ state[ppn] = "Stale" => state'[ppn] # "Valid"]_vars

(* The while loop of write() ends: every collection makes progress.        *)
WriteReturns == pc # "idle" ~> pc = "idle"
=============================================================================
