------------------------------ MODULE AppCache ------------------------------
(***************************************************************************)
(* Sample 09 of folder 08: a cache of blocks that never evicts, over a     *)
(* file that plays the device.  Block n is full of a letter of its own;    *)
(* the content is its number, and None stands for a block of zeros.        *)
(***************************************************************************)
EXTENDS Integers, FiniteSets

CONSTANTS
    CachedBlocks,    \* block numbers
    MaxGets          \* bound: reads of the main loop

ASSUME CacheAssumption == CachedBlocks \subseteq Nat /\ MaxGets \in Nat

None == -1

VARIABLES
    device,        \* the blocks that made it into the file
    cache,         \* the blocks in the table and what they hold
    hits, misses,  \* counters of the cache
    device_reads,  \* counter of read_block
    all_good       \* the flag `ok' of main

cacheVars == <<device, cache, hits, misses, device_reads, all_good>>

NoBlock == [n \in {} |-> None]

InitCache ==
    /\ device = CachedBlocks
    /\ cache = NoBlock
    /\ hits = 0
    /\ misses = 0
    /\ device_reads = 0
    /\ all_good = TRUE

\* The file is written without a look at what fwrite and fclose return, so
\* some of the blocks may be missing before the first read.
LoseBlocks ==
    /\ hits + misses = 0
    /\ device' \in SUBSET device \ {device}
    /\ UNCHANGED <<cache, hits, misses, device_reads, all_good>>

\* What main makes of the block it is given; no block is as bad as a wrong one.
Judge(n, data) == all_good' = (all_good /\ data = n)

\* cache_get finds the block.
Hit(n) ==
    /\ n \in DOMAIN cache
    /\ hits' = hits + 1
    /\ Judge(n, cache[n])
    /\ UNCHANGED <<device, cache, misses, device_reads>>

\* cache_get reads the block: a read that fails or comes up short leaves
\* zeros, and the zeros are cached. Fault: main does not look at them.
MissUnchecked(n) ==
    /\ n \notin DOMAIN cache
    /\ misses' = misses + 1
    /\ device_reads' = device_reads + 1
    /\ \E data \in {None} \union ({n} \intersect device) :
         cache' = [m \in DOMAIN cache \union {n} |-> IF m = n THEN data ELSE cache[m]]
    /\ UNCHANGED <<device, hits, all_good>>
Miss(n) ==
    /\ n \notin DOMAIN cache
    /\ misses' = misses + 1
    /\ device_reads' = device_reads + 1
    /\ \E data \in {None} \union ({n} \intersect device) :
         /\ cache' = [m \in DOMAIN cache \union {n} |-> IF m = n THEN data ELSE cache[m]]
         /\ Judge(n, data)
    /\ UNCHANGED <<device, hits>>

\* There is no memory for the block: a miss without a read.
MissNoMemory(n) ==
    /\ n \notin DOMAIN cache
    /\ misses' = misses + 1
    /\ Judge(n, None)
    /\ UNCHANGED <<device, cache, hits, device_reads>>

CacheStep ==
    \/ LoseBlocks
    \/ /\ hits + misses < MaxGets
       /\ \E n \in CachedBlocks : Hit(n) \/ Miss(n) \/ MissNoMemory(n)

-----------------------------------------------------------------------------
CacheTypeOK ==
    /\ DOMAIN cache \subseteq CachedBlocks
    /\ {hits, misses, device_reads} \subseteq 0..MaxGets

\* While the run counts as good, every block in the cache is the block of the
\* device with that number: a zero block, once cached, cannot go unnoticed.
\* No block is read from the device twice, and none is cached unread.
CacheServesTheDevice ==
    /\ all_good => \A n \in DOMAIN cache : n \in device /\ cache[n] = n
    /\ device_reads = Cardinality(DOMAIN cache)
    /\ device_reads <= misses /\ (all_good => device_reads = misses)
=============================================================================
