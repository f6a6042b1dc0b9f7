---------------------------- MODULE ModelDevice ----------------------------
(***************************************************************************)
(* Folder 02: byte offsets, sectors and blocks (sample 08), the device     *)
(* that can only move whole blocks (sample 09), alignment (samples 10 and  *)
(* 11).  Sample 09 writes a byte range; each turn of its loop is a step.   *)
(***************************************************************************)
EXTENDS Integers, FiniteSets

CONSTANTS
    SECTOR,        \* kSector, bytes
    DBLOCK,        \* kBlock, bytes, a multiple of SECTOR
    DBLOCKS        \* blocks of the device

ASSUME DeviceAssumption ==
    /\ SECTOR \in Nat \ {0} /\ DBLOCK \in Nat \ {0} /\ DBLOCKS \in Nat
    /\ SECTOR <= DBLOCK

Bytes == 0..(DBLOCK * DBLOCKS - 1)
Old == "old"
New == "new"

VARIABLES
    media,          \* the bytes of the device
    range,          \* offset and length of the write, or none
    next_block,     \* the block that the loop of device_write does next
    block_reads, block_writes

deviceVars == <<media, range, next_block, block_reads, block_writes>>

-----------------------------------------------------------------------------
(* The arithmetic of the samples, on non-negative numbers.                 *)

Locate(start, offset) ==
    [lba |-> start + offset \div SECTOR, in_sector |-> offset % SECTOR,
     block |-> offset \div DBLOCK, in_block |-> offset % DBLOCK]

\* Fault: an end on a block boundary counts the block behind it.
BlocksTouchedTooMany(offset, len) ==
    (offset + len) \div DBLOCK - offset \div DBLOCK + 1
BlocksTouched(offset, len) ==
    (offset + len - 1) \div DBLOCK - offset \div DBLOCK + 1

AlignDown(x, a) == (x \div a) * a
AlignUp(x, a) == ((x + a - 1) \div a) * a

\* A partition that starts at an LBA: whether its first byte sits on a
\* physical sector boundary, and how many physical sectors block 0 covers
\* parts of, in the words of the report.
IsAligned(start, physical) == (start * SECTOR) % physical = 0
CleanWrite(start, physical) ==
    \/ physical < DBLOCK
    \/ (start * SECTOR) \div physical = (start * SECTOR + DBLOCK - 1) \div physical

-----------------------------------------------------------------------------
NoRange == [offset |-> 0, len |-> 0]

InitDevice ==
    /\ media = [x \in Bytes |-> Old]
    /\ range = NoRange
    /\ next_block = 0
    /\ block_reads = 0
    /\ block_writes = 0

\* run() with any range of at least one byte that fits the device.
StartWrite ==
    /\ range = NoRange
    /\ \E offset \in Bytes, len \in 1..Cardinality(Bytes) :
         /\ offset + len <= Cardinality(Bytes)
         /\ range' = [offset |-> offset, len |-> len]
         /\ next_block' = offset \div DBLOCK
    /\ UNCHANGED <<media, block_reads, block_writes>>

Last == (range.offset + range.len - 1) \div DBLOCK
Lo(b) == IF range.offset > b * DBLOCK THEN range.offset ELSE b * DBLOCK
Hi(b) == IF range.offset + range.len < (b + 1) * DBLOCK
         THEN range.offset + range.len ELSE (b + 1) * DBLOCK

\* One turn of the loop: a block that is overwritten in part is read first,
\* one that is overwritten as a whole is not. Fault: none is.
StagingEmpty(b, x) == "zero"
Staging(b, x) == IF Hi(b) - Lo(b) # DBLOCK THEN media[x] ELSE "zero"
WriteBlock ==
    /\ range # NoRange
    /\ next_block <= Last
    /\ LET b == next_block
       IN  /\ media' = [x \in Bytes |->
                IF x \div DBLOCK # b THEN media[x]
                ELSE IF x \in Lo(b)..(Hi(b) - 1) THEN New ELSE Staging(b, x)]
           /\ block_reads' = IF Hi(b) - Lo(b) # DBLOCK THEN block_reads + 1 ELSE block_reads
    /\ block_writes' = block_writes + 1
    /\ next_block' = next_block + 1
    /\ UNCHANGED range

DeviceStep == StartWrite \/ WriteBlock

-----------------------------------------------------------------------------
Written == range.offset..(range.offset + range.len - 1)

\* No byte outside the range changes, at no turn of the loop; in the end all
\* bytes inside it have, at one write for each block touched and one read for
\* each that is only partly overwritten ("one device write each, plus one
\* read for every block that is only partly overwritten"). Rounding the range
\* to whole blocks gives the same blocks, and LBA and remainders lead back to
\* the offset.
BlocksAgree ==
    range # NoRange =>
      LET first == AlignDown(range.offset, DBLOCK)
          end == AlignUp(range.offset + range.len, DBLOCK)
          whole == {b \in 0..(DBLOCKS - 1) : b * DBLOCK \in Written /\ (b + 1) * DBLOCK - 1 \in Written}
          where == Locate(3, range.offset)
      IN  /\ \A x \in Bytes \ Written : media[x] = Old
          /\ (next_block > Last) =>
               /\ \A x \in Written : media[x] = New
               /\ block_writes = BlocksTouched(range.offset, range.len)
               /\ block_reads = block_writes - Cardinality(whole)
          /\ end - first = DBLOCK * BlocksTouched(range.offset, range.len)
          /\ Written \subseteq first..(end - 1)
          /\ (where.lba - 3) * SECTOR + where.in_sector = range.offset
          /\ where.block * DBLOCK + where.in_block = range.offset
          /\ \A start \in 0..(2 * DBLOCK) :
               /\ CleanWrite(start, DBLOCK) = IsAligned(start, DBLOCK)
               /\ CleanWrite(start, SECTOR)
=============================================================================
