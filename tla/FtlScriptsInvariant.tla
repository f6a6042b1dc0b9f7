------------------------- MODULE FtlScriptsInvariant -------------------------
(***************************************************************************)
(* The inductive invariants of the mains of folder 06.  Collections by     *)
(* hand and write_no_gc() break the reserve that FtlInv is about, but not  *)
(* MapInv.  That one hot LBA wears the drive evenly follows from the order *)
(* in which the blocks were erased; that sample 09 collects just where it  *)
(* says, from its drive being one log until then.                          *)
(***************************************************************************)
EXTENDS FtlScripts, FtlInvariant

Calls(do, lbas) == [do : do, lbas : lbas, times : Nat \ {0}]
AnyCall == Calls({"write", "write_no_gc", "trim", "reset", "collect"}, SUBSET LBA)
HotCall == Calls({"write"}, {{7}})
PlainCall == Calls({"write", "trim", "reset"}, SUBSET LBA)

ScriptTypeOK ==
    /\ script \in Seq(AnyCall)
    /\ by_hand \in BOOLEAN
    /\ by_hand => pc # "idle" /\ script # <<>>

ScriptInv == MapInv /\ ScriptTypeOK

-----------------------------------------------------------------------------
IsHot == name \in {"08", "10_hot"}

\* The calls left are writes of the hot LBA.
OnlyHotCalls ==
    /\ ~by_hand
    /\ script \in Seq(HotCall)

OnlyHotIsMapped == \A l \in LBA \ {7} : map[l] = None

\* The one page that is not stale is in the open block.
OpenBlockIsLive == \A ppn \in Ppn : state[ppn] = "Valid" => ppn[1] = active

FullBlocks == {b \in Block \ {active} : next[b] # 0}

\* A full block waits for its erase at least as long as the open one, which
\* was erased before those that wait to be opened; none is a lap behind.
WearIsInOrder ==
    /\ \A f \in FullBlocks : erases[f] <= erases[active]
    /\ \A e \in ErasedBlocks : erases[active] <= erases[e]
    /\ \A f \in FullBlocks, e \in ErasedBlocks : erases[f] <= erases[e]
    /\ \A b, c \in Block : erases[b] <= erases[c] + 1

VictimIsLeastWorn ==
    pc = "copy" => \A f \in FullBlocks : erases[victim] <= erases[f]

HotInv ==
    IsHot =>
        /\ OnlyHotCalls
        /\ OnlyHotIsMapped
        /\ OpenBlockIsLive
        /\ nand_writes = host_writes
        /\ WearIsInOrder
        /\ VictimIsLeastWorn
-----------------------------------------------------------------------------
\* The script is the end of calls: what is left after the first calls.
RemainsOf(calls) ==
    /\ Len(script) <= Len(calls)
    /\ \A i \in 1..Len(script) : script[i] = calls[Len(calls) - Len(script) + i]

MappedBelow(n) == \A l \in LBA : map[l] # None => l \in 0..(n - 1)

NoStalePage == \A ppn \in Ppn : state[ppn] # "Stale"

\* Only sample 09 collects by hand.
PlainInv ==
    name \notin {"09_collected", "09_clean"} =>
        collected /\ ~by_hand /\ script \in Seq(PlainCall)

\* Its second drive is written once from LBA 0 on: nothing becomes stale.
CleanInv ==
    name = "09_clean" =>
        /\ ~by_hand /\ pc # "copy"
        /\ RemainsOf(CleanDrive)
        /\ NoStalePage
        /\ MappedBelow(Len(CleanDrive) - Len(script))
        /\ script = <<>> => ~collected

\* No block has been erased: blocks fill up one after the other.
OneLog ==
    /\ \A b \in Block : erases[b] = 0
    /\ \A b \in Block : b < active => next[b] = PAGES
    /\ \A b \in Block : b > active => next[b] = 0
    /\ nand_writes = active * PAGES + next[active]

\* The first drive before the collection: after the fill, each call makes
\* one page stale, the first of them the first page of block 0.
LogInv ==
    LET made == Len(GarbageCollect) - Len(script)
    IN  /\ OneLog
        /\ nand_writes = made
        /\ pc # "copy"
        /\ pc = "collect" => made <= 16
        /\ made <= 16 => NoStalePage /\ MappedBelow(made)
        /\ made \in 1..16 => map[0] = <<0, 0>>
        /\ made > 16 => state[<<0, 0>>] = "Stale"

\* During the collection: at most one copy per page passed, and one less
\* once the stale page has been passed.
CopiesFit ==
    /\ Len(script) = 1
    /\ pc = "copy" =>
          /\ OneLog
          /\ \E q \in Page :
                /\ state[<<victim, q>>] = "Stale"
                /\ nand_writes <= 20 + cursor - (IF q < cursor THEN 1 ELSE 0)
    /\ pc = "collect" => AnErased

CollectedInv ==
    name = "09_collected" =>
        /\ collected
        /\ RemainsOf(GarbageCollect)
        /\ script = <<>> => pc = "idle" /\ ~by_hand
        /\ script # <<>> /\ ~by_hand => LogInv
        /\ by_hand => CopiesFit

MainsInv == PlainInv /\ CleanInv /\ CollectedInv
=============================================================================
