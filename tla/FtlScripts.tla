----------------------------- MODULE FtlScripts -----------------------------
(***************************************************************************)
(* The mains of the six samples of folder 06: each drives a fresh drive of *)
(* the samples' own geometry through a fixed list of calls and exits with  *)
(* status 0 if consistent() holds at the end.  Sample 09 also writes       *)
(* without the trigger of the collection and collects by hand.  A main     *)
(* that uses several drives is several scripts; what a random generator    *)
(* chooses is any choice.                                                  *)
(***************************************************************************)
EXTENDS Ftl, Sequences

CONSTANTS
    HotRounds,     \* bound: turns of the loops that overwrite one LBA
    RandomRounds   \* bound: turns of the loops that overwrite random LBAs

ASSUME RoundsAssumption ==
    HotRounds \in Nat \ {0} /\ RandomRounds \in Nat \ {0}

VARIABLES
    name,          \* the sample and the drive
    script,        \* the calls still to make
    collected,     \* what garbage_collect, called by hand, returned; or TRUE
    by_hand        \* main, not write(), is the caller of garbage_collect

scriptVars == <<name, script, collected, by_hand>>

\* n calls of one function, each with any of the LBAs.
Call(do, lbas, n) == [do |-> do, lbas |-> lbas, times |-> n]
Each(do, lbas) == [i \in DOMAIN lbas |-> Call(do, {lbas[i]}, 1)]
Fill(n) == Each("write", [i \in 1..n |-> i - 1])
Random(lbas) == Call("write", lbas, RandomRounds)
Reset == Call("reset", {}, 1)
Collect == Call("collect", {}, 1)

\* "one hot LBA", the first drive of samples 10 and 12.
Hot == <<Call("write", {7}, HotRounds)>>

FtlModel == Fill(6)
FtlWrite == <<Call("write", {7}, 8), Call("write", {7}, 12)>>
\* Sample 09: "four overwrites: block 0 gets 3 stale pages, block 1 one".
GarbageCollect == Fill(16) \o Each("write_no_gc", <<0, 1, 2, 5>>) \o <<Collect>>
CleanDrive == Fill(4) \o <<Collect>>
FullRandom == Fill(16) \o <<Random(0..15)>>
SteadyState(used) == Fill(used) \o <<Reset, Random(0..(used - 1))>>
OddLbas == {l \in 0..15 : l % 2 = 1}
NoTrim == Fill(16) \o <<Reset, Random(OddLbas)>>
WithTrim ==
    Fill(16) \o Each("trim", [i \in 1..8 |-> 2 * (i - 1)]) \o <<Reset, Random(OddLbas)>>
Mixed == Fill(8) \o <<Random(0..7)>>

Scripts ==
    {<<"07", FtlModel>>, <<"08", FtlWrite>>, <<"09_collected", GarbageCollect>>,
     <<"09_clean", CleanDrive>>, <<"10_hot", Hot>>, <<"10_full", FullRandom>>,
     <<"11_no_trim", NoTrim>>, <<"11_trim", WithTrim>>, <<"12_mixed", Mixed>>}
    \union {<<"10_steady", SteadyState(used)>> : used \in {4, 8, 12, 16}}

ScriptInit ==
    /\ Init
    /\ \E s \in Scripts : name = s[1] /\ script = s[2]
    /\ collected = TRUE
    /\ by_hand = FALSE

-----------------------------------------------------------------------------
IsNextCall(do) == pc = "idle" /\ script # <<>> /\ Head(script).do = do

\* One turn of the loop of the next call is done.
Advance ==
    /\ script' = IF Head(script).times = 1 THEN Tail(script)
                 ELSE <<[Head(script) EXCEPT !.times = @ - 1]>> \o Tail(script)
    /\ UNCHANGED name

HostWrite ==
    /\ IsNextCall("write")
    /\ \E l \in Head(script).lbas : Write(l)
    /\ Advance
    /\ UNCHANGED <<collected, by_hand>>

\* write_no_gc(). Fault: the old copy stays Valid.
WriteNoGcKeepsOld ==
    /\ IsNextCall("write_no_gc")
    /\ host_writes' = host_writes + 1
    /\ \E l \in Head(script).lbas, b \in Block : IsTarget(b) /\ Program(l, state, b)
    /\ Advance
    /\ UNCHANGED <<erases, pc, victim, cursor, collected, by_hand>>
WriteNoGc ==
    /\ IsNextCall("write_no_gc")
    /\ host_writes' = host_writes + 1
    /\ \E l \in Head(script).lbas, b \in Block : IsTarget(b) /\ Program(l, Retire(l), b)
    /\ Advance
    /\ UNCHANGED <<erases, pc, victim, cursor, collected, by_hand>>

HostTrim ==
    /\ IsNextCall("trim")
    /\ \E l \in Head(script).lbas : Trim(l)
    /\ Advance
    /\ UNCHANGED <<collected, by_hand>>

HostReset ==
    /\ IsNextCall("reset")
    /\ ResetCounters
    /\ Advance
    /\ UNCHANGED <<collected, by_hand>>

\* garbage_collect() called by main: no while test around it. It returns
\* false if there is no victim.
CollectByHand ==
    /\ IsNextCall("collect")
    /\ \/ /\ \E b \in Block : IsVictim(b) /\ victim' = b
          /\ cursor' = 0
          /\ pc' = "copy"
          /\ by_hand' = TRUE
          /\ UNCHANGED <<name, script, collected>>
       \/ /\ Collectable = {}
          /\ collected' = FALSE
          /\ Advance
          /\ UNCHANGED <<pc, victim, cursor, by_hand>>
    /\ UNCHANGED <<state, lba, next, erases, map, active, host_writes, nand_writes>>

ReturnToMain ==
    /\ pc = "collect"
    /\ by_hand
    /\ pc' = "idle"
    /\ by_hand' = FALSE
    /\ Advance
    /\ UNCHANGED <<state, lba, next, erases, map, active, host_writes,
                   nand_writes, victim, cursor, collected>>

\* The loops of write() and garbage_collect(), as module Ftl has them.
InsideCall ==
    /\ CopyPage \/ EraseVictim \/ (~by_hand /\ (StartCollection \/ FinishWrite))
    /\ UNCHANGED scriptVars

Exit == pc = "idle" /\ script = <<>> /\ UNCHANGED <<vars, scriptVars>>

ScriptNext ==
    \/ HostWrite \/ WriteNoGc \/ HostTrim \/ HostReset
    \/ CollectByHand \/ ReturnToMain \/ InsideCall
    \/ Exit

ScriptSpec == ScriptInit /\ [][ScriptNext]_<<vars, scriptVars>>

-----------------------------------------------------------------------------
(* Properties.                                                             *)

\* consistent(): every mapped LBA has its own Valid page, and no other page
\* is Valid.
Consistent ==
    /\ MapPointsAtOwnPage
    /\ Cardinality({ppn \in Ppn : state[ppn] = "Valid"})
         = Cardinality({l \in LBA : map[l] # None})

\* Between any two calls of a main its drive is consistent.
ConsistentBetweenCalls == pc = "idle" => Consistent

\* Every main exits with status 0, whatever its generator chooses: its drives
\* are consistent between any two calls, the collection by hand erases a
\* block just where sample 09 says that it does, and the four writes without
\* the trigger never use up the last erased block.
MainsSucceed ==
    /\ ConsistentBetweenCalls
    /\ (pc = "idle" /\ script = <<>>) => (collected <=> name # "09_clean")
    /\ IsNextCall("write_no_gc") \/ by_hand =>
          next[active] < PAGES \/ ErasedBlocks # {}

\* One hot LBA costs nothing but its own writes, since every victim is stale
\* as a whole ("WAF 1.00: nothing to move"), and dynamic wear leveling
\* spreads them over all blocks, to within one erase.
HotDataWearsEvenly ==
    name \in {"08", "10_hot"} =>
        /\ nand_writes = host_writes
        /\ \A b, c \in Block : erases[b] <= erases[c] + 1
=============================================================================
