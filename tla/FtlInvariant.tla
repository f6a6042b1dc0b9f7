---------------------------- MODULE FtlInvariant ----------------------------
(***************************************************************************)
(* The inductive invariant behind the safety of Ftl.  The properties of    *)
(* Ftl are not inductive on their own: that write() keeps two erased       *)
(* blocks in reserve depends on what a collection finds when it starts     *)
(* (one erased block left, one page used in the open block) and on the     *)
(* room it needs (fewer copies than pages, the victim has a Stale page).   *)
(***************************************************************************)
EXTENDS Ftl

(* A block with a Stale page that is not open is full, and no page of it is *)
(* programmed before it is erased.                                         *)
VictimIsClosed == pc = "copy" => victim # active /\ next[victim] = PAGES

(* No LBA lives in the part of the victim that has been copied.            *)
CopiedPagesAreUnmapped ==
    pc = "copy" => \A l \in LBA, p \in Page : map[l] = <<victim, p>> => p >= cursor

(* What needs no reserve: it holds of a drive collected by hand as well.   *)
MapInv ==
    /\ TypeOK
    /\ MapPointsAtOwnPage
    /\ ValidPagesAreMapped
    /\ BlocksFillInOrder
    /\ VictimIsClosed
    /\ CopiedPagesAreUnmapped

-----------------------------------------------------------------------------
AnErased == \E e \in Block \ {active} : next[e] = 0

TwoErased ==
    \E e, f \in Block : e # active /\ f # active /\ e # f /\ next[e] = 0 /\ next[f] = 0

(* A block is only opened when the open one is full, so a collection       *)
(* starts right after the host has written the first page of a new block.  *)
FreshlyOpened ==
    AnErased /\ next[active] = 1 /\ state[<<active, 0>>] = "Valid"

(* While the pages of victim before cursor have been copied, the open      *)
(* block holds the host's page and at most one page per position passed;   *)
(* the Stale page of the victim is the one that is never copied.           *)
RoomForCopies ==
    /\ AnErased
    /\ \E q \in Page :
         /\ state[<<victim, q>>] = "Stale"
         /\ next[active] <= cursor + (IF q < cursor THEN 0 ELSE 1)

Reserve ==
    /\ pc = "idle" => TwoErased
    /\ pc = "collect" => TwoErased \/ FreshlyOpened
    /\ pc = "copy" => RoomForCopies

(* The price of the current write so far. *)
Amplification ==
    /\ AmplificationBounded
    /\ pc # "idle" => host_writes > 0
    /\ pc = "collect" => TwoErased \/ nand_writes <= PAGES * (host_writes - 1) + 1
    /\ pc = "copy" => nand_writes <= PAGES * (host_writes - 1) + next[active]

FtlInv ==
    /\ MapInv
    /\ Reserve
    /\ Amplification
=============================================================================
