---------------------------- MODULE UringInvariant ----------------------------
(***************************************************************************)
(* The inductive invariants behind the safety of UringRings.  The counters *)
(* say how many entries a ring holds; to know which slots those are, the   *)
(* invariant follows the two indices counter % N around the ring, and to   *)
(* know what the program will pop it says what each occupied slot holds.   *)
(***************************************************************************)
EXTENDS UringRings

InSq == Fill(sq_head, sq_tail)
InCq == Fill(cq_head, cq_tail)

(* The slot k entries after slot i of a ring of n slots, for k <= n. *)
Slide(i, k, n) == IF i + k < n THEN i + k ELSE i + k - n

(* The slots in use, counted from the one the consumer takes next. *)
SqSlot(k) == Slide(sq_head % SQ_N, k, SQ_N)
CqSlot(k) == Slide(cq_head % CQ_N, k, CQ_N)

(* Neither ring holds more than it has slots: an entry is never written    *)
(* over before it is read.                                                 *)
RoomInTheRings == InSq <= SQ_N /\ InCq <= CQ_N

(* The producer's slot is the one behind the last entry.                   *)
SlotsLineUp ==
    /\ sq_tail % SQ_N = SqSlot(InSq)
    /\ cq_tail % CQ_N = CqSlot(InCq)

(* The submission ring holds the last requests issued, in push order.      *)
SubmissionsInOrder ==
    /\ InSq <= Len(issued)
    /\ \A k \in 0 .. InSq - 1 :
          /\ sq_slots[SqSlot(k)] \in Sqe
          /\ Due(sq_slots[SqSlot(k)]) = issued[Len(issued) - InSq + 1 + k]

(* An occupied slot of the completion ring holds a completion.             *)
CompletionsAreThere ==
    \A k \in 0 .. InCq - 1 : cq_slots[CqSlot(k)] \in Cqe

(* Holds however many requests are in flight. *)
RingInv ==
    /\ TypeOK
    /\ RoomInTheRings
    /\ SlotsLineUp
    /\ SubmissionsInOrder
    /\ CompletionsAreThere

-----------------------------------------------------------------------------
(* The callers' rule, as a state: never more in flight than it allows. *)
FewInFlight == Len(issued) - Len(answered) <= MaxInFlight

(* The completion ring holds the answers to the oldest unanswered requests. *)
CompletionsInOrder ==
    \A k \in 0 .. InCq - 1 : cq_slots[CqSlot(k)] = issued[Len(answered) + 1 + k]

(* The program has the answers to the requests before those.               *)
AnswersInOrder ==
    \A n \in 1 .. Len(answered) : answered[n] = issued[n]

(* Holds when the callers' rule keeps the requests in flight within CQ_N.  *)
UringInv ==
    /\ RingInv
    /\ NoEntryLostOrInvented
    /\ FewInFlight
    /\ CompletionsInOrder
    /\ AnswersInOrder
=============================================================================
