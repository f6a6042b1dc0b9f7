---------------------------- MODULE NvmeInvariant ----------------------------
(***************************************************************************)
(* The inductive invariant behind the safety of NvmeQueuePair.  The index  *)
(* accounting alone is not inductive: it needs to know that the three      *)
(* stretches of a ring never add up to the whole ring, and the order of    *)
(* the answers needs to know what the entries between the indices hold.    *)
(***************************************************************************)
EXTENDS NvmeQueuePair

(* The slot k entries after slot i, for k < Size. *)
Slide(i, k) == IF i + k < Size THEN i + k ELSE i + k - Size

(* Commands whose completion has been posted. *)
Posted == Len(answered) + Dist(cq_head, cq_tail)

(* Both rings have room to spare: the submission ring keeps its unused     *)
(* slot, and every command rung has a slot waiting in the completion ring. *)
RoomInTheRings ==
    /\ Dist(sq_head, sq_doorbell) + Dist(sq_doorbell, sq_tail) < Size
    /\ Dist(sq_head, sq_doorbell) + Dist(cq_head, cq_tail) <= MaxOutstanding

(* The submission ring holds the commands issued and not yet fetched. *)
SubmissionsInOrder ==
    \A k \in 0 .. Len(issued) - Posted - 1 :
        sq[Slide(sq_head, k)] = issued[Posted + 1 + k]

(* The completion ring holds the ids of the commands posted, not yet reaped. *)
CompletionsInOrder ==
    \A k \in 0 .. Dist(cq_head, cq_tail) - 1 :
        cq[Slide(cq_head, k)].id = issued[Len(answered) + 1 + k].id

AnswersInOrder ==
    \A n \in 1 .. Len(answered) : answered[n] = issued[n].id

(* The id i steps before next_id, around the id space. *)
IdBefore(i) == IF i <= next_id THEN next_id - i ELSE next_id + IdSpace - i

(* Ids count up: the n-th command from the end has the id n before the next. *)
IdsCountUp ==
    \A n \in Len(answered) + 1 .. Len(issued) :
        issued[n].id = IdBefore(Len(issued) + 1 - n)

(* What Submit demands of its callers, kept while commands are outstanding. *)
BuffersDoNotClash ==
    \A m, n \in Len(answered) + 1 .. Len(issued) :
        issued[m].buf = issued[n].buf => issued[m].lba = issued[n].lba

NvmeInv ==
    /\ TypeOK
    /\ NothingLostInTheRings
    /\ RoomInTheRings
    /\ SubmissionsInOrder
    /\ CompletionsInOrder
    /\ AnswersInOrder
    /\ IdsCountUp
    /\ BuffersDoNotClash
    /\ DataBeforeCompletion
=============================================================================
