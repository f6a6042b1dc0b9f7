--------------------------- MODULE SampleInvariant ---------------------------
(***************************************************************************)
(* The inductive invariants of the three samples that model a device       *)
(* themselves, each stronger than the property it is for: the cache and    *)
(* its counters, the one command in flight and its clock, and the turn of  *)
(* the loop at which each byte of the device is overwritten.               *)
(***************************************************************************)
EXTENDS SampleRuns

\* A bad block, once seen, spoils the run; a block is never cached unread.
CacheInv ==
    /\ CacheTypeOK
    /\ CacheServesTheDevice
    /\ {hits, misses, device_reads} \subseteq Nat
    /\ IsFiniteSet(DOMAIN cache)

-----------------------------------------------------------------------------
QueuePair ==
    [sq_tail : Nat, cq_head : Nat, cq_tail : Nat, cq_entry : Nat,
     sq_doorbells : Nat, cq_doorbells : Nat,
     now : Nat, done_at : Nat, takes : Nat, in_flight : BOOLEAN]
Answer == [id : Nat, polls : Nat, takes : Nat]

\* Turns of the loop that cover a time the device takes.
PollsFor(takes) == (takes + POLL_NS - 1) \div POLL_NS

PollTypeOK == qp \in QueuePair /\ polls \in Nat /\ answers \in Seq(Answer)

\* The head and its doorbell count the answers; at most one command is out,
\* either in the device or in the completion slot.
OneAtATime ==
    /\ qp.cq_head = Len(answers)
    /\ qp.cq_doorbells = Len(answers)
    /\ qp.cq_tail \in {qp.cq_head, qp.cq_head + 1}
    /\ qp.sq_tail = IF qp.in_flight THEN qp.cq_tail + 1 ELSE qp.cq_tail
    /\ qp.in_flight => qp.cq_tail = qp.cq_head

\* While the device works, the clock has gone one POLL_NS further with every
\* turn of the loop, and has not gone far enough.
ClockAndPollsAgree ==
    qp.in_flight =>
        /\ qp.takes > 0
        /\ qp.now + qp.takes = qp.done_at + polls * POLL_NS
        /\ polls * POLL_NS < qp.takes

\* The completion in the slot is the one of the last command, just in time.
EntryIsRight ==
    CompletionReady =>
        /\ qp.cq_entry = Len(answers) % IDS
        /\ polls = PollsFor(qp.takes)

AnswersAreRight ==
    \A k \in 1..Len(answers) :
        answers[k].id = (k - 1) % IDS /\ answers[k].polls = PollsFor(answers[k].takes)

PollInv ==
    PollTypeOK /\ OneAtATime /\ ClockAndPollsAgree /\ EntryIsRight /\ AnswersAreRight

-----------------------------------------------------------------------------
First == range.offset \div DBLOCK

\* The range fits the device and the loop is at one of its blocks, or behind.
RangeOK ==
    /\ range \in [offset : Nat, len : Nat \ {0}]
    /\ range.offset + range.len <= DBLOCK * DBLOCKS
    /\ next_block \in First..(Last + 1)

\* The loop has been at all blocks before next_block and at no other.
Done(x) == x \in Written /\ x \div DBLOCK < next_block

\* The blocks that the range covers as a whole.
Whole ==
    {b \in 0..(DBLOCKS - 1) : b * DBLOCK \in Written /\ (b + 1) * DBLOCK - 1 \in Written}

DeviceInv ==
    /\ media \in [Bytes -> {Old, New}]
    /\ IF range = NoRange
       THEN media = [x \in Bytes |-> Old] /\ block_reads = 0 /\ block_writes = 0
       ELSE /\ RangeOK
            /\ \A x \in Bytes : media[x] = IF Done(x) THEN New ELSE Old
            /\ block_writes = next_block - First
            /\ block_reads = block_writes - Cardinality({b \in Whole : b < next_block})
=============================================================================
