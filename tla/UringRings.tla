----------------------------- MODULE UringRings -----------------------------
(***************************************************************************)
(* The io_uring model of src/08-.../10_uring_model.c: two rings shared     *)
(* with the kernel.  The application pushes requests and makes one system  *)
(* call, enter(); the kernel consumes every request, does the I/O and      *)
(* posts a completion; the application pops completions without a system   *)
(* call.  Head and tail are free running 32-bit counters: the index is     *)
(* counter % N, the fill level tail - head, both modulo 2^32.              *)
(*                                                                         *)
(* enter() is a system call: the application waits until it returns.  The  *)
(* statistic g_system_calls is left out.                                   *)
(***************************************************************************)
EXTENDS Naturals, Sequences

CONSTANTS
    SQ_N, CQ_N,     \* ring sizes
    Width,          \* 2^32: the counters wrap here
    MaxInFlight,    \* callers' rule: requests pushed and not yet reaped
    MaxRequests,    \* bound: requests pushed in a run
    Blank           \* an entry of a zeroed ring

(* A counter that wraps still names the right slot because both sizes      *)
(* divide 2^32, and still tells full from empty because both are smaller.  *)
ASSUME RingAssumption ==
    /\ SQ_N \in Nat \ {0} /\ CQ_N \in Nat \ {0} /\ Width \in Nat
    /\ Width % SQ_N = 0 /\ Width % CQ_N = 0
    /\ SQ_N < Width /\ CQ_N < Width
    /\ MaxInFlight \in Nat /\ MaxRequests \in Nat

Counter == 0 .. Width - 1

(* A request: its user_data, and whether it is a read inside the file.     *)
Sqe == [user_data : 1 .. MaxRequests, valid : BOOLEAN]

(* res: 4096 bytes read, or -EINVAL.                                       *)
Cqe == [user_data : 1 .. MaxRequests, res : {"4096", "-EINVAL"}]

ASSUME BlankAssumption == Blank \notin Sqe /\ Blank \notin Cqe

VARIABLES
    sq_slots, sq_head, sq_tail,     \* application moves the tail, kernel the head
    cq_slots, cq_head, cq_tail,     \* kernel moves the tail, application the head
    kernel,                         \* "out", or "in" during enter()
    issued,                         \* history: completions due, in push order
    answered                        \* history: completions popped

vars == <<sq_slots, sq_head, sq_tail, cq_slots, cq_head, cq_tail, kernel,
          issued, answered>>

TypeOK ==
    /\ sq_slots \in [0 .. SQ_N - 1 -> Sqe \cup {Blank}]
    /\ cq_slots \in [0 .. CQ_N - 1 -> Cqe \cup {Blank}]
    /\ sq_head \in Counter /\ sq_tail \in Counter
    /\ cq_head \in Counter /\ cq_tail \in Counter
    /\ kernel \in {"in", "out"}
    /\ issued \in Seq(Cqe)
    /\ answered \in Seq(Cqe)

(* SqRing sq = {0}; CqRing cq = {0}. *)
Init ==
    /\ sq_slots = [s \in 0 .. SQ_N - 1 |-> Blank]
    /\ cq_slots = [s \in 0 .. CQ_N - 1 |-> Blank]
    /\ sq_head = 0 /\ sq_tail = 0
    /\ cq_head = 0 /\ cq_tail = 0
    /\ kernel = "out"
    /\ issued = <<>>
    /\ answered = <<>>

-----------------------------------------------------------------------------
(* Fault: a wider counter than the kernel's. *)
IncrementForever(counter) == counter + 1

Increment(counter) == (counter + 1) % Width

(* tail - head in unsigned arithmetic: entries in the ring.                *)
Fill(head, tail) == (tail + Width - head) % Width

(* Fault: signed arithmetic, wrong once the tail has wrapped. *)
SqFullSigned == sq_tail >= SQ_N /\ sq_tail - SQ_N = sq_head

(* Fault: the last completion slot is never used, its completion dropped. *)
CqFullEarly == Fill(cq_head, cq_tail) = CQ_N - 1

SqFull == Fill(sq_head, sq_tail) = SQ_N
CqFull == Fill(cq_head, cq_tail) = CQ_N

(* The completion a request is due. *)
Due(s) == [user_data |-> s.user_data, res |-> IF s.valid THEN "4096" ELSE "-EINVAL"]

(* sq_push(), when it succeeds; a refused push changes nothing.            *)
SqPush(valid) ==
    LET s == [user_data |-> Len(issued) + 1, valid |-> valid]
    IN  /\ kernel = "out"
        /\ ~SqFull
        /\ Len(issued) < MaxRequests
        /\ Len(issued) - Len(answered) < MaxInFlight
        /\ sq_slots' = [sq_slots EXCEPT ![sq_tail % SQ_N] = s]
        /\ sq_tail' = Increment(sq_tail)
        /\ issued' = Append(issued, Due(s))
        /\ UNCHANGED <<sq_head, cq_slots, cq_head, cq_tail, kernel, answered>>

(* The application calls enter().                                          *)
Enter ==
    /\ kernel = "out"
    /\ sq_head # sq_tail
    /\ kernel' = "in"
    /\ UNCHANGED <<sq_slots, sq_head, sq_tail, cq_slots, cq_head, cq_tail,
                   issued, answered>>

(* One iteration of enter(): pop a request, do the I/O, post a completion. *)
(* The result of cq_push() is ignored: when the completion ring is full,   *)
(* the completion is dropped and nobody is told.                           *)
Consume ==
    LET s == sq_slots[sq_head % SQ_N]
    IN  /\ kernel = "in"
        /\ sq_head # sq_tail
        /\ sq_head' = Increment(sq_head)
        /\ cq_slots' = IF CqFull THEN cq_slots
                       ELSE [cq_slots EXCEPT ![cq_tail % CQ_N] = Due(s)]
        /\ cq_tail' = IF CqFull THEN cq_tail ELSE Increment(cq_tail)
        /\ UNCHANGED <<sq_slots, sq_tail, cq_head, kernel, issued, answered>>

(* The submission ring is empty: enter() returns.                          *)
Return ==
    /\ kernel = "in"
    /\ sq_head = sq_tail
    /\ kernel' = "out"
    /\ UNCHANGED <<sq_slots, sq_head, sq_tail, cq_slots, cq_head, cq_tail,
                   issued, answered>>

(* cq_pop(), when it finds an entry.                                       *)
CqPop ==
    /\ kernel = "out"
    /\ cq_head # cq_tail
    /\ answered' = Append(answered, cq_slots[cq_head % CQ_N])
    /\ cq_head' = Increment(cq_head)
    /\ UNCHANGED <<sq_slots, sq_head, sq_tail, cq_slots, cq_tail, kernel, issued>>

(* The program has nothing left to ask and nothing left to collect.        *)
AllDone ==
    /\ kernel = "out"
    /\ Len(issued) = MaxRequests
    /\ sq_head = sq_tail /\ cq_head = cq_tail
    /\ UNCHANGED vars

Next ==
    \/ \E valid \in BOOLEAN : SqPush(valid)
    \/ Enter \/ Consume \/ Return
    \/ CqPop
    \/ AllDone

(* enter() runs to its return; the program submits what it has pushed and  *)
(* collects what has been posted.                                          *)
Fairness == WF_vars(Consume \/ Return) /\ WF_vars(Enter) /\ WF_vars(CqPop)

Spec == Init /\ [][Next]_vars /\ Fairness

-----------------------------------------------------------------------------
(* Correctness properties *)

(* The fill levels of the two rings account for every request in flight,   *)
(* across counter wrap-around: no entry is lost or invented.  The sample's *)
(* exit test calls the opposite "the ring lost or invented an entry".      *)
NoEntryLostOrInvented ==
    Fill(sq_head, sq_tail) + Fill(cq_head, cq_tail) = Len(issued) - Len(answered)

(* What the two rings promise together: one completion for every request,  *)
(* in order, with the result that request is due.                          *)
Queue == INSTANCE InOrderQueue WITH Request <- Cqe

ImplementsInOrderQueue == Queue!Spec

(* The comment on enter(): "consume every submission, do the I/O, post one *)
(* completion each", as the program sees it: whenever nothing is left in   *)
(* either ring, every request has been answered.                           *)
OneCompletionEach ==
    kernel = "out" /\ sq_head = sq_tail /\ cq_head = cq_tail
        => Len(answered) = Len(issued)
=============================================================================
