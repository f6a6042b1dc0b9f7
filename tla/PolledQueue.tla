---------------------------- MODULE PolledQueue ----------------------------
(***************************************************************************)
(* Sample 11 of folder 08: a queue pair with one slot per direction, a     *)
(* device that answers after a while, and a program that polls for the     *)
(* answer.  The sample sends one command; here the same loop sends one     *)
(* after the other.                                                        *)
(***************************************************************************)
EXTENDS Integers, Sequences

CONSTANTS
    POLL_NS,        \* model time of one turn of the poll loop
    DEVICE_NS,      \* model times the device may take, one of them for a run
    IDS,            \* command ids are counted modulo this, uint16_t
    MaxCommands     \* bound: commands of a run

\* Neither the loop nor the device takes no time.
ASSUME PollAssumption ==
    /\ POLL_NS \in Nat \ {0}
    /\ DEVICE_NS \subseteq Nat \ {0}
    /\ IDS \in Nat \ {0}
    /\ MaxCommands \in Nat

VARIABLES
    qp,             \* the queue pair
    polls,          \* turns of the poll loop for the command in flight
    answers         \* observer: the command ids reaped, and after how many polls

pollVars == <<qp, polls, answers>>

InitPoll ==
    /\ qp = [sq_tail |-> 0, cq_head |-> 0, cq_tail |-> 0, cq_entry |-> 0,
             sq_doorbells |-> 0, cq_doorbells |-> 0,
             now |-> 0, done_at |-> 0, takes |-> 0, in_flight |-> FALSE]
    /\ polls = 0
    /\ answers = <<>>

\* qp_submit; the program does not call it before it has reaped.
QpSubmit ==
    /\ qp.sq_tail = qp.cq_doorbells
    /\ qp.sq_tail < MaxCommands
    /\ \E takes \in DEVICE_NS :
         qp' = [qp EXCEPT !.sq_tail = @ + 1, !.sq_doorbells = @ + 1,
                          !.takes = takes, !.done_at = qp.now + takes,
                          !.in_flight = TRUE]
    /\ polls' = 0
    /\ UNCHANGED answers

CompletionReady == qp.cq_head # qp.cq_tail

\* qp_device_tick, as the poll loop calls it. Faults: the device answers one
\* turn late; it goes on answering.
DeviceTickLate ==
    /\ qp.sq_tail # qp.cq_doorbells /\ ~CompletionReady
    /\ LET now == qp.now + POLL_NS
       IN  qp' = IF qp.in_flight /\ now > qp.done_at
                 THEN [qp EXCEPT !.now = now, !.cq_entry = (qp.sq_tail - 1) % IDS,
                                 !.cq_tail = @ + 1, !.in_flight = FALSE]
                 ELSE [qp EXCEPT !.now = now]
    /\ polls' = polls + 1
    /\ UNCHANGED answers
DeviceTick ==
    /\ qp.sq_tail # qp.cq_doorbells /\ ~CompletionReady
    /\ LET now == qp.now + POLL_NS
       IN  qp' = IF qp.in_flight /\ now >= qp.done_at
                 THEN [qp EXCEPT !.now = now, !.cq_entry = (qp.sq_tail - 1) % IDS,
                                 !.cq_tail = @ + 1, !.in_flight = FALSE]
                 ELSE [qp EXCEPT !.now = now]
    /\ polls' = polls + 1
    /\ UNCHANGED answers

QpReap ==
    /\ CompletionReady
    /\ qp' = [qp EXCEPT !.cq_head = @ + 1, !.cq_doorbells = @ + 1]
    /\ answers' = Append(answers, [id |-> qp.cq_entry, polls |-> polls, takes |-> qp.takes])
    /\ UNCHANGED polls

PollStep == QpSubmit \/ DeviceTick \/ QpReap

-----------------------------------------------------------------------------
\* Every command is answered once, under its own id, and the program polls
\* no longer than the device takes: "polls == K_DEVICE_NS / K_POLL_NS" where
\* that division has no rest. The model never loses a completion.
PollCompletesEachOnce ==
    /\ Len(answers) <= qp.sq_tail
    /\ \A k \in 1..Len(answers) :
         /\ answers[k].id = (k - 1) % IDS
         /\ answers[k].polls = (answers[k].takes + POLL_NS - 1) \div POLL_NS
    /\ qp.cq_tail - qp.cq_head = (IF qp.in_flight THEN 0 ELSE qp.sq_tail - Len(answers))
=============================================================================
