--------------------------- MODULE NvmeQueuePair ---------------------------
(***************************************************************************)
(* One NVMe submission/completion queue pair (src/07-..., 10_reap.c is the *)
(* whole model; 07 to 09 are parts of it).  The host writes sq, sq_tail,   *)
(* cq_head and both doorbells; the controller writes cq, sq_head and       *)
(* cq_tail ("one per CPU core: no lock").  The sample calls both sides     *)
(* from one thread; here the controller works on its own, one iteration of *)
(* its loop per step, so the sample's schedule is one of those explored.   *)
(*                                                                         *)
(* Nothing in the code keeps the controller from overrunning the           *)
(* completion ring.  What protects it is how the callers use the pair:     *)
(* they reap before they ring, so that the controller never owes more than *)
(* MaxOutstanding completions at a time.                                   *)
(*                                                                         *)
(* doorbell_writes and errors, statistics that no step reads, are left     *)
(* out; the model controller never reports an error.                       *)
(***************************************************************************)
EXTENDS Naturals, Sequences

CONSTANTS
    Size,           \* kSize, entries per ring
    IdSpace,        \* 2^16: command ids wrap here
    Lba, Buffer,    \* what a command reads, and where to
    MaxOutstanding, \* most commands rung and not yet reaped
    MaxCommands     \* bound: commands submitted in a run

(* A full submission ring and a full completion ring hold 2 * Size - 2     *)
(* commands: 14 of 65536 ids at kSize = 8.                                 *)
ASSUME QueueAssumption ==
    /\ Size \in Nat /\ Size > 1
    /\ IdSpace \in Nat /\ IdSpace >= 2 * Size - 2
    /\ MaxOutstanding \in Nat /\ MaxOutstanding < Size
    /\ MaxCommands \in Nat

Slot    == 0 .. Size - 1
Id      == 0 .. IdSpace - 1
Command == [id : Id, lba : Lba, buf : Buffer]

(* The 16-byte entry: code is status >> 1, phase is bit 0 of status.       *)
Completion == [sq_head : Slot, id : Id, code : {0}, phase : {0, 1}]

CONSTANT Blank      \* an entry of the zeroed submission ring
ASSUME BlankAssumption == Blank \notin Command

VARIABLES
    sq, cq,                 \* the two rings
    sq_tail, cq_head,       \* moved by the host
    sq_head, cq_tail,       \* moved by the controller
    sq_doorbell, cq_doorbell,
    next_id,                \* the command id generator
    ram,                    \* ram[b]: the block in host buffer b, or Blank
    host,                   \* "ready", or "reaping" inside reap()
    issued,                 \* history: the commands submit accepted
    answered                \* history: the completions reap handed out

vars == <<sq, cq, sq_tail, cq_head, sq_head, cq_tail, sq_doorbell, cq_doorbell,
          next_id, ram, host, issued, answered>>

TypeOK ==
    /\ sq \in [Slot -> Command \cup {Blank}]
    /\ cq \in [Slot -> Completion]
    /\ {sq_tail, cq_head, sq_head, cq_tail, sq_doorbell, cq_doorbell} \subseteq Slot
    /\ next_id \in Id
    /\ ram \in [Buffer -> Lba \cup {Blank}]
    /\ host \in {"ready", "reaping"}
    /\ issued \in Seq(Command)
    /\ answered \in Seq(Id)

(* A static object starts all zero: no command, phase 0 everywhere.        *)
Init ==
    /\ sq = [s \in Slot |-> Blank]
    /\ cq = [s \in Slot |-> [sq_head |-> 0, id |-> 0, code |-> 0, phase |-> 0]]
    /\ sq_tail = 0 /\ cq_head = 0 /\ sq_head = 0 /\ cq_tail = 0
    /\ sq_doorbell = 0 /\ cq_doorbell = 0
    /\ next_id = 0
    /\ ram = [b \in Buffer |-> Blank]
    /\ host = "ready"
    /\ issued = <<>>
    /\ answered = <<>>

-----------------------------------------------------------------------------
(* Fault: the index runs off the ring. *)
NextIndexNoWrap(i) == i + 1

(* next(): the index after i, around the ring. *)
NextIndex(i) == (i + 1) % Size

(* Commands submitted and not yet reaped, oldest first. *)
Outstanding == {issued[n] : n \in Len(answered) + 1 .. Len(issued)}

(* Fault: the ring is used to its last slot, and a full ring looks empty.  *)
RingFullNever == FALSE

RingFull == NextIndex(sq_tail) = sq_head

(* Fault: every command carries the same id. *)
SubmitSameId(l, b) ==
    LET c == [id |-> next_id, lba |-> l, buf |-> b]
    IN  /\ host = "ready"
        /\ ~RingFull
        /\ Len(issued) < MaxCommands
        /\ \A o \in Outstanding : o.buf = b => o.lba = l
        /\ sq' = [sq EXCEPT ![sq_tail] = c]
        /\ sq_tail' = NextIndex(sq_tail)
        /\ issued' = Append(issued, c)
        /\ UNCHANGED <<cq, cq_head, sq_head, cq_tail, sq_doorbell, cq_doorbell,
                       next_id, ram, host, answered>>

(* submit(), when the ring has room; a refused submit changes nothing.     *)
(* Callers do not aim two outstanding reads of different blocks at one     *)
(* buffer.                                                                 *)
Submit(l, b) ==
    LET c == [id |-> next_id, lba |-> l, buf |-> b]
    IN  /\ host = "ready"
        /\ ~RingFull
        /\ Len(issued) < MaxCommands
        /\ \A o \in Outstanding : o.buf = b => o.lba = l
        /\ sq' = [sq EXCEPT ![sq_tail] = c]
        /\ sq_tail' = NextIndex(sq_tail)
        /\ next_id' = (next_id + 1) % IdSpace
        /\ issued' = Append(issued, c)
        /\ UNCHANGED <<cq, cq_head, sq_head, cq_tail, sq_doorbell, cq_doorbell,
                       ram, host, answered>>

(* Fault: the callers ring without having reaped. *)
RingWithoutRoom ==
    /\ host = "ready"
    /\ sq_doorbell # sq_tail
    /\ sq_doorbell' = sq_tail
    /\ UNCHANGED <<sq, cq, sq_tail, cq_head, sq_head, cq_tail, cq_doorbell,
                   next_id, ram, host, issued, answered>>

(* ring_sq_doorbell(): every command written so far becomes visible to the *)
(* controller, with one register write.  Callers ring only for something   *)
(* new, and only when the completion ring can take every answer.           *)
RingSqDoorbell ==
    /\ host = "ready"
    /\ sq_doorbell # sq_tail
    /\ Len(issued) - Len(answered) <= MaxOutstanding
    /\ sq_doorbell' = sq_tail
    /\ UNCHANGED <<sq, cq, sq_tail, cq_head, sq_head, cq_tail, cq_doorbell,
                   next_id, ram, host, issued, answered>>

(* Fault: the completion overtakes the data it announces. *)
ControllerSkipsDma ==
    LET e == sq[sq_head]
    IN  /\ sq_head # sq_doorbell
        /\ sq_head' = NextIndex(sq_head)
        /\ cq' = [cq EXCEPT ![cq_tail] =
                    [sq_head |-> sq_head', id |-> e.id, code |-> 0, phase |-> 1]]
        /\ cq_tail' = NextIndex(cq_tail)
        /\ UNCHANGED <<sq, sq_tail, cq_head, sq_doorbell, cq_doorbell, next_id,
                       ram, host, issued, answered>>

(* One iteration of controller_run(): fetch a command, move the data by    *)
(* DMA, post the completion.  No test for a full completion ring, and the  *)
(* phase bit is 1 on every pass.                                           *)
ControllerRun ==
    LET e == sq[sq_head]
    IN  /\ sq_head # sq_doorbell
        /\ sq_head' = NextIndex(sq_head)
        /\ ram' = [ram EXCEPT ![e.buf] = e.lba]
        /\ cq' = [cq EXCEPT ![cq_tail] =
                    [sq_head |-> sq_head', id |-> e.id, code |-> 0, phase |-> 1]]
        /\ cq_tail' = NextIndex(cq_tail)
        /\ UNCHANGED <<sq, sq_tail, cq_head, sq_doorbell, cq_doorbell, next_id,
                       host, issued, answered>>

(* reap() is called: by the interrupt handler or a poll. *)
StartReap ==
    /\ host = "ready"
    /\ cq_head # cq_tail
    /\ host' = "reaping"
    /\ UNCHANGED <<sq, cq, sq_tail, cq_head, sq_head, cq_tail, sq_doorbell,
                   cq_doorbell, next_id, ram, issued, answered>>

(* One iteration of its loop: read the entry, wake the waiting thread.     *)
ReapOne ==
    /\ host = "reaping"
    /\ cq_head # cq_tail
    /\ answered' = Append(answered, cq[cq_head].id)
    /\ cq_head' = NextIndex(cq_head)
    /\ UNCHANGED <<sq, cq, sq_tail, sq_head, cq_tail, sq_doorbell, cq_doorbell,
                   next_id, ram, host, issued>>

(* The ring is empty: one doorbell write for all that was reaped.          *)
FinishReap ==
    /\ host = "reaping"
    /\ cq_head = cq_tail
    /\ cq_doorbell' = cq_head
    /\ host' = "ready"
    /\ UNCHANGED <<sq, cq, sq_tail, cq_head, sq_head, cq_tail, sq_doorbell,
                   next_id, ram, issued, answered>>

(* All the commands the program had to send are answered.                  *)
AllDone ==
    /\ Len(answered) = MaxCommands
    /\ host = "ready"
    /\ UNCHANGED vars

Reap == StartReap \/ ReapOne \/ FinishReap

Next ==
    \/ \E l \in Lba, b \in Buffer : Submit(l, b)
    \/ RingSqDoorbell
    \/ ControllerRun
    \/ Reap
    \/ AllDone

(* The program rings for what it has submitted and reaps what has been     *)
(* posted, and the device works on what has been rung.                     *)
Fairness ==
    /\ WF_vars(RingSqDoorbell)
    /\ WF_vars(ControllerRun)
    /\ WF_vars(Reap)

Spec == Init /\ [][Next]_vars /\ Fairness

-----------------------------------------------------------------------------
(* Correctness properties *)

(* Entries from index i up to, not including, index j.                     *)
Dist(i, j) == (j + Size - i) % Size

(* The six indices account for every command: those written and not rung,  *)
(* rung and not fetched, posted and not reaped are together the ones the   *)
(* callers still wait for.  An index that laps another breaks the sum.     *)
NothingLostInTheRings ==
    Dist(sq_doorbell, sq_tail) + Dist(sq_head, sq_doorbell) + Dist(cq_head, cq_tail)
        = Len(issued) - Len(answered)

(* When a completion can be read, the block it announces is in its buffer: *)
(* its transfer was made, and none of a later command has overwritten it.  *)
DataBeforeCompletion ==
    \A n \in Len(answered) + 1 .. Len(answered) + Dist(cq_head, cq_tail) :
        n \in DOMAIN issued => ram[issued[n].buf] = issued[n].lba

(* The id in a completion names one command: two outstanding commands      *)
(* never share an id, although the 16-bit generator wraps.                 *)
OutstandingIdsDistinct ==
    \A m, n \in Len(answered) + 1 .. Len(issued) :
        issued[m].id = issued[n].id => m = n

(* The queue pair is an in-order queue: every command is answered, once,   *)
(* in order of submission, with its own id.                                *)
Queue == INSTANCE InOrderQueue WITH
    Request  <- Id,
    issued   <- [n \in DOMAIN issued |-> issued[n].id],
    answered <- answered

ImplementsInOrderQueue == Queue!Spec

(* The phase bit "flips on every pass" (06_completion_entry.c), so that a  *)
(* driver recognises a new entry without reading an index of the device:   *)
(* 1 on the first pass over the ring, 0 on the second, and so on.          *)
ExpectedPhase == 1 - ((Len(answered) \div Size) % 2)

PhaseFlipsOnEveryPass ==
    cq_head # cq_tail => cq[cq_head].phase = ExpectedPhase
=============================================================================
