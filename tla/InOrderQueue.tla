---------------------------- MODULE InOrderQueue ----------------------------
(***************************************************************************)
(* What a queue pair promises the program that uses it: every request is   *)
(* answered, once, in the order of submission.  Rings, doorbells, indices  *)
(* and slots are invisible at this level.  A request stands for the answer *)
(* it is due.                                                              *)
(***************************************************************************)
EXTENDS Sequences, Naturals

CONSTANT Request

VARIABLES
    issued,     \* the requests accepted so far, in order
    answered    \* the answers the program has received, in order

Init == issued = <<>> /\ answered = <<>>

Issue(r) ==
    /\ issued' = Append(issued, r)
    /\ UNCHANGED answered

Answer ==
    /\ Len(answered) < Len(issued)
    /\ answered' = Append(answered, issued[Len(answered) + 1])
    /\ UNCHANGED issued

Next == (\E r \in Request : Issue(r)) \/ Answer

(* What no step may do wrong, and what must happen in the end. *)
SafeSpec == Init /\ [][Next]_<<issued, answered>>

Spec == SafeSpec /\ WF_<<issued, answered>>(Answer)
=============================================================================
