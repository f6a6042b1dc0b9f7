---------------------------- MODULE BlockDevice ----------------------------
(***************************************************************************)
(* What a drive promises its host, whatever it does inside: an array of    *)
(* logical blocks that only the host changes.  A read of an LBA returns    *)
(* what the last write to it stored, or zeros if it was never written or   *)
(* has been trimmed.  last names the host's last request, so that a drive  *)
(* that loses a block cannot pass the loss off as a TRIM nobody sent.      *)
(***************************************************************************)
CONSTANTS LBA, Data, Zeros

VARIABLES
    disk,       \* disk[l]: what a read of l returns
    last        \* the last request: <<"write", l, d>>, <<"trim", l>> or <<>>

Init ==
    /\ disk = [l \in LBA |-> Zeros]
    /\ last = <<>>

Write(l, d) ==
    /\ disk' = [disk EXCEPT ![l] = d]
    /\ last' = <<"write", l, d>>

Trim(l) ==
    /\ disk' = [disk EXCEPT ![l] = Zeros]
    /\ last' = <<"trim", l>>

Next == \E l \in LBA : (\E d \in Data : Write(l, d)) \/ Trim(l)

Spec == Init /\ [][Next]_<<disk, last>>
=============================================================================
