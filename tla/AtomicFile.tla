----------------------------- MODULE AtomicFile -----------------------------
(***************************************************************************)
(* What a durable replacement promises to its caller: readers and power    *)
(* cuts only ever see a whole version of the file, and a version that was  *)
(* reported durable is not taken back.  Version 0 is "no file yet".        *)
(***************************************************************************)
EXTENDS Naturals

VARIABLES
    file,      \* the version a reader gets
    stable,    \* the version a power cut would leave
    promised   \* the newest version reported durable

Init == file = 0 /\ stable = 0 /\ promised = 0

Replace == file' \in Nat /\ file' > file /\ UNCHANGED <<stable, promised>>

\* The device has caught up with what readers see.
Settle == stable' = file /\ UNCHANGED <<file, promised>>

Promise ==
    /\ promised' = file
    /\ stable' = file
    /\ UNCHANGED file

PowerCut == file' = stable /\ UNCHANGED <<stable, promised>>

Next == Replace \/ Settle \/ Promise \/ PowerCut

Spec == Init /\ [][Next]_<<file, stable, promised>>

=============================================================================
