----------------------------- MODULE SampleRuns -----------------------------
(***************************************************************************)
(* One run of one sample: a program that Samples interprets, or one of the *)
(* three samples that are models of a device themselves.                   *)
(***************************************************************************)
EXTENDS Samples, AppCache, PolledQueue, ModelDevice

Models == {"08/09_app_cache", "08/11_poll_model", "02/09_misaligned_write"}

allVars == <<vars, cacheVars, pollVars, deviceVars>>

Init ==
    /\ \/ \E p \in DOMAIN Programs : InitProgram(p, Programs[p])
       \/ \E m \in Models : InitProgram(m, <<>>)
    /\ InitCache
    /\ InitPoll
    /\ InitDevice

RunProgram == ProgramStep /\ UNCHANGED <<cacheVars, pollVars, deviceVars>>

RunCache ==
    /\ sample = "08/09_app_cache"
    /\ CacheStep
    /\ UNCHANGED <<vars, pollVars, deviceVars>>

RunPoll ==
    /\ sample = "08/11_poll_model"
    /\ PollStep
    /\ UNCHANGED <<vars, cacheVars, deviceVars>>

RunDevice ==
    /\ sample = "02/09_misaligned_write"
    /\ DeviceStep
    /\ UNCHANGED <<vars, cacheVars, pollVars>>

\* A model has run to its end.
Finished == sample \in Models /\ UNCHANGED allVars

Next == RunProgram \/ RunCache \/ RunPoll \/ RunDevice \/ Finished

Spec == Init /\ [][Next]_allVars

TypeOK == ProgramTypeOK /\ CacheTypeOK
=============================================================================
