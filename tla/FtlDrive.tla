------------------------------ MODULE FtlDrive ------------------------------
(***************************************************************************)
(* The drive of src/06-... as its host sees it.  The samples move pages    *)
(* but store no bytes in them; here every flash page also carries the      *)
(* payload of the write that programmed it, so that "the map is right" can *)
(* be said in the host's terms: the flash translation layer implements     *)
(* BlockDevice.  payload and last only observe: no step of Ftl reads them. *)
(***************************************************************************)
EXTENDS Ftl

CONSTANTS Data, Zeros

ASSUME PayloadAssumption == Zeros \notin Data

VARIABLES
    payload,    \* payload[ppn]: the bytes in flash page ppn
    last        \* the last request of the host

driveVars == <<vars, payload, last>>

DriveTypeOK == payload \in [Ppn -> Data \cup {Zeros}]

DriveInit ==
    /\ Init
    /\ payload = [ppn \in Ppn |-> Zeros]
    /\ last = <<>>

(* The page the step programs: read after the open block has been chosen.  *)
ProgrammedPage == <<active', next[active']>>

DriveWrite(l, d) ==
    /\ Write(l)
    /\ payload' = [payload EXCEPT ![ProgrammedPage] = d]
    /\ last' = <<"write", l, d>>

(* The copy carries the bytes of the victim's page, when it copies one.    *)
DriveCopy ==
    /\ CopyPage
    /\ payload' = IF state[<<victim, cursor>>] = "Valid"
                  THEN [payload EXCEPT ![ProgrammedPage] = payload[<<victim, cursor>>]]
                  ELSE payload
    /\ UNCHANGED last

DriveErase ==
    /\ EraseVictim
    /\ payload' = [ppn \in Ppn |-> IF ppn[1] = victim THEN Zeros ELSE payload[ppn]]
    /\ UNCHANGED last

DriveTrim(l) ==
    /\ Trim(l)
    /\ last' = <<"trim", l>>
    /\ UNCHANGED payload

DriveRest ==
    /\ StartCollection \/ FinishWrite \/ ResetCounters \/ HostPauses
    /\ UNCHANGED <<payload, last>>

DriveNext ==
    \/ \E l \in LBA : (\E d \in Data : DriveWrite(l, d)) \/ DriveTrim(l)
    \/ DriveCopy
    \/ DriveErase
    \/ DriveRest

InsideDriveWrite == InsideWrite /\ DriveNext

DriveSpec == DriveInit /\ [][DriveNext]_driveVars /\ WF_driveVars(InsideDriveWrite)

-----------------------------------------------------------------------------
(* A host read: through the map, zeros when unmapped ("reads return        *)
(* zeros", 11_trim.c).                                                     *)
Read(l) == IF map[l] = None THEN Zeros ELSE payload[map[l]]

Device == INSTANCE BlockDevice WITH disk <- [l \in LBA |-> Read(l)]

(* The drive is a block device at every step: a write takes effect when    *)
(* its page is programmed, collection moves data without changing what any *)
(* read returns, TRIM makes reads return zeros.                            *)
ImplementsBlockDevice == Device!Spec
=============================================================================
