--------------------------- MODULE FtlDrive_proofs ---------------------------
(***************************************************************************)
(* The flash translation layer implements a block device: whatever it      *)
(* copies, erases or forgets, a read returns what was last written.        *)
(***************************************************************************)
EXTENDS FtlDrive, Ftl_proofs

DriveInv == FtlInv /\ DriveTypeOK

LEMMA DriveStepIsFtlStep == [DriveNext]_driveVars => [Next]_vars
BY DEF DriveNext, DriveWrite, DriveTrim, DriveCopy, DriveErase, DriveRest, driveVars,
       Next, InsideWrite

(* A page that program() takes is no LBA's page yet. *)
LEMMA NewPageIsUnmapped ==
    ASSUME FtlInv, NEW b \in Block, IsTarget(b), NEW l \in LBA
    PROVE  map[l] # <<b, next[b]>> /\ <<b, next[b]>> \in Ppn
BY TargetHasRoom, NoneAssumption DEF FtlInv, MapInv, MapPointsAtOwnPage

LEMMA DriveInvHolds == DriveSpec => []DriveInv
<1>1. DriveInit => DriveInv
  BY InitEstablishesInv DEF DriveInit, DriveInv, DriveTypeOK
<1>2. DriveInv /\ [DriveNext]_driveVars => DriveInv'
  <2> SUFFICES ASSUME DriveInv, [DriveNext]_driveVars PROVE DriveTypeOK'
    BY DriveStepIsFtlStep, StepKeepsInv DEF DriveInv
  <2> USE DEF DriveInv, DriveTypeOK
  <2>1. ASSUME NEW l \in LBA, NEW d \in Data, DriveWrite(l, d) PROVE DriveTypeOK'
    BY <2>1 DEF DriveWrite
  <2>2. CASE DriveCopy
    <3>1. <<victim, cursor>> \in Ppn
      BY <2>2, GeometryAssumption DEF DriveCopy, CopyPage, FtlInv, MapInv, TypeOK, Ppn, Page
    <3> QED BY <2>2, <3>1 DEF DriveCopy
  <2>3. CASE DriveErase
    BY <2>3 DEF DriveErase
  <2>4. CASE UNCHANGED payload
    BY <2>4
  <2> QED BY <2>1, <2>2, <2>3, <2>4 DEF DriveNext, DriveTrim, DriveRest, driveVars
<1> QED BY <1>1, <1>2, PTL DEF DriveSpec

Disk == [l \in LBA |-> Read(l)]

(* A host write changes what one LBA reads as, to the bytes written. *)
LEMMA WriteRefines ==
    ASSUME DriveInv, NEW l \in LBA, NEW d \in Data, DriveWrite(l, d)
    PROVE  Device!Write(l, d)
<1>1. PICK b \in Block : IsTarget(b) /\ Program(l, Retire(l), b)
  BY DEF DriveWrite, Write
<1> DEFINE new == <<b, next[b]>>
<1>2. map' = [map EXCEPT ![l] = new] /\ payload' = [payload EXCEPT ![new] = d]
  BY <1>1 DEF Program, DriveWrite, ProgrammedPage
<1>3. new \in Ppn /\ new # None /\ \A k \in LBA : map[k] # new
  BY <1>1, NewPageIsUnmapped, NoneAssumption DEF DriveInv
<1> HIDE DEF new
<1>4. Read(l)' = d
  BY <1>2, <1>3 DEF Read, DriveInv, DriveTypeOK, FtlInv, MapInv, TypeOK
<1>5. \A k \in LBA \ {l} : Read(k)' = Read(k)
  BY <1>2, <1>3 DEF Read, DriveInv, DriveTypeOK, FtlInv, MapInv, TypeOK
<1>6. [k \in LBA |-> Read(k)]' = [[k \in LBA |-> Read(k)] EXCEPT ![l] = d]
  BY <1>4, <1>5
<1>7. last' = <<"write", l, d>>
  BY DEF DriveWrite
<1> QED BY <1>6, <1>7 DEF Device!Write

LEMMA TrimRefines ==
    ASSUME DriveInv, NEW l \in LBA, DriveTrim(l)
    PROVE  Device!Trim(l)
<1>1. map' = [map EXCEPT ![l] = None] /\ payload' = payload
  BY DEF DriveTrim, Trim
<1>2. [k \in LBA |-> Read(k)]' = [[k \in LBA |-> Read(k)] EXCEPT ![l] = Zeros]
  BY <1>1 DEF Read, DriveInv, FtlInv, MapInv, TypeOK
<1> QED BY <1>2 DEF Device!Trim, DriveTrim

(* Copying a page changes where an LBA lives, not what it reads as. *)
LEMMA CopyIsInvisible ==
    ASSUME DriveInv, DriveCopy, NEW k \in LBA
    PROVE  Read(k)' = Read(k)
<1> DEFINE old == <<victim, cursor>>
           l   == lba[old]
<1>1. CASE state[old] # "Valid"
  BY <1>1 DEF DriveCopy, CopyPage, Read
<1>2. CASE state[old] = "Valid"
  <2>1. PICK b \in Block : IsTarget(b) /\ Program(l, state, b)
    BY <1>2 DEF DriveCopy, CopyPage
  <2> DEFINE new == <<b, next[b]>>
  <2>2. map' = [map EXCEPT ![l] = new] /\ payload' = [payload EXCEPT ![new] = payload[old]]
    BY <1>2, <2>1 DEF Program, DriveCopy, ProgrammedPage
  <2>3. new \in Ppn /\ new # None /\ \A j \in LBA : map[j] # new
    BY <2>1, NewPageIsUnmapped, NoneAssumption DEF DriveInv
  <2>4. old \in Ppn /\ cursor \in Nat
    BY GeometryAssumption DEF DriveCopy, CopyPage, DriveInv, FtlInv, MapInv, TypeOK, Ppn, Page
  <2>5. l \in LBA /\ map[l] = old
    BY <1>2, <2>4 DEF DriveInv, FtlInv, MapInv, ValidPagesAreMapped
  <2> HIDE DEF new, l, old
  <2>6. CASE k = l
    BY <2>2, <2>3, <2>4, <2>5, <2>6, NoneAssumption
       DEF Read, DriveInv, DriveTypeOK, FtlInv, MapInv, TypeOK
  <2>7. CASE k # l
    BY <2>2, <2>3, <2>5, <2>7 DEF Read, DriveInv, DriveTypeOK, FtlInv, MapInv, TypeOK
  <2> QED BY <2>6, <2>7
<1> QED BY <1>1, <1>2

(* The erase destroys no page that is still read. *)
LEMMA EraseIsInvisible ==
    ASSUME DriveInv, DriveErase, NEW k \in LBA
    PROVE  Read(k)' = Read(k)
<1>1. map' = map /\ pc = "copy" /\ cursor = PAGES
      /\ payload' = [ppn \in Ppn |-> IF ppn[1] = victim THEN Zeros ELSE payload[ppn]]
  BY DEF DriveErase, EraseVictim
<1>2. CASE map[k] = None
  BY <1>1, <1>2 DEF Read
<1>3. CASE map[k] # None
  <2>1. PICK b \in Block, p \in Page : map[k] = <<b, p>>
    BY <1>3 DEF DriveInv, FtlInv, MapInv, TypeOK, Ppn
  <2>2. b # victim
    BY <1>1, <2>1, GeometryAssumption DEF DriveInv, FtlInv, MapInv, CopiedPagesAreUnmapped, Page
  <2> QED BY <1>1, <1>3, <2>1, <2>2 DEF Read, Ppn
<1> QED BY <1>2, <1>3

(* DriveSpec refines BlockDevice: initial states to initial states, and    *)
(* every step to the abstract Write or Trim or to a stutter.               *)
THEOREM DriveRefinesBlockDevice == DriveSpec => ImplementsBlockDevice
<1>1. DriveInit => Device!Init
  BY DEF DriveInit, Init, Device!Init, Read
<1>2. DriveInv /\ [DriveNext]_driveVars => [Device!Next]_<<Disk, last>>
  <2> SUFFICES ASSUME DriveInv, [DriveNext]_driveVars PROVE Device!Next \/ UNCHANGED <<Disk, last>>
    OBVIOUS
  <2>1. ASSUME NEW l \in LBA, NEW d \in Data, DriveWrite(l, d) PROVE Device!Next
    BY <2>1, WriteRefines DEF Device!Next
  <2>2. ASSUME NEW l \in LBA, DriveTrim(l) PROVE Device!Next
    BY <2>2, TrimRefines DEF Device!Next
  <2>3. CASE DriveCopy
    BY <2>3, CopyIsInvisible DEF Disk, DriveCopy
  <2>4. CASE DriveErase
    BY <2>4, EraseIsInvisible DEF Disk, DriveErase
  <2>5. CASE DriveRest \/ UNCHANGED driveVars
    BY <2>5 DEF DriveRest, StartCollection, FinishWrite, ResetCounters, HostPauses, driveVars,
                vars, Disk, Read
  <2> QED BY <2>1, <2>2, <2>3, <2>4, <2>5 DEF DriveNext
<1> QED BY <1>1, <1>2, DriveInvHolds, PTL DEF DriveSpec, ImplementsBlockDevice, Device!Spec, Disk
=============================================================================
