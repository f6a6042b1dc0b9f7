------------------------ MODULE DurableReplace_proofs ------------------------
(***************************************************************************)
(* Safety of durable_replace() for any number of versions, of any length,  *)
(* saved through any number of power cuts, and the refinement of           *)
(* AtomicFile.                                                             *)
(***************************************************************************)
EXTENDS DurableInvariant, TLAPS

(* TypeOK in the parts that steps disturb separately. *)
StorageTypes ==
    /\ cache \in [Inodes -> Content]
    /\ disk \in [Inodes -> Content]
    /\ dir \in Directory
    /\ disk_dir \in Directory
CallTypes ==
    /\ pc \in Calls
    /\ fd \in Inodes \union {None}
    /\ fd # None <=> pc \in {"write", "fsync", "close"}
FlagTypes == dfd \in BOOLEAN /\ ok \in BOOLEAN
CountTypes == version \in 0..MaxVersion /\ durable \in 0..version /\ cuts \in 0..MaxCuts

LEMMA TypesByPart == TypeOK <=> StorageTypes /\ CallTypes /\ FlagTypes /\ CountTypes
<1>1. (fd # None) = (pc \in {"write", "fsync", "close"})
       <=> (fd # None <=> pc \in {"write", "fsync", "close"})
  OBVIOUS
<1> QED BY <1>1, Zenon DEF TypeOK, StorageTypes, CallTypes, FlagTypes, CountTypes

(* The initial state. *)
LEMMA InitEstablishesInv == Init => DurableInv
<1> SUFFICES ASSUME Init PROVE DurableInv
  OBVIOUS
<1> USE DurableReplaceAssumption
<1>1. Empty \in Content
  BY DEF Empty, Content
<1>2. StorageTypes
  BY <1>1 DEF Init, StorageTypes, Directory
<1>3. CallTypes
  BY DEF Init, CallTypes, Calls
<1>4. FlagTypes
  BY DEF Init, FlagTypes
<1>5. CountTypes
  BY DEF Init, CountTypes
<1>6. File = Empty /\ Stable = Empty
  BY DEF Init, File, Stable, VersionAt
<1>7. VersionsInOrder
  BY <1>6 DEF Init, VersionsInOrder, Empty
<1>8. TmpIsNotTheFile /\ OnlyTmpIsDirty /\ FilesAreWhole
  BY DEF Init, TmpIsNotTheFile, OnlyTmpIsDirty, FilesAreWhole
<1>9. TmpHoldsTheSave /\ SaveIsInPlace
  BY DEF Init, TmpHoldsTheSave, SaveIsInPlace
<1> QED BY <1>2, <1>3, <1>4, <1>5, <1>7, <1>8, <1>9, TypesByPart DEF DurableInv

-----------------------------------------------------------------------------
(* Types                                                                   *)

(* write() stays within the version's length; no other step makes content. *)
LEMMA StorageStaysTyped ==
    ASSUME StorageTypes, CallTypes, CountTypes, [Next]_vars
    PROVE  StorageTypes'
<1> USE DurableReplaceAssumption
<1>1. CASE OpenTmp
  <2>1. version' \in 1..MaxVersion
    <3>1. version < MaxVersion /\ version' = version + 1
      BY <1>1, Zenon DEF OpenTmp
    <3> QED BY <3>1 DEF CountTypes
  <2>2. [version |-> version', length |-> 0] \in Content
    BY <2>1 DEF Content
  <2>3. UNCHANGED <<disk, disk_dir>>
    BY <1>1, Zenon DEF OpenTmp
  <2>4. CASE UNCHANGED <<cache, dir>>
    BY <2>3, <2>4 DEF StorageTypes
  <2>5. ASSUME NEW i \in Inodes, dir' = [dir EXCEPT !.tmp = i],
               cache' = [cache EXCEPT ![i] = [version |-> version', length |-> 0]]
        PROVE  StorageTypes'
    BY <2>2, <2>3, <2>5 DEF StorageTypes, Directory
  <2> QED BY <1>1, <2>4, <2>5, Zenon DEF OpenTmp
<1>2. CASE Write
  <2>1. fd \in Inodes
    BY <1>2 DEF Write, CallTypes
  <2>2. PICK n \in 1..(LEN - cache[fd].length) : cache' = [cache EXCEPT ![fd].length = @ + n]
    BY <1>2 DEF Write
  <2>3. [cache[fd] EXCEPT !.length = @ + n] \in Content
    BY <2>1, <2>2 DEF StorageTypes, Content
  <2>4. cache' \in [Inodes -> Content]
    BY <2>1, <2>2, <2>3 DEF StorageTypes
  <2> QED BY <1>2, <2>4 DEF Write, StorageTypes
<1>3. CASE Fsync
  <2>1. fd \in Inodes
    BY <1>3 DEF Fsync, CallTypes
  <2> QED BY <1>3, <2>1 DEF Fsync, StorageTypes
<1>4. CASE Rename
  <2>1. UNCHANGED <<cache, disk, disk_dir>> /\ dir' \in {[tmp |-> None, dst |-> dir.tmp], dir}
    BY <1>4, Zenon DEF Rename
  <2> QED BY <2>1 DEF StorageTypes, Directory
<1>5. CASE CloseTmp \/ OpenDir \/ WriteFails \/ WriteInterrupted \/ UNCHANGED vars
  BY <1>5 DEF CloseTmp, OpenDir, WriteFails, WriteInterrupted, vars, storage, StorageTypes
<1>6. ASSUME NEW i \in Inodes, WriteBack(i) PROVE StorageTypes'
  BY <1>6 DEF WriteBack, StorageTypes
<1>7. CASE FsyncDirAndReturn \/ WriteBackDir \/ PowerCut
  BY <1>7 DEF FsyncDirAndReturn, WriteBackDir, PowerCut, StorageTypes
<1> QED BY <1>1, <1>2, <1>3, <1>4, <1>5, <1>6, <1>7 DEF Next, InCall

(* A descriptor is open exactly between its open and its close. *)
LEMMA CallsStayTyped ==
    ASSUME StorageTypes, CallTypes, [Next]_vars
    PROVE  CallTypes'
<1> USE DurableReplaceAssumption DEF StorageTypes, CallTypes, Calls, Directory
<1>1. CASE OpenTmp
  BY <1>1 DEF OpenTmp
<1>2. CASE Write \/ Fsync \/ CloseTmp
  BY <1>2 DEF Write, Fsync, CloseTmp
<1>3. CASE Rename \/ OpenDir \/ FsyncDirAndReturn
  BY <1>3 DEF Rename, OpenDir, FsyncDirAndReturn
<1>4. CASE WriteFails \/ WriteInterrupted \/ UNCHANGED vars
  BY <1>4 DEF WriteFails, WriteInterrupted, vars, program
<1>5. CASE (\E i \in Inodes : WriteBack(i)) \/ WriteBackDir \/ PowerCut
  BY <1>5 DEF WriteBack, WriteBackDir, PowerCut, program
<1> QED BY <1>1, <1>2, <1>3, <1>4, <1>5 DEF Next, InCall

LEMMA CountsStayTyped ==
    ASSUME CountTypes, [Next]_vars
    PROVE  CountTypes'
<1>1. CASE OpenTmp
  <2>1. version < MaxVersion /\ version' = version + 1 /\ UNCHANGED <<durable, cuts>>
    BY <1>1, Zenon DEF OpenTmp
  <2> QED BY <2>1, DurableReplaceAssumption DEF CountTypes
<1>2. CASE PowerCut
  <2>1. cuts < MaxCuts /\ cuts' = cuts + 1 /\ UNCHANGED <<version, durable>>
    BY <1>2, Zenon DEF PowerCut
  <2> QED BY <2>1, DurableReplaceAssumption DEF CountTypes
<1>3. CASE ~OpenTmp /\ ~PowerCut
  <2>1. UNCHANGED <<version, cuts>> /\ durable' \in {version, durable}
    BY <1>3, Zenon
    DEF Next, InCall, vars, program, Write, Fsync, CloseTmp, Rename, OpenDir,
        FsyncDirAndReturn, WriteFails, WriteInterrupted, WriteBack, WriteBackDir
  <2> QED BY <2>1, DurableReplaceAssumption DEF CountTypes
<1> QED BY <1>1, <1>2, <1>3

LEMMA FlagsStayTyped ==
    ASSUME FlagTypes, [Next]_vars
    PROVE  FlagTypes'
BY Zenon
DEF Next, InCall, vars, program, OpenTmp, Write, Fsync, CloseTmp, Rename, OpenDir,
    FsyncDirAndReturn, WriteFails, WriteInterrupted, WriteBack, WriteBackDir, PowerCut, FlagTypes

LEMMA StepKeepsTypes ==
    ASSUME TypeOK, [Next]_vars
    PROVE  TypeOK'
<1>1. StorageTypes /\ CallTypes /\ FlagTypes /\ CountTypes
  BY TypesByPart
<1>2. (StorageTypes /\ CallTypes /\ FlagTypes /\ CountTypes)'
  BY <1>1, StorageStaysTyped, CallsStayTyped, CountsStayTyped, FlagsStayTyped
<1> QED BY <1>2, TypesByPart, PTL

(* TypeOK: every variable keeps its type, for any number of inodes and     *)
(* versions.                                                               *)
THEOREM TypeCorrect == Spec => []TypeOK
<1>1. Init => TypeOK
  BY InitEstablishesInv DEF DurableInv
<1>2. TypeOK /\ [Next]_vars => TypeOK'
  BY StepKeepsTypes
<1> QED BY <1>1, <1>2, PTL DEF Spec

-----------------------------------------------------------------------------
(* The invariant                                                           *)

Rest ==
    /\ TmpIsNotTheFile
    /\ OnlyTmpIsDirty
    /\ FilesAreWhole
    /\ VersionsInOrder
    /\ TmpHoldsTheSave
    /\ SaveIsInPlace

LEMMA InvByPart ==
    DurableInv <=> StorageTypes /\ CallTypes /\ FlagTypes /\ CountTypes /\ Rest
BY TypesByPart, Zenon DEF DurableInv, Rest

(* Both directories name inodes, whose contents are versions. *)
LEMMA NamesAndVersions ==
    ASSUME StorageTypes
    PROVE  /\ dir.tmp \in Inodes \union {None} /\ dir.dst \in Inodes \union {None}
           /\ disk_dir.tmp \in Inodes \union {None} /\ disk_dir.dst \in Inodes \union {None}
           /\ File \in Content /\ Stable \in Content
           /\ File.version \in Nat /\ Stable.version \in Nat
<1>1. Empty \in Content
  BY DurableReplaceAssumption DEF Empty, Content
<1> QED BY <1>1 DEF StorageTypes, Directory, File, Stable, VersionAt, Content

(* The file of either directory is the same in memory and on the device. *)
LEMMA FilesAreClean ==
    ASSUME StorageTypes, Rest
    PROVE  /\ dir.dst # None => cache[dir.dst] = disk[dir.dst]
           /\ disk_dir.dst # None => cache[disk_dir.dst] = disk[disk_dir.dst]
           /\ VersionAt(dir, disk) = File
           /\ VersionAt(disk_dir, cache) = Stable
<1>1. dir.dst # None => dir.dst \in Inodes /\ dir.dst # dir.tmp
  BY NamesAndVersions DEF Rest, TmpIsNotTheFile
<1>2. disk_dir.dst # None => disk_dir.dst \in Inodes /\ disk_dir.dst # dir.tmp
  BY NamesAndVersions DEF Rest, TmpIsNotTheFile
<1> QED BY <1>1, <1>2 DEF Rest, OnlyTmpIsDirty, VersionAt, File, Stable

(* Opening the temporary file leaves both files alone: it truncates an     *)
(* inode that neither directory calls the file.                            *)
LEMMA OpenTmpKeeps ==
    ASSUME StorageTypes, CallTypes, CountTypes, Rest, OpenTmp
    PROVE  Rest' /\ File' = File /\ Stable' = Stable
<1>1. UNCHANGED <<disk, disk_dir, durable>> /\ version' = version + 1 /\ pc = "idle"
  BY Zenon DEF OpenTmp
<1>2. Stable' = Stable
  BY <1>1 DEF Stable, VersionAt
<1>3. version \in Nat /\ durable \in Nat
  BY DurableReplaceAssumption DEF CountTypes
<1>4. CASE UNCHANGED <<cache, dir>> /\ ok' = FALSE /\ pc' = "open dir"
  <2>1. File' = File
    BY <1>4 DEF File, VersionAt
  <2>2. VersionsInOrder'
    BY <1>1, <1>2, <1>3, <2>1, NamesAndVersions DEF Rest, VersionsInOrder
  <2> QED BY <1>1, <1>2, <1>4, <2>1, <2>2
          DEF Rest, TmpIsNotTheFile, OnlyTmpIsDirty, FilesAreWhole, TmpHoldsTheSave, SaveIsInPlace
<1>5. ASSUME NEW i \in Inodes,
             IF dir.tmp = None THEN i \notin Referenced ELSE i = dir.tmp,
             fd' = i, dir' = [dir EXCEPT !.tmp = i], ok' = TRUE, pc' = "write",
             cache' = [cache EXCEPT ![i] = [version |-> version', length |-> 0]]
      PROVE  Rest' /\ File' = File
  <2>1. i # None /\ i # dir.dst /\ i # disk_dir.dst
    BY <1>5, DurableReplaceAssumption DEF Referenced, Rest, TmpIsNotTheFile
  <2>2. dir'.tmp = i /\ dir'.dst = dir.dst
    BY <1>5 DEF StorageTypes, Directory
  <2>3. cache'[i] = [version |-> version', length |-> 0]
        /\ \A j \in Inodes : j # i => cache'[j] = cache[j]
    BY <1>5 DEF StorageTypes
  <2>4. File' = File
    BY <2>1, <2>2, <2>3, NamesAndVersions DEF File, VersionAt
  <2>5. OnlyTmpIsDirty'
    <3>1. ASSUME NEW j \in Inodes, j # i PROVE cache'[j] = disk'[j]
      <4>1. j # dir.tmp
        BY <1>5, <3>1, DurableReplaceAssumption
      <4> QED BY <1>1, <2>3, <3>1, <4>1 DEF Rest, OnlyTmpIsDirty
    <3> QED BY <2>2, <3>1 DEF OnlyTmpIsDirty
  <2>6. TmpIsNotTheFile' /\ FilesAreWhole'
    BY <1>1, <2>1, <2>2, <2>3, NamesAndVersions DEF Rest, TmpIsNotTheFile, FilesAreWhole
  <2>7. VersionsInOrder'
    BY <1>1, <1>2, <1>3, <2>4, NamesAndVersions DEF Rest, VersionsInOrder
  <2>8. TmpHoldsTheSave'
    <3>1. File'.version < version'
      BY <1>1, <1>3, <2>4, NamesAndVersions DEF Rest, VersionsInOrder
    <3> QED BY <1>5, <2>1, <2>2, <2>3, <3>1 DEF TmpHoldsTheSave
  <2>9. SaveIsInPlace'
    BY <1>5 DEF SaveIsInPlace
  <2> QED BY <2>4, <2>5, <2>6, <2>7, <2>8, <2>9 DEF Rest
<1> QED BY <1>2, <1>4, <1>5, Zenon DEF OpenTmp

(* A write extends the temporary file only. *)
LEMMA WriteKeeps ==
    ASSUME StorageTypes, CallTypes, CountTypes, Rest, Write
    PROVE  Rest' /\ File' = File /\ Stable' = Stable
<1>1. pc = "write" /\ UNCHANGED <<disk, dir, disk_dir, version, fd, ok, durable>>
  BY Zenon DEF Write
<1>2. PICK n \in 1..(LEN - cache[fd].length) : cache' = [cache EXCEPT ![fd].length = @ + n]
  BY DEF Write
<1>3. dir.tmp # None /\ fd = dir.tmp /\ fd \in Inodes /\ ok /\ cache[fd].version = version
      /\ File.version < version
  BY <1>1, NamesAndVersions DEF Rest, TmpHoldsTheSave
<1>4. \A j \in Inodes : j # fd => cache'[j] = cache[j]
  BY <1>2, <1>3 DEF StorageTypes
<1>5. cache'[fd].version = cache[fd].version /\ cache'[fd].length = cache[fd].length + n
  BY <1>2, <1>3 DEF StorageTypes, Content
<1>6. dir.dst # fd /\ disk_dir.dst # fd
  BY <1>3, DurableReplaceAssumption DEF Rest, TmpIsNotTheFile
<1>7. File' = File /\ Stable' = Stable
  BY <1>1, <1>4, <1>6, NamesAndVersions DEF File, Stable, VersionAt
<1>8. pc' \in {"write", "fsync"} /\ (pc' = "fsync" => cache'[fd].length >= LEN)
  <2>1. pc' = IF cache'[fd].length < LEN THEN "write" ELSE "fsync"
    BY Zenon DEF Write
  <2>2. cache'[fd].length \in Int
    BY <1>2, <1>3, <1>5 DEF StorageTypes, Content
  <2> QED BY <2>1, <2>2, DurableReplaceAssumption
<1>9. TmpHoldsTheSave'
  <2>1. cache'[fd].length <= LEN
    BY <1>2, <1>3, <1>5, DurableReplaceAssumption DEF StorageTypes, Content
  <2>2. cache'[fd].length \in Int
    BY <1>2, <1>3, <1>5 DEF StorageTypes, Content
  <2>3. pc' = "fsync" => cache'[fd].length = LEN
    BY <1>8, <2>1, <2>2, DurableReplaceAssumption
  <2> QED BY <1>1, <1>3, <1>5, <1>7, <1>8, <2>3 DEF TmpHoldsTheSave
<1>10. OnlyTmpIsDirty' /\ TmpIsNotTheFile'
  BY <1>1, <1>3, <1>4 DEF Rest, OnlyTmpIsDirty, TmpIsNotTheFile
<1>11. FilesAreWhole'
  BY <1>1, <1>4, <1>6, NamesAndVersions DEF Rest, FilesAreWhole
<1>12. VersionsInOrder' /\ SaveIsInPlace'
  BY <1>1, <1>7, <1>8 DEF Rest, VersionsInOrder, SaveIsInPlace
<1> QED BY <1>7, <1>9, <1>10, <1>11, <1>12 DEF Rest

(* fsync brings the temporary file to the device, or reports that it did not. *)
LEMMA FsyncKeeps ==
    ASSUME StorageTypes, CallTypes, Rest, Fsync
    PROVE  Rest' /\ File' = File /\ Stable' = Stable
<1>1. pc = "fsync" /\ pc' = "close" /\ UNCHANGED <<cache, dir, disk_dir, version, fd, durable>>
  BY Zenon DEF Fsync
<1>2. dir.tmp # None /\ fd = dir.tmp /\ fd \in Inodes /\ cache[fd].version = version
      /\ cache[fd].length = LEN /\ File.version < version
  BY <1>1, NamesAndVersions DEF Rest, TmpHoldsTheSave
<1>3. disk' = [disk EXCEPT ![fd] = cache[fd]] \/ (disk' = disk /\ ok' = FALSE)
  BY Zenon DEF Fsync
<1>4. \A j \in Inodes : j # fd => disk'[j] = disk[j]
  BY <1>2, <1>3 DEF StorageTypes
<1>5. ok' => disk'[fd] = cache[fd]
  BY <1>2, <1>3 DEF StorageTypes
<1>6. cache[fd] = Whole(version)
  BY <1>2 DEF StorageTypes, Content, Whole
<1>7. File' = File
  BY <1>1 DEF File, VersionAt
<1>8. Stable' = Stable
  BY <1>1, <1>2, <1>4, NamesAndVersions DEF Rest, TmpIsNotTheFile, Stable, VersionAt
<1>9. OnlyTmpIsDirty' /\ TmpIsNotTheFile' /\ FilesAreWhole'
  BY <1>1, <1>2, <1>4 DEF Rest, OnlyTmpIsDirty, TmpIsNotTheFile, FilesAreWhole
<1>10. TmpHoldsTheSave'
  BY <1>1, <1>2, <1>5, <1>6, <1>7 DEF TmpHoldsTheSave, Whole
<1>11. VersionsInOrder' /\ SaveIsInPlace'
  BY <1>1, <1>7, <1>8 DEF Rest, VersionsInOrder, SaveIsInPlace
<1> QED BY <1>7, <1>8, <1>9, <1>10, <1>11 DEF Rest

(* rename replaces the file by the version being saved, in memory. *)
LEMMA RenameKeeps ==
    ASSUME StorageTypes, CountTypes, Rest, Rename
    PROVE  /\ Rest'
           /\ Stable' = Stable
           /\ \/ File' = File
              \/ File' = Whole(version) /\ File.version < version
<1>1. pc = "rename" /\ pc' = "open dir" /\ UNCHANGED <<cache, disk, disk_dir, version, fd, durable>>
  BY Zenon DEF Rename
<1>2. dir.tmp # None /\ dir.tmp \in Inodes /\ cache[dir.tmp] = Whole(version)
      /\ disk[dir.tmp] = Whole(version) /\ File.version < version
  BY <1>1, NamesAndVersions DEF Rest, TmpHoldsTheSave
<1>3. Stable' = Stable
  BY <1>1 DEF Stable, VersionAt
<1>4. CASE dir' = dir /\ ok' = FALSE
  <2>1. File' = File
    BY <1>1, <1>4 DEF File, VersionAt
  <2> QED BY <1>1, <1>3, <1>4, <2>1
          DEF Rest, TmpIsNotTheFile, OnlyTmpIsDirty, FilesAreWhole, VersionsInOrder,
              TmpHoldsTheSave, SaveIsInPlace
<1>5. CASE dir' = [tmp |-> None, dst |-> dir.tmp]
  <2>1. File' = Whole(version)
    BY <1>1, <1>2, <1>5 DEF File, VersionAt
  <2>2. OnlyTmpIsDirty'
    BY <1>1, <1>2, <1>5 DEF Rest, OnlyTmpIsDirty
  <2>3. dir'.tmp = None /\ dir'.dst = dir.tmp /\ cache[dir.tmp].length = LEN
    BY <1>2, <1>5 DEF Whole
  <2>4. TmpIsNotTheFile' /\ FilesAreWhole'
    BY <1>1, <2>3 DEF Rest, TmpIsNotTheFile, FilesAreWhole
  <2>5. VersionsInOrder'
    <3>1. File'.version = version /\ version \in Nat
      BY <2>1, DurableReplaceAssumption DEF Whole, CountTypes
    <3>2. durable \in Nat
      BY <3>1 DEF CountTypes
    <3>3. Stable.version <= version /\ durable <= Stable.version
      BY <1>2, <3>1, NamesAndVersions DEF Rest, VersionsInOrder
    <3>4. File'.version <= version
      BY <3>1
    <3> QED BY <1>1, <1>3, <3>1, <3>3, <3>4, Zenon DEF VersionsInOrder
  <2>6. TmpHoldsTheSave' /\ SaveIsInPlace'
    BY <1>1, <1>2, <1>5 DEF TmpHoldsTheSave, SaveIsInPlace, Whole
  <2> QED BY <1>2, <1>3, <2>1, <2>2, <2>4, <2>5, <2>6 DEF Rest
<1> QED BY <1>4, <1>5, Zenon DEF Rename

(* Once the directory is flushed and nothing failed, memory and device     *)
(* agree on the version that was saved.                                    *)
LEMMA FsyncDirKeeps ==
    ASSUME StorageTypes, CountTypes, Rest, FsyncDirAndReturn
    PROVE  /\ Rest'
           /\ File' = File
           /\ \/ ~ok' /\ Stable' = Stable /\ durable' = durable
              \/ Stable' = File /\ File = Whole(version) /\ durable' = version
<1>1. pc = "fsync dir" /\ pc' = "idle" /\ UNCHANGED <<cache, disk, dir, version, fd>>
  BY Zenon DEF FsyncDirAndReturn
<1>2. File' = File
  BY <1>1 DEF File, VersionAt
<1>3. TmpHoldsTheSave' /\ SaveIsInPlace'
  BY <1>1 DEF TmpHoldsTheSave, SaveIsInPlace
<1>4. CASE ok /\ disk_dir' = dir /\ durable' = version
  <2>1. dir.dst # None /\ cache[dir.dst] = Whole(version) /\ dir.tmp = None
    BY <1>1, <1>4 DEF Rest, SaveIsInPlace
  <2>2. Stable' = File /\ File = Whole(version)
    BY <1>1, <1>4, <2>1, FilesAreClean DEF File, Stable, VersionAt
  <2>3. VersionsInOrder'
    <3>1. File.version = version /\ version \in Nat
      BY <2>2, DurableReplaceAssumption DEF Whole, CountTypes
    <3>2. version <= version
      BY <3>1
    <3> QED BY <1>1, <1>2, <1>4, <2>2, <3>1, <3>2, Zenon DEF VersionsInOrder
  <2>4. TmpIsNotTheFile' /\ OnlyTmpIsDirty' /\ FilesAreWhole'
    BY <1>1, <1>4, <2>1 DEF Rest, TmpIsNotTheFile, OnlyTmpIsDirty, FilesAreWhole
  <2> QED BY <1>2, <1>3, <1>4, <2>2, <2>3, <2>4 DEF Rest
<1>5. CASE ~ok' /\ disk_dir' = disk_dir /\ durable' = durable
  <2>1. Stable' = Stable
    BY <1>1, <1>5 DEF Stable, VersionAt
  <2> QED BY <1>1, <1>2, <1>3, <1>5, <2>1
          DEF Rest, TmpIsNotTheFile, OnlyTmpIsDirty, FilesAreWhole, VersionsInOrder
<1> QED BY <1>4, <1>5, Zenon DEF FsyncDirAndReturn

(* The calls that only move the program on. *)
LEMMA CloseAndOpenDirKeep ==
    ASSUME Rest, CloseTmp \/ OpenDir \/ WriteFails \/ WriteInterrupted \/ UNCHANGED vars
    PROVE  Rest' /\ File' = File /\ Stable' = Stable
<1>1. UNCHANGED <<storage, version, durable>>
  BY Zenon DEF CloseTmp, OpenDir, WriteFails, WriteInterrupted, vars, program
<1>2. File' = File /\ Stable' = Stable
  BY <1>1 DEF storage, File, Stable, VersionAt
<1>3. TmpIsNotTheFile' /\ OnlyTmpIsDirty' /\ FilesAreWhole' /\ VersionsInOrder'
  BY <1>1, <1>2 DEF Rest, storage, TmpIsNotTheFile, OnlyTmpIsDirty, FilesAreWhole, VersionsInOrder
<1>4. CASE CloseTmp
  <2>1. pc = "close" /\ ok' = ok /\ pc' = IF ok THEN "rename" ELSE "open dir"
    BY <1>4, Zenon DEF CloseTmp
  <2> QED BY <1>1, <1>2, <1>3, <2>1 DEF Rest, storage, TmpHoldsTheSave, SaveIsInPlace
<1>5. CASE OpenDir
  <2>1. pc = "open dir" /\ pc' = "fsync dir" /\ (ok' => ok)
    BY <1>5, Zenon DEF OpenDir
  <2> QED BY <1>1, <1>2, <1>3, <2>1 DEF Rest, storage, TmpHoldsTheSave, SaveIsInPlace
<1>6. CASE WriteFails
  <2>1. pc = "write" /\ pc' = "close" /\ ~ok' /\ fd' = fd
    BY <1>6, Zenon DEF WriteFails
  <2> QED BY <1>1, <1>2, <1>3, <2>1 DEF Rest, storage, TmpHoldsTheSave, SaveIsInPlace
<1>7. CASE WriteInterrupted \/ UNCHANGED vars
  <2>1. UNCHANGED <<pc, fd, ok>>
    BY <1>7 DEF WriteInterrupted, vars, program
  <2> QED BY <1>1, <1>2, <1>3, <2>1 DEF Rest, storage, TmpHoldsTheSave, SaveIsInPlace
<1> QED BY <1>2, <1>4, <1>5, <1>6, <1>7

(* The kernel's write back changes what is on the device of the temporary  *)
(* file, and brings the names there up to date.                            *)
LEMMA WriteBackKeeps ==
    ASSUME StorageTypes, CallTypes, Rest, NEW i \in Inodes, WriteBack(i)
    PROVE  Rest' /\ File' = File /\ Stable' = Stable /\ dir.tmp = i
<1>1. UNCHANGED <<cache, dir, disk_dir, pc, version, fd, ok, durable>>
      /\ disk[i] # cache[i] /\ disk' = [disk EXCEPT ![i] = cache[i]]
  BY DEF WriteBack, program
<1>2. i = dir.tmp
  BY <1>1 DEF Rest, OnlyTmpIsDirty
<1>3. disk'[i] = cache[i] /\ \A j \in Inodes : j # i => disk'[j] = disk[j]
  BY <1>1 DEF StorageTypes
<1>4. File' = File
  BY <1>1 DEF File, VersionAt
<1>5. Stable' = Stable
  BY <1>1, <1>2, <1>3, NamesAndVersions, DurableReplaceAssumption
  DEF Rest, TmpIsNotTheFile, Stable, VersionAt
<1>6. OnlyTmpIsDirty' /\ TmpIsNotTheFile' /\ FilesAreWhole'
  BY <1>1, <1>3 DEF Rest, OnlyTmpIsDirty, TmpIsNotTheFile, FilesAreWhole
<1>7. VersionsInOrder' /\ SaveIsInPlace'
  BY <1>1, <1>4, <1>5 DEF Rest, VersionsInOrder, SaveIsInPlace
<1>8. TmpHoldsTheSave'
  BY <1>1, <1>2, <1>3, <1>4 DEF Rest, TmpHoldsTheSave
<1> QED BY <1>2, <1>4, <1>5, <1>6, <1>7, <1>8 DEF Rest

LEMMA WriteBackDirKeeps ==
    ASSUME StorageTypes, CountTypes, Rest, WriteBackDir
    PROVE  Rest' /\ File' = File /\ Stable' = File
<1>1. UNCHANGED <<cache, disk, dir, pc, version, fd, ok, durable>> /\ disk_dir' = dir
  BY DEF WriteBackDir, program
<1>2. File' = File /\ Stable' = File
  BY <1>1, FilesAreClean DEF File, Stable, VersionAt
<1>3. VersionsInOrder'
  BY <1>1, <1>2, NamesAndVersions DEF Rest, VersionsInOrder, CountTypes
<1>4. TmpHoldsTheSave' /\ SaveIsInPlace'
  BY <1>1, <1>2 DEF Rest, TmpHoldsTheSave, SaveIsInPlace
<1> QED BY <1>1, <1>2, <1>3, <1>4
        DEF Rest, TmpIsNotTheFile, OnlyTmpIsDirty, FilesAreWhole

(* A power cut leaves what is on the device. *)
LEMMA PowerCutKeeps ==
    ASSUME StorageTypes, CountTypes, Rest, PowerCut
    PROVE  Rest' /\ File' = Stable /\ Stable' = Stable
<1>1. UNCHANGED <<disk, disk_dir, version, durable>> /\ cache' = disk /\ dir' = disk_dir
      /\ pc' = "idle"
  BY DEF PowerCut
<1>2. File' = Stable /\ Stable' = Stable
  BY <1>1 DEF File, Stable, VersionAt
<1>3. VersionsInOrder'
  BY <1>1, <1>2, NamesAndVersions DEF Rest, VersionsInOrder, CountTypes
<1>4. FilesAreWhole'
  BY <1>1, FilesAreClean DEF Rest, FilesAreWhole
<1>5. TmpHoldsTheSave' /\ SaveIsInPlace'
  BY <1>1 DEF TmpHoldsTheSave, SaveIsInPlace
<1> QED BY <1>1, <1>2, <1>3, <1>4, <1>5 DEF Rest, TmpIsNotTheFile, OnlyTmpIsDirty

LEMMA StepKeepsInv ==
    ASSUME DurableInv, [Next]_vars
    PROVE  DurableInv'
<1>1. StorageTypes /\ CallTypes /\ CountTypes /\ Rest /\ TypeOK
  BY InvByPart, Zenon DEF DurableInv
<1>2. TypeOK'
  BY <1>1, StepKeepsTypes
<1>3. Rest'
  BY <1>1, OpenTmpKeeps, WriteKeeps, FsyncKeeps, RenameKeeps, FsyncDirKeeps, CloseAndOpenDirKeep,
     WriteBackKeeps, WriteBackDirKeeps, PowerCutKeeps, Zenon DEF Next, InCall
<1> QED BY <1>2, <1>3, Zenon DEF DurableInv, Rest

(* The inductive invariant holds for every behaviour of durable_replace(), *)
(* the kernel and the power supply.                                        *)
THEOREM DurableInvHolds == Spec => []DurableInv
<1>1. DurableInv /\ [Next]_vars => DurableInv'
  BY StepKeepsInv
<1> QED BY <1>1, InitEstablishesInv, PTL DEF Spec

(* OldOrNewNeverHalf: readers and power cuts find a whole version, never   *)
(* older than the last one durable_replace() called durable.               *)
THEOREM OldOrNew == Spec => []OldOrNewNeverHalf
<1>1. DurableInv => OldOrNewNeverHalf
  <2> SUFFICES ASSUME StorageTypes, CountTypes, Rest PROVE OldOrNewNeverHalf
    BY InvByPart
  <2>1. durable <= Stable.version /\ durable <= File.version
    BY NamesAndVersions, DurableReplaceAssumption DEF Rest, VersionsInOrder, CountTypes
  <2>2. (File = Empty \/ File.length = LEN) /\ (Stable = Empty \/ Stable.length = LEN)
    BY FilesAreClean DEF Rest, FilesAreWhole, File, Stable, VersionAt
  <2> QED BY <2>1, <2>2 DEF OldOrNewNeverHalf, File, Stable
<1> QED BY <1>1, DurableInvHolds, PTL

(* SaveTellsTheTruth: after a failed call the file stays as it is until    *)
(* the next save or power cut, and a save that returns without an error    *)
(* has its version on the device.                                          *)
THEOREM SaveIsTruthful == Spec => SaveTellsTheTruth
<1>1. DurableInv /\ [Next]_vars =>
        [cuts' = cuts =>
           /\ ~ok => VersionAt(dir', cache') = VersionAt(dir, cache)
           /\ (pc = "fsync dir" /\ ok') =>
                 VersionAt(disk_dir', disk') = [version |-> version, length |-> LEN]]_vars
  <2> SUFFICES ASSUME StorageTypes, CallTypes, CountTypes, Rest, Next, cuts' = cuts
               PROVE  /\ ~ok => File' = File
                      /\ (pc = "fsync dir" /\ ok') => Stable' = Whole(version)
    BY InvByPart, Zenon DEF File, Stable, Whole
  <2>1. CASE OpenTmp
    <3>1. pc # "fsync dir"
      BY <2>1 DEF OpenTmp
    <3> QED BY <2>1, <3>1, OpenTmpKeeps
  <2>2. CASE Write \/ Fsync \/ CloseTmp \/ OpenDir \/ WriteFails \/ WriteInterrupted
    <3>1. pc # "fsync dir"
      BY <2>2 DEF Write, Fsync, CloseTmp, OpenDir, WriteFails, WriteInterrupted
    <3> QED BY <2>2, <3>1, WriteKeeps, FsyncKeeps, CloseAndOpenDirKeep
  <2>3. CASE Rename
    <3>1. pc = "rename" /\ ok
      BY <2>3 DEF Rename, Rest, TmpHoldsTheSave
    <3> QED BY <3>1
  <2>4. CASE FsyncDirAndReturn
    BY <2>4, FsyncDirKeeps
  <2>5. ASSUME NEW i \in Inodes, WriteBack(i)
        PROVE  File' = File /\ ~(pc = "fsync dir" /\ ok')
    <3>1. dir.tmp # None /\ File' = File
      BY <2>5, WriteBackKeeps, DurableReplaceAssumption
    <3>2. ok' = ok
      BY <2>5 DEF WriteBack, program
    <3> QED BY <3>1, <3>2 DEF Rest, SaveIsInPlace
  <2>6. CASE WriteBackDir
    <3>1. ok' = ok /\ pc' = pc
      BY <2>6 DEF WriteBackDir, program
    <3>2. (pc = "fsync dir" /\ ok) => File = Whole(version)
      BY DEF Rest, SaveIsInPlace, File, VersionAt
    <3> QED BY <2>6, <3>1, <3>2, WriteBackDirKeeps
  <2>7. CASE PowerCut
    <3>1. cuts \in 0..MaxCuts
      BY DEF CountTypes
    <3>2. cuts + 1 = cuts
      BY <2>7, Zenon DEF PowerCut
    <3>3. cuts \in Int
      BY <3>1
    <3>4. FALSE
      BY <3>2, <3>3
    <3> QED BY <3>4
  <2> QED BY <2>1, <2>2, <2>3, <2>4, <2>5, <2>6, <2>7, Zenon DEF Next, InCall
<1> QED BY <1>1, DurableInvHolds, PTL DEF Spec, SaveTellsTheTruth

-----------------------------------------------------------------------------
(* The refinement                                                          *)

(* Every step is a step of AtomicFile or leaves what it shows as it was.   *)
LEMMA StepRefines ==
    ASSUME DurableInv, [Next]_vars
    PROVE  AtomicDst!Next \/ UNCHANGED <<File.version, Stable.version, durable>>
<1>1. StorageTypes /\ CallTypes /\ CountTypes /\ Rest
  BY InvByPart, Zenon
<1>0. /\ AtomicDst!Replace <=>
            File'.version \in Nat /\ File'.version > File.version
              /\ UNCHANGED <<Stable.version, durable>>
      /\ AtomicDst!Settle <=> Stable'.version = File.version /\ UNCHANGED <<File.version, durable>>
      /\ AtomicDst!Promise <=>
            durable' = File.version /\ Stable'.version = File.version /\ UNCHANGED File.version
      /\ AtomicDst!PowerCut <=> File'.version = Stable.version /\ UNCHANGED <<Stable.version, durable>>
  BY Zenon DEF AtomicDst!Replace, AtomicDst!Settle, AtomicDst!Promise, AtomicDst!PowerCut, File, Stable
<1> USE <1>0 DEF AtomicDst!Next
<1>2. CASE OpenTmp
  <2>1. durable' = durable
    BY <1>2 DEF OpenTmp
  <2> QED BY <1>1, <1>2, <2>1, OpenTmpKeeps
<1>3. CASE Write \/ Fsync \/ CloseTmp \/ OpenDir \/ WriteFails \/ WriteInterrupted \/ UNCHANGED vars
  <2>1. durable' = durable
    BY <1>3 DEF Write, Fsync, CloseTmp, OpenDir, WriteFails, WriteInterrupted, vars, program
  <2> QED BY <1>1, <1>3, <2>1, WriteKeeps, FsyncKeeps, CloseAndOpenDirKeep
<1>4. CASE Rename
  <2>1. durable' = durable
    BY <1>4 DEF Rename
  <2>2. Stable' = Stable /\ (File' = File \/ (File' = Whole(version) /\ File.version < version))
    BY <1>1, <1>4, RenameKeeps
  <2>3. CASE File' = File
    BY <2>1, <2>2, <2>3
  <2>4. CASE File' = Whole(version) /\ File.version < version
    <3>1. File'.version = version /\ version \in Nat /\ File.version \in Nat
      BY <1>1, <2>4, NamesAndVersions, DurableReplaceAssumption DEF Whole, CountTypes
    <3>2. File'.version \in Nat /\ File'.version > File.version
      BY <2>4, <3>1
    <3> QED BY <2>1, <2>2, <3>2
  <2> QED BY <2>2, <2>3, <2>4
<1>5. CASE FsyncDirAndReturn
  <2>1. CASE Stable' = Stable /\ File' = File /\ durable' = durable
    BY <2>1
  <2>2. CASE Stable' = File /\ File' = File /\ File = Whole(version) /\ durable' = version
    <3>1. File.version = version
      BY <2>2 DEF Whole
    <3> QED BY <2>2, <3>1
  <2> QED BY <1>1, <1>5, <2>1, <2>2, FsyncDirKeeps
<1>6. ASSUME NEW i \in Inodes, WriteBack(i) PROVE UNCHANGED <<File.version, Stable.version, durable>>
  <2>1. durable' = durable
    BY <1>6 DEF WriteBack, program
  <2> QED BY <1>1, <1>6, <2>1, WriteBackKeeps
<1>7. CASE WriteBackDir
  <2>1. durable' = durable
    BY <1>7 DEF WriteBackDir, program
  <2> QED BY <1>1, <1>7, <2>1, WriteBackDirKeeps
<1>8. CASE PowerCut
  <2>1. durable' = durable
    BY <1>8 DEF PowerCut
  <2> QED BY <1>1, <1>8, <2>1, PowerCutKeeps
<1> QED BY <1>2, <1>3, <1>4, <1>5, <1>6, <1>7, <1>8 DEF Next, InCall

(* ImplementsAtomicFile: to its caller durable_replace(), the page cache   *)
(* and the disk together are one file that changes version in one step and *)
(* keeps what it has promised, through failures and power cuts.            *)
THEOREM RefinesAtomicFile == Spec => ImplementsAtomicFile
<1>1. Init => AtomicDst!Init
  BY DEF Init, AtomicDst!Init, VersionAt, Empty
<1>2. DurableInv /\ [Next]_vars => [AtomicDst!Next]_<<File.version, Stable.version, durable>>
  BY StepRefines
<1> QED BY <1>1, <1>2, DurableInvHolds, PTL
        DEF Spec, ImplementsAtomicFile, AtomicDst!Spec, File, Stable
=============================================================================
