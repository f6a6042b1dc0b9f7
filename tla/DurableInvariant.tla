-------------------------- MODULE DurableInvariant --------------------------
(***************************************************************************)
(* The inductive invariant behind the safety of DurableReplace.  That      *)
(* readers see whole versions is not inductive: it needs to know that the  *)
(* file is never the inode being written, that only the temporary file has *)
(* data in memory that is not on the device, and what the temporary file   *)
(* holds at each call of the save.                                         *)
(***************************************************************************)
EXTENDS DurableReplace

File == VersionAt(dir, cache)
Stable == VersionAt(disk_dir, disk)
Whole(v) == [version |-> v, length |-> LEN]

(* The temporary file is never the file, in neither directory. *)
TmpIsNotTheFile ==
    /\ dir.tmp # None => dir.tmp \notin {dir.dst, disk_dir.dst}
    /\ disk_dir.tmp # None => disk_dir.tmp # disk_dir.dst

(* Only the temporary file differs between memory and device. *)
OnlyTmpIsDirty == \A i \in Inodes : cache[i] # disk[i] => i = dir.tmp

FilesAreWhole ==
    /\ dir.dst # None => cache[dir.dst].length = LEN
    /\ disk_dir.dst # None => cache[disk_dir.dst].length = LEN

VersionsInOrder ==
    /\ durable <= Stable.version
    /\ Stable.version <= File.version
    /\ File.version <= version

(* What the temporary file holds between its open and its rename. *)
TmpHoldsTheSave ==
    pc \in {"write", "fsync", "close", "rename"} =>
      /\ dir.tmp # None
      /\ cache[dir.tmp].version = version
      /\ File.version < version
      /\ pc # "rename" => fd = dir.tmp
      /\ pc # "close" => ok
      /\ pc = "fsync" => cache[dir.tmp].length = LEN
      /\ pc \in {"close", "rename"} /\ ok =>
            cache[dir.tmp] = Whole(version) /\ disk[dir.tmp] = Whole(version)

(* After a rename that worked the file is the version being saved. *)
SaveIsInPlace ==
    pc \in {"open dir", "fsync dir"} /\ ok =>
      /\ dir.tmp = None
      /\ dir.dst # None
      /\ cache[dir.dst] = Whole(version)

DurableInv ==
    /\ TypeOK
    /\ TmpIsNotTheFile
    /\ OnlyTmpIsDirty
    /\ FilesAreWhole
    /\ VersionsInOrder
    /\ TmpHoldsTheSave
    /\ SaveIsInPlace
=============================================================================
