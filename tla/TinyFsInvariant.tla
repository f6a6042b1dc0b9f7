--------------------------- MODULE TinyFsInvariant ---------------------------
(***************************************************************************)
(* The inductive invariants behind the safety of TinyFs.  That no block    *)
(* has two owners is inductive only together with the bitmap, which is all *)
(* the allocator looks at; that names reach live inodes needs to know that *)
(* an inode number not given out yet is blank and has no row.              *)
(***************************************************************************)
EXTENDS TinyFs

(* An inode number not given out yet has a blank inode. *)
FreshInodesAreBlank ==
    \A i \in Inodes : i >= next_inode => inodes[i] = NoInode

(* The inode of a creation in progress has no name yet, its directory is   *)
(* there to stay.                                                          *)
JobHasItsInode ==
    job # Idle =>
      /\ job.ino \in FIRST_INODE..(next_inode - 1)
      /\ inodes[job.ino].mode = "none"
      /\ inodes[job.ino].links = 1
      /\ inodes[job.dir].mode = "dir"
      /\ job.mode \in {"file", "dir"}
      /\ \A d \in dirents : d.ino # job.ino

(* No creation in this model gives a file a second link. *)
FilesHaveOneLink ==
    \A i \in Inodes : inodes[i].mode = "file" => inodes[i].links = 1

(* The half of CarefulUseLosesNothing that is about rows, not about paths. *)
LiveInodesKeepTheirName ==
    careful =>
      \A i \in Inodes \ {ROOT} :
        (inodes[i].links > 0 /\ (job = Idle \/ job.ino # i)) =>
          \E d \in dirents : d.ino = i

TinyFsInv ==
    /\ TypeOK
    /\ IsFiniteSet(dirents)
    /\ NoBlockHasTwoOwners
    /\ BitmapMatchesInodes
    /\ NamesReachLiveInodes
    /\ FreshInodesAreBlank
    /\ JobHasItsInode
    /\ FilesHaveOneLink
    /\ LiveInodesKeepTheirName

-----------------------------------------------------------------------------
(* The tree behind the paths of CarefulUseLosesNothing.                    *)

RowsHaveTheirOwnName ==
    \A c, d \in dirents : c.dir = d.dir /\ c.name = d.name => c = d

DirectoriesAreLive ==
    \A i \in Inodes : inodes[i].mode = "dir" => inodes[i].links > 0

(* No set of inodes keeps its names to itself: one of them has its row in  *)
(* a directory outside.  So following rows upwards ends, at the root.      *)
NothingIsCutOff ==
    careful =>
      \A S \in SUBSET (Inodes \ {ROOT}) :
        S # {} => \E i \in S : \A d \in dirents : d.ino = i => d.dir \notin S

TreeInv == RowsHaveTheirOwnName /\ DirectoriesAreLive /\ NothingIsCutOff

-----------------------------------------------------------------------------
(* The accounting behind SizeCovered, for an inode with room for an extent *)
(* per data block.                                                         *)

(* An inode has the blocks its size needs; the creation in progress lacks  *)
(* those it still needs, and they are free.                                *)
BlocksAreAccounted ==
    \A i \in Inodes :
      /\ job # Idle /\ job.ino = i =>
            Cardinality(BlocksOf(i)) + job.need = BlocksFor(inodes[i].size)
      /\ job = Idle \/ job.ino # i =>
            Cardinality(BlocksOf(i)) = BlocksFor(inodes[i].size)

NeedIsFree == job # Idle => job.need <= FreeBlocks

(* Every extent holds a block at least. *)
ExtentsAreNotEmpty ==
    \A i \in Inodes : Len(inodes[i].extents) <= Cardinality(BlocksOf(i))

SizeInv ==
    /\ TinyFsInv
    /\ BlocksAreAccounted
    /\ NeedIsFree
    /\ ExtentsAreNotEmpty
=============================================================================
