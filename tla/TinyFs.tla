------------------------------- MODULE TinyFs -------------------------------
(***************************************************************************)
(* The tiny filesystem of samples 06, 08 and 09 of folder 03: an inode     *)
(* table, a block bitmap and one table of directory rows, all in memory.   *)
(* A creation is a loop of allocations; each of them is a step here.       *)
(* The samples' blocks and names are kept, the bytes of a file are not.    *)
(***************************************************************************)
EXTENDS Integers, Sequences, FiniteSets

CONSTANTS
    NBLOCKS,      \* blocks of the disk
    METADATA,     \* the first blocks, which hold bitmaps and inode table
    BLOCK,        \* bytes per block
    ROOT,         \* inode number of the root directory
    FIRST_INODE,  \* first inode number that is given out
    NINODES,      \* inode numbers are below this
    MAX_EXTENTS,  \* extents an inode has room for
    MAX_DIRENTS,  \* rows of the directory table
    Names,        \* names of files and directories
    Sizes         \* sizes of files in bytes

ASSUME TinyFsAssumption ==
    /\ {NBLOCKS, METADATA, MAX_EXTENTS, MAX_DIRENTS} \subseteq Nat
    /\ METADATA <= NBLOCKS
    /\ BLOCK \in Nat \ {0}
    /\ {ROOT, FIRST_INODE, NINODES} \subseteq Nat \ {0}
    /\ ROOT < FIRST_INODE
    /\ FIRST_INODE <= NINODES
    /\ Sizes \subseteq Nat

ENOENT == 0
Blocks == 0..(NBLOCKS - 1)
Inodes == {ROOT} \union FIRST_INODE..(NINODES - 1)
Extent == [start : 0..NBLOCKS, count : 0..NBLOCKS]
Modes == {"none", "file", "dir"}
Inode == [mode : Modes, links : 0..2, size : Sizes \union {0},
          extents : Seq(Extent)]
Dirent == [dir : Inodes, name : Names, ino : Inodes]

\* The call in progress: a creation with the blocks it still needs.
Job == [ino : Inodes, dir : Inodes, name : Names, mode : Modes, need : Nat]
Idle == [need |-> 0]

VARIABLES
    inodes,      \* the inode table
    used,        \* the set bits of the block bitmap
    dirents,     \* the rows of the directory table in use
    next_inode,  \* "the model never reuses an inode number"
    job,         \* the creation in progress, or Idle
    careful      \* observer: no caller has given away a name in use, filled
                 \* up the directory table or moved a directory below itself

vars == <<inodes, used, dirents, next_inode, job, careful>>

NoInode == [mode |-> "none", links |-> 0, size |-> 0, extents |-> <<>>]

Init ==
    /\ inodes = [i \in Inodes |->
                   IF i = ROOT THEN [NoInode EXCEPT !.mode = "dir", !.links = 2]
                               ELSE NoInode]
    /\ used = 0..(METADATA - 1)
    /\ dirents = {}
    /\ next_inode = FIRST_INODE
    /\ job = Idle
    /\ careful = TRUE

-----------------------------------------------------------------------------
(* Helpers of the code.                                                    *)

\* Fault: a size that is no multiple of the block size loses its last block.
BlocksForRoundedDown(n) == n \div BLOCK
BlocksFor(n) == (n + BLOCK - 1) \div BLOCK

FreeBlocks == Cardinality(Blocks \ used)

\* fs_alloc: the run e starts at the first free block and grows until it has
\* `want' blocks, meets a used block or the end. Fault: one block too many.
IsFirstFree(b) ==
    /\ b \in 0..NBLOCKS
    /\ \A x \in 0..(b - 1) : x \in used
    /\ b \notin used
RunTooLong(e, want) ==
    /\ IsFirstFree(e.start)
    /\ e.count <= want
    /\ e.start + e.count <= NBLOCKS
    /\ \A x \in e.start..(e.start + e.count - 2) : x \notin used
    /\ \/ e.count = want
       \/ e.start + e.count \in {NBLOCKS} \union used
FirstFit(e, want) ==
    /\ IsFirstFree(e.start)
    /\ e.count <= want
    /\ e.start + e.count <= NBLOCKS
    /\ \A x \in e.start..(e.start + e.count - 1) : x \notin used
    /\ \/ e.count = want
       \/ e.start + e.count \in {NBLOCKS} \union used

ExtentBlocks(e) == e.start..(e.start + e.count - 1)
BlocksOf(i) ==
    UNION {ExtentBlocks(inodes[i].extents[k]) : k \in 1..Len(inodes[i].extents)}

DirFind(dir, name) == {d \in dirents : d.dir = dir /\ d.name = name}

\* dir_set on the rows left after `drop': an existing row is overwritten, a
\* full table drops the name. Fault: a table without an end.
DirSetUnlimited(drop, dir, name, ino) ==
    dirents' = (dirents \ (drop \union DirFind(dir, name)))
                 \union {[dir |-> dir, name |-> name, ino |-> ino]}
DirSet(drop, dir, name, ino) ==
    LET rest == dirents \ (drop \union DirFind(dir, name))
    IN  dirents' = IF Cardinality(rest) < MAX_DIRENTS
                   THEN rest \union {[dir |-> dir, name |-> name, ino |-> ino]}
                   ELSE rest

\* What dir_find returns: the inode number in the row, or none.
Lookup(dir, name) ==
    LET found == DirFind(dir, name)
    IN  IF found = {} THEN ENOENT ELSE (CHOOSE d \in found : TRUE).ino

\* fs_resolve from any directory: one lookup per component.
Hops(start, path) ==
    LET hop[k \in 0..Len(path)] ==
          IF k = 0 THEN start ELSE Lookup(hop[k - 1], path[k])
    IN  hop
Walk(start, path) == Hops(start, path)[Len(path)]
Resolve(path) == Walk(ROOT, path)

Paths == UNION {[1..n -> Names] : n \in 0..(NINODES - FIRST_INODE)}
Below(i) == {Walk(i, p) : p \in Paths} \ {ENOENT}

Directories == {i \in Inodes : inodes[i].mode = "dir"}

-----------------------------------------------------------------------------
(* Operations.                                                             *)

\* create_checked and fs_create up to its loop. Where the check fails the
\* call returns ENOSPC and changes nothing. fs_make_dir and the calls of
\* fs_create in sample 09 make no check; they are taken to stay within it.
StartCreate(dir, name, bytes, mode) ==
    /\ job = Idle
    /\ FreeBlocks >= BlocksFor(bytes)
    /\ next_inode < NINODES
    /\ next_inode' = next_inode + 1
    /\ inodes' = [inodes EXCEPT ![next_inode].links = 1,
                                ![next_inode].size = bytes]
    /\ job' = [ino |-> next_inode, dir |-> dir, name |-> name, mode |-> mode,
               need |-> BlocksFor(bytes)]
    /\ UNCHANGED <<used, dirents, careful>>

InLoop == job # Idle /\ job.need > 0 /\ Len(inodes[job.ino].extents) < MAX_EXTENTS

\* One turn of the loop of fs_create. Fault: the bits of the run stay clear.
AllocateExtentUnmarked ==
    /\ InLoop
    /\ \E e \in Extent :
         /\ FirstFit(e, job.need)
         /\ inodes' = [inodes EXCEPT ![job.ino].extents = Append(@, e)]
         /\ job' = [job EXCEPT !.need = @ - e.count]
    /\ UNCHANGED <<used, dirents, next_inode, careful>>
AllocateExtent ==
    /\ InLoop
    /\ \E e \in Extent :
         /\ FirstFit(e, job.need)
         /\ used' = used \union ExtentBlocks(e)
         /\ inodes' = [inodes EXCEPT ![job.ino].extents = Append(@, e)]
         /\ job' = [job EXCEPT !.need = @ - e.count]
    /\ UNCHANGED <<dirents, next_inode, careful>>

\* The end of fs_create; fs_make_dir then counts the directory's own "."
\* entry as a second link.
FinishCreate ==
    /\ job # Idle
    /\ ~InLoop
    /\ DirSet({}, job.dir, job.name, job.ino)
    /\ inodes' = [inodes EXCEPT ![job.ino].mode = job.mode,
                                ![job.ino].links = IF job.mode = "dir" THEN 2 ELSE 1]
    /\ careful' = (/\ careful
                   /\ DirFind(job.dir, job.name) = {}
                   /\ Cardinality(dirents) < MAX_DIRENTS)
    /\ job' = Idle
    /\ UNCHANGED <<used, next_inode>>

\* fs_unlink of a file: the last link frees inode and blocks. Faults: the
\* loop over an extent stops one block early; the row stays.
UnlinkLeaksBlock(dir, name) ==
    /\ job = Idle
    /\ \E d \in DirFind(dir, name) :
         /\ inodes[d.ino].mode = "file"
         /\ dirents' = dirents \ {d}
         /\ used' = used \ UNION {ExtentBlocks(inodes[d.ino].extents[k]) :
                                    k \in 2..Len(inodes[d.ino].extents)}
         /\ inodes' = [inodes EXCEPT ![d.ino] = NoInode]
    /\ UNCHANGED <<next_inode, job, careful>>
UnlinkKeepsName(dir, name) ==
    /\ job = Idle
    /\ \E d \in DirFind(dir, name) :
         /\ inodes[d.ino].mode = "file"
         /\ used' = used \ BlocksOf(d.ino)
         /\ inodes' = [inodes EXCEPT ![d.ino] = NoInode]
    /\ UNCHANGED <<dirents, next_inode, job, careful>>
Unlink(dir, name) ==
    /\ job = Idle
    /\ \E d \in DirFind(dir, name) :
         /\ inodes[d.ino].mode = "file"
         /\ dirents' = dirents \ {d}
         /\ IF inodes[d.ino].links > 1
            THEN /\ inodes' = [inodes EXCEPT ![d.ino].links = @ - 1]
                 /\ UNCHANGED used
            ELSE /\ inodes' = [inodes EXCEPT ![d.ino] = NoInode]
                 /\ used' = used \ BlocksOf(d.ino)
    /\ UNCHANGED <<next_inode, job, careful>>

\* fs_rename: drop one row, then set another with the same inode number.
\* Fault: the two in the other order.
RenameSetsFirst(from, name, to, new_name) ==
    /\ job = Idle
    /\ \E d \in DirFind(from, name) :
         /\ dirents' = ((dirents \ DirFind(to, new_name))
                          \union {[dir |-> to, name |-> new_name, ino |-> d.ino]})
                       \ {d}
         /\ careful' = (/\ careful
                        /\ DirFind(to, new_name) \subseteq {d}
                        /\ to \notin Below(d.ino))
    /\ UNCHANGED <<inodes, used, next_inode, job>>
Rename(from, name, to, new_name) ==
    /\ job = Idle
    /\ \E d \in DirFind(from, name) :
         /\ DirSet({d}, to, new_name, d.ino)
         /\ careful' = (/\ careful
                        /\ DirFind(to, new_name) \subseteq {d}
                        /\ to \notin Below(d.ino))
    /\ UNCHANGED <<inodes, used, next_inode, job>>

Next ==
    \/ \E dir \in Directories, name \in Names, bytes \in Sizes :
         StartCreate(dir, name, bytes, "file")
    \/ \E dir \in Directories, name \in Names : StartCreate(dir, name, 0, "dir")
    \/ AllocateExtent
    \/ FinishCreate
    \/ \E dir \in Directories, name \in Names : Unlink(dir, name)
    \/ \E from, to \in Directories, name, new_name \in Names :
         Rename(from, name, to, new_name)

Spec == Init /\ [][Next]_vars

-----------------------------------------------------------------------------
(* Properties.                                                             *)

\* Types of the three tables; the directory table never has more rows than
\* the array of the code.
TypeOK ==
    /\ inodes \in [Inodes -> Inode]
    /\ used \subseteq Blocks
    /\ dirents \subseteq Dirent
    /\ Cardinality(dirents) <= MAX_DIRENTS
    /\ next_inode \in FIRST_INODE..NINODES
    /\ job \in Job \union {Idle}
    /\ careful \in BOOLEAN

Metadata == 0..(METADATA - 1)

\* No block belongs to two files, to two extents of one file, or to a file
\* and the metadata, whatever was created, deleted and renamed before.
NoBlockHasTwoOwners ==
    /\ \A i \in Inodes : BlocksOf(i) \intersect Metadata = {}
    /\ \A i, j \in Inodes :
         \A k \in 1..Len(inodes[i].extents), m \in 1..Len(inodes[j].extents) :
           \/ <<i, k>> = <<j, m>>
           \/ ExtentBlocks(inodes[i].extents[k])
                \intersect ExtentBlocks(inodes[j].extents[m]) = {}

\* The bitmap is what a filesystem check would rebuild from the inodes: a
\* bit is set exactly for the metadata and the blocks of live inodes.
BitmapMatchesInodes ==
    used = Metadata \union UNION {BlocksOf(i) : i \in Inodes}

\* "links: names that point here; 0 frees it": no row of the table leads to
\* an inode that has been freed, and no inode has more names than links.
NamesReachLiveInodes ==
    \A d \in dirents :
      /\ inodes[d.ino].links > 0
      /\ inodes[d.dir].mode = "dir"
      /\ d.ino # ROOT
      /\ \A c \in dirents : c.ino = d.ino => c = d

\* Once created, a file's extents hold all the blocks its size promises:
\* "create = one inode + the data blocks + one directory entry". The check
\* of create_checked is made before an allocation that comes in pieces.
SizeCovered ==
    \A i \in Inodes :
      (job = Idle \/ job.ino # i) =>
        LET room == BLOCK * Cardinality(BlocksOf(i))
        IN  inodes[i].size <= room /\ room < inodes[i].size + BLOCK

\* While the callers are careful nothing gets lost: every live inode has one
\* name, and path resolution finds it from the root.
CarefulUseLosesNothing ==
    (careful /\ job = Idle) =>
      \A i \in Inodes \ {ROOT} :
        inodes[i].links > 0 =>
          /\ Cardinality({d \in dirents : d.ino = i}) = 1
          /\ \E p \in Paths : Resolve(p) = i

=============================================================================
