---------------------------- MODULE TinyFs_proofs ----------------------------
(***************************************************************************)
(* Safety of the tiny filesystem for every disk, inode table, directory    *)
(* table, set of names and set of file sizes.                              *)
(***************************************************************************)
EXTENDS TinyFsInvariant, FiniteSetTheorems, TLAPS

-----------------------------------------------------------------------------
(* Numbers, records and tables                                             *)

(* BLOCKS_FOR rounds up to whole blocks: the room covers the bytes and the *)
(* last block is not empty.                                                *)
LEMMA BlocksForRoundsUp ==
    ASSUME NEW n \in Nat
    PROVE  /\ BlocksFor(n) \in Nat
           /\ n <= BLOCK * BlocksFor(n)
           /\ BLOCK * BlocksFor(n) < n + BLOCK
<1> DEFINE m == n + BLOCK - 1
           q == m \div BLOCK
<1>1. BLOCK \in Nat /\ BLOCK > 0 /\ m \in Nat
  BY TinyFsAssumption
<1>2. q \in Int /\ BLOCK * q <= m /\ m < BLOCK * q + BLOCK
  <2> HIDE DEF m
  <2> QED BY <1>1
<1>3. q >= 0
  <2> HIDE DEF m, q
  <2>1. SUFFICES ASSUME q <= 0 - 1 PROVE FALSE
    BY <1>2
  <2>2. BLOCK * q <= BLOCK * (0 - 1)
    BY <1>1, <1>2, <2>1
  <2> QED BY <1>1, <1>2, <2>2
<1> QED BY <1>1, <1>2, <1>3 DEF BlocksFor

(* The creation in progress is never the idle job. *)
LEMMA JobIsNotIdle ==
    ASSUME NEW j \in Job
    PROVE  j # Idle
<1>1. DOMAIN j = {"ino", "dir", "name", "mode", "need"}
  BY DEF Job
<1>2. DOMAIN Idle = {"need"}
  BY DEF Idle
<1> QED BY <1>1, <1>2

LEMMA NumbersOfInodes ==
    /\ Inodes \subseteq Nat
    /\ ROOT \in Inodes /\ ROOT < FIRST_INODE
    /\ \A i \in Nat : FIRST_INODE <= i /\ i < NINODES => i \in Inodes
BY TinyFsAssumption DEF Inodes

(* dir_set never grows the table past its array; it drops the new name only *)
(* when the array is full.                                                 *)
LEMMA DirSetKeepsTable ==
    ASSUME NEW drop, NEW dir, NEW name, NEW ino, IsFiniteSet(dirents),
           Cardinality(dirents) <= MAX_DIRENTS, DirSet(drop, dir, name, ino)
    PROVE  LET rest == dirents \ (drop \union DirFind(dir, name))
               row == [dir |-> dir, name |-> name, ino |-> ino]
           IN  /\ IsFiniteSet(dirents') /\ Cardinality(dirents') <= MAX_DIRENTS
               /\ rest \subseteq dirents' /\ dirents' \subseteq rest \union {row}
               /\ Cardinality(rest) < MAX_DIRENTS => row \in dirents'
<1> DEFINE rest == dirents \ (drop \union DirFind(dir, name))
           row == [dir |-> dir, name |-> name, ino |-> ino]
<1>1. dirents' = IF Cardinality(rest) < MAX_DIRENTS THEN rest \union {row} ELSE rest
  BY Zenon DEF DirSet
<1> HIDE DEF row
<1>2. IsFiniteSet(rest) /\ Cardinality(rest) <= Cardinality(dirents)
  BY FS_Subset
<1> HIDE DEF rest
<1>3. Cardinality(rest) \in Nat /\ Cardinality(dirents) \in Nat /\ MAX_DIRENTS \in Nat
  BY <1>2, FS_CardinalityType, TinyFsAssumption
<1>4. IsFiniteSet(rest \union {row}) /\ Cardinality(rest \union {row}) <= Cardinality(rest) + 1
  <2>1. /\ IsFiniteSet(rest \union {row})
        /\ \/ Cardinality(rest \union {row}) = Cardinality(rest)
           \/ Cardinality(rest \union {row}) = Cardinality(rest) + 1
    BY <1>2, FS_AddElement
  <2> QED BY <1>3, <2>1
<1>5. IsFiniteSet(dirents') /\ Cardinality(dirents') <= MAX_DIRENTS
  <2>1. CASE Cardinality(rest) < MAX_DIRENTS
    <3>1. Cardinality(rest \union {row}) \in Nat
      BY <1>4, FS_CardinalityType
    <3>2. Cardinality(rest \union {row}) <= MAX_DIRENTS
      BY <1>3, <1>4, <2>1, <3>1
    <3> QED BY <1>1, <1>4, <2>1, <3>2
  <2>2. CASE ~(Cardinality(rest) < MAX_DIRENTS)
    <3>1. Cardinality(rest) <= MAX_DIRENTS
      BY <1>2, <1>3
    <3> QED BY <1>1, <1>2, <2>2, <3>1
  <2> QED BY <2>1, <2>2
<1>6. /\ rest \subseteq dirents' /\ dirents' \subseteq rest \union {row}
      /\ Cardinality(rest) < MAX_DIRENTS => row \in dirents'
  BY <1>1
<1> QED BY <1>5, <1>6, Zenon DEF rest, row

-----------------------------------------------------------------------------
(* Blocks and extents                                                      *)

(* What BlocksOf depends on. *)
LEMMA SameExtentsSameBlocks ==
    ASSUME NEW i, inodes'[i].extents = inodes[i].extents
    PROVE  BlocksOf(i)' = BlocksOf(i)
BY DEF BlocksOf

LEMMA BlankHasNoBlocks == 
    ASSUME NEW i, inodes[i].extents = <<>>
    PROVE  BlocksOf(i) = {}
BY DEF BlocksOf

LEMMA AppendedExtent ==
    ASSUME NEW i, NEW e \in Extent, inodes[i].extents \in Seq(Extent),
           inodes'[i].extents = Append(inodes[i].extents, e)
    PROVE  /\ BlocksOf(i)' = BlocksOf(i) \union ExtentBlocks(e)
           /\ Len(inodes'[i].extents) = Len(inodes[i].extents) + 1
           /\ inodes'[i].extents[Len(inodes[i].extents) + 1] = e
           /\ \A k \in 1..Len(inodes[i].extents) : inodes'[i].extents[k] = inodes[i].extents[k]
<1> DEFINE s == inodes[i].extents
           t == inodes'[i].extents
<1>1. /\ s \in Seq(Extent) /\ Len(s) \in Nat
      /\ Len(t) = Len(s) + 1
      /\ t[Len(s) + 1] = e
      /\ \A k \in 1..Len(s) : t[k] = s[k]
  BY DEF s, t
<1>2. BlocksOf(i) = UNION {ExtentBlocks(s[k]) : k \in 1..Len(s)}
  BY Zenon DEF BlocksOf, s
<1>3. BlocksOf(i)' = UNION {ExtentBlocks(t[k]) : k \in 1..Len(t)}
  BY Zenon DEF BlocksOf, t, ExtentBlocks
<1> HIDE DEF s, t
<1>4. 1..Len(t) = 1..Len(s) \union {Len(s) + 1}
  BY <1>1
<1>5. UNION {ExtentBlocks(t[k]) : k \in 1..Len(t)}
        = (UNION {ExtentBlocks(s[k]) : k \in 1..Len(s)}) \union ExtentBlocks(e)
  BY <1>1, <1>4
<1> QED BY <1>1, <1>2, <1>3, <1>5, Zenon DEF s, t

(* The blocks of two inodes have none in common. *)
LEMMA OwnersShareNothing ==
    ASSUME NoBlockHasTwoOwners, NEW i \in Inodes, NEW j \in Inodes, i # j
    PROVE  BlocksOf(i) \intersect BlocksOf(j) = {}
<1> SUFFICES ASSUME NEW b, b \in BlocksOf(i), b \in BlocksOf(j) PROVE FALSE
  OBVIOUS
<1>1. PICK k \in 1..Len(inodes[i].extents) : b \in ExtentBlocks(inodes[i].extents[k])
  BY DEF BlocksOf
<1>2. PICK m \in 1..Len(inodes[j].extents) : b \in ExtentBlocks(inodes[j].extents[m])
  BY DEF BlocksOf
<1>3. <<i, k>> # <<j, m>>
  OBVIOUS
<1> QED BY <1>1, <1>2, <1>3 DEF NoBlockHasTwoOwners

-----------------------------------------------------------------------------
(* The parts of the invariant and the effects of the operations            *)

TableTypes ==
    /\ inodes \in [Inodes -> Inode]
    /\ used \subseteq Blocks
    /\ next_inode \in FIRST_INODE..NINODES
    /\ job \in Job \union {Idle}

RowTypes ==
    /\ dirents \subseteq Dirent
    /\ IsFiniteSet(dirents)
    /\ Cardinality(dirents) <= MAX_DIRENTS

Owners == NoBlockHasTwoOwners /\ BitmapMatchesInodes

Naming ==
    /\ NamesReachLiveInodes
    /\ FreshInodesAreBlank
    /\ JobHasItsInode
    /\ FilesHaveOneLink
    /\ LiveInodesKeepTheirName

LEMMA InvByPart ==
    TinyFsInv <=> TableTypes /\ RowTypes /\ careful \in BOOLEAN /\ Owners /\ Naming
BY Zenon DEF TinyFsInv, TypeOK, TableTypes, RowTypes, Owners, Naming

LEMMA InodeFields ==
    ASSUME TableTypes, NEW i \in Inodes
    PROVE  /\ inodes[i].mode \in Modes /\ inodes[i].links \in 0..2
           /\ inodes[i].size \in Sizes \union {0} /\ inodes[i].size \in Nat
           /\ inodes[i].extents \in Seq(Extent)
<1>1. inodes[i] \in Inode
  BY DEF TableTypes
<1>2. inodes[i].mode \in Modes
  BY <1>1 DEF Inode
<1>3. inodes[i].links \in 0..2
  BY <1>1 DEF Inode
<1>4. inodes[i].size \in Sizes \union {0}
  BY <1>1 DEF Inode
<1>5. inodes[i].extents \in Seq(Extent)
  BY <1>1 DEF Inode
<1>6. \A n \in Sizes \union {0} : n \in Nat
  BY TinyFsAssumption
<1>7. inodes[i].size \in Nat
  BY <1>4, <1>6
<1> QED BY <1>2, <1>3, <1>4, <1>5, <1>7

LEMMA BlankWithSize ==
    ASSUME NEW n, NEW x, x = [NoInode EXCEPT !.links = 1, !.size = n]
    PROVE  x = [mode |-> "none", links |-> 1, size |-> n, extents |-> <<>>]
BY DEF NoInode

LEMMA RootInode ==
    ASSUME NEW x, x = [NoInode EXCEPT !.mode = "dir", !.links = 2]
    PROVE  x = [mode |-> "dir", links |-> 2, size |-> 0, extents |-> <<>>]
BY DEF NoInode

LEMMA NoInodeIsInode == NoInode \in Inode
BY DEF NoInode, Inode, Modes

(* A creation starts on an inode number never used before. *)
LEMMA StartCreateDoes ==
    ASSUME TableTypes, FreshInodesAreBlank, NEW dir \in Directories, NEW name \in Names,
           NEW bytes \in Sizes \union {0}, NEW mode \in {"file", "dir"},
           StartCreate(dir, name, bytes, mode)
    PROVE  /\ next_inode \in Inodes /\ next_inode # ROOT
           /\ next_inode' = next_inode + 1 /\ next_inode' \in FIRST_INODE..NINODES
           /\ inodes[next_inode] = NoInode
           /\ inodes' \in [Inodes -> Inode]
           /\ \A i \in Inodes : i # next_inode => inodes'[i] = inodes[i]
           /\ inodes'[next_inode].mode = "none"
           /\ inodes'[next_inode].links = 1
           /\ inodes'[next_inode].size = bytes
           /\ inodes'[next_inode].extents = <<>>
           /\ job = Idle /\ job' \in Job
           /\ job'.ino = next_inode /\ job'.dir = dir /\ job'.mode = mode
           /\ job'.need = BlocksFor(bytes) /\ BlocksFor(bytes) <= FreeBlocks
           /\ UNCHANGED <<used, dirents, careful>>
<1>1. /\ next_inode < NINODES /\ next_inode' = next_inode + 1 /\ job = Idle
      /\ FreeBlocks >= BlocksFor(bytes)
      /\ UNCHANGED <<used, dirents, careful>>
  BY Zenon DEF StartCreate
<1>2. next_inode \in Inodes /\ next_inode # ROOT /\ next_inode' \in FIRST_INODE..NINODES
      /\ next_inode \in Nat
  BY <1>1, NumbersOfInodes, TinyFsAssumption DEF TableTypes
<1>3. inodes[next_inode] = NoInode
  BY <1>2 DEF FreshInodesAreBlank
<1>4. inodes' = [inodes EXCEPT ![next_inode] = [NoInode EXCEPT !.links = 1, !.size = bytes]]
  BY <1>2, <1>3 DEF StartCreate, TableTypes, NoInode
<1> DEFINE blank == [NoInode EXCEPT !.links = 1, !.size = bytes]
<1>5. blank \in Inode /\ blank.mode = "none" /\ blank.links = 1 /\ blank.size = bytes
      /\ blank.extents = <<>>
  <2>1. blank = [mode |-> "none", links |-> 1, size |-> bytes, extents |-> <<>>]
    BY BlankWithSize
  <2> HIDE DEF blank
  <2>2. blank \in Inode
    BY <2>1 DEF Inode, Modes
  <2>3. blank.mode = "none" /\ blank.links = 1 /\ blank.size = bytes /\ blank.extents = <<>>
    BY <2>1
  <2> QED BY <2>2, <2>3
<1> HIDE DEF blank
<1>6. inodes' \in [Inodes -> Inode] /\ inodes'[next_inode] = blank
      /\ \A i \in Inodes : i # next_inode => inodes'[i] = inodes[i]
  BY <1>2, <1>4, <1>5 DEF TableTypes, blank
<1>7. job' = [ino |-> next_inode, dir |-> dir, name |-> name, mode |-> mode,
              need |-> BlocksFor(bytes)]
  BY Zenon DEF StartCreate
<1>8. BlocksFor(bytes) \in Nat /\ dir \in Inodes
  BY BlocksForRoundsUp, TinyFsAssumption DEF Directories
<1>9. job' \in Job /\ job'.ino = next_inode /\ job'.dir = dir /\ job'.mode = mode
      /\ job'.need = BlocksFor(bytes)
  BY <1>2, <1>7, <1>8 DEF Job, Modes
<1>10. BlocksFor(bytes) <= FreeBlocks
  BY <1>1
<1> QED BY <1>1, <1>2, <1>3, <1>5, <1>6, <1>9, <1>10, Zenon

(* A turn of the loop takes a run of free blocks for the creation in progress. *)
LEMMA AllocateDoes ==
    ASSUME TableTypes, AllocateExtent
    PROVE  /\ job # Idle /\ job.ino \in Inodes /\ job.need \in Nat /\ job.need > 0
           /\ job' \in Job
           /\ job'.ino = job.ino /\ job'.dir = job.dir /\ job'.mode = job.mode
           /\ UNCHANGED <<dirents, next_inode, careful>>
           /\ inodes' \in [Inodes -> Inode]
           /\ \A i \in Inodes : i # job.ino => inodes'[i] = inodes[i]
           /\ inodes'[job.ino].mode = inodes[job.ino].mode
           /\ inodes'[job.ino].links = inodes[job.ino].links
           /\ inodes'[job.ino].size = inodes[job.ino].size
           /\ \E e \in Extent :
                /\ FirstFit(e, job.need)
                /\ used' = used \union ExtentBlocks(e)
                /\ inodes'[job.ino].extents = Append(inodes[job.ino].extents, e)
                /\ job'.need = job.need - e.count
                /\ ExtentBlocks(e) \subseteq Blocks
                /\ ExtentBlocks(e) \intersect used = {}
<1>1. job # Idle /\ job \in Job /\ UNCHANGED <<dirents, next_inode, careful>>
  BY Zenon DEF AllocateExtent, InLoop, TableTypes
<1>2. job.ino \in Inodes /\ job.need \in Nat /\ job.need > 0
  BY <1>1, TinyFsAssumption DEF AllocateExtent, InLoop, Job
<1>3. PICK e \in Extent :
        /\ FirstFit(e, job.need)
        /\ used' = used \union ExtentBlocks(e)
        /\ inodes' = [inodes EXCEPT ![job.ino].extents = Append(@, e)]
        /\ job' = [job EXCEPT !.need = @ - e.count]
  BY Zenon DEF AllocateExtent
<1> DEFINE grown == [inodes[job.ino] EXCEPT !.extents = Append(@, e)]
<1>4. inodes' = [inodes EXCEPT ![job.ino] = grown]
  BY <1>2, <1>3 DEF TableTypes
<1>5. inodes[job.ino] \in Inode
  BY <1>2 DEF TableTypes
<1>6. grown \in Inode /\ grown.mode = inodes[job.ino].mode
      /\ grown.links = inodes[job.ino].links /\ grown.size = inodes[job.ino].size
      /\ grown.extents = Append(inodes[job.ino].extents, e)
  <2>1. Append(inodes[job.ino].extents, e) \in Seq(Extent)
    BY <1>2, InodeFields
  <2> HIDE <1>3
  <2> QED BY <1>5, <2>1 DEF Inode
<1> HIDE DEF grown
<1>7. inodes' \in [Inodes -> Inode] /\ inodes'[job.ino] = grown
      /\ \A i \in Inodes : i # job.ino => inodes'[i] = inodes[i]
  BY <1>2, <1>4, <1>6 DEF TableTypes
<1>8. e.start \in Int /\ e.start >= 0 /\ e.count \in Int /\ e.count >= 0 /\ e.count <= job.need
      /\ e.start + e.count <= NBLOCKS /\ \A x \in e.start..(e.start + e.count - 1) : x \notin used
  BY <1>3, TinyFsAssumption DEF FirstFit, Extent
<1>9. ExtentBlocks(e) \subseteq Blocks /\ ExtentBlocks(e) \intersect used = {}
  BY <1>8, TinyFsAssumption DEF ExtentBlocks, Blocks
<1>10. job' \in Job /\ job'.ino = job.ino /\ job'.dir = job.dir /\ job'.mode = job.mode
       /\ job'.need = job.need - e.count
  BY <1>1, <1>2, <1>3, <1>8 DEF Job
<1> QED BY <1>1, <1>2, <1>3, <1>6, <1>7, <1>9, <1>10

(* The end of a creation gives the inode its mode and sets the name. *)
LEMMA FinishDoes ==
    ASSUME TableTypes, JobHasItsInode, FinishCreate
    PROVE  /\ job # Idle /\ job \in Job /\ job' = Idle /\ job.ino \in Inodes
           /\ UNCHANGED <<used, next_inode>>
           /\ inodes' \in [Inodes -> Inode]
           /\ \A i \in Inodes : i # job.ino => inodes'[i] = inodes[i]
           /\ inodes'[job.ino].mode = job.mode
           /\ inodes'[job.ino].links \in {1, 2}
           /\ job.mode = "file" => inodes'[job.ino].links = 1
           /\ inodes'[job.ino].size = inodes[job.ino].size
           /\ inodes'[job.ino].extents = inodes[job.ino].extents
<1>1. job # Idle /\ job \in Job /\ job' = Idle /\ UNCHANGED <<used, next_inode>>
  BY Zenon DEF FinishCreate, TableTypes
<1>2. job.ino \in Inodes /\ job.mode \in Modes
  BY <1>1 DEF Job
<1>3. inodes[job.ino] \in Inode
  BY <1>2 DEF TableTypes
<1> DEFINE n == IF job.mode = "dir" THEN 2 ELSE 1
           done == [inodes[job.ino] EXCEPT !.mode = job.mode, !.links = n]
<1>4. inodes' = [inodes EXCEPT ![job.ino] = done]
  BY <1>2 DEF FinishCreate, TableTypes
<1>5. done \in Inode /\ done.mode = job.mode /\ done.links = n
      /\ done.size = inodes[job.ino].size /\ done.extents = inodes[job.ino].extents
  <2>1. n \in 0..2
    OBVIOUS
  <2> HIDE DEF n
  <2> QED BY <1>2, <1>3, <2>1 DEF Inode
<1> HIDE DEF done
<1>6. inodes' \in [Inodes -> Inode] /\ inodes'[job.ino] = done
      /\ \A i \in Inodes : i # job.ino => inodes'[i] = inodes[i]
  BY <1>2, <1>4, <1>5 DEF TableTypes
<1> QED BY <1>1, <1>2, <1>5, <1>6

(* A file has one link, so that unlink frees its inode and its blocks. *)
LEMMA UnlinkDoes ==
    ASSUME TableTypes, RowTypes, FilesHaveOneLink, NEW dir, NEW name, Unlink(dir, name)
    PROVE  /\ job = Idle
           /\ UNCHANGED <<next_inode, job, careful>>
           /\ \E d \in dirents :
                /\ d.ino \in Inodes
                /\ inodes[d.ino].mode = "file"
                /\ dirents' = dirents \ {d}
                /\ inodes' = [inodes EXCEPT ![d.ino] = NoInode]
                /\ used' = used \ BlocksOf(d.ino)
<1>1. job = Idle /\ UNCHANGED <<next_inode, job, careful>>
  BY Zenon DEF Unlink
<1>2. PICK d \in DirFind(dir, name) :
         /\ inodes[d.ino].mode = "file"
         /\ dirents' = dirents \ {d}
         /\ IF inodes[d.ino].links > 1
            THEN /\ inodes' = [inodes EXCEPT ![d.ino].links = @ - 1]
                 /\ UNCHANGED used
            ELSE /\ inodes' = [inodes EXCEPT ![d.ino] = NoInode]
                 /\ used' = used \ BlocksOf(d.ino)
  BY Zenon DEF Unlink
<1>3. d \in dirents /\ d.ino \in Inodes
  BY DEF DirFind, RowTypes, Dirent
<1>4. ~(inodes[d.ino].links > 1)
  <2>1. inodes[d.ino].links = 1
    BY <1>2, <1>3 DEF FilesHaveOneLink
  <2> QED BY <2>1
<1> QED BY <1>1, <1>2, <1>3, <1>4

-----------------------------------------------------------------------------
(* Blocks keep their one owner                                             *)

(* Steps that leave bitmap and extents as they are. *)
LEMMA OwnersUntouched ==
    ASSUME Owners, used' = used,
           \A i \in Inodes : inodes'[i].extents = inodes[i].extents
    PROVE  Owners'
<1>1. \A i \in Inodes : BlocksOf(i)' = BlocksOf(i)
  BY SameExtentsSameBlocks
<1>2. NoBlockHasTwoOwners'
  BY <1>1 DEF Owners, NoBlockHasTwoOwners
<1>3. BitmapMatchesInodes'
  BY <1>1 DEF Owners, BitmapMatchesInodes
<1> QED BY <1>2, <1>3 DEF Owners

(* The allocator takes blocks that the bitmap calls free: since the bitmap *)
(* is right, nobody owns them.                                             *)
LEMMA AllocateKeepsOwners ==
    ASSUME TableTypes, Owners, AllocateExtent
    PROVE  Owners'
<1>0. PICK n \in Inodes : n = job.ino
  BY AllocateDoes
<1>1. \A i \in Inodes : i # n => inodes'[i] = inodes[i]
  BY <1>0, AllocateDoes
<1>2. PICK e \in Extent :
        /\ used' = used \union ExtentBlocks(e)
        /\ inodes'[n].extents = Append(inodes[n].extents, e)
        /\ ExtentBlocks(e) \intersect used = {}
  BY <1>0, AllocateDoes
<1> DEFINE L == Len(inodes[n].extents)
<1>3. /\ BlocksOf(n)' = BlocksOf(n) \union ExtentBlocks(e)
      /\ Len(inodes'[n].extents) = L + 1
      /\ inodes'[n].extents[L + 1] = e
      /\ \A k \in 1..L : inodes'[n].extents[k] = inodes[n].extents[k]
      /\ L \in Nat
  BY <1>1, <1>2, AppendedExtent, InodeFields
<1>4. \A i \in Inodes : i # n => BlocksOf(i)' = BlocksOf(i)
  BY <1>1, SameExtentsSameBlocks
<1>5. Metadata \subseteq used /\ \A i \in Inodes : BlocksOf(i) \subseteq used
  BY DEF Owners, BitmapMatchesInodes
<1>6. BitmapMatchesInodes'
  <2>1. used = Metadata \union UNION {BlocksOf(i) : i \in Inodes}
    BY DEF Owners, BitmapMatchesInodes
  <2>2. used' = Metadata \union UNION {BlocksOf(i)' : i \in Inodes}
    BY <1>2, <1>3, <1>4, <2>1
  <2> QED BY <2>2 DEF BitmapMatchesInodes, Metadata
<1>7. \A i \in Inodes : BlocksOf(i)' \intersect Metadata = {}
  <2>1. \A i \in Inodes : BlocksOf(i) \intersect Metadata = {}
    BY DEF Owners, NoBlockHasTwoOwners
  <2> QED BY <1>2, <1>3, <1>4, <1>5, <2>1
<1>8. ASSUME NEW i \in Inodes, NEW k \in 1..Len(inodes'[i].extents)
      PROVE  \/ /\ k \in 1..Len(inodes[i].extents)
                /\ inodes'[i].extents[k] = inodes[i].extents[k]
                /\ ExtentBlocks(inodes'[i].extents[k]) \subseteq used
             \/ i = n /\ k = L + 1 /\ inodes'[i].extents[k] = e
  <2>1. CASE k \in 1..Len(inodes[i].extents) /\ inodes'[i].extents[k] = inodes[i].extents[k]
    <3>1. ExtentBlocks(inodes[i].extents[k]) \subseteq BlocksOf(i)
      BY <2>1 DEF BlocksOf
    <3> QED BY <1>5, <2>1, <3>1
  <2>2. CASE i # n
    BY <1>1, <2>1, <2>2
  <2>3. CASE i = n
    <3>1. k \in 1..L \/ k = L + 1
      BY <1>3, <2>3
    <3> QED BY <1>3, <2>1, <2>3, <3>1
  <2> QED BY <2>2, <2>3
<1>9. ASSUME NEW i \in Inodes, NEW j \in Inodes,
             NEW k \in 1..Len(inodes'[i].extents), NEW m \in 1..Len(inodes'[j].extents),
             <<i, k>> # <<j, m>>
      PROVE  ExtentBlocks(inodes'[i].extents[k])
               \intersect ExtentBlocks(inodes'[j].extents[m]) = {}
  <2>1. CASE k \in 1..Len(inodes[i].extents) /\ m \in 1..Len(inodes[j].extents)
             /\ inodes'[i].extents[k] = inodes[i].extents[k]
             /\ inodes'[j].extents[m] = inodes[j].extents[m]
    BY <1>9, <2>1 DEF Owners, NoBlockHasTwoOwners
  <2>2. CASE ExtentBlocks(inodes'[i].extents[k]) \subseteq used /\ inodes'[j].extents[m] = e
    BY <1>2, <2>2
  <2>3. CASE ExtentBlocks(inodes'[j].extents[m]) \subseteq used /\ inodes'[i].extents[k] = e
    BY <1>2, <2>3
  <2>4. ~(i = n /\ k = L + 1 /\ j = n /\ m = L + 1)
    BY <1>9
  <2> QED BY <1>8, <2>1, <2>2, <2>3, <2>4
<1>10. NoBlockHasTwoOwners'
  BY <1>7, <1>9 DEF NoBlockHasTwoOwners, ExtentBlocks, Metadata
<1> QED BY <1>6, <1>10 DEF Owners

(* Unlink clears the bits of blocks nobody else owns. *)
LEMMA UnlinkKeepsOwners ==
    ASSUME TableTypes, RowTypes, FilesHaveOneLink, Owners, NEW dir, NEW name, Unlink(dir, name)
    PROVE  Owners'
<1>1. PICK u \in Inodes : /\ inodes' = [inodes EXCEPT ![u] = NoInode]
                          /\ used' = used \ BlocksOf(u)
  BY UnlinkDoes
<1>2. inodes'[u].extents = <<>> /\ \A i \in Inodes : i # u => inodes'[i] = inodes[i]
  BY <1>1 DEF TableTypes, NoInode
<1>3. BlocksOf(u)' = {}
  BY <1>2 DEF BlocksOf
<1>4. \A i \in Inodes : i # u => BlocksOf(i)' = BlocksOf(i)
  BY <1>2, SameExtentsSameBlocks
<1>5. \A i \in Inodes : i # u => BlocksOf(i) \intersect BlocksOf(u) = {}
  BY OwnersShareNothing DEF Owners
<1>6. BlocksOf(u) \intersect Metadata = {}
  BY DEF Owners, NoBlockHasTwoOwners
<1>7. BitmapMatchesInodes'
  <2>1. used = Metadata \union UNION {BlocksOf(i) : i \in Inodes}
    BY DEF Owners, BitmapMatchesInodes
  <2>2. used' = Metadata \union UNION {BlocksOf(i)' : i \in Inodes}
    BY <1>1, <1>3, <1>4, <1>5, <1>6, <2>1
  <2> QED BY <2>2 DEF BitmapMatchesInodes, Metadata
<1>8. \A i \in Inodes : BlocksOf(i)' \intersect Metadata = {}
  BY <1>3, <1>4 DEF Owners, NoBlockHasTwoOwners
<1>9. ASSUME NEW i \in Inodes, NEW k \in 1..Len(inodes'[i].extents)
      PROVE  i # u
  <2>1. Len(inodes'[u].extents) = 0
    BY <1>2
  <2> QED BY <2>1
<1>10. NoBlockHasTwoOwners'
  BY <1>2, <1>8, <1>9 DEF Owners, NoBlockHasTwoOwners, Metadata
<1> QED BY <1>7, <1>10 DEF Owners

-----------------------------------------------------------------------------
(* Names keep leading to live inodes                                       *)

LEMMA StartKeepsNaming ==
    ASSUME TableTypes, RowTypes, Naming, NEW dir \in Directories, NEW name \in Names,
           NEW bytes \in Sizes \union {0}, NEW mode \in {"file", "dir"},
           StartCreate(dir, name, bytes, mode)
    PROVE  Naming'
<1> DEFINE n == next_inode
<1>1. /\ n \in Inodes /\ next_inode' = n + 1 /\ n \in FIRST_INODE..NINODES /\ FIRST_INODE \in Int
      /\ \A i \in Inodes : i # n => inodes'[i] = inodes[i]
      /\ inodes'[n].mode = "none" /\ inodes'[n].links = 1
      /\ job = Idle /\ job' \in Job /\ job'.ino = n /\ job'.dir = dir /\ job'.mode = mode
      /\ dirents' = dirents /\ careful' = careful
  BY StartCreateDoes, TinyFsAssumption DEF Naming, TableTypes
<1>2. inodes[n].mode = "none" /\ inodes[n].links = 0
  BY StartCreateDoes DEF NoInode, Naming
<1>3. dir \in Inodes /\ inodes[dir].mode = "dir" /\ dir # n
  BY <1>2 DEF Directories
<1>4. \A d \in dirents : d.ino \in Inodes /\ d.dir \in Inodes /\ d.ino # n /\ d.dir # n
  BY <1>2 DEF RowTypes, Dirent, Naming, NamesReachLiveInodes
<1> HIDE DEF n
<1>5. NamesReachLiveInodes'
  BY <1>1, <1>4 DEF Naming, NamesReachLiveInodes
<1>6. FreshInodesAreBlank'
  <2> SUFFICES ASSUME NEW i \in Inodes, i >= next_inode' PROVE inodes'[i] = NoInode
    BY DEF FreshInodesAreBlank, NoInode
  <2>1. i # n /\ i >= n
    BY <1>1, NumbersOfInodes
  <2> QED BY <1>1, <2>1 DEF Naming, FreshInodesAreBlank, n
<1>7. JobHasItsInode'
  <2>1. n \in FIRST_INODE..(next_inode' - 1)
    BY <1>1
  <2> QED BY <1>1, <1>3, <1>4, <2>1 DEF JobHasItsInode
<1>8. FilesHaveOneLink'
  BY <1>1 DEF Naming, FilesHaveOneLink
<1>9. LiveInodesKeepTheirName'
  <2>1. job' # Idle
    BY <1>1, JobIsNotIdle
  <2> SUFFICES ASSUME careful', NEW i \in Inodes \ {ROOT}, inodes'[i].links > 0, i # n
               PROVE  \E d \in dirents' : d.ino = i
    BY <1>1, <2>1 DEF LiveInodesKeepTheirName, Idle
  <2> QED BY <1>1 DEF Naming, LiveInodesKeepTheirName
<1> QED BY <1>5, <1>6, <1>7, <1>8, <1>9 DEF Naming

LEMMA AllocateKeepsNaming ==
    ASSUME TableTypes, RowTypes, Naming, AllocateExtent
    PROVE  Naming'
<1>1. /\ job # Idle /\ job' \in Job /\ job.ino \in Inodes
      /\ job'.ino = job.ino /\ job'.dir = job.dir /\ job'.mode = job.mode
      /\ UNCHANGED <<dirents, next_inode, careful>>
      /\ \A i \in Inodes : i # job.ino => inodes'[i] = inodes[i]
  BY AllocateDoes
<1>2. \A i \in Inodes : inodes'[i].mode = inodes[i].mode /\ inodes'[i].links = inodes[i].links
  BY <1>1, AllocateDoes
<1>3. job' # Idle
  BY <1>1, JobIsNotIdle
<1>4. JobHasItsInode /\ job.ino \in FIRST_INODE..(next_inode - 1) /\ job.dir \in Inodes
  BY <1>1 DEF Naming, JobHasItsInode, TableTypes, Job
<1>5. NamesReachLiveInodes'
  <2>1. \A d \in dirents : d.ino \in Inodes /\ d.dir \in Inodes
    BY DEF RowTypes, Dirent
  <2> QED BY <1>1, <1>2, <2>1 DEF Naming, NamesReachLiveInodes
<1>6. FreshInodesAreBlank'
  <2> SUFFICES ASSUME NEW i \in Inodes, i >= next_inode PROVE inodes'[i] = NoInode
    BY <1>1 DEF FreshInodesAreBlank, NoInode
  <2>1. i # job.ino
    BY <1>4, NumbersOfInodes, TinyFsAssumption DEF TableTypes
  <2> QED BY <1>1, <2>1 DEF Naming, FreshInodesAreBlank
<1>7. JobHasItsInode'
  BY <1>1, <1>2, <1>4 DEF JobHasItsInode
<1>8. FilesHaveOneLink'
  BY <1>2 DEF Naming, FilesHaveOneLink
<1>9. LiveInodesKeepTheirName'
  BY <1>1, <1>2, <1>3 DEF Naming, LiveInodesKeepTheirName
<1> QED BY <1>5, <1>6, <1>7, <1>8, <1>9 DEF Naming

LEMMA FinishKeepsRows ==
    ASSUME TableTypes, RowTypes, Naming, FinishCreate
    PROVE  RowTypes' /\ Naming'
<1> DEFINE row == [dir |-> job.dir, name |-> job.name, ino |-> job.ino]
           rest == dirents \ ({} \union DirFind(job.dir, job.name))
<1>1. /\ job # Idle /\ job \in Job /\ job' = Idle /\ job.ino \in Inodes
      /\ next_inode' = next_inode
      /\ \A i \in Inodes : i # job.ino => inodes'[i] = inodes[i]
      /\ inodes'[job.ino].mode = job.mode
      /\ inodes'[job.ino].links \in {1, 2}
      /\ job.mode = "file" => inodes'[job.ino].links = 1
  BY FinishDoes DEF Naming
<1>2. /\ job.ino \in FIRST_INODE..(next_inode - 1)
      /\ inodes[job.ino].mode = "none"
      /\ inodes[job.dir].mode = "dir" /\ job.dir # job.ino /\ job.dir \in Inodes
      /\ \A d \in dirents : d.ino # job.ino
  BY <1>1 DEF Naming, JobHasItsInode, Job
<1>3. /\ DirSet({}, job.dir, job.name, job.ino)
      /\ careful' => careful /\ DirFind(job.dir, job.name) = {}
                     /\ Cardinality(dirents) < MAX_DIRENTS
  BY Zenon DEF FinishCreate
<1>4. /\ IsFiniteSet(dirents') /\ Cardinality(dirents') <= MAX_DIRENTS
      /\ rest \subseteq dirents' /\ dirents' \subseteq rest \union {row}
      /\ Cardinality(rest) < MAX_DIRENTS => row \in dirents'
  BY <1>3, DirSetKeepsTable DEF RowTypes
<1>5. row \in Dirent /\ row.ino = job.ino /\ row.dir = job.dir
  BY <1>1 DEF Job, Dirent
<1>6. \A d \in dirents' : d = row \/ d \in dirents
  BY <1>4
<1>7. careful' => careful /\ rest = dirents /\ row \in dirents'
  BY <1>3, <1>4
<1> HIDE DEF row, rest
<1>8. RowTypes'
  BY <1>4, <1>5, <1>6 DEF RowTypes
<1>9. \A d \in dirents : d.ino # job.ino /\ d.dir # job.ino
                         /\ d.ino \in Inodes /\ d.dir \in Inodes
  BY <1>2 DEF RowTypes, Dirent, Naming, NamesReachLiveInodes
<1>10. NamesReachLiveInodes'
  <2>1. ASSUME NEW d \in dirents'
        PROVE  /\ inodes'[d.ino].links > 0 /\ inodes'[d.dir].mode = "dir" /\ d.ino # ROOT
               /\ \A c \in dirents' : c.ino = d.ino => c = d
    <3>1. CASE d = row
      <4>1. job.ino # ROOT
        BY <1>2, TinyFsAssumption
      <4> QED BY <1>1, <1>2, <1>5, <1>6, <3>1, <4>1
    <3>2. CASE d \in dirents /\ d # row
      BY <1>1, <1>5, <1>6, <1>9, <3>2 DEF Naming, NamesReachLiveInodes
    <3> QED BY <1>6, <3>1, <3>2
  <2> QED BY <2>1 DEF NamesReachLiveInodes
<1>11. FreshInodesAreBlank'
  <2> SUFFICES ASSUME NEW i \in Inodes, i >= next_inode PROVE inodes'[i] = NoInode
    BY <1>1 DEF FreshInodesAreBlank, NoInode
  <2>1. i # job.ino
    BY <1>2, NumbersOfInodes, TinyFsAssumption DEF TableTypes
  <2> QED BY <1>1, <2>1 DEF Naming, FreshInodesAreBlank
<1>12. JobHasItsInode'
  BY <1>1 DEF JobHasItsInode, Idle
<1>13. FilesHaveOneLink'
  BY <1>1 DEF Naming, FilesHaveOneLink
<1>14. LiveInodesKeepTheirName'
  <2> SUFFICES ASSUME careful', NEW i \in Inodes \ {ROOT}, inodes'[i].links > 0
               PROVE  \E d \in dirents' : d.ino = i
    BY DEF LiveInodesKeepTheirName
  <2>1. CASE i = job.ino
    BY <1>5, <1>7, <2>1
  <2>2. CASE i # job.ino
    <3>1. \E d \in dirents : d.ino = i
      BY <1>1, <1>7, <2>2 DEF Naming, LiveInodesKeepTheirName
    <3> QED BY <1>4, <1>7, <3>1
  <2> QED BY <2>1, <2>2
<1> QED BY <1>8, <1>10, <1>11, <1>12, <1>13, <1>14 DEF Naming

LEMMA UnlinkKeepsRows ==
    ASSUME TableTypes, RowTypes, Naming, NEW dir, NEW name, Unlink(dir, name)
    PROVE  RowTypes' /\ Naming'
<1>1. job = Idle /\ job' = job /\ next_inode' = next_inode /\ careful' = careful
  BY UnlinkDoes, Zenon DEF Naming
<1>2. PICK d \in dirents :
        /\ d.ino \in Inodes
        /\ inodes[d.ino].mode = "file"
        /\ dirents' = dirents \ {d}
        /\ inodes' = [inodes EXCEPT ![d.ino] = NoInode]
  BY UnlinkDoes DEF Naming
<1>3. /\ inodes'[d.ino] = NoInode
      /\ \A i \in Inodes : i # d.ino => inodes'[i] = inodes[i]
  BY <1>2 DEF TableTypes
<1>4. NoInode.mode = "none" /\ NoInode.links = 0
  BY DEF NoInode
<1>5. RowTypes'
  <2>1. IsFiniteSet(dirents') /\ Cardinality(dirents') <= Cardinality(dirents)
    BY <1>2, FS_Subset DEF RowTypes
  <2>2. Cardinality(dirents') \in Nat /\ Cardinality(dirents) \in Nat /\ MAX_DIRENTS \in Nat
    BY <2>1, FS_CardinalityType, TinyFsAssumption DEF RowTypes
  <2> QED BY <1>2, <2>1, <2>2 DEF RowTypes
<1>6. \A c \in dirents : c.ino \in Inodes /\ c.dir \in Inodes
  BY DEF RowTypes, Dirent
<1>7. NamesReachLiveInodes'
  <2>1. \A c \in dirents' : c \in dirents /\ c.ino # d.ino /\ c.dir # d.ino
    BY <1>2 DEF Naming, NamesReachLiveInodes
  <2> QED BY <1>2, <1>3, <1>6, <2>1 DEF Naming, NamesReachLiveInodes
<1>8. FreshInodesAreBlank'
  BY <1>1, <1>3 DEF Naming, FreshInodesAreBlank, NoInode
<1>9. JobHasItsInode'
  BY <1>1 DEF JobHasItsInode, Idle
<1>10. FilesHaveOneLink'
  BY <1>3, <1>4 DEF Naming, FilesHaveOneLink
<1>11. LiveInodesKeepTheirName'
  <2> SUFFICES ASSUME careful', NEW i \in Inodes \ {ROOT}, inodes'[i].links > 0
               PROVE  \E c \in dirents' : c.ino = i
    BY DEF LiveInodesKeepTheirName
  <2>1. i # d.ino
    BY <1>3, <1>4
  <2> QED BY <1>1, <1>2, <1>3, <2>1 DEF Naming, LiveInodesKeepTheirName
<1> QED BY <1>5, <1>7, <1>8, <1>9, <1>10, <1>11 DEF Naming

LEMMA RenameKeepsRows ==
    ASSUME TableTypes, RowTypes, Naming, NEW from \in Directories, NEW to \in Directories,
           NEW name \in Names, NEW new_name \in Names, Rename(from, name, to, new_name)
    PROVE  RowTypes' /\ Naming'
<1>1. job = Idle /\ UNCHANGED <<inodes, used, next_inode, job>>
  BY Zenon DEF Rename
<1>2. PICK d \in DirFind(from, name) :
         /\ DirSet({d}, to, new_name, d.ino)
         /\ careful' = (/\ careful
                        /\ DirFind(to, new_name) \subseteq {d}
                        /\ to \notin Below(d.ino))
  BY Zenon DEF Rename
<1> DEFINE row == [dir |-> to, name |-> new_name, ino |-> d.ino]
           rest == dirents \ ({d} \union DirFind(to, new_name))
<1>3. d \in dirents
  BY DEF DirFind
<1>4. /\ IsFiniteSet(dirents') /\ Cardinality(dirents') <= MAX_DIRENTS
      /\ rest \subseteq dirents' /\ dirents' \subseteq rest \union {row}
      /\ Cardinality(rest) < MAX_DIRENTS => row \in dirents'
  BY <1>2, DirSetKeepsTable DEF RowTypes
<1>5. row \in Dirent /\ row.ino = d.ino /\ row.dir = to /\ inodes[to].mode = "dir"
  BY <1>3 DEF RowTypes, Dirent, Directories
<1>6. \A c \in dirents' : c = row \/ (c \in dirents /\ c # d)
  BY <1>4
<1>7. careful' => careful /\ rest = dirents \ {d}
  BY <1>2
<1>8. Cardinality(dirents \ {d}) < MAX_DIRENTS
  <2>1. Cardinality(dirents \ {d}) = Cardinality(dirents) - 1
    BY <1>3, FS_RemoveElement DEF RowTypes
  <2>2. Cardinality(dirents) \in Nat /\ MAX_DIRENTS \in Nat
    BY FS_CardinalityType, TinyFsAssumption DEF RowTypes
  <2> QED BY <2>1, <2>2 DEF RowTypes
<1>9. careful' => careful /\ row \in dirents' /\ \A c \in dirents : c # d => c \in dirents'
  BY <1>4, <1>7, <1>8
<1> HIDE DEF row, rest
<1>10. RowTypes'
  BY <1>4, <1>5, <1>6 DEF RowTypes
<1>11. NamesReachLiveInodes'
  BY <1>1, <1>3, <1>5, <1>6 DEF Naming, NamesReachLiveInodes
<1>12. FreshInodesAreBlank' /\ FilesHaveOneLink'
  BY <1>1 DEF Naming, FreshInodesAreBlank, FilesHaveOneLink, NoInode
<1>13. JobHasItsInode'
  BY <1>1 DEF JobHasItsInode, Idle
<1>14. LiveInodesKeepTheirName'
  <2> SUFFICES ASSUME careful', NEW i \in Inodes \ {ROOT}, inodes[i].links > 0
               PROVE  \E c \in dirents' : c.ino = i
    BY <1>1 DEF LiveInodesKeepTheirName
  <2>1. PICK c \in dirents : c.ino = i
    BY <1>1, <1>9 DEF Naming, LiveInodesKeepTheirName
  <2> QED BY <1>5, <1>9, <2>1
<1> QED BY <1>10, <1>11, <1>12, <1>13, <1>14 DEF Naming

-----------------------------------------------------------------------------
(* The invariant                                                           *)

LEMMA InitEstablishesInv == Init => TinyFsInv
<1> SUFFICES ASSUME Init PROVE TinyFsInv
  OBVIOUS
<1> DEFINE root == [NoInode EXCEPT !.mode = "dir", !.links = 2]
<1>1. inodes = [i \in Inodes |-> IF i = ROOT THEN root ELSE NoInode]
      /\ used = Metadata /\ dirents = {} /\ next_inode = FIRST_INODE /\ job = Idle
      /\ careful = TRUE
  BY Zenon DEF Init, Metadata
<1>2. root \in Inode /\ root.mode = "dir" /\ root.links = 2 /\ root.extents = <<>>
  <2>1. root = [mode |-> "dir", links |-> 2, size |-> 0, extents |-> <<>>]
    BY RootInode
  <2> HIDE DEF root
  <2>2. root \in Inode
    BY <2>1 DEF Inode, Modes
  <2>3. root.mode = "dir" /\ root.links = 2 /\ root.extents = <<>>
    BY <2>1
  <2> QED BY <2>2, <2>3
<1>3. NoInode.mode = "none" /\ NoInode.links = 0 /\ NoInode.extents = <<>>
  BY DEF NoInode
<1> HIDE DEF root
<1>4. \A i \in Inodes : inodes[i].extents = <<>>
  BY <1>1, <1>2, <1>3
<1>5. TableTypes
  <2>1. inodes \in [Inodes -> Inode]
    BY <1>1, <1>2, NoInodeIsInode
  <2>2. used \subseteq Blocks
    BY <1>1, TinyFsAssumption DEF Metadata, Blocks
  <2>3. next_inode \in FIRST_INODE..NINODES
    BY <1>1, TinyFsAssumption
  <2> QED BY <1>1, <2>1, <2>2, <2>3 DEF TableTypes
<1>6. RowTypes
  <2>1. MAX_DIRENTS \in Nat
    BY TinyFsAssumption
  <2> QED BY <1>1, <2>1, FS_EmptySet DEF RowTypes
<1>7. Owners
  <2>1. \A i \in Inodes : BlocksOf(i) = {}
    BY <1>4, BlankHasNoBlocks
  <2>2. BitmapMatchesInodes
    BY <1>1, <2>1 DEF BitmapMatchesInodes
  <2>3. \A i \in Inodes : Len(inodes[i].extents) = 0
    BY <1>4
  <2>4. NoBlockHasTwoOwners
    BY <2>1, <2>3 DEF NoBlockHasTwoOwners
  <2> QED BY <2>2, <2>4 DEF Owners
<1>8. NamesReachLiveInodes
  BY <1>1 DEF NamesReachLiveInodes
<1>9. FreshInodesAreBlank
  <2> SUFFICES ASSUME NEW i \in Inodes, i >= next_inode PROVE inodes[i] = NoInode
    BY DEF FreshInodesAreBlank
  <2>1. i # ROOT
    BY <1>1, TinyFsAssumption, NumbersOfInodes
  <2> QED BY <1>1, <2>1
<1>10. JobHasItsInode
  BY <1>1 DEF JobHasItsInode
<1>11. FilesHaveOneLink
  BY <1>1, <1>2, <1>3 DEF FilesHaveOneLink
<1>12. LiveInodesKeepTheirName
  BY <1>1, <1>3 DEF LiveInodesKeepTheirName
<1>13. careful \in BOOLEAN
  BY <1>1
<1> QED BY <1>5, <1>6, <1>7, <1>8, <1>9, <1>10, <1>11, <1>12, <1>13, InvByPart, Zenon DEF Naming

LEMMA StepKeepsParts ==
    ASSUME TableTypes, RowTypes, careful \in BOOLEAN, Owners, Naming, [Next]_vars
    PROVE  (TableTypes /\ RowTypes /\ careful \in BOOLEAN /\ Owners /\ Naming)'
<1>1. ASSUME NEW dir \in Directories, NEW name \in Names, NEW bytes \in Sizes \union {0},
             NEW mode \in {"file", "dir"}, StartCreate(dir, name, bytes, mode)
      PROVE  (TableTypes /\ RowTypes /\ careful \in BOOLEAN /\ Owners /\ Naming)'
  <2>1. Naming'
    BY <1>1, StartKeepsNaming
  <2>2. FreshInodesAreBlank
    BY DEF Naming
  <2>3. /\ inodes' \in [Inodes -> Inode] /\ next_inode' \in FIRST_INODE..NINODES
        /\ job' \in Job /\ UNCHANGED <<used, dirents, careful>>
    BY <1>1, <2>2, StartCreateDoes, Zenon
  <2>4. \A i \in Inodes : inodes'[i].extents = inodes[i].extents
    <3>1. inodes[next_inode].extents = <<>> /\ inodes'[next_inode].extents = <<>>
      BY <1>1, <2>2, StartCreateDoes DEF NoInode
    <3>2. \A i \in Inodes : i # next_inode => inodes'[i] = inodes[i]
      BY <1>1, <2>2, StartCreateDoes, Zenon
    <3> QED BY <3>1, <3>2
  <2>5. Owners'
    BY <2>3, <2>4, OwnersUntouched
  <2>6. TableTypes' /\ RowTypes'
    BY <2>3 DEF TableTypes, RowTypes
  <2> QED BY <2>1, <2>3, <2>5, <2>6
<1>2. CASE AllocateExtent
  <2>1. Naming' /\ Owners'
    BY <1>2, AllocateKeepsNaming, AllocateKeepsOwners
  <2>2. /\ inodes' \in [Inodes -> Inode] /\ used' \subseteq Blocks
        /\ job' \in Job /\ UNCHANGED <<next_inode, dirents, careful>>
    <3>1. inodes' \in [Inodes -> Inode] /\ job' \in Job /\ UNCHANGED <<next_inode, dirents, careful>>
      BY <1>2, AllocateDoes, Zenon
    <3>2. \E e \in Extent : used' = used \union ExtentBlocks(e) /\ ExtentBlocks(e) \subseteq Blocks
      BY <1>2, AllocateDoes, Zenon
    <3> QED BY <3>1, <3>2 DEF TableTypes
  <2>3. TableTypes' /\ RowTypes'
    BY <2>2 DEF TableTypes, RowTypes
  <2> QED BY <2>1, <2>2, <2>3
<1>3. CASE FinishCreate
  <2>1. RowTypes' /\ Naming'
    BY <1>3, FinishKeepsRows
  <2>2. JobHasItsInode
    BY DEF Naming
  <2>3. /\ job' = Idle /\ UNCHANGED <<used, next_inode>> /\ inodes' \in [Inodes -> Inode]
        /\ \A i \in Inodes : inodes'[i].extents = inodes[i].extents
    BY <1>3, <2>2, FinishDoes
  <2>4. TableTypes'
    BY <2>3 DEF TableTypes
  <2>5. Owners'
    BY <2>3, OwnersUntouched
  <2>6. careful' \in BOOLEAN
    BY <1>3, Zenon DEF FinishCreate
  <2> QED BY <2>1, <2>4, <2>5, <2>6
<1>4. ASSUME NEW dir \in Directories, NEW name \in Names, Unlink(dir, name)
      PROVE  (TableTypes /\ RowTypes /\ careful \in BOOLEAN /\ Owners /\ Naming)'
  <2>1. RowTypes' /\ Naming'
    BY <1>4, UnlinkKeepsRows
  <2>2. FilesHaveOneLink
    BY DEF Naming
  <2>3. Owners'
    BY <1>4, <2>2, UnlinkKeepsOwners
  <2>4. UNCHANGED <<next_inode, job, careful>>
    BY <1>4, <2>2, UnlinkDoes, Zenon
  <2>5. PICK d \in dirents : /\ d.ino \in Inodes
                             /\ inodes' = [inodes EXCEPT ![d.ino] = NoInode]
                             /\ used' = used \ BlocksOf(d.ino)
    BY <1>4, <2>2, UnlinkDoes
  <2>6. TableTypes'
    BY <2>4, <2>5, NoInodeIsInode DEF TableTypes
  <2> QED BY <2>1, <2>3, <2>4, <2>6
<1>5. ASSUME NEW from \in Directories, NEW to \in Directories, NEW name \in Names,
             NEW new_name \in Names, Rename(from, name, to, new_name)
      PROVE  (TableTypes /\ RowTypes /\ careful \in BOOLEAN /\ Owners /\ Naming)'
  <2>1. RowTypes' /\ Naming'
    BY <1>5, RenameKeepsRows
  <2>2. UNCHANGED <<inodes, used, next_inode, job>> /\ careful' \in BOOLEAN
    BY <1>5, Zenon DEF Rename
  <2>3. TableTypes' /\ Owners'
    BY <2>2, OwnersUntouched DEF TableTypes
  <2> QED BY <2>1, <2>2, <2>3
<1>6. CASE UNCHANGED vars
  <2>1. UNCHANGED <<inodes, used, dirents, next_inode, job, careful>>
    BY <1>6 DEF vars
  <2>2. Owners'
    BY <2>1, OwnersUntouched
  <2>3. Naming'
    BY <2>1 DEF Naming, NamesReachLiveInodes, FreshInodesAreBlank, JobHasItsInode,
                FilesHaveOneLink, LiveInodesKeepTheirName
  <2>4. TableTypes' /\ RowTypes'
    BY <2>1 DEF TableTypes, RowTypes
  <2> QED BY <2>1, <2>2, <2>3, <2>4
<1> QED BY <1>1, <1>2, <1>3, <1>4, <1>5, <1>6, Zenon DEF Next

(* The inductive invariant holds whatever is created, deleted and renamed. *)
THEOREM TinyFsInvHolds == Spec => []TinyFsInv
<1>1. TinyFsInv /\ [Next]_vars => TinyFsInv'
  BY StepKeepsParts, InvByPart, PTL
<1> QED BY <1>1, InitEstablishesInv, PTL DEF Spec

(* TypeOK: the tables keep their types, and the directory table never      *)
(* outgrows its array.                                                     *)
THEOREM TypeCorrect == Spec => []TypeOK
BY TinyFsInvHolds, PTL DEF TinyFsInv

(* NoBlockHasTwoOwners: no block belongs to two files, to two extents of   *)
(* one file, or to a file and the metadata.                                *)
THEOREM OneOwnerPerBlock == Spec => []NoBlockHasTwoOwners
BY TinyFsInvHolds, PTL DEF TinyFsInv

(* BitmapMatchesInodes: the bitmap is what a filesystem check would        *)
(* rebuild from the inodes.                                                *)
THEOREM BitmapIsRight == Spec => []BitmapMatchesInodes
BY TinyFsInvHolds, PTL DEF TinyFsInv

(* NamesReachLiveInodes: no row leads to a freed inode, none is in a thing *)
(* that is no directory, and no inode has two names.                       *)
THEOREM NamesAreLive == Spec => []NamesReachLiveInodes
BY TinyFsInvHolds, PTL DEF TinyFsInv

(* While the callers are careful, every inode in use has a name: the half  *)
(* of CarefulUseLosesNothing that needs no path.                           *)
THEOREM CarefulUseKeepsNames == Spec => []LiveInodesKeepTheirName
BY TinyFsInvHolds, PTL DEF TinyFsInv

-----------------------------------------------------------------------------
(* Sizes: counting blocks                                                  *)

LEMMA NoBlocksForNoBytes == BlocksFor(0) = 0
<1> DEFINE q == BlocksFor(0)
<1>1. q \in Nat /\ BLOCK * q < BLOCK /\ BLOCK \in Nat /\ BLOCK > 0
  BY BlocksForRoundsUp, TinyFsAssumption
<1> HIDE DEF q
<1>2. SUFFICES ASSUME q >= 1 PROVE FALSE
  BY <1>1 DEF q
<1>3. BLOCK * q >= BLOCK * 1
  BY <1>1, <1>2
<1> QED BY <1>1, <1>3

LEMMA CountingTheDisk ==
    ASSUME TableTypes, Owners
    PROVE  /\ IsFiniteSet(used) /\ Cardinality(used) \in Nat
           /\ IsFiniteSet(Blocks \ used)
           /\ FreeBlocks \in Nat /\ FreeBlocks = NBLOCKS - Cardinality(used)
           /\ \A i \in Inodes : IsFiniteSet(BlocksOf(i)) /\ Cardinality(BlocksOf(i)) \in Nat
<1>1. IsFiniteSet(Blocks) /\ Cardinality(Blocks) = NBLOCKS
  <2>1. 0 \in Int /\ NBLOCKS - 1 \in Int /\ NBLOCKS \in Nat
    BY TinyFsAssumption
  <2>2. IsFiniteSet(0..(NBLOCKS - 1))
        /\ Cardinality(0..(NBLOCKS - 1)) = IF 0 > NBLOCKS - 1 THEN 0 ELSE (NBLOCKS - 1) - 0 + 1
    BY <2>1, FS_Interval
  <2> QED BY <2>1, <2>2 DEF Blocks
<1>2. used \subseteq Blocks
  BY DEF TableTypes
<1>3. IsFiniteSet(used) /\ Cardinality(used) \in Nat
  BY <1>1, <1>2, FS_Subset, FS_CardinalityType
<1>4. IsFiniteSet(Blocks \ used) /\ FreeBlocks \in Nat
  BY <1>1, FS_Difference, FS_CardinalityType DEF FreeBlocks
<1>5. FreeBlocks = NBLOCKS - Cardinality(used)
  <2>1. Blocks \intersect used = used
    BY <1>2
  <2>2. Cardinality(Blocks \ used) = Cardinality(Blocks) - Cardinality(Blocks \intersect used)
    BY <1>1, FS_Difference
  <2> QED BY <1>1, <2>1, <2>2 DEF FreeBlocks
<1>6. ASSUME NEW i \in Inodes PROVE IsFiniteSet(BlocksOf(i)) /\ Cardinality(BlocksOf(i)) \in Nat
  <2>1. BlocksOf(i) \subseteq used
    BY DEF Owners, BitmapMatchesInodes
  <2> QED BY <1>3, <2>1, FS_Subset, FS_CardinalityType
<1> QED BY <1>3, <1>4, <1>5, <1>6

LEMMA DisjointUnion ==
    ASSUME NEW S, NEW T, IsFiniteSet(S), IsFiniteSet(T), S \intersect T = {}
    PROVE  IsFiniteSet(S \union T) /\ Cardinality(S \union T) = Cardinality(S) + Cardinality(T)
<1>1. Cardinality(S \intersect T) = 0
  BY FS_EmptySet
<1>2. Cardinality(S) \in Nat /\ Cardinality(T) \in Nat
  BY FS_CardinalityType
<1>3. IsFiniteSet(S \union T)
      /\ Cardinality(S \union T) = Cardinality(S) + Cardinality(T) - Cardinality(S \intersect T)
  BY FS_Union
<1> QED BY <1>1, <1>2, <1>3

LEMMA CountingAnExtent ==
    ASSUME NEW e \in Extent
    PROVE  /\ e.start \in Nat /\ e.count \in Nat
           /\ IsFiniteSet(ExtentBlocks(e)) /\ Cardinality(ExtentBlocks(e)) = e.count
<1>1. e.start \in Nat /\ e.count \in Nat
  BY TinyFsAssumption DEF Extent
<1> DEFINE a == e.start
           b == e.start + e.count - 1
<1>2. a \in Int /\ b \in Int
  BY <1>1
<1>3. IsFiniteSet(a..b) /\ Cardinality(a..b) = IF a > b THEN 0 ELSE b - a + 1
  <2> HIDE DEF a, b
  <2> QED BY <1>2, FS_Interval
<1> QED BY <1>1, <1>3 DEF ExtentBlocks

(* Where a block is free, what fs_alloc returns is not empty. *)
LEMMA FirstFitTakesABlock ==
    ASSUME TableTypes, Owners, FreeBlocks > 0,
           NEW want \in Nat, want > 0, NEW e \in Extent, FirstFit(e, want)
    PROVE  e.count > 0
<1>1. e.start \in Nat /\ e.count \in Nat
  BY CountingAnExtent
<1>2. PICK b \in Blocks : b \notin used
  <2>1. Blocks \ used # {}
    BY FS_EmptySet, CountingTheDisk DEF FreeBlocks
  <2> QED BY <2>1
<1>3. SUFFICES ASSUME e.count = 0 PROVE FALSE
  BY <1>1
<1>4. e.start \in {NBLOCKS} \union used
  BY <1>1, <1>3 DEF FirstFit
<1>5. e.start = NBLOCKS
  BY <1>4 DEF FirstFit, IsFirstFree
<1>6. b \in 0..(e.start - 1)
  BY <1>2, <1>5 DEF Blocks
<1> QED BY <1>2, <1>6 DEF FirstFit, IsFirstFree

(* Steps that leave bitmap, extents and sizes as they are between calls. *)
Sizing == BlocksAreAccounted /\ NeedIsFree /\ ExtentsAreNotEmpty

LEMMA SizingUntouched ==
    ASSUME Sizing, UNCHANGED <<inodes, used, job>>
    PROVE  Sizing'
BY DEF Sizing, BlocksAreAccounted, NeedIsFree, ExtentsAreNotEmpty, BlocksOf, FreeBlocks

(* The check of create_checked reserves nothing, but nobody else allocates *)
(* before the creation is done.                                            *)
LEMMA StartKeepsSizing ==
    ASSUME TableTypes, Naming, Owners, Sizing,
           NEW dir \in Directories, NEW name \in Names,
           NEW bytes \in Sizes \union {0}, NEW mode \in {"file", "dir"},
           StartCreate(dir, name, bytes, mode)
    PROVE  Sizing'
<1>0. FreshInodesAreBlank
  BY DEF Naming
<1>1. PICK n \in Inodes : n = next_inode
  BY <1>0, StartCreateDoes
<1>2. /\ \A i \in Inodes : i # n => inodes'[i] = inodes[i]
      /\ inodes'[n].size = bytes /\ inodes'[n].extents = <<>>
      /\ job = Idle /\ job' \in Job /\ job'.ino = n
      /\ job'.need = BlocksFor(bytes) /\ BlocksFor(bytes) <= FreeBlocks
      /\ used' = used
  BY <1>0, <1>1, StartCreateDoes
<1>3. job' # Idle /\ BlocksFor(bytes) \in Nat
  BY <1>2, JobIsNotIdle, BlocksForRoundsUp, TinyFsAssumption
<1>4. BlocksOf(n)' = {} /\ Cardinality(BlocksOf(n)') = 0 /\ Len(inodes'[n].extents) = 0
  <2>1. Len(inodes'[n].extents) = 0
    BY <1>2
  <2>2. BlocksOf(n)' = {}
    BY <1>2 DEF BlocksOf
  <2> QED BY <2>1, <2>2, FS_EmptySet
<1>5. \A i \in Inodes : i # n => BlocksOf(i)' = BlocksOf(i)
  BY <1>2, SameExtentsSameBlocks
<1>6. FreeBlocks' = FreeBlocks
  BY <1>2 DEF FreeBlocks, Blocks
<1>7. NeedIsFree'
  BY <1>2, <1>6 DEF NeedIsFree
<1>8. ExtentsAreNotEmpty'
  <2> SUFFICES ASSUME NEW i \in Inodes
               PROVE  Len(inodes'[i].extents) <= Cardinality(BlocksOf(i)')
    BY DEF ExtentsAreNotEmpty
  <2>1. CASE i = n
    <3>1. Len(inodes'[n].extents) <= Cardinality(BlocksOf(n)')
      BY <1>4
    <3> QED BY <2>1, <3>1, Zenon
  <2>2. CASE i # n
    BY <1>2, <1>5, <2>2 DEF Sizing, ExtentsAreNotEmpty
  <2> QED BY <2>1, <2>2
<1>9. BlocksAreAccounted'
  <2> SUFFICES ASSUME NEW i \in Inodes
               PROVE  /\ n = i =>
                           Cardinality(BlocksOf(i)') + job'.need = BlocksFor(inodes'[i].size)
                      /\ n # i => Cardinality(BlocksOf(i)') = BlocksFor(inodes'[i].size)
    BY <1>2, <1>3, Zenon DEF BlocksAreAccounted, BlocksFor, Idle
  <2>1. CASE i = n
    <3>1. Cardinality(BlocksOf(n)') + job'.need = BlocksFor(bytes)
      BY <1>2, <1>3, <1>4
    <3> QED BY <1>2, <2>1, <3>1, Zenon
  <2>2. CASE i # n
    BY <1>2, <1>5, <2>2 DEF Sizing, BlocksAreAccounted
  <2> QED BY <2>1, <2>2
<1> QED BY <1>7, <1>8, <1>9 DEF Sizing

(* Every turn of the loop finds a block at least, since as many are free   *)
(* as the creation still needs.                                            *)
LEMMA AllocateKeepsSizing ==
    ASSUME TableTypes, Owners, Sizing, AllocateExtent
    PROVE  Sizing'
<1>0. PICK n \in Inodes : n = job.ino
  BY AllocateDoes
<1>1. /\ job # Idle /\ job.need \in Nat /\ job.need > 0
      /\ job' \in Job /\ job'.ino = n
      /\ \A i \in Inodes : i # n => inodes'[i] = inodes[i]
      /\ inodes'[n].size = inodes[n].size
  BY <1>0, AllocateDoes
<1>2. PICK e \in Extent :
        /\ FirstFit(e, job.need)
        /\ used' = used \union ExtentBlocks(e)
        /\ inodes'[n].extents = Append(inodes[n].extents, e)
        /\ job'.need = job.need - e.count
        /\ ExtentBlocks(e) \subseteq Blocks
        /\ ExtentBlocks(e) \intersect used = {}
  BY <1>0, AllocateDoes
<1>3. /\ e.start \in Nat /\ e.count \in Nat
      /\ IsFiniteSet(ExtentBlocks(e)) /\ Cardinality(ExtentBlocks(e)) = e.count
  BY CountingAnExtent
<1>4. /\ BlocksOf(n)' = BlocksOf(n) \union ExtentBlocks(e)
      /\ Len(inodes'[n].extents) = Len(inodes[n].extents) + 1
      /\ Len(inodes[n].extents) \in Nat
  BY <1>2, AppendedExtent, InodeFields
<1>5. \A i \in Inodes : i # n => BlocksOf(i)' = BlocksOf(i)
  BY <1>1, SameExtentsSameBlocks
<1>6. /\ IsFiniteSet(BlocksOf(n)) /\ Cardinality(BlocksOf(n)) \in Nat
      /\ FreeBlocks \in Nat /\ IsFiniteSet(Blocks \ used)
  BY CountingTheDisk
<1>7. Cardinality(BlocksOf(n)') = Cardinality(BlocksOf(n)) + e.count
  <2>1. BlocksOf(n) \intersect ExtentBlocks(e) = {}
    BY <1>2 DEF Owners, BitmapMatchesInodes
  <2> QED BY <1>3, <1>4, <1>6, <2>1, DisjointUnion
<1>8. FreeBlocks' = FreeBlocks - e.count
  <2>1. Blocks \ used' = (Blocks \ used) \ ExtentBlocks(e)
    BY <1>2
  <2>2. (Blocks \ used) \intersect ExtentBlocks(e) = ExtentBlocks(e)
    BY <1>2
  <2>3. Cardinality((Blocks \ used) \ ExtentBlocks(e)) = Cardinality(Blocks \ used) - e.count
    <3>1. Cardinality((Blocks \ used) \ ExtentBlocks(e))
            = Cardinality(Blocks \ used) - Cardinality((Blocks \ used) \intersect ExtentBlocks(e))
      BY <1>6, FS_Difference
    <3> QED BY <1>3, <2>2, <3>1
  <2> QED BY <2>1, <2>3 DEF FreeBlocks, Blocks
<1>9. job.need <= FreeBlocks
  BY <1>1 DEF Sizing, NeedIsFree
<1>10. e.count > 0
  BY <1>1, <1>2, <1>6, <1>9, FirstFitTakesABlock
<1>11. NeedIsFree'
  BY <1>1, <1>2, <1>3, <1>6, <1>8, <1>9 DEF NeedIsFree
<1>12. ExtentsAreNotEmpty'
  <2> SUFFICES ASSUME NEW i \in Inodes
               PROVE  Len(inodes'[i].extents) <= Cardinality(BlocksOf(i)')
    BY DEF ExtentsAreNotEmpty
  <2>1. CASE i = n
    <3>1. Len(inodes[n].extents) <= Cardinality(BlocksOf(n))
      BY DEF Sizing, ExtentsAreNotEmpty
    <3>2. Len(inodes'[n].extents) <= Cardinality(BlocksOf(n)')
      BY <1>3, <1>4, <1>6, <1>7, <1>10, <3>1
    <3> QED BY <2>1, <3>2, Zenon
  <2>2. CASE i # n
    BY <1>1, <1>5, <2>2 DEF Sizing, ExtentsAreNotEmpty
  <2> QED BY <2>1, <2>2
<1>13. BlocksAreAccounted'
  <2>1. job' # Idle
    BY <1>1, JobIsNotIdle
  <2> SUFFICES ASSUME NEW i \in Inodes
               PROVE  /\ n = i =>
                           Cardinality(BlocksOf(i)') + job'.need = BlocksFor(inodes'[i].size)
                      /\ n # i => Cardinality(BlocksOf(i)') = BlocksFor(inodes'[i].size)
    BY <1>1, <2>1, Zenon DEF BlocksAreAccounted, BlocksFor, Idle
  <2>2. CASE i = n
    <3>1. Cardinality(BlocksOf(n)) + job.need = BlocksFor(inodes[n].size)
      BY <1>0, <1>1 DEF Sizing, BlocksAreAccounted
    <3>2. Cardinality(BlocksOf(n)') + job'.need = Cardinality(BlocksOf(n)) + job.need
      BY <1>1, <1>2, <1>3, <1>6, <1>7
    <3> QED BY <1>1, <2>2, <3>1, <3>2
  <2>3. CASE i # n
    BY <1>0, <1>1, <1>5, <2>3 DEF Sizing, BlocksAreAccounted
  <2> QED BY <2>2, <2>3
<1> QED BY <1>11, <1>12, <1>13 DEF Sizing

(* The loop of fs_create ends with nothing left to allocate: an inode that *)
(* has used up its extents holds every data block of the disk.             *)
LEMMA FinishLacksNothing ==
    ASSUME NBLOCKS - METADATA <= MAX_EXTENTS,
           TableTypes, Owners, Naming, Sizing, FinishCreate
    PROVE  job.need = 0
<1>1. job # Idle /\ job \in Job /\ job.need \in Nat
  BY DEF FinishCreate, TableTypes, Job
<1>2. PICK n \in Inodes : n = job.ino
  BY <1>1 DEF Job
<1>3. SUFFICES ASSUME job.need > 0 PROVE FALSE
  BY <1>1
<1>4. ~(Len(inodes[n].extents) < MAX_EXTENTS)
  BY <1>1, <1>2, <1>3 DEF FinishCreate, InLoop
<1>5. Len(inodes[n].extents) \in Nat /\ {NBLOCKS, METADATA, MAX_EXTENTS} \subseteq Nat
  BY InodeFields, TinyFsAssumption
<1>6. Len(inodes[n].extents) <= Cardinality(BlocksOf(n))
  BY DEF Sizing, ExtentsAreNotEmpty
<1>7. /\ IsFiniteSet(used) /\ Cardinality(used) \in Nat
      /\ FreeBlocks \in Nat /\ FreeBlocks = NBLOCKS - Cardinality(used)
      /\ IsFiniteSet(BlocksOf(n)) /\ Cardinality(BlocksOf(n)) \in Nat
  BY CountingTheDisk
<1>8. IsFiniteSet(Metadata) /\ Cardinality(Metadata) = METADATA
  <2>1. 0 \in Int /\ METADATA - 1 \in Int /\ METADATA \in Nat
    BY TinyFsAssumption
  <2>2. IsFiniteSet(0..(METADATA - 1))
        /\ Cardinality(0..(METADATA - 1)) = IF 0 > METADATA - 1 THEN 0 ELSE (METADATA - 1) - 0 + 1
    BY <2>1, FS_Interval
  <2> QED BY <2>1, <2>2 DEF Metadata
<1>9. METADATA + Cardinality(BlocksOf(n)) <= Cardinality(used)
  <2>1. Metadata \intersect BlocksOf(n) = {}
    BY DEF Owners, NoBlockHasTwoOwners
  <2>2. Metadata \union BlocksOf(n) \subseteq used
    BY DEF Owners, BitmapMatchesInodes
  <2>3. Cardinality(Metadata \union BlocksOf(n)) = METADATA + Cardinality(BlocksOf(n))
    BY <1>7, <1>8, <2>1, DisjointUnion
  <2>4. Cardinality(Metadata \union BlocksOf(n)) <= Cardinality(used)
    BY <1>7, <2>2, FS_Subset
  <2> QED BY <2>3, <2>4
<1>10. job.need <= FreeBlocks
  BY <1>1 DEF Sizing, NeedIsFree
<1> QED BY <1>1, <1>3, <1>4, <1>5, <1>6, <1>7, <1>9, <1>10

LEMMA FinishKeepsSizing ==
    ASSUME NBLOCKS - METADATA <= MAX_EXTENTS,
           TableTypes, Owners, Naming, Sizing, FinishCreate
    PROVE  Sizing'
<1>1. JobHasItsInode
  BY DEF Naming
<1>2. /\ job # Idle /\ job' = Idle /\ job.ino \in Inodes
      /\ \A i \in Inodes : inodes'[i].size = inodes[i].size /\ inodes'[i].extents = inodes[i].extents
  BY <1>1, FinishDoes
<1>3. \A i \in Inodes : BlocksOf(i)' = BlocksOf(i)
  BY <1>2, SameExtentsSameBlocks
<1>4. job.need = 0
  BY FinishLacksNothing
<1>5. \A i \in Inodes : Cardinality(BlocksOf(i)) = BlocksFor(inodes[i].size)
  <2>1. \A i \in Inodes : Cardinality(BlocksOf(i)) \in Nat
    BY CountingTheDisk
  <2> QED BY <1>2, <1>4, <2>1 DEF Sizing, BlocksAreAccounted
<1>6. BlocksAreAccounted'
  BY <1>2, <1>3, <1>5 DEF BlocksAreAccounted, Idle, BlocksFor
<1>7. NeedIsFree'
  BY <1>2 DEF NeedIsFree, Idle
<1>8. ExtentsAreNotEmpty'
  BY <1>2, <1>3 DEF Sizing, ExtentsAreNotEmpty
<1> QED BY <1>6, <1>7, <1>8 DEF Sizing

LEMMA UnlinkKeepsSizing ==
    ASSUME TableTypes, RowTypes, Naming, Sizing, NEW dir, NEW name, Unlink(dir, name)
    PROVE  Sizing'
<1>1. FilesHaveOneLink
  BY DEF Naming
<1>2. job = Idle /\ job' = Idle
  BY <1>1, UnlinkDoes
<1>3. PICK u \in Inodes : inodes' = [inodes EXCEPT ![u] = NoInode]
  BY <1>1, UnlinkDoes
<1>4. /\ inodes'[u].size = 0 /\ inodes'[u].extents = <<>>
      /\ \A i \in Inodes : i # u => inodes'[i] = inodes[i]
  BY <1>3 DEF TableTypes, NoInode
<1>5. \A i \in Inodes : i # u => BlocksOf(i)' = BlocksOf(i)
  BY <1>4, SameExtentsSameBlocks
<1>6. Cardinality(BlocksOf(u)') = 0 /\ Len(inodes'[u].extents) = 0
  <2>1. Len(inodes'[u].extents) = 0
    BY <1>4
  <2>2. BlocksOf(u)' = {}
    BY <1>4 DEF BlocksOf
  <2> QED BY <2>1, <2>2, FS_EmptySet
<1>7. ASSUME NEW i \in Inodes
      PROVE  /\ Cardinality(BlocksOf(i)') = BlocksFor(inodes'[i].size)
             /\ Len(inodes'[i].extents) <= Cardinality(BlocksOf(i)')
  <2>1. CASE i = u
    <3>1. /\ Cardinality(BlocksOf(u)') = BlocksFor(inodes'[u].size)
          /\ Len(inodes'[u].extents) <= Cardinality(BlocksOf(u)')
      BY <1>4, <1>6, NoBlocksForNoBytes
    <3> QED BY <2>1, <3>1, Zenon
  <2>2. CASE i # u
    BY <1>2, <1>4, <1>5, <2>2 DEF Sizing, BlocksAreAccounted, ExtentsAreNotEmpty
  <2> QED BY <2>1, <2>2
<1>8. BlocksAreAccounted'
  BY <1>2, <1>7 DEF BlocksAreAccounted, Idle, BlocksFor
<1>9. NeedIsFree' /\ ExtentsAreNotEmpty'
  BY <1>2, <1>7 DEF NeedIsFree, ExtentsAreNotEmpty, Idle
<1> QED BY <1>8, <1>9 DEF Sizing

LEMMA InitEstablishesSizing == Init => Sizing
<1> SUFFICES ASSUME Init PROVE Sizing
  OBVIOUS
<1>1. \A i \in Inodes : inodes[i].extents = <<>> /\ inodes[i].size = 0
  BY DEF Init, NoInode
<1>2. job = Idle
  BY DEF Init
<1>3. \A i \in Inodes : Len(inodes[i].extents) = 0
  BY <1>1
<1>4. \A i \in Inodes : BlocksOf(i) = {}
  BY <1>1, BlankHasNoBlocks
<1>5. \A i \in Inodes : Cardinality(BlocksOf(i)) = 0
  BY <1>4, FS_EmptySet
<1>6. BlocksAreAccounted
  BY <1>1, <1>2, <1>5, NoBlocksForNoBytes DEF BlocksAreAccounted
<1>7. NeedIsFree /\ ExtentsAreNotEmpty
  BY <1>2, <1>3, <1>5 DEF NeedIsFree, ExtentsAreNotEmpty
<1> QED BY <1>6, <1>7 DEF Sizing

(* SizeCovered: once created, a file's extents hold exactly the blocks its *)
(* size needs, if an inode has room for an extent per data block, as the   *)
(* growing list of extents of the C++ samples has.                         *)
THEOREM SizesAreCovered ==
    ASSUME NBLOCKS - METADATA <= MAX_EXTENTS
    PROVE  Spec => []SizeCovered
<1>1. TinyFsInv /\ Sizing /\ [Next]_vars => Sizing'
  <2> SUFFICES ASSUME TinyFsInv, Sizing, [Next]_vars PROVE Sizing'
    OBVIOUS
  <2>1. TableTypes /\ RowTypes /\ Owners /\ Naming
    BY InvByPart, Zenon
  <2>2. ASSUME NEW dir \in Directories, NEW name \in Names, NEW bytes \in Sizes \union {0},
               NEW mode \in {"file", "dir"}, StartCreate(dir, name, bytes, mode)
        PROVE  Sizing'
    BY <2>1, <2>2, StartKeepsSizing
  <2>3. CASE AllocateExtent
    BY <2>1, <2>3, AllocateKeepsSizing
  <2>4. CASE FinishCreate
    BY <2>1, <2>4, FinishKeepsSizing
  <2>5. ASSUME NEW dir \in Directories, NEW name \in Names, Unlink(dir, name)
        PROVE  Sizing'
    BY <2>1, <2>5, UnlinkKeepsSizing
  <2>6. ASSUME NEW from \in Directories, NEW to \in Directories, NEW name \in Names,
               NEW new_name \in Names, Rename(from, name, to, new_name)
        PROVE  Sizing'
    <3>1. UNCHANGED <<inodes, used, job>>
      BY <2>6, Zenon DEF Rename
    <3> QED BY <3>1, SizingUntouched
  <2>7. CASE UNCHANGED vars
    BY <2>7, SizingUntouched DEF vars
  <2> QED BY <2>2, <2>3, <2>4, <2>5, <2>6, <2>7, Zenon DEF Next
<1>2. TinyFsInv /\ Sizing => SizeCovered
  <2> SUFFICES ASSUME TinyFsInv, Sizing, NEW i \in Inodes, job = Idle \/ job.ino # i
               PROVE  /\ inodes[i].size <= BLOCK * Cardinality(BlocksOf(i))
                      /\ BLOCK * Cardinality(BlocksOf(i)) < inodes[i].size + BLOCK
    BY DEF SizeCovered
  <2>1. Cardinality(BlocksOf(i)) = BlocksFor(inodes[i].size)
    BY DEF Sizing, BlocksAreAccounted
  <2>2. inodes[i].size \in Nat
    BY InvByPart, InodeFields
  <2> QED BY <2>1, <2>2, BlocksForRoundsUp
<1>3. Spec => []Sizing
  BY <1>1, InitEstablishesSizing, TinyFsInvHolds, PTL DEF Spec
<1> QED BY <1>2, <1>3, TinyFsInvHolds, PTL

-----------------------------------------------------------------------------
(* Names form a tree: while the callers are careful, a path from the root  *)
(* leads to every live inode.  Sets first.                                 *)

(* Every non-empty set of finite sets has one that contains no other.      *)
LEMMA SmallestSet ==
    ASSUME NEW U, NEW F, F \subseteq FiniteSubsetsOf(U), F # {}
    PROVE  \E S \in F : \A T \in F : T \subseteq S => T = S
<1>1. PICK S \in F : \A T \in F : ~(<<T, S>> \in StrictSubsetOrdering(U))
  BY FS_StrictSubsetOrderingWellFounded, WFMin
<1>2. ASSUME NEW T \in F, T \subseteq S PROVE T = S
  BY <1>1, <1>2 DEF StrictSubsetOrdering, FiniteSubsetsOf
<1> QED BY <1>2

(* ... and a set of subsets of a finite set one that no other contains.    *)
LEMMA LargestSet ==
    ASSUME NEW U, IsFiniteSet(U), NEW F, F \subseteq SUBSET U, F # {}
    PROVE  \E S \in F : \A T \in F : S \subseteq T => T = S
<1> DEFINE G == {Z \in SUBSET U : U \ Z \in F}
<1>1. G \subseteq FiniteSubsetsOf(U)
  BY FS_FiniteSubsetsOfFinite
<1>2. G # {}
  <2>1. PICK S \in F : S \subseteq U
    OBVIOUS
  <2>2. U \ (U \ S) = S
    BY <2>1
  <2> QED BY <2>1, <2>2
<1>3. \E Z \in G : \A T \in G : T \subseteq Z => T = Z
  <2> HIDE DEF G
  <2> QED BY <1>1, <1>2, SmallestSet
<1>4. PICK Z \in G : \A T \in G : T \subseteq Z => T = Z
  BY <1>3
<1>5. ASSUME NEW T \in F, U \ Z \subseteq T PROVE T = U \ Z
  <2>1. U \ (U \ T) = T /\ U \ T \subseteq Z
    BY <1>5
  <2>2. U \ T = Z
    BY <1>4, <2>1
  <2> QED BY <2>1, <2>2
<1>6. U \ Z \in F
  BY <1>4
<1> HIDE DEF G
<1> QED BY <1>5, <1>6

LEMMA LeastNumber ==
    ASSUME NEW S \in SUBSET Nat, S # {}
    PROVE  \E m \in S : \A n \in S : m <= n
<1> DEFINE F == {0..(m - 1) : m \in S}
<1>1. F \subseteq FiniteSubsetsOf(Nat)
  <2> SUFFICES ASSUME NEW m \in S PROVE 0..(m - 1) \in FiniteSubsetsOf(Nat)
    OBVIOUS
  <2>1. IsFiniteSet(0..(m - 1))
    BY FS_Interval
  <2> QED BY <2>1 DEF FiniteSubsetsOf
<1>2. F # {}
  OBVIOUS
<1>3. \E Z \in F : \A T \in F : T \subseteq Z => T = Z
  <2> HIDE DEF F
  <2> QED BY <1>1, <1>2, SmallestSet
<1>4. PICK m \in S : \A T \in F : T \subseteq 0..(m - 1) => T = 0..(m - 1)
  BY <1>3
<1>5. ASSUME NEW n \in S, n < m PROVE FALSE
  <2>1. 0..(n - 1) \subseteq 0..(m - 1) /\ n \in 0..(m - 1) /\ n \notin 0..(n - 1)
    BY <1>5
  <2>2. 0..(n - 1) \in F
    OBVIOUS
  <2> QED BY <1>4, <2>1, <2>2
<1> QED BY <1>5

-----------------------------------------------------------------------------
(* Walks *)

(* h lists the inodes that a walk of n hops from x along p meets.          *)
IsTrail(h, x, p, n) ==
    /\ p \in [1..n -> Names]
    /\ h \in [0..n -> Inodes]
    /\ h[0] = x
    /\ \A k \in 1..n : \E d \in dirents : d.dir = h[k - 1] /\ d.name = p[k] /\ d.ino = h[k]

LEMMA LookupFindsRow ==
    ASSUME RowsHaveTheirOwnName, NEW d \in dirents
    PROVE  Lookup(d.dir, d.name) = d.ino
<1>1. DirFind(d.dir, d.name) = {d}
  BY DEF DirFind, RowsHaveTheirOwnName
<1>2. \A c : (CHOOSE e \in {c} : TRUE) = c
  OBVIOUS
<1> QED BY <1>1, <1>2 DEF Lookup

LEMMA TrailIsWalk ==
    ASSUME RowsHaveTheirOwnName, NEW n \in Nat, NEW h, NEW x, NEW p, IsTrail(h, x, p, n)
    PROVE  Walk(x, p) = h[n]
<1> DEFINE Recurs(f) == f = [k \in 0..n |-> IF k = 0 THEN x ELSE Lookup(f[k - 1], p[k])]
<1>1. Len(p) = n
  BY DEF IsTrail
<1>2. \A k \in 0..n : h[k] = IF k = 0 THEN x ELSE Lookup(h[k - 1], p[k])
  <2> SUFFICES ASSUME NEW k \in 1..n PROVE h[k] = Lookup(h[k - 1], p[k])
    BY DEF IsTrail
  <2>1. PICK d \in dirents : d.dir = h[k - 1] /\ d.name = p[k] /\ d.ino = h[k]
    BY DEF IsTrail
  <2> QED BY <2>1, LookupFindsRow
<1>3. Recurs(h)
  BY <1>2 DEF IsTrail
<1>4. Recurs(Hops(x, p))
  <2>1. Hops(x, p) = CHOOSE f : Recurs(f)
    BY <1>1 DEF Hops
  <2> HIDE DEF Recurs
  <2> QED BY <1>3, <2>1, Zenon
<1>5. PICK g : g = Hops(x, p) /\ Recurs(g)
  BY <1>4
<1>6. \A k \in 0..n : g[k] = IF k = 0 THEN x ELSE Lookup(g[k - 1], p[k])
  BY <1>5
<1>7. \A k \in 0..n : g[k] = h[k]
  <2> DEFINE Differ == {k \in 0..n : g[k] # h[k]}
  <2> SUFFICES ASSUME Differ # {} PROVE FALSE
    OBVIOUS
  <2>1. PICK k \in Differ : \A m \in Differ : k <= m
    <3>1. Differ \in SUBSET Nat
      OBVIOUS
    <3> HIDE DEF Differ
    <3> QED BY <3>1, LeastNumber
  <2>2. k # 0 /\ k \in 0..n
    BY <1>2, <1>6
  <2>3. k - 1 \in 0..n /\ k - 1 \notin Differ
    BY <2>1, <2>2
  <2>4. g[k - 1] = h[k - 1]
    BY <2>3
  <2> QED BY <1>2, <1>6, <2>1, <2>2, <2>4
<1> QED BY <1>1, <1>5, <1>7 DEF Walk

LEMMA CountingInodes ==
    IsFiniteSet(Inodes) /\ Cardinality(Inodes) = NINODES - FIRST_INODE + 1
<1> DEFINE given == FIRST_INODE..(NINODES - 1)
<1>1. /\ ROOT \in Nat /\ FIRST_INODE \in Nat /\ NINODES \in Nat
      /\ FIRST_INODE <= NINODES /\ ROOT < FIRST_INODE
  BY TinyFsAssumption
<1>2. IsFiniteSet(given) /\ Cardinality(given) = NINODES - FIRST_INODE
  BY <1>1, FS_Interval
<1>3. ROOT \notin given
  BY <1>1
<1> HIDE DEF given
<1>4. IsFiniteSet(given \union {ROOT}) /\ Cardinality(given \union {ROOT}) = Cardinality(given) + 1
  BY <1>2, <1>3, FS_AddElement
<1>5. Inodes = given \union {ROOT}
  BY DEF Inodes, given
<1> QED BY <1>1, <1>2, <1>4, <1>5

(* One more row on the way. *)
LEMMA LongerTrail ==
    ASSUME dirents \subseteq Dirent, NEW n \in Nat, NEW h, NEW x, NEW p, IsTrail(h, x, p, n),
           NEW d \in dirents, d.dir = h[n]
    PROVE  \E g, q : IsTrail(g, x, q, n + 1) /\ g[n + 1] = d.ino
<1> DEFINE q == [k \in 1..(n + 1) |-> IF k = n + 1 THEN d.name ELSE p[k]]
           g == [k \in 0..(n + 1) |-> IF k = n + 1 THEN d.ino ELSE h[k]]
<1>1. d.name \in Names /\ d.ino \in Inodes
  BY DEF Dirent
<1>2. q \in [1..(n + 1) -> Names]
  BY <1>1 DEF IsTrail
<1>3. g \in [0..(n + 1) -> Inodes]
  BY <1>1 DEF IsTrail
<1>4. g[0] = x /\ g[n + 1] = d.ino
  BY DEF IsTrail
<1>5. ASSUME NEW k \in 1..(n + 1)
      PROVE  \E c \in dirents : c.dir = g[k - 1] /\ c.name = q[k] /\ c.ino = g[k]
  <2>1. CASE k = n + 1
    <3>1. g[k - 1] = h[n] /\ q[k] = d.name /\ g[k] = d.ino
      BY <2>1
    <3> QED BY <3>1
  <2>2. CASE k # n + 1
    <3>1. k \in 1..n /\ g[k - 1] = h[k - 1] /\ q[k] = p[k] /\ g[k] = h[k]
      BY <2>2
    <3>2. \E c \in dirents : c.dir = h[k - 1] /\ c.name = p[k] /\ c.ino = h[k]
      BY <3>1 DEF IsTrail
    <3> QED BY <3>1, <3>2
  <2> QED BY <2>1, <2>2
<1> HIDE DEF q, g
<1>6. IsTrail(g, x, q, n + 1)
  BY <1>2, <1>3, <1>4, <1>5 DEF IsTrail
<1> QED BY <1>4, <1>6

(* The inodes below x are found by walks no longer than there are inodes:  *)
(* the largest set of which each member is reached in fewer hops than it   *)
(* has members has all the rows that lead out of it.                       *)
LEMMA WalksReachAllBelow ==
    ASSUME dirents \subseteq Dirent, RowsHaveTheirOwnName, NEW x \in Inodes
    PROVE  \E W \in SUBSET Inodes :
             /\ x \in W
             /\ \A d \in dirents : d.dir \in W => d.ino \in W
             /\ \A w \in W : \E p \in Paths : Walk(x, p) = w
<1> DEFINE Reached(w, n) == \E h, p : IsTrail(h, x, p, n) /\ h[n] = w
           Near(W) == x \in W /\ \A w \in W : \E n \in 0..(Cardinality(W) - 1) : Reached(w, n)
           F == {W \in SUBSET Inodes : Near(W)}
<1>1. {x} \in F
  <2>1. Cardinality({x}) = 1
    BY FS_Singleton
  <2>2. Reached(x, 0)
    <3> DEFINE h == [k \in 0..0 |-> x]
               p == [k \in 1..0 |-> x]
    <3>1. h \in [0..0 -> Inodes] /\ h[0] = x /\ p \in [1..0 -> Names] /\ 1..0 = {}
      OBVIOUS
    <3> HIDE DEF h, p
    <3>2. IsTrail(h, x, p, 0)
      BY <3>1 DEF IsTrail
    <3> QED BY <3>1, <3>2
  <2> HIDE DEF Reached
  <2>3. 0 \in 0..(Cardinality({x}) - 1)
    BY <2>1
  <2>4. Near({x})
    BY <2>2, <2>3
  <2> QED BY <2>4
<1>2. PICK W \in F : \A T \in F : W \subseteq T => T = W
  <2>1. F \subseteq SUBSET Inodes /\ F # {}
    BY <1>1
  <2> HIDE DEF F
  <2> QED BY <2>1, CountingInodes, LargestSet
<1>3. W \subseteq Inodes /\ Near(W)
  BY <1>2
<1>4. IsFiniteSet(W) /\ Cardinality(W) \in Nat /\ Cardinality(W) <= NINODES - FIRST_INODE + 1
  BY <1>3, CountingInodes, FS_Subset, FS_CardinalityType
<1>5. ASSUME NEW d \in dirents, d.dir \in W, d.ino \notin W PROVE FALSE
  <2> DEFINE T == W \union {d.ino}
  <2>1. d.ino \in Inodes
    BY DEF Dirent
  <2>2. Cardinality(T) = Cardinality(W) + 1
    BY <1>4, <1>5, FS_AddElement
  <2>3. PICK n \in 0..(Cardinality(W) - 1) : Reached(d.dir, n)
    BY <1>3, <1>5
  <2>4. Reached(d.ino, n + 1)
    <3>1. PICK h, p : IsTrail(h, x, p, n) /\ h[n] = d.dir
      BY <2>3
    <3> QED BY <3>1, LongerTrail
  <2> HIDE DEF Reached
  <2>5. n + 1 \in 0..(Cardinality(T) - 1)
    BY <1>4, <2>2
  <2>6. \A m : m \in 0..(Cardinality(W) - 1) => m \in 0..(Cardinality(T) - 1)
    BY <1>4, <2>2
  <2>7. \A w \in T : \E m \in 0..(Cardinality(T) - 1) : Reached(w, m)
    BY <1>3, <2>4, <2>5, <2>6
  <2>8. T \in F
    BY <1>3, <2>1, <2>7
  <2>9. T = W
    BY <1>2, <2>8
  <2> QED BY <1>5, <2>9
<1>6. ASSUME NEW w \in W PROVE \E p \in Paths : Walk(x, p) = w
  <2>1. PICK n \in 0..(Cardinality(W) - 1) : Reached(w, n)
    BY <1>3
  <2>2. PICK h, p : IsTrail(h, x, p, n) /\ h[n] = w
    BY <2>1
  <2>3. n \in Nat /\ n \in 0..(NINODES - FIRST_INODE)
    BY <1>4, TinyFsAssumption
  <2>4. p \in Paths
    BY <2>2, <2>3 DEF Paths, IsTrail
  <2>5. Walk(x, p) = w
    BY <2>2, <2>3, TrailIsWalk
  <2> QED BY <2>4, <2>5
<1> HIDE DEF Reached, F
<1> QED BY <1>3, <1>5, <1>6

-----------------------------------------------------------------------------
(* The tree                                                                *)

LEMMA TreeUntouched ==
    ASSUME TreeInv, UNCHANGED <<dirents, careful>>,
           \A i \in Inodes : inodes'[i].mode = "dir" =>
              inodes[i].mode = "dir" /\ inodes'[i].links = inodes[i].links
    PROVE  TreeInv'
<1>1. RowsHaveTheirOwnName' /\ NothingIsCutOff'
  BY DEF TreeInv, RowsHaveTheirOwnName, NothingIsCutOff
<1>2. DirectoriesAreLive'
  BY DEF TreeInv, DirectoriesAreLive
<1> QED BY <1>1, <1>2 DEF TreeInv

(* dir_set leaves no two rows of one name in a directory. *)
LEMMA DirSetKeepsNamesApart ==
    ASSUME RowsHaveTheirOwnName, NEW drop, NEW dir, NEW name, NEW ino,
           DirSet(drop, dir, name, ino)
    PROVE  RowsHaveTheirOwnName'
<1> DEFINE rest == dirents \ (drop \union DirFind(dir, name))
           row == [dir |-> dir, name |-> name, ino |-> ino]
<1>1. dirents' \subseteq rest \union {row}
  BY DEF DirSet
<1>2. \A d \in rest : d \in dirents /\ ~(d.dir = row.dir /\ d.name = row.name)
  BY DEF DirFind
<1> HIDE DEF rest, row
<1>3. ASSUME NEW c \in dirents', NEW d \in dirents', c.dir = d.dir, c.name = d.name
      PROVE  c = d
  BY <1>1, <1>2, <1>3 DEF RowsHaveTheirOwnName
<1> QED BY <1>3 DEF RowsHaveTheirOwnName

LEMMA InitEstablishesTree == Init => TreeInv
<1> SUFFICES ASSUME Init PROVE TreeInv
  OBVIOUS
<1> DEFINE root == [NoInode EXCEPT !.mode = "dir", !.links = 2]
<1>1. inodes = [i \in Inodes |-> IF i = ROOT THEN root ELSE NoInode] /\ dirents = {}
  BY Zenon DEF Init
<1>2. root.links = 2
  BY RootInode
<1>3. NoInode.mode = "none"
  BY DEF NoInode
<1> HIDE DEF root
<1>4. DirectoriesAreLive
  BY <1>1, <1>2, <1>3 DEF DirectoriesAreLive
<1>5. RowsHaveTheirOwnName /\ NothingIsCutOff
  BY <1>1 DEF RowsHaveTheirOwnName, NothingIsCutOff
<1> QED BY <1>4, <1>5 DEF TreeInv

(* A new inode has nothing below it yet. *)
LEMMA FinishKeepsTree ==
    ASSUME TableTypes, RowTypes, Naming, TreeInv, FinishCreate
    PROVE  TreeInv'
<1> DEFINE row == [dir |-> job.dir, name |-> job.name, ino |-> job.ino]
<1>1. /\ job # Idle /\ job \in Job /\ job.ino \in Inodes
      /\ \A i \in Inodes : i # job.ino => inodes'[i] = inodes[i]
      /\ inodes'[job.ino].links \in {1, 2}
  BY FinishDoes DEF Naming
<1>2. /\ inodes[job.ino].mode = "none" /\ inodes[job.dir].mode = "dir"
      /\ job.dir # job.ino
      /\ \A d \in dirents : d.ino # job.ino /\ d.dir # job.ino
  BY <1>1 DEF Naming, JobHasItsInode, NamesReachLiveInodes
<1>3. /\ DirSet({}, job.dir, job.name, job.ino)
      /\ careful' => careful /\ DirFind(job.dir, job.name) = {}
  BY Zenon DEF FinishCreate
<1>4. RowsHaveTheirOwnName'
  BY <1>3, DirSetKeepsNamesApart DEF TreeInv
<1>5. DirectoriesAreLive'
  BY <1>1 DEF TreeInv, DirectoriesAreLive
<1>6. \A d \in dirents' : d \in dirents \/ d = row
  BY <1>3 DEF DirSet
<1>7. row.ino = job.ino /\ row.dir = job.dir
  OBVIOUS
<1> HIDE DEF row
<1>8. ASSUME careful', NEW S \in SUBSET (Inodes \ {ROOT}), S # {}
      PROVE  \E i \in S : \A d \in dirents' : d.ino = i => d.dir \notin S
  <2>1. CASE S = {job.ino}
    BY <1>2, <1>6, <1>7, <2>1
  <2>2. CASE S # {job.ino}
    <3> DEFINE T == S \ {job.ino}
    <3>1. T \in SUBSET (Inodes \ {ROOT}) /\ T # {}
      BY <1>8, <2>2
    <3>2. PICK i \in T : \A d \in dirents : d.ino = i => d.dir \notin T
      BY <1>3, <1>8, <3>1 DEF TreeInv, NothingIsCutOff
    <3> QED BY <1>2, <1>6, <1>7, <3>2
  <2> QED BY <2>1, <2>2
<1> QED BY <1>4, <1>5, <1>8 DEF TreeInv, NothingIsCutOff

LEMMA UnlinkKeepsTree ==
    ASSUME TableTypes, RowTypes, Naming, TreeInv, NEW dir, NEW name, Unlink(dir, name)
    PROVE  TreeInv'
<1>1. careful' = careful
  BY UnlinkDoes, Zenon DEF Naming
<1>2. PICK d \in dirents : /\ d.ino \in Inodes
                           /\ dirents' = dirents \ {d}
                           /\ inodes' = [inodes EXCEPT ![d.ino] = NoInode]
  BY UnlinkDoes DEF Naming
<1>3. RowsHaveTheirOwnName'
  BY <1>2 DEF TreeInv, RowsHaveTheirOwnName
<1>4. DirectoriesAreLive'
  <2>1. NoInode.mode = "none"
    BY DEF NoInode
  <2> QED BY <1>2, <2>1 DEF TreeInv, DirectoriesAreLive, TableTypes
<1>5. NothingIsCutOff'
  BY <1>1, <1>2 DEF TreeInv, NothingIsCutOff
<1> QED BY <1>3, <1>4, <1>5 DEF TreeInv

(* A set that a rename cuts off holds the moved inode and its new          *)
(* directory.  What of it was not below the inode was cut off before.      *)
LEMMA RenameKeepsTree ==
    ASSUME TableTypes, RowTypes, Naming, TreeInv, NEW from \in Directories,
           NEW to \in Directories, NEW name \in Names, NEW new_name \in Names,
           Rename(from, name, to, new_name)
    PROVE  TreeInv'
<1>1. UNCHANGED inodes
  BY Zenon DEF Rename
<1>2. PICK d \in DirFind(from, name) :
         /\ DirSet({d}, to, new_name, d.ino)
         /\ careful' = (/\ careful
                        /\ DirFind(to, new_name) \subseteq {d}
                        /\ to \notin Below(d.ino))
  BY Zenon DEF Rename
<1> DEFINE row == [dir |-> to, name |-> new_name, ino |-> d.ino]
<1>3. d \in dirents /\ d.ino \in Inodes /\ d.ino # ROOT
  BY DEF DirFind, RowTypes, Dirent, Naming, NamesReachLiveInodes
<1>4. RowsHaveTheirOwnName'
  BY <1>2, DirSetKeepsNamesApart DEF TreeInv
<1>5. DirectoriesAreLive'
  BY <1>1 DEF TreeInv, DirectoriesAreLive
<1>6. \A c \in dirents' : c = row \/ (c \in dirents /\ c # d)
  BY <1>2 DEF DirSet
<1>7. row.ino = d.ino /\ row.dir = to
  OBVIOUS
<1> HIDE DEF row
<1>8. \A c \in dirents : c # d => c.ino # d.ino
  BY <1>3 DEF Naming, NamesReachLiveInodes
<1>9. ASSUME careful', NEW S \in SUBSET (Inodes \ {ROOT}), S # {},
             \A i \in S : \E c \in dirents' : c.ino = i /\ c.dir \in S
      PROVE  FALSE
  <2>1. PICK W \in SUBSET Inodes :
          /\ d.ino \in W
          /\ \A c \in dirents : c.dir \in W => c.ino \in W
          /\ \A w \in W : \E p \in Paths : Walk(d.ino, p) = w
    BY <1>3, WalksReachAllBelow DEF RowTypes, TreeInv
  <2>2. ENOENT \notin Inodes
    BY TinyFsAssumption DEF Inodes, ENOENT
  <2>3. W \subseteq Below(d.ino)
    BY <2>1, <2>2 DEF Below
  <2>4. to \notin W /\ careful
    BY <1>2, <1>9, <2>3
  <2> DEFINE T == S \ W
  <2>5. T # {}
    <3>1. CASE d.ino \in S
      <4>1. PICK c \in dirents' : c.ino = d.ino /\ c.dir \in S
        BY <1>9, <3>1
      <4>2. c = row
        BY <1>6, <1>8, <4>1
      <4> QED BY <1>7, <2>4, <4>1, <4>2
    <3>2. CASE d.ino \notin S /\ T = {}
      <4>1. S \subseteq W
        BY <3>2
      <4>2. PICK i \in S : \A c \in dirents : c.ino = i => c.dir \notin S
        BY <1>9, <2>4 DEF TreeInv, NothingIsCutOff
      <4>3. PICK c \in dirents' : c.ino = i /\ c.dir \in S
        BY <1>9
      <4>4. c \in dirents
        BY <1>6, <1>7, <3>2, <4>3
      <4> QED BY <4>2, <4>3, <4>4
    <3> QED BY <3>1, <3>2
  <2>6. T \in SUBSET (Inodes \ {ROOT})
    OBVIOUS
  <2>7. PICK i \in T : \A c \in dirents : c.ino = i => c.dir \notin T
    BY <2>4, <2>5, <2>6 DEF TreeInv, NothingIsCutOff
  <2>8. PICK c \in dirents' : c.ino = i /\ c.dir \in S
    BY <1>9, <2>7
  <2>9. c \in dirents
    BY <1>6, <1>7, <2>1, <2>7, <2>8
  <2>10. c.dir \notin W
    BY <2>1, <2>7, <2>8, <2>9
  <2> QED BY <2>7, <2>8, <2>9, <2>10
<1> QED BY <1>4, <1>5, <1>9 DEF TreeInv, NothingIsCutOff

LEMMA StepKeepsTree ==
    ASSUME TinyFsInv, TreeInv, [Next]_vars
    PROVE  TreeInv'
<1>1. TableTypes /\ RowTypes /\ Owners /\ Naming
  BY InvByPart, Zenon
<1>2. ASSUME NEW dir \in Directories, NEW name \in Names, NEW bytes \in Sizes \union {0},
             NEW mode \in {"file", "dir"}, StartCreate(dir, name, bytes, mode)
      PROVE  TreeInv'
  <2>1. /\ \A i \in Inodes : i # next_inode => inodes'[i] = inodes[i]
        /\ inodes'[next_inode].mode = "none" /\ UNCHANGED <<dirents, careful>>
    BY <1>1, <1>2, StartCreateDoes DEF Naming
  <2> QED BY <2>1, TreeUntouched
<1>3. CASE AllocateExtent
  <2>1. /\ \A i \in Inodes : i # job.ino => inodes'[i] = inodes[i]
        /\ inodes'[job.ino].mode = inodes[job.ino].mode
        /\ inodes'[job.ino].links = inodes[job.ino].links
        /\ UNCHANGED <<dirents, careful>>
    BY <1>1, <1>3, AllocateDoes
  <2> QED BY <2>1, TreeUntouched
<1>4. CASE FinishCreate
  BY <1>1, <1>4, FinishKeepsTree
<1>5. ASSUME NEW dir \in Directories, NEW name \in Names, Unlink(dir, name)
      PROVE  TreeInv'
  BY <1>1, <1>5, UnlinkKeepsTree
<1>6. ASSUME NEW from \in Directories, NEW to \in Directories, NEW name \in Names,
             NEW new_name \in Names, Rename(from, name, to, new_name)
      PROVE  TreeInv'
  BY <1>1, <1>6, RenameKeepsTree
<1>7. CASE UNCHANGED vars
  BY <1>7, TreeUntouched DEF vars
<1> QED BY <1>2, <1>3, <1>4, <1>5, <1>6, <1>7, Zenon DEF Next

(* While the callers are careful the rows form a tree with the root on top. *)
THEOREM RowsFormATree == Spec => []TreeInv
BY InitEstablishesTree, StepKeepsTree, TinyFsInvHolds, PTL DEF Spec

LEMMA TreeLosesNothing == TinyFsInv /\ TreeInv => CarefulUseLosesNothing
<1> SUFFICES ASSUME TinyFsInv, TreeInv, careful, job = Idle,
                    NEW i \in Inodes \ {ROOT}, inodes[i].links > 0
             PROVE  /\ Cardinality({d \in dirents : d.ino = i}) = 1
                    /\ \E p \in Paths : Resolve(p) = i
  BY DEF CarefulUseLosesNothing
<1>1. TableTypes /\ RowTypes /\ Owners /\ Naming
  BY InvByPart, Zenon
<1>2. \A j \in Inodes \ {ROOT} : inodes[j].links > 0 => \E d \in dirents : d.ino = j
  BY <1>1 DEF Naming, LiveInodesKeepTheirName
<1>3. Cardinality({d \in dirents : d.ino = i}) = 1
  <2>1. PICK d \in dirents : d.ino = i
    BY <1>2
  <2>2. {c \in dirents : c.ino = i} = {d}
    BY <1>1, <2>1 DEF Naming, NamesReachLiveInodes
  <2> QED BY <2>2, FS_Singleton
<1>4. PICK W \in SUBSET Inodes :
        /\ ROOT \in W
        /\ \A d \in dirents : d.dir \in W => d.ino \in W
        /\ \A w \in W : \E p \in Paths : Walk(ROOT, p) = w
  BY <1>1, NumbersOfInodes, WalksReachAllBelow DEF RowTypes, TreeInv
<1>5. i \in W
  <2> DEFINE S == {j \in Inodes \ {ROOT} : j \notin W /\ inodes[j].links > 0}
  <2> SUFFICES ASSUME S # {} PROVE FALSE
    OBVIOUS
  <2>1. PICK j \in S : \A d \in dirents : d.ino = j => d.dir \notin S
    BY DEF TreeInv, NothingIsCutOff
  <2>2. PICK d \in dirents : d.ino = j
    BY <1>2, <2>1
  <2>3. d.dir \in Inodes /\ inodes[d.dir].links > 0
    BY <1>1 DEF RowTypes, Dirent, Naming, NamesReachLiveInodes, TreeInv, DirectoriesAreLive
  <2>4. d.dir \notin W
    BY <1>4, <2>1, <2>2
  <2> QED BY <1>4, <2>1, <2>2, <2>3, <2>4
<1> QED BY <1>3, <1>4, <1>5 DEF Resolve

(* CarefulUseLosesNothing: while the callers are careful every live inode  *)
(* has one name, and a path from the root that leads to it.                *)
THEOREM CarefulUseIsSafe == Spec => []CarefulUseLosesNothing
BY RowsFormATree, TinyFsInvHolds, TreeLosesNothing, PTL

-----------------------------------------------------------------------------
(* The loop of fs_create ends, with room for all extents or without: what  *)
(* create_checked has found free is still free at every turn.              *)

(* fs_alloc returns a run, if an empty one at the end of a full disk. *)
LEMMA FirstFitFound ==
    ASSUME used \subseteq Blocks, NEW want \in Nat
    PROVE  \E e \in Extent : FirstFit(e, want)
<1>1. NBLOCKS \in Nat /\ NBLOCKS \notin used
  BY TinyFsAssumption DEF Blocks
<1>2. PICK b \in 0..NBLOCKS : b \notin used /\ \A x \in 0..NBLOCKS : x \notin used => b <= x
  <2> DEFINE S == {x \in 0..NBLOCKS : x \notin used}
  <2>1. S \in SUBSET Nat /\ S # {}
    BY <1>1
  <2>2. \E m \in S : \A n \in S : m <= n
    <3> HIDE DEF S
    <3> QED BY <2>1, LeastNumber
  <2> QED BY <2>2
<1> DEFINE Ends(c) == c = want \/ b + c \in {NBLOCKS} \union used
<1>3. PICK c \in 0..NBLOCKS : Ends(c) /\ \A x \in 0..NBLOCKS : Ends(x) => c <= x
  <2> DEFINE S == {x \in 0..NBLOCKS : Ends(x)}
  <2>1. NBLOCKS - b \in S
    BY <1>1
  <2>2. S \in SUBSET Nat
    OBVIOUS
  <2>3. S # {}
    BY <2>1
  <2>4. \E m \in S : \A n \in S : m <= n
    <3> HIDE DEF S
    <3> QED BY <2>2, <2>3, LeastNumber
  <2> QED BY <2>4
<1>4. b + c <= NBLOCKS
  <2>1. NBLOCKS - b \in 0..NBLOCKS /\ Ends(NBLOCKS - b)
    BY <1>1
  <2> HIDE DEF Ends
  <2>2. c <= NBLOCKS - b
    BY <1>3, <2>1
  <2> QED BY <1>1, <2>2
<1>5. c <= want
  <2>1. CASE want <= NBLOCKS
    <3>1. want \in 0..NBLOCKS /\ Ends(want)
      BY <1>1, <2>1
    <3> HIDE DEF Ends
    <3> QED BY <1>3, <3>1
  <2> QED BY <1>1, <2>1
<1>6. ASSUME NEW x \in b..(b + c - 1) PROVE x \notin used
  <2>1. SUFFICES ASSUME x \in used PROVE FALSE
    OBVIOUS
  <2>2. x - b \in 0..NBLOCKS /\ x - b < c /\ b + (x - b) = x
    BY <1>1, <1>6
  <2>3. Ends(x - b)
    BY <2>1, <2>2
  <2>4. c <= x - b
    <3> HIDE DEF Ends
    <3> QED BY <1>3, <2>2, <2>3
  <2> QED BY <2>2, <2>4
<1> DEFINE e == [start |-> b, count |-> c]
<1>7. e \in Extent /\ e.start = b /\ e.count = c
  BY DEF Extent
<1>8. IsFirstFree(b)
  <2>1. ASSUME NEW x \in 0..(b - 1) PROVE x \in used
    BY <1>1, <1>2
  <2> QED BY <1>2, <2>1 DEF IsFirstFree
<1> HIDE DEF e
<1>9. FirstFit(e, want)
  BY <1>3, <1>4, <1>5, <1>6, <1>7, <1>8 DEF FirstFit
<1> QED BY <1>7, <1>9

(* What one turn does to the blocks that are free and that are needed. *)
LEMMA TurnTakesBlocks ==
    ASSUME TableTypes, Owners, NeedIsFree, AllocateExtent
    PROVE  job'.need \in Nat /\ job'.need < job.need /\ NeedIsFree'
<1>1. PICK e \in Extent :
        /\ FirstFit(e, job.need)
        /\ used' = used \union ExtentBlocks(e)
        /\ job'.need = job.need - e.count
        /\ ExtentBlocks(e) \subseteq Blocks
        /\ ExtentBlocks(e) \intersect used = {}
  BY AllocateDoes
<1>2. /\ job # Idle /\ job.need \in Nat /\ job.need > 0 /\ job.need <= FreeBlocks
      /\ job' \in Job
  BY AllocateDoes DEF NeedIsFree
<1>3. IsFiniteSet(ExtentBlocks(e)) /\ Cardinality(ExtentBlocks(e)) = e.count /\ e.count \in Nat
  BY CountingAnExtent
<1>4. FreeBlocks \in Nat /\ IsFiniteSet(Blocks \ used)
  BY CountingTheDisk
<1>5. e.count > 0
  BY <1>1, <1>2, <1>4, FirstFitTakesABlock
<1>6. FreeBlocks' = FreeBlocks - e.count
  <2>1. Blocks \ used' = (Blocks \ used) \ ExtentBlocks(e)
    BY <1>1
  <2>2. (Blocks \ used) \intersect ExtentBlocks(e) = ExtentBlocks(e)
    BY <1>1
  <2>3. Cardinality((Blocks \ used) \ ExtentBlocks(e))
          = Cardinality(Blocks \ used) - Cardinality((Blocks \ used) \intersect ExtentBlocks(e))
    BY <1>4, FS_Difference
  <2> QED BY <1>3, <2>1, <2>2, <2>3 DEF FreeBlocks, Blocks
<1>7. e.count <= job.need
  BY <1>1 DEF FirstFit
<1>8. job'.need \in Nat /\ job'.need < job.need
  BY <1>1, <1>2, <1>3, <1>5, <1>7
<1>9. NeedIsFree'
  BY <1>1, <1>2, <1>3, <1>4, <1>6 DEF NeedIsFree
<1> QED BY <1>8, <1>9

LEMMA StepKeepsNeedFree ==
    ASSUME TinyFsInv, NeedIsFree, [Next]_vars
    PROVE  /\ NeedIsFree'
           /\ job # Idle /\ job' # Idle =>
                 UNCHANGED vars \/ (job'.need \in Nat /\ job'.need < job.need)
<1> DEFINE Down == job # Idle /\ job' # Idle =>
                      UNCHANGED vars \/ (job'.need \in Nat /\ job'.need < job.need)
<1>1. TableTypes /\ RowTypes /\ Owners /\ FreshInodesAreBlank /\ JobHasItsInode /\ FilesHaveOneLink
  BY InvByPart, Zenon DEF Naming
<1>2. ASSUME NEW dir \in Directories, NEW name \in Names, NEW bytes \in Sizes \union {0},
             NEW mode \in {"file", "dir"}, StartCreate(dir, name, bytes, mode)
      PROVE  NeedIsFree' /\ Down
  <2>1. job = Idle /\ job'.need = BlocksFor(bytes) /\ BlocksFor(bytes) <= FreeBlocks /\ used' = used
    BY <1>1, <1>2, StartCreateDoes
  <2>2. FreeBlocks' = FreeBlocks
    BY <2>1 DEF FreeBlocks, Blocks
  <2> QED BY <2>1, <2>2 DEF NeedIsFree
<1>3. ASSUME AllocateExtent PROVE NeedIsFree' /\ Down
  BY <1>1, <1>3, TurnTakesBlocks
<1>4. ASSUME FinishCreate PROVE NeedIsFree' /\ Down
  <2>1. job' = Idle
    BY <1>4, Zenon DEF FinishCreate
  <2> QED BY <2>1 DEF NeedIsFree, Idle
<1>5. ASSUME NEW dir \in Directories, NEW name \in Names, Unlink(dir, name)
      PROVE  NeedIsFree' /\ Down
  <2>1. job = Idle /\ job' = Idle
    BY <1>1, <1>5, UnlinkDoes
  <2> QED BY <2>1 DEF NeedIsFree, Idle
<1>6. ASSUME NEW from \in Directories, NEW to \in Directories, NEW name \in Names,
             NEW new_name \in Names, Rename(from, name, to, new_name)
      PROVE  NeedIsFree' /\ Down
  <2>1. job = Idle /\ job' = Idle
    BY <1>6, Zenon DEF Rename
  <2> QED BY <2>1 DEF NeedIsFree, Idle
<1>7. ASSUME UNCHANGED vars PROVE NeedIsFree' /\ Down
  <2>1. used' = used /\ job' = job
    BY <1>7 DEF vars
  <2>2. FreeBlocks' = FreeBlocks
    BY <2>1 DEF FreeBlocks, Blocks
  <2>3. NeedIsFree'
    BY <2>1, <2>2 DEF NeedIsFree, Idle
  <2> QED BY <1>7, <2>3
<1> HIDE DEF Down
<1>8. NeedIsFree' /\ Down
  BY <1>2, <1>3, <1>4, <1>5, <1>6, <1>7, Zenon DEF Next
<1> QED BY <1>8 DEF Down

(* Whenever the loop of fs_create calls fs_alloc, there is a run to return *)
(* and it has a block at least.  So the list of extents of the C++ samples *)
(* never gets an empty one, which would be added for ever.                 *)
EveryTurnFindsBlocks ==
    InLoop => /\ \E e \in Extent : FirstFit(e, job.need)
              /\ \A e \in Extent : FirstFit(e, job.need) => e.count > 0

THEOREM CreateIsNeverStuck == Spec => []EveryTurnFindsBlocks
<1>1. TinyFsInv /\ NeedIsFree => EveryTurnFindsBlocks
  <2> SUFFICES ASSUME TinyFsInv, NeedIsFree, InLoop
               PROVE  /\ \E e \in Extent : FirstFit(e, job.need)
                      /\ \A e \in Extent : FirstFit(e, job.need) => e.count > 0
    BY DEF EveryTurnFindsBlocks
  <2>1. TableTypes /\ Owners
    BY InvByPart, Zenon
  <2>2. job # Idle /\ job \in Job /\ job.need > 0
    BY <2>1, Zenon DEF InLoop, TableTypes
  <2>3. job.need \in Nat /\ used \subseteq Blocks
    BY <2>1, <2>2 DEF Job, TableTypes
  <2>4. FreeBlocks > 0
    BY <2>1, <2>2, <2>3, CountingTheDisk DEF NeedIsFree
  <2> QED BY <2>1, <2>2, <2>3, <2>4, FirstFitFound, FirstFitTakesABlock
<1>2. Init => NeedIsFree
  BY DEF Init, NeedIsFree
<1>3. TinyFsInv /\ NeedIsFree /\ [Next]_vars => NeedIsFree'
  BY StepKeepsNeedFree
<1> QED BY <1>1, <1>2, <1>3, TinyFsInvHolds, PTL DEF Spec

(* Each turn of that loop leaves fewer blocks to find.                     *)
THEOREM CreateCountsDown ==
    Spec => [][job # Idle /\ job' # Idle => job'.need \in Nat /\ job'.need < job.need]_vars
<1> DEFINE Down == job # Idle /\ job' # Idle => job'.need \in Nat /\ job'.need < job.need
<1>1. TinyFsInv /\ NeedIsFree /\ [Next]_vars => NeedIsFree' /\ [Down]_vars
  BY StepKeepsNeedFree
<1>2. Init => NeedIsFree
  BY DEF Init, NeedIsFree
<1> HIDE DEF Down
<1>3. Spec => [][Down]_vars
  BY <1>1, <1>2, TinyFsInvHolds, PTL DEF Spec
<1> QED BY <1>3 DEF Down
=============================================================================
