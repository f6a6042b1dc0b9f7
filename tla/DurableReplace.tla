--------------------------- MODULE DurableReplace ---------------------------
(***************************************************************************)
(* Sample 10 of folder 05: durable_replace() saves one version of a file   *)
(* after the other by writing a temporary file, flushing it, renaming it   *)
(* and flushing the directory.  Every system call is a step and may fail;  *)
(* write() may also take less than it was given.  The kernel writes data   *)
(* and directory back whenever it likes, and the power may fail anywhere.  *)
(***************************************************************************)
EXTENDS Integers

CONSTANTS
    Inodes,        \* inode numbers
    None,          \* no inode: the name does not exist, the call failed
    LEN,           \* length of a version
    MaxVersion,    \* bound: versions saved
    MaxCuts        \* bound: power cuts

ASSUME DurableReplaceAssumption ==
    /\ None \notin Inodes
    /\ LEN \in Nat \ {0}
    /\ MaxVersion \in Nat
    /\ MaxCuts \in Nat

\* How much of which version a file holds.
Content == [version : 0..MaxVersion, length : 0..LEN]
Empty == [version |-> 0, length |-> 0]

Directory == [tmp : Inodes \union {None}, dst : Inodes \union {None}]
Calls == {"idle", "write", "fsync", "close", "rename", "open dir", "fsync dir"}

VARIABLES
    cache,      \* content of each inode in the page cache, which readers see
    disk,       \* content of each inode on the device
    dir,        \* the directory in the page cache
    disk_dir,   \* the directory on the device
    pc,         \* the call durable_replace makes next
    version,    \* the version being saved, or saved last
    fd,         \* the inode behind the descriptor of tmp, or None
    dfd,        \* whether the directory is open
    ok,         \* the result so far
    durable,    \* observer: the newest version durable_replace called durable
    cuts        \* number of power cuts

program == <<pc, version, fd, dfd, ok, durable>>
storage == <<cache, disk, dir, disk_dir>>
vars == <<program, storage, cuts>>

Init ==
    /\ cache = [i \in Inodes |-> Empty]
    /\ disk = [i \in Inodes |-> Empty]
    /\ dir = [tmp |-> None, dst |-> None]
    /\ disk_dir = dir
    /\ pc = "idle"
    /\ version = 0
    /\ fd = None
    /\ dfd = FALSE
    /\ ok = TRUE
    /\ durable = 0
    /\ cuts = 0

Referenced == {dir.tmp, dir.dst, disk_dir.tmp, disk_dir.dst}

-----------------------------------------------------------------------------
(* durable_replace().                                                      *)

\* open(tmp, O_CREAT | O_TRUNC | O_WRONLY): truncates the temporary file an
\* earlier save or a power cut has left behind, or makes a new one.
OpenTmp ==
    /\ pc = "idle"
    /\ version < MaxVersion
    /\ version' = version + 1
    /\ \/ /\ \E i \in Inodes :
               /\ IF dir.tmp = None THEN i \notin Referenced ELSE i = dir.tmp
               /\ fd' = i
               /\ cache' = [cache EXCEPT ![i] = [version |-> version', length |-> 0]]
               /\ dir' = [dir EXCEPT !.tmp = i]
          /\ ok' = TRUE
          /\ pc' = "write"
       \/ /\ fd' = None
          /\ ok' = FALSE
          /\ pc' = "open dir"
          /\ UNCHANGED <<cache, dir>>
    /\ UNCHANGED <<disk, disk_dir, dfd, durable, cuts>>

\* One turn of write_all: a whole or a short write. Faults: the loop is left
\* after the first write that is not an error; it turns once too often.
WriteOnce ==
    /\ pc = "write"
    /\ \E n \in 1..(LEN - cache[fd].length) :
         cache' = [cache EXCEPT ![fd].length = @ + n]
    /\ pc' = "fsync"
    /\ UNCHANGED <<disk, dir, disk_dir, version, fd, dfd, ok, durable, cuts>>
WriteOnceMore ==
    /\ pc = "write"
    /\ \E n \in 1..(LEN - cache[fd].length) :
         cache' = [cache EXCEPT ![fd].length = @ + n]
    /\ pc' = IF cache'[fd].length <= LEN THEN "write" ELSE "fsync"
    /\ UNCHANGED <<disk, dir, disk_dir, version, fd, dfd, ok, durable, cuts>>
Write ==
    /\ pc = "write"
    /\ \E n \in 1..(LEN - cache[fd].length) :
         cache' = [cache EXCEPT ![fd].length = @ + n]
    /\ pc' = IF cache'[fd].length < LEN THEN "write" ELSE "fsync"
    /\ UNCHANGED <<disk, dir, disk_dir, version, fd, dfd, ok, durable, cuts>>

\* A signal interrupts write() before it took anything: the loop turns.
WriteInterrupted == pc = "write" /\ UNCHANGED vars

WriteFails ==
    /\ pc = "write"
    /\ ok' = FALSE
    /\ pc' = "close"
    /\ UNCHANGED <<storage, version, fd, dfd, durable, cuts>>

\* fsync(fd). Faults: it is left out; its failure skips the close as well.
FsyncSkipped ==
    /\ pc = "fsync"
    /\ pc' = "close"
    /\ UNCHANGED <<storage, version, fd, dfd, ok, durable, cuts>>
FsyncFailsEarly ==
    /\ pc = "fsync"
    /\ \/ disk' = [disk EXCEPT ![fd] = cache[fd]] /\ ok' = ok /\ pc' = "close"
       \/ disk' = disk /\ ok' = FALSE /\ pc' = "open dir"
    /\ UNCHANGED <<cache, dir, disk_dir, version, fd, dfd, durable, cuts>>
Fsync ==
    /\ pc = "fsync"
    /\ pc' = "close"
    /\ \/ disk' = [disk EXCEPT ![fd] = cache[fd]] /\ ok' = ok
       \/ disk' = disk /\ ok' = FALSE
    /\ UNCHANGED <<cache, dir, disk_dir, version, fd, dfd, durable, cuts>>

\* close(fd); ok decides whether rename() is called at all. Fault: it is
\* called in any case.
CloseTmpAnyway ==
    /\ pc = "close"
    /\ fd' = None
    /\ pc' = "rename"
    /\ UNCHANGED <<storage, version, dfd, ok, durable, cuts>>
CloseTmp ==
    /\ pc = "close"
    /\ fd' = None
    /\ pc' = IF ok THEN "rename" ELSE "open dir"
    /\ UNCHANGED <<storage, version, dfd, ok, durable, cuts>>

Rename ==
    /\ pc = "rename"
    /\ pc' = "open dir"
    /\ \/ dir' = [tmp |-> None, dst |-> dir.tmp] /\ ok' = ok
       \/ dir' = dir /\ ok' = FALSE
    /\ UNCHANGED <<cache, disk, disk_dir, version, fd, dfd, durable, cuts>>

\* open(dir, O_RDONLY) runs after a failure too, the fsync behind it does not.
OpenDir ==
    /\ pc = "open dir"
    /\ dfd' \in BOOLEAN
    /\ ok' = (ok /\ dfd')
    /\ pc' = "fsync dir"
    /\ UNCHANGED <<storage, version, fd, durable, cuts>>

\* fsync(dfd), close(dfd) and the return. Fault: no flush of the directory.
ReturnWithoutFlush ==
    /\ pc = "fsync dir"
    /\ pc' = "idle"
    /\ dfd' = FALSE
    /\ durable' = IF ok THEN version ELSE durable
    /\ UNCHANGED <<storage, version, fd, ok, cuts>>
FsyncDirAndReturn ==
    /\ pc = "fsync dir"
    /\ pc' = "idle"
    /\ dfd' = FALSE
    /\ \/ ok /\ disk_dir' = dir /\ ok' = TRUE
       \/ disk_dir' = disk_dir /\ ok' = FALSE
    /\ durable' = IF ok' THEN version ELSE durable
    /\ UNCHANGED <<cache, disk, dir, version, fd, cuts>>

-----------------------------------------------------------------------------
(* The kernel and the power supply.                                        *)

WriteBack(i) ==
    /\ disk[i] # cache[i]
    /\ disk' = [disk EXCEPT ![i] = cache[i]]
    /\ UNCHANGED <<cache, dir, disk_dir, program, cuts>>

WriteBackDir ==
    /\ disk_dir # dir
    /\ disk_dir' = dir
    /\ UNCHANGED <<cache, disk, dir, program, cuts>>

\* All memory is lost; the program is started again after the reboot and
\* goes on to save the next version.
PowerCut ==
    /\ cuts < MaxCuts
    /\ cuts' = cuts + 1
    /\ cache' = disk
    /\ dir' = disk_dir
    /\ pc' = "idle"
    /\ fd' = None
    /\ dfd' = FALSE
    /\ ok' = FALSE
    /\ UNCHANGED <<disk, disk_dir, version, durable>>

InCall ==
    \/ Write \/ Fsync \/ CloseTmp \/ Rename \/ OpenDir
    \/ FsyncDirAndReturn

Next ==
    \/ OpenTmp
    \/ InCall
    \/ WriteFails
    \/ WriteInterrupted
    \/ \E i \in Inodes : WriteBack(i)
    \/ WriteBackDir
    \/ PowerCut

\* A call, once made, runs to its return: write() makes progress in the end,
\* since it is not interrupted for ever. Nothing relies on a call failing.
Spec == Init /\ [][Next]_vars /\ WF_vars(InCall)

-----------------------------------------------------------------------------
(* Properties.                                                             *)

\* Types; a descriptor is open exactly between its open and its close.
TypeOK ==
    /\ cache \in [Inodes -> Content]
    /\ disk \in [Inodes -> Content]
    /\ dir \in Directory
    /\ disk_dir \in Directory
    /\ pc \in Calls
    /\ version \in 0..MaxVersion
    /\ fd \in Inodes \union {None}
    /\ (fd # None) = (pc \in {"write", "fsync", "close"})
    /\ dfd \in BOOLEAN
    /\ ok \in BOOLEAN
    /\ durable \in 0..version
    /\ cuts \in 0..MaxCuts

VersionAt(d, content) == IF d.dst = None THEN Empty ELSE content[d.dst]

\* "a crash leaves the old file or the new one, never half of each": what a
\* reader sees and what a power cut would leave is a whole version, and it is
\* never older than the last one called durable.
OldOrNewNeverHalf ==
    \A c \in {VersionAt(dir, cache), VersionAt(disk_dir, disk)} :
      /\ c = Empty \/ c.length = LEN
      /\ durable <= c.version

\* To its caller all of this is a file that changes version in one step and
\* keeps what it has promised, through failures and power cuts.
AtomicDst == INSTANCE AtomicFile WITH
    file <- VersionAt(dir, cache).version,
    stable <- VersionAt(disk_dir, disk).version,
    promised <- durable
ImplementsAtomicFile == AtomicDst!Spec

\* Once a call of a save has failed, the file readers see stays as it is; a
\* save that returns without an error has put its own version on the device.
SaveTellsTheTruth ==
    [][cuts' = cuts =>
         /\ ~ok => VersionAt(dir', cache') = VersionAt(dir, cache)
         /\ (pc = "fsync dir" /\ ok') =>
               VersionAt(disk_dir', disk') = [version |-> version, length |-> LEN]]_vars

\* Every save returns.
SaveReturns == []<>(pc = "idle")

=============================================================================
