# Verification of the storage lab

The repository is a lab course on storage: ten folders of samples, each sample
written twice, in C and in C++. Most samples print tables or measure the
machine. Some of them *are* small storage systems: a flash translation layer,
an NVMe queue pair, a pair of io_uring rings, a tiny filesystem, a durable
file replacement. This directory models those systems in TLA+, checks them with
TLC, and proves what matters most with TLAPS.

Every sample is a sequential program with a `main` that checks itself. What is
hard in them is not threads of their own; it is

* operations that are long (one host write may program many flash pages and
  erase blocks) and whose intermediate states must be right;
* two parties that share rings (host and controller, application and kernel),
  which the sample calls in one fixed order and a real system does not;
* counters and indices that wrap, rings and tables that fill up;
* calls that can fail, be cut short or be interrupted, and power cuts;
* results that hold only because of a number chosen elsewhere (two hidden
  blocks, one unused slot, a ring twice as large as another).

## 1. Inventory

### 06 Flash translation layer (`07_ftl_model` ... `12_wear_leveling`)

* **State**: per flash page its state (Free, Valid, Stale) and the LBA it
  carries; per erase block the next page to program and the erase count; the
  map from LBA to page; the open block; two write counters.
* **Operations**: `write` (declare the old copy stale, `program` the next page,
  collect until two erased blocks are in reserve), `garbage_collect` (choose a
  victim, copy its valid pages, erase it), `trim`, counter reset. Block choice
  is `victim` and `erased_block`, with wear leveling on or off (`g_naive`).
* **Interaction**: `write` calls `garbage_collect`, which calls `program`, which
  may call `erased_block`: the collector uses the same open block as the host.
* **Hard**: a collection needs room for copies while it is called because room
  is short; `erased_block` returns -1 when there is none and `program` would use
  it as an index; two Valid copies of one LBA exist during a collection.
* **Correct when**: the map always leads to the newest copy, no live page is
  erased, the reserve is always restored, there is always a block to program,
  `write` returns, write amplification and wear stay in their bounds, and the
  host cannot tell any of this from an array of blocks.

### 07 NVMe queue pair (`04_submission_entry` ... `10_reap`)

* **State**: a submission and a completion ring, a head and a tail for each, two
  doorbells, the command id generator, host memory.
* **Operations**: `submit`, `ring_sq_doorbell` (host), `controller_run`
  (device), `reap` (host).
* **Interaction**: shared rings; each index has one writer ("one per CPU core:
  no lock"); the doorbell is what the device sees of the host's tail.
* **Hard**: full versus empty, completion ring without a full test, id
  wrap-around.
* **Correct when**: each command is answered once, in order, with its own id,
  after its data has arrived, and no index laps another.

### 08 io_uring rings (`10_uring_model`)

* **State**: two rings with free running 32-bit heads and tails.
* **Operations**: push, `enter` (the kernel consumes all, posts one completion
  each), pop.
* **Hard**: wrap-around of counters, a full completion ring inside `enter`.
* **Correct when**: both rings together are one in-order queue.

### 08, the rest

`11_poll_model` (a queue pair with one slot, polled against a device clock),
`09_app_cache` (a block cache that never evicts; a failed read is cached as a
block of zeros, and only the check in `main` notices), `05`/`06`/`07` (open with
`O_DIRECT`, fall back, measure).

### 03 TinyFs (`06_alloc_blocks`, `08_create_file`, `09_resolve_path`) and `10_hard_links`

* **State**: inode table (links, size, extents), block bitmap, one table of
  directory rows, the next inode number.
* **Operations**: `fs_alloc` (first fit), `fs_create`, `fs_make_dir`,
  `fs_rename`, `fs_unlink`, `fs_resolve`.
* **Hard**: partial allocation, extents and rows that run out, names that are
  overwritten, rename into a subtree.
* **Correct when**: no block belongs to two files, every allocated block belongs
  to a file that a name reaches, link counts count names, a size is covered by
  its extents, resolution ends.

### 05 Durable replace (`10_durable_replace`)

* **State**: the temporary file and the file itself, each in the page cache and
  on the device; the directory, in both places; the descriptor, the flag `ok`.
* **Operations**: `durable_replace`, a chain of system calls, each of which may
  fail; `write_all`, a retry loop over short and interrupted writes; write-back
  by the kernel at any time; a power cut.
* **Correct when**: "a crash leaves the old file or the new one, never half of
  each", a save that reports success is on the device, a failed one changes
  nothing, every save returns.

### 02 Blocks and bytes

`08_offset_to_lba`, `09_misaligned_write` (a device of whole blocks with
read-modify-write), `10_partition_alignment`, `11_align_io`. Arithmetic with
edges at zero and at block boundaries; the device must not touch a byte outside
the range it is given.

### Samples that use the operating system (04, 05, 08, 09, 10, and one each of 02 and 03)

* **State**: what a program holds (descriptors, streams, memory, mappings), the
  files it has made, whether they hold what was written, its flags.
* **Operations**: system and library calls, each of which may fail.
* **Hard**: every call has an error path, every error path has to undo what came
  before it, and every sample exists twice, with destructors and without.
* **Correct when**: nothing is left behind, nothing is used that is not held, and
  a program that exits with status 0 has not lost data it claims to have checked.

### 09 arithmetic, 01, closing slides, scripts

Formulas in floating point, tables, closing slides, and shell scripts that call
system tools. No state whose correctness a later step could depend on.

`PROJECT.json` lists each of these under `components` with its status, and the
concrete hazards, at their lines, under `hazards`.

## 2. Plan

In order of weight:

1. **Done** `Ftl`, its inductive invariant `FtlInvariant`, proofs `Ftl_proofs`;
   `BlockDevice` (abstract) implemented by `FtlDrive`, proved in
   `FtlDrive_proofs`.
2. **Done** `NvmeQueuePair` and `UringRings`, both implementing the abstract
   `InOrderQueue`; the queue pair's invariant `NvmeInvariant`, proofs
   `NvmeQueuePair_proofs`.
3. **Done** `TinyFs`: the invariants of a filesystem checker, at every step of
   every operation.
4. **Done** `DurableReplace`, implementing the abstract `AtomicFile`.
5. **Done** the samples that use the operating system, as programs in one small
   vocabulary (`SampleSteps`, `Samples04` ... `SamplesRest`) that `Samples` runs
   against calls that fail; with them the small models `AppCache`,
   `PolledQueue` and `ModelDevice` (`SampleRuns`).
6. **Done** `FtlScripts`: the mains of the flash samples, `write_no_gc` and the
   collection by hand.
7. **Done** proofs for `TinyFs`: no block has two owners, the bitmap matches the
   inodes, no name leads to a freed inode; for every disk, table and set of names.
8. **Done** proofs for `DurableReplace`: never half a file, and the refinement of
   `AtomicFile`.
9. **Done** proofs for `UringRings`, along the lines of those for the queue pair.
10. **Done** proofs for the three small models, for every value of their constants.
11. **Done** proofs for `FtlScripts`: consistency between calls, even wear of one
    hot LBA.
12. **Done** the proofs that take more than one step at a time: the directory
    rows of `TinyFs` form a tree whose paths are short enough to be found, and the
    mains of `FtlScripts` exit with 0, the loops of `write()` and `fs_create` go on
    and count down.

## 3. Modules and how they correspond to the code

| module | code | what its steps are |
| --- | --- | --- |
| `Ftl` | `06-*/07_ftl_model` ... `12_wear_leveling` | `Write(l)` is `write()` up to its `while`; `StartCollection`, `CopyPage`, `EraseVictim`, `FinishWrite` unroll the loop and `garbage_collect()`; `Trim(l)`, `ResetCounters` |
| `FtlInvariant` | | the inductive invariant `FtlInv` by parts, `MapInv` being the part that needs no reserve |
| `Ftl_proofs`, `FtlDrive_proofs` | | proofs, section 6; likewise every module `*_proofs` below |
| `FtlDrive` | the same, as the host sees it | every step of `Ftl`, with the payload of each page as an observer |
| `BlockDevice` | abstract | an array of blocks, `Write` and `Trim` |
| `NvmeQueuePair` | `07-*/04_submission_entry` ... `10_reap` | `Submit`, `RingSqDoorbell`, `ControllerRun` (one command), `StartReap`, `ReapOne`, `FinishReap` |
| `NvmeInvariant` | | the inductive invariant `NvmeInv`, by parts |
| `UringRings` | `08-*/10_uring_model` | `SqPush`, `Enter`, `Consume` (one request), `Return`, `CqPop` |
| `UringInvariant` | | the inductive invariants `RingInv` and `UringInv`, by parts |
| `InOrderQueue` | abstract | `Issue`, `Answer` |
| `FtlScripts` | the mains of `06-*` | the calls of one `main` in their order, on top of the steps of `Ftl`; `WriteNoGc` is `write_no_gc()`, `CollectByHand` a `garbage_collect()` called by `main` |
| `FtlScriptsInvariant` | | the inductive invariants `ScriptInv`, `HotInv` and `MainsInv` of the mains |
| `TinyFs` | `03-*/06_alloc_blocks`, `08_create_file`, `09_resolve_path` | `StartCreate` is the space check and `fs_create` up to its loop, `AllocateExtent` one turn of it, `FinishCreate` the directory row (and what `fs_make_dir` adds); `Unlink`, `Rename`; `Resolve` is an operator |
| `TinyFsInvariant` | | the inductive invariants `TinyFsInv`, `SizeInv` and `TreeInv`, by parts |
| `DurableReplace` | `05-*/10_durable_replace` | one step per system call of `durable_replace` (`OpenTmp`, `Write`, `Fsync`, `CloseTmp`, `Rename`, `OpenDir`, `FsyncDirAndReturn`), and the kernel (`WriteBack`, `WriteBackDir`, `PowerCut`) |
| `DurableInvariant` | | the inductive invariant `DurableInv`, by parts |
| `AtomicFile` | abstract | a file that changes version in one step |
| `SampleSteps` | | the vocabulary of the programs below |
| `Samples04`, `Samples05`, `Samples08`, `SamplesRest` | 34 programs of folders 02, 03, 04, 05, 08, 09, 10 | one definition per program: its calls in their order, and what it does when one fails |
| `Samples` | | runs such a program: one action per kind of call |
| `AppCache` | `08-*/09_app_cache` | `Hit`, `Miss`, `MissNoMemory` of `cache_get` |
| `PolledQueue` | `08-*/11_poll_model` | `QpSubmit`, `DeviceTick`, `QpReap` |
| `ModelDevice` | `02-*/08_offset_to_lba` ... `11_align_io` | `StartWrite`, `WriteBlock` (one turn of the device's loop); the arithmetic as operators |
| `SampleRuns` | | one run of one program or small model |
| `SampleInvariant` | | the inductive invariants `CacheInv`, `PollInv`, `DeviceInv` of the small models |

A flash page is a pair `<<block, page>>` where the code packs `block * PAGES +
page` into an integer and unpacks it again. `erased_block()` and `victim()` are
loops that keep the best candidate; the model says which block they return (the
least by erases and index, or by stale pages, erases and index), and no block
where they return -1: an operation that would then index the flash with -1 has
no step, and `NeverOutOfErasedBlocks` says that this never happens.

A sample program is a sequence of steps; a step is a call, what the program does
next if the call succeeds and what if it fails, so that the definition of a
program reads like its `main` without the printing. `Choose` stands for the
halves of an `#if`, and for the argument that selects a short run. Calls on a C++
stream or a descriptor that is not open fail; calls on a `FILE` or on memory that
is not there are undefined, which `HandlesAreLive` excludes. A write that fails,
or a close that cannot write out its buffer, leaves a file *torn*; data is *lost*
when a torn file is removed as checked or outlives the program.

Definitions marked "Fault" are plausible bugs next to the operation they belong
to. They are part of no specification; each property is known to fail when its
fault replaces the operation (`mutants` in `PROJECT.json`).

## 4. Runs

| run | instance | what it shows |
| --- | --- | --- |
| `ftl` | 3 blocks of 3 pages, 3 LBAs (a full drive: only the two hidden blocks are spare), 3 erases per block | map, page states, fill order, reserve, amplification and the inductive invariant at every step of every operation sequence |
| `ftl_scripts` | the samples' 6 blocks of 4 pages and 16 LBAs, the scripts of all six mains, 1000 hot writes as in the code, 4 random writes | every main exits with status 0 whatever LBAs its generator picks; `write_no_gc` never uses up the last erased block; hot data is never copied and wears all blocks alike, to within one erase |
| `ftl_drive` | 3 blocks of 2 pages, 2 LBAs, 2 payloads, wear leveling off | the drive implements `BlockDevice`; every write returns |
| `nvme` | rings of 3, ids modulo 4, 2 LBAs, 2 buffers, 7 commands | index accounting, data before completion, distinct ids, the inductive invariant, refinement of `InOrderQueue` with its liveness |
| `nvme_phase` | as `nvme`, 4 commands | **violated**: the phase bit does not flip (finding) |
| `uring` | rings of 2 and 4, counters modulo 8, 10 requests | no entry lost across wrap-around, refinement of `InOrderQueue` |
| `uring_overflow` | rings of 1 and 2, 4 in flight | **violated**: a completion is dropped (finding) |
| `tinyfs` | 6 blocks (1 of metadata) of 2 bytes, 5 inodes, 3 directory rows, 2 names, files of 1 and 5 bytes | what a filesystem check looks for, at every step |
| `tinyfs_extents` | as `tinyfs`, one extent per inode | **violated**: a size that the extents do not hold (finding) |
| `durable` | 4 inodes, 3 versions of 2 bytes, 2 power cuts | the old file or the new one, refinement of `AtomicFile`, truthful results, every save returns |
| `samples` | 34 programs, and the three small models: 3 blocks and 6 reads of the cache, 3 polled commands with device times that do and do not divide by the poll time, a device of 3 blocks of 2 sectors of 2 bytes and every range on it | nothing left behind, nothing used that is not held, no silent loss; the cache, the queue and the device are right |
| `samples_leak` | the same programs | **violated**: a temporary file stays behind (finding) |

**Bounds.** `MaxErases` stops new host writes (never a collection) once a block
has been erased that often; three rounds make every block play every part: open,
full, victim, erased with a higher and a lower wear than its neighbours. Three
LBAs on 3x3 pages is the tightest geometry the drive allows,
`LBAS = (BLOCKS - 2) * PAGES`, which is also the ratio of the samples (16 of 24
pages). `MaxCommands` and `MaxRequests` let each ring and each counter wrap at
least twice. The ring sizes keep the samples' relations: one slot of the NVMe
ring unused, the completion ring of io_uring twice the submission ring.

In `tinyfs` the five data blocks hold one large file and two small ones, so the
disk fragments, fills up and has its holes filled again; five inodes allow two
directories below each other; three rows are fewer than the files that fit.
Six extents are more than the five data blocks can be split into, so that run is
about the C++ twin, whose extents are a vector, and about C files that do not
need their last extent; `tinyfs_extents` is about those that do.
`durable` needs four inodes because the directory on the device and the one in
the page cache can name two each; three versions and two cuts let a save find
the temporary file of an interrupted one, more than once. The random loops of
`ftl_scripts` are 4 turns where the code has 1000 or more, but each turn takes
any LBA where the code takes one: short enough to be complete, long enough for a
collection on a full drive. The programs of `samples` have no loops left: a loop
over equal calls is one call that may fail (or two, for a warm-up and a timed
run).

**Symmetry** is used for LBAs in `ftl`, where only safety is checked and the
model never compares LBAs.

**Fairness.** `write()` is one call: once entered its loop runs on
(`WF(InsideWrite)`); nothing makes the host call again. In the queue pair the
device works on what has been rung, and the program rings what it has submitted
and reaps what has been posted, as every `main` does. `enter()` is a system call
that runs to its return; the application calls it when it has pushed something
and pops what has been posted. A save in `DurableReplace` runs to its return
(`WF(InCall)`): it is one function call, `write()` takes at least one byte in the
end, and a signal does not interrupt it for ever; no failure and no write-back is
relied on.

**Rules of the callers.** Some models rest on how the code is used, because the
code itself does not enforce it: commands rung and not reaped fit into the NVMe
completion ring (`MaxOutstanding < Size`; the samples reap all before they ring
again), and two reads in flight do not share a buffer unless they read the same
block. `controller_run` is one C function and no code of the host runs between its
DMA and its completion entry, so `ControllerRun` does both in one step:
`DataBeforeCompletion` tells a transfer that was skipped, or overwritten by that of
another command, not the order of the two writes. `uring` assumes at most `CQ_N`
requests in flight; `uring_overflow` drops that assumption and shows what happens.

`TinyFs` checks most of its invariants without any rule. That nothing gets lost
(`CarefulUseLosesNothing`) holds for callers that do not create or rename over a
name in use, do not fill up the directory table and do not move a directory below
itself, as the samples' mains do not; the variable `careful` records that, and the
model goes on when it is broken. Names that do not exist are not unlinked or renamed:
the C functions return at once, the C++ twins would insert a row with inode 0,
and nobody calls them so. `fs_unlink` is called for files only. So
`CarefulUseLosesNothing` does not catch the three misuses, which do lose an inode
in the code: it says that there is no other way of losing one.

Every creation of the model passes the check of `create_checked`: blocks enough,
and an inode number left. `fs_make_dir`, and sample 09 where it calls `fs_create`
itself, make no such check; their mains make a handful of files and stay far from
both limits.

The polled queue gets its next command after the last one is reaped. The device
gets ranges of at least one byte. The alignment verdict of a partition is checked
for physical sectors of one sector or one block, the sizes of the sample's own
examples; the size it reads from the machine may be another, and for a larger one
its "one clean write" says nothing.

In `Samples` a create that fails makes no file, and removing one's own file does
not fail; a program whose clean-up itself is refused could not do better.
`LossIsNoticed` speaks of the files whose content a program claims to have
checked. About the others (`Discard`: files that are only timed, such as all of
`05-*/07_write_fsync`, and that of `02-*/11_align_io`, of which one block is looked
at) the property is silent.

## 5. Findings

* `07-*/10_reap.c:82` posts phase 1 on every pass although `06_completion_entry.c:52`
  says that the phase bit flips on every pass (`nvme_phase`). The sample's
  `reap()` does not look at the bit.
* `08-*/10_uring_model.c:68` drops a completion when the ring is full although
  the comment on `enter()` promises one completion each (`uring_overflow`).
* `03-*/08_create_file.c:100` stops at `MAX_EXTENTS` extents although blocks are
  still missing and the space check has promised them (`tinyfs_extents`). With
  the 8 extents of the code it takes a disk with nine holes of one block. The
  C++ twin has no limit.
* `09-*/11_random_read.cpp:97` returns without removing the test file that it could
  not write; line 154 says that it never stays behind (`samples_leak`).

Three more C++ samples forget something on an error path, without a sentence in
the repository that denies it: `04-*/03_open_fd.cpp` and `04-*/06_write_all.cpp`
return without `unlink()`, `08-*/06_aligned_blocks.cpp` without `free()`. Their C
twins clean up. `NothingLeftBehind` names these four programs as `Forgetful` and
holds for the others.

## 6. Proofs

### The flash translation layer (`Ftl_proofs`)

For every `BLOCKS > 2`, `PAGES > 0` and finite set of LBAs with at most
`(BLOCKS - 2) * PAGES` members, wear leveling on or off, `Spec => []FtlInv`, and
from it each safety property that run `ftl` checks. `MaxErases` plays no part.

The properties are not inductive. That `write()` keeps two erased blocks in
reserve needs to know what a collection starts from: only one erased block is
left, which happens only when the open block has just been opened, so the host's
page is the only one in it (`FreshlyOpened`). During the copy the open block holds
at most one page more than the loop index, and one less once the stale page of
the victim has been passed (`RoomForCopies`): the copies fit, no further block is
opened, and after the erase there are two erased blocks again. The same counting
gives the bound on write amplification. That there *is* a victim with a stale
page is a pigeonhole argument (`SomethingToCollect`): if all full blocks were
fully valid, `(BLOCKS - 2) * PAGES + 1` pages would hold as many different LBAs.
That an erase loses nothing needs `CopiedPagesAreUnmapped`: no LBA lives in the
part of the victim the loop has passed. `FtlInv` is the conjunction of `MapInv`,
which says all this of the map and is inductive by itself, and of `Reserve` and
`Amplification`, which rest on it.

That `write()` returns is liveness, but the two facts it rests on are proved.
`WriteCountsDown`: every step of a write lowers `WorkLeft`, since an erase leaves
two erased blocks (`EraseLeavesTwo`) and one collection per write is enough.
`WriteIsNeverStuck`: in each of these states there is a next step to take, that
is, `victim()` and `erased_block()` return a block whenever they are asked
(`FirstOfAll`: a loop that keeps the best candidate by two ranks and the index
has one), and the way out for "nothing to collect" is never needed. What is left
to TLC is the step from there to `WriteReturns`, through `ENABLED`.

### The drive as a block device (`FtlDrive_proofs`)

`DriveSpec => ImplementsBlockDevice`, for all payloads too: programming is the
abstract write, TRIM the abstract TRIM, and copying, erasing and the rest are
invisible to reads. It rests on `FtlInv`.

### The mains of the flash samples (`FtlScripts_proofs`)

The mains collect by hand and write without a collection, so they keep no reserve;
`MapInv` holds in them all the same (`ScriptsKeepTheMap`). `MainsStayConsistent`
follows: between any two calls of any main, `map` is a bijection from the mapped
LBAs to the Valid pages, which is what `consistent()` counts. It is stated for
every geometry whose host has the 16 LBAs the scripts name (`SixteenLbas`), and
for any number of rounds of their loops (`RoundsAssumption`: at least one).

`HotDataStaysEven` says that a script which only writes LBA 7 moves no page and
wears the blocks to within one erase of each other, under the further hypothesis
that wear leveling is on: without it the comparison run of sample 12 exists to
show the opposite. `HotInv` says why. The only page that is not stale is in the
open block, so every full block is stale as a whole and `victim()` is left to
compare wear; and wear is in the order of the blocks' lives (`WearIsInOrder`): a
full block has at most the erases of the open one, the open one at most those of
the erased ones, and none is more than one lap behind. Erasing the least worn of
the full blocks and opening the least worn of the erased ones keeps that order.

`MainsExitWithZero` is `ScriptSpec => []MainsSucceed` for every drive that
`SampleGeometry` describes: 16 LBAs, and the 20 pages sample 09 writes need more
than one block and leave one over. The code's 6 blocks of 4 pages satisfy it.
Neither half can be dropped: with blocks of 20 pages the collection by hand finds
no victim, with 10 blocks of 2 pages the four writes fill the drive and the
collection has no block to copy to. These writes leave the reserve of `FtlInv`
behind; `MainsInv` follows the two scripts instead.
Until the collection the drive of sample 09 is one log: the blocks are filled in
the order of their numbers, and the number of calls left gives the place of the
next page (`OneLog`, `LogInv`). The first of the four writes makes the first page
of block 0 stale, and by the last one block 0 is not the open block, so there is
a victim, and what the collection copies fits in the block left over
(`CopiesFit`). The clean drive has no stale page at all (`NoStalePage`), so its
collection finds nothing.

### The queue pair (`NvmeQueuePair_proofs`)

`Spec => []NvmeInv`, and from it the index accounting, data before completion,
distinct ids and `Queue!SafeSpec`, the safety half of the refinement, for every
ring size above one and any sets of blocks and buffers. `MaxCommands` plays no
part.

That the six indices account for every command is not inductive: two distances
around a ring add up to a third only while their sum is below the ring size.
`RoomInTheRings` says that it is, in the submission ring because a slot stays
unused (`RingFull`), in the completion ring because of the rule
`MaxOutstanding < Size`: every command rung has a slot waiting. The order of the
answers needs the *contents* of the rings too: counting from `sq_head`, the
submission ring holds the commands not yet fetched, and counting from `cq_head`
the completion ring holds the ids not yet reaped (`SubmissionsInOrder`,
`CompletionsInOrder`). Ids are distinct because they count up (`IdsCountUp`) and
two rings hold at most `2 * Size - 2` commands, which `QueueAssumption` requires
the id space to hold. Data stays in place until it is reaped because callers do
not aim two reads at one buffer (`BuffersDoNotClash`).

The first part of the module is the arithmetic of indices: what `% Size` does to
`NextIndex` and `Dist` when an index moves. The rest uses these lemmas only.

### The io_uring rings (`UringRings_proofs`)

For every two ring sizes that divide the counters' range and are smaller, and any
number of requests, `Spec => []RingInv`, and from it `TypeOK`: the rings hold no
more than their slots, the slots in use are the ones the masked counters reach,
and the submission ring holds the last requests pushed, in order, also while a
counter has wrapped around and `tail < head`. `MaxRequests` and the counters'
start play no part.

`ASSUME MaxInFlight <= CQ_N PROVE Spec => []UringInv`, and from it
`NoEntryLostOrInvented`, `OneCompletionEach` and `Queue!SafeSpec`, the safety half
of the refinement. The hypothesis is the callers' rule; nothing in the code
enforces it, and run `uring_overflow` shows what happens without it, so it is
stated with each theorem and is not an assumption of the module.

The counting is not inductive without `RoomInTheRings`: unsigned subtraction tells
the fill level only below the range of the counters. Which slots those entries are
is `SlotsLineUp`: since the ring size divides the counters' range, the slot after
the last one of the range is slot 0 again. `CompletionsInOrder` and
`AnswersInOrder` then say what the slots hold.

### TinyFs (`TinyFs_proofs`)

For every disk, inode table, extent list, directory table and set of names,
`Spec => []TinyFsInv`, and from it `TypeOK`, `NoBlockHasTwoOwners`,
`BitmapMatchesInodes` and `NamesReachLiveInodes`. The allocator looks at the
bitmap only, so that no block has two owners is inductive only together with the
bitmap's being right; that it is right after `fs_unlink` needs back that nobody
else owns the blocks given up. That no name leads to a freed inode needs
`JobHasItsInode` (the inode being filled has no row yet, and the directory it goes
to stays) and `FreshInodesAreBlank`.

`SizeCovered` needs counting: the blocks an inode has and those it still needs are
what its size needs (`BlocksAreAccounted`), and those it still needs are free
(`NeedIsFree`), as the check before `fs_create` made sure. Each turn of the loop
takes at least one. The theorem has the hypothesis
`NBLOCKS - METADATA <= MAX_EXTENTS`: an inode has room for an extent per data
block, as the growing list of extents of the C++ samples has. The C sample has
room for 8 extents on a disk of 64 blocks, and run `tinyfs_extents` shows what
that leads to (section 5).

`CreateCountsDown` and `CreateIsNeverStuck` say that the loop of `fs_create` ends:
`fs_alloc` always has a run to return, and as long as blocks are missing it is
not empty, because what the check before `fs_create` counted as free stays free
until the creation is done. They need no hypothesis on the number of extents; the
C++ samples, whose list of extents grows without bound, would otherwise append
empty extents for ever.

With careful callers every inode in use has a row (`LiveInodesKeepTheirName`), but
that is not enough for `CarefulUseIsSafe`: a row that no path reaches is lost as
well. Two directories that hold each other's only row are the shape to exclude,
or any larger set of inodes that keeps its rows to itself. `NothingIsCutOff` says
that there is none: every set of inodes in use without the root has a row from
outside. It is inductive together with the facts that no two rows have the same
directory and name and that directories stay in use (`TreeInv`, theorem
`RowsFormATree`). The step that could break it
is `Rename`: take a set that is cut off afterwards; the moved inode is in it and
so is its new directory. What of the set does not lie below the moved inode was
then cut off before, and since the new directory is not below the moved inode, it
is not empty. From the tree to the paths the argument is one of counting
(`WalksReachAllBelow`): as long as the inodes reached by paths of `n` names are
not all that can be reached, `n + 1` names reach more, so paths of as many names
as there are inodes are enough. `Hops` recurses over that length; what holds of it
for every length is proved by a least counterexample (`LeastNumber`).

### The durable replace (`DurableReplace_proofs`)

For every set of inodes, file length, number of saves and number of power cuts,
`Spec => []DurableInv`, and from it `TypeOK`, `OldOrNewNeverHalf`, the action
property `SaveTellsTheTruth`, and `ImplementsAtomicFile` as a whole: that
abstract specification promises no progress.

That readers see whole versions is not inductive. The file must never be the
inode being written, in the page cache or on the device (`TmpIsNotTheFile`), only
the temporary file may differ between the two (`OnlyTmpIsDirty`), and the order of
the calls is what makes the temporary file whole in both when it is renamed
(`TmpHoldsTheSave`). With these every step of the kernel and every power cut
leaves the old version or the new one.

### The small models (`SampleRuns_proofs`)

`CacheServesTheDevice` for every set of blocks and number of reads,
`PollCompletesEachOnce` for every polling step and set of device times, and
`BlocksAgree` for every sector, block and device size. Each module states as a
named assumption what its sample's constants satisfy: sizes and times are
positive, a sector is not larger than a block.

`PollInv` ties the clock to the polls: after each turn the clock has gone one step
further and has not reached the device's time, so the poll that sees the
completion is the quotient rounded up. `DeviceInv` says at each turn of the loop of
`device_write` which bytes are new and how many of the blocks so far were covered
as a whole, the ones it need not read.

## 7. Only model-checked

* Liveness (`WriteReturns`, `SaveReturns`, the fairness part of
  `ImplementsInOrderQueue`): TLAPS does not prove liveness. For `WriteReturns` the
  measure and the next step at each state are proved (section 6), and likewise
  for the loop of `fs_create`.
* `NothingLeftBehind`, `HandlesAreLive`, `LossIsNoticed`, and the part of
  `SampleRuns`' `TypeOK` that is about programs: each sample program is a finite
  program, and the run goes through all of its paths, so that there is no
  parameter left to prove anything for.

## 8. Not modelled

Statistics that are only printed (`doorbell_writes`, `errors`,
`g_system_calls`), the layout of entries in bytes, the fake NAND contents, the
bytes of files and names, all output and timing. The comparison run of sample 12
of folder 06 without wear leveling is not among the scripts; `Ftl` itself has
both settings. The page cache as the samples of folder 05 measure it: what is
resident when is the kernel's choice. The crash that `04-*/11_flush_vs_fsync`
talks about never happens in that sample. Formulas in floating point
(`09-*/03_block_size`, `05_littles_law`, `12_percentiles`), tables, closing
slides and shell scripts: they keep no state, or a list that is filled and
printed once. Components with status `not_modelled` in `PROJECT.json` have the
reason there.
