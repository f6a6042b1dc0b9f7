------------------------------ MODULE Samples ------------------------------
(***************************************************************************)
(* Runs one sample program, step by step, on an operating system that may  *)
(* refuse any call: what the program holds at each moment, which files it  *)
(* has made and whether they hold what they should.                        *)
(***************************************************************************)
EXTENDS Samples04, Samples05, Samples08, SamplesRest, FiniteSets

\* The programs, by folder and file.
Table ==
    {<<"02/11_align_io.c", AlignIoC>>,
     <<"02/11_align_io.cpp", AlignIoCpp>>,
     <<"03/10_hard_links.c", HardLinksC>>,
     <<"03/10_hard_links.cpp", HardLinksCpp>>,
     <<"04/03_open_fd.c", OpenFdC>>,
     <<"04/03_open_fd.cpp", OpenFdCpp>>,
     <<"04/06_write_all.c", WriteAllC>>,
     <<"04/06_write_all.cpp", WriteAllCpp>>,
     <<"04/07_byte_at_a_time.c", ByteAtATimeC>>,
     <<"04/07_byte_at_a_time.cpp", ByteAtATimeCpp>>,
     <<"04/08_one_call.c", OneCallC>>,
     <<"04/08_one_call.cpp", OneCallCpp>>,
     <<"04/09_ofstream_put.c", OfstreamPutC>>,
     <<"04/09_ofstream_put.cpp", OfstreamPutCpp>>,
     <<"04/11_flush_vs_fsync.c", FlushVsFsyncC>>,
     <<"04/11_flush_vs_fsync.cpp", FlushVsFsyncCpp>>,
     <<"05/05_cold_file.c", ColdFileC>>,
     <<"05/05_cold_file.cpp", ColdFileCpp>>,
     <<"05/06_read_twice.c", ReadTwiceC>>,
     <<"05/06_read_twice.cpp", ReadTwiceCpp>>,
     <<"05/07_write_fsync.c", WriteFsyncC>>,
     <<"05/07_write_fsync.cpp", WriteFsyncCpp>>,
     <<"05/08_mmap_cache.c", MmapCacheC>>,
     <<"05/08_mmap_cache.cpp", MmapCacheCpp>>,
     <<"08/05_open_direct.c", OpenDirectC>>,
     <<"08/05_open_direct.cpp", OpenDirectCpp>>,
     <<"08/06_aligned_blocks.c", AlignedBlocksC>>,
     <<"08/06_aligned_blocks.cpp", AlignedBlocksCpp>>,
     <<"08/07_buffered_vs_direct.c", BufferedVsDirectC>>,
     <<"08/07_buffered_vs_direct.cpp", BufferedVsDirectCpp>>,
     <<"09/11_random_read.c", RandomReadC>>,
     <<"09/11_random_read.cpp", RandomReadCpp>>,
     <<"10/03_three_rules.c", ThreeRulesC>>,
     <<"10/03_three_rules.cpp", ThreeRulesCpp>>}
Programs ==
    [p \in {row[1] : row \in Table} |-> (CHOOSE row \in Table : row[1] = p)[2]]

VARIABLES
    sample,    \* the program that runs
    todo,      \* the steps it has still to do
    files,     \* the files it has made
    torn,      \* those among them that do not hold what was written
    held,      \* descriptors, streams and memory it holds
    bad,       \* its flags that have been noted bad
    lossy,     \* whether data was lost for good
    said,      \* whether it said that it could not do its work
    status     \* "running" or the exit status

vars == <<sample, todo, files, torn, held, bad, lossy, said, status>>
outcome == <<sample, lossy, said, status>>

\* A name for a resource, its kind and the file behind it.
Kinds == {"descriptor", "stream", "reader", "memory"}

InitProgram(p, steps) ==
    /\ sample = p
    /\ todo = steps
    /\ files = {}
    /\ torn = {}
    /\ held = {}
    /\ bad = {}
    /\ lossy = FALSE
    /\ said = FALSE
    /\ status = "running"

Holds(h) == \E r \in held : r.name = h
Behind(h) == {r.file : r \in {x \in held : x.name = h}}
Buffered(h) == {r.file : r \in {x \in held : x.name = h /\ x.kind = "stream"}}
Without(h) == {r \in held : r.name # h}

-----------------------------------------------------------------------------
IsNext(calls) == todo # <<>> /\ Head(todo).do \in calls
Now == Head(todo)
Succeeds == todo' = Now.then \o Tail(todo)
Fails == todo' = Now.or \o Tail(todo)

KindOf(do) ==
    CASE do \in {"create", "open"} -> "descriptor"
      [] do = "create stream" -> "stream"
      [] do = "open stream" -> "reader"
      [] do = "acquire" -> "memory"

CreateFile ==
    /\ IsNext({"create", "create stream"})
    /\ \/ /\ Succeeds
          /\ files' = files \union {Now.file}
          /\ torn' = torn \ {Now.file}
          /\ held' = held \union
                {[name |-> Now.arg, kind |-> KindOf(Now.do), file |-> Now.file]}
       \/ Fails /\ UNCHANGED <<files, torn, held>>
    /\ UNCHANGED <<bad, outcome>>

OpenFile ==
    /\ IsNext({"open", "open stream"})
    /\ \/ /\ Now.file \in files
          /\ Succeeds
          /\ held' = held \union
                {[name |-> Now.arg, kind |-> KindOf(Now.do), file |-> Now.file]}
       \/ Fails /\ UNCHANGED held
    /\ UNCHANGED <<files, torn, bad, outcome>>

\* A failed or short write leaves the file torn; so does a close that cannot
\* write out what the stream has buffered.
WriteFile ==
    /\ IsNext({"write", "put"})
    /\ \/ Holds(Now.arg) /\ Succeeds /\ UNCHANGED torn
       \/ Fails /\ torn' = torn \union Behind(Now.arg)
    /\ UNCHANGED <<files, held, bad, outcome>>

\* A read of a torn file comes up short.
ReadFile ==
    /\ IsNext({"read", "get"})
    /\ \/ Holds(Now.arg) /\ Behind(Now.arg) \intersect torn = {} /\ Succeeds
       \/ Fails
    /\ UNCHANGED <<files, torn, held, bad, outcome>>

CloseFile ==
    /\ IsNext({"close", "close stream"})
    /\ held' = Without(Now.arg)
    /\ \/ Succeeds /\ UNCHANGED torn
       \/ /\ Now.do = "close stream"
          /\ Fails
          /\ torn' = torn \union Buffered(Now.arg)
    /\ UNCHANGED <<files, bad, outcome>>

AcquireMemory ==
    /\ IsNext({"acquire"})
    /\ \/ /\ Succeeds
          /\ held' = held \union
                {[name |-> Now.arg, kind |-> "memory", file |-> ""]}
       \/ Fails /\ UNCHANGED held
    /\ UNCHANGED <<files, torn, bad, outcome>>

UseMemory ==
    /\ IsNext({"use", "release"})
    /\ Succeeds
    /\ held' = IF Now.do = "release" THEN Without(Now.arg) ELSE held
    /\ UNCHANGED <<files, torn, bad, outcome>>

StatFile ==
    /\ IsNext({"stat"})
    /\ \/ Now.file \in files \ torn /\ Succeeds
       \/ Fails
    /\ UNCHANGED <<files, torn, held, bad, outcome>>

LinkName ==
    /\ IsNext({"link"})
    /\ \/ /\ Now.arg \in files \union {""}
          /\ Succeeds
          /\ files' = files \union {Now.file}
          /\ torn' = IF Now.arg \in torn THEN torn \union {Now.file} ELSE torn
       \/ Fails /\ UNCHANGED <<files, torn>>
    /\ UNCHANGED <<held, bad, outcome>>

\* Fault: a removed file is still counted among the torn ones.
RemoveFileKeepsTorn ==
    /\ IsNext({"remove", "discard"})
    /\ Succeeds
    /\ files' = files \ {Now.file}
    /\ lossy' = (lossy \/ (Now.do = "remove" /\ Now.file \in torn))
    /\ UNCHANGED <<torn, held, bad, sample, said, status>>
RemoveFile ==
    /\ IsNext({"remove", "discard"})
    /\ Succeeds
    /\ files' = files \ {Now.file}
    /\ torn' = torn \ {Now.file}
    /\ lossy' = (lossy \/ (Now.do = "remove" /\ Now.file \in torn))
    /\ UNCHANGED <<held, bad, sample, said, status>>

Elsewhere ==
    /\ IsNext({"try", "choose"})
    /\ Succeeds \/ Fails
    /\ UNCHANGED <<files, torn, held, bad, outcome>>

NoteFlag ==
    /\ IsNext({"note"})
    /\ Succeeds
    /\ bad' = bad \union {Now.arg}
    /\ UNCHANGED <<files, torn, held, outcome>>

Decide ==
    /\ IsNext({"if good", "if held"})
    /\ IF IF Now.do = "if good" THEN Now.arg \notin bad ELSE Holds(Now.arg)
       THEN Succeeds
       ELSE Fails
    /\ UNCHANGED <<files, torn, held, bad, outcome>>

SayRefused ==
    /\ IsNext({"say"})
    /\ Succeeds
    /\ said' = TRUE
    /\ UNCHANGED <<files, torn, held, bad, sample, lossy, status>>

ExitProgram ==
    /\ IsNext({"return"})
    /\ status' = IF Now.arg \intersect (bad \union {"failure"}) = {} THEN "0" ELSE "1"
    /\ lossy' = (lossy \/ torn # {})
    /\ todo' = <<>>
    /\ UNCHANGED <<files, torn, held, bad, sample, said>>

Exited == status # "running" /\ UNCHANGED vars

ProgramStep ==
    \/ CreateFile \/ OpenFile \/ WriteFile \/ ReadFile \/ CloseFile
    \/ AcquireMemory \/ UseMemory \/ StatFile \/ LinkName \/ RemoveFile
    \/ Elsewhere \/ NoteFlag \/ Decide \/ SayRefused \/ ExitProgram
    \/ Exited

-----------------------------------------------------------------------------
(* Properties.                                                             *)

ProgramTypeOK ==
    /\ torn \subseteq files
    /\ \A r \in held : r.kind \in Kinds
    /\ said \in BOOLEAN /\ lossy \in BOOLEAN
    /\ status \in {"running", "0", "1"}

\* The programs that leave something behind when a call in the middle of
\* them fails: 03 and 06 of folder 04 return without unlink(), so does 11 of
\* folder 09, and 06 of folder 08 returns without free().
Forgetful == {"04/03_open_fd.cpp", "04/06_write_all.cpp",
              "09/11_random_read.cpp", "08/06_aligned_blocks.cpp"}

\* Whatever calls fail, a program that has ended has closed, freed and
\* removed all it had: "closed and removed on every way out of main()".
NothingLeftBehind ==
    (status # "running" /\ sample \notin Forgetful) => held = {} /\ files = {}

\* "the temporary file never stays behind", says sample 11 of folder 09.
TemporaryFileNeverStays ==
    (status # "running" /\ sample \in {"09/11_random_read.c", "09/11_random_read.cpp"})
      => files = {}

\* No path leads to the use, the closing or the freeing of a FILE or of
\* memory that the program does not hold, and none overwrites the only
\* handle of something it still holds.
HandlesAreLive ==
    /\ IsNext({"put", "get", "close stream", "use", "release"}) => Holds(Now.arg)
    /\ IsNext({"create", "create stream", "open", "open stream", "acquire"})
          => ~Holds(Now.arg)

\* A program that ends with status 0 has not lost, for good, data of a file
\* that it claims to have checked, unless it has said so.
LossIsNoticed == (status = "0" /\ lossy) => said

=============================================================================
