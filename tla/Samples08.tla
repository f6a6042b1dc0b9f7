----------------------------- MODULE Samples08 -----------------------------
(***************************************************************************)
(* The sample programs about direct I/O: folder 08 without its models of   *)
(* queues and caches, and sample 11 of folder 09, which reads at random    *)
(* through the page cache and past it.                                     *)
(***************************************************************************)
EXTENDS SampleSteps

\* 08/05_open_direct: O_DIRECT, and a buffered descriptor where that is
\* refused; then the same question to two filesystems.
Probe(file) ==
    <<Then(Create("fd", file, <<>>), <<Close("fd")>>), Remove(file)>>
OpenDirect ==
    <<Choose(
        <<Create("fd", "f", <<Choose(<<Create("fd", "f", <<Fail>>)>>, <<Fail>>)>>),
          Close("fd"), Remove("f")>> \o Probe("tmp") \o Probe("shm"),
        <<>>),
      Return({})>>
OpenDirectC == OpenDirect
OpenDirectCpp == OpenDirect

\* tmpfile_open: the flag may be accepted and the first transfer refused, so
\* one is tried; on refusal the file is opened again, buffered.
TmpFileOpen(t) ==
    <<Create(t, t, <<Note("direct")>>),
      IfGood("direct",
        <<Then(Acquire("probe", <<>>),
               <<Write(t, <<Note("direct")>>), Release("probe")>>),
          IfGood("direct", <<>>, <<Close(t)>>)>>,
        <<>>),
      IfGood("direct", <<>>, <<Create(t, t, <<Note("open")>>)>>)>>
TmpFileClose(t) == <<IfHeld(t, <<Close(t)>>), Remove(t)>>

\* 08/06_aligned_blocks: 16 blocks through an aligned buffer; what the reads
\* return is printed. The C++ version closes the file with a destructor but
\* frees no buffer when a write fails.
AlignedBlocks(onFailure) ==
    <<Choose(
        TmpFileOpen("t")
          \o <<IfGood("open", <<>>, TmpFileClose("t") \o <<Fail>>),
               Acquire("buf", TmpFileClose("t") \o <<Fail>>),
               Write("t", onFailure \o TmpFileClose("t") \o <<Fail>>),
               Read("t", <<>>), Read("t", <<>>), Release("buf"),
               Read("t", <<>>)>>
          \o TmpFileClose("t"),
        <<>>),
      Return({})>>
AlignedBlocksC == AlignedBlocks(<<Release("buf")>>)
AlignedBlocksCpp == AlignedBlocks(<<>>)

\* 08/07_buffered_vs_direct: one block, written to a buffered and to a direct
\* file and timed; sink() keeps what the calls return from being checked.
BufferedVsDirect ==
    <<Choose(
        <<Create("b", "b", <<Note("open")>>)>> \o TmpFileOpen("d")
          \o <<IfGood("open", <<>>, TmpFileClose("b") \o TmpFileClose("d") \o <<Fail>>),
               Acquire("buf", TmpFileClose("b") \o TmpFileClose("d") \o <<Fail>>)>>
          \o Bench(<<Use("buf"), Write("b", <<>>)>>) \o Bench(<<Use("buf"), Write("d", <<>>)>>)
          \o <<Release("buf"), Close("b"), Discard("b"), Close("d"), Discard("d")>>,
        <<>>),
      Return({})>>
BufferedVsDirectC == BufferedVsDirect
BufferedVsDirectCpp == BufferedVsDirect

\* 09/11_random_read: the test file, a pass through the page cache, a pass
\* past it; then "the temporary file never stays behind". Faults: the stream
\* is closed although it did not open; the C++ version returns from a failed
\* write without removing what it has written.
DirectPass(samples) ==
    <<Then(Open("dfd", "f", <<>>),
           <<Then(Acquire("aligned", <<>>), samples),
             IfHeld("aligned", <<Release("aligned")>>), Close("dfd")>>)>>
RandomReadsC ==
    <<Then(Open("fd", "f", <<Say>>),
           <<Read("fd", <<Note("status")>>),
             Then(Acquire("buffered", <<Note("status")>>),
                  <<Read("fd", <<>>), Use("buffered"), Release("buffered")>>),
             Close("fd")>>
           \o DirectPass(
                <<Then(Acquire("direct", <<Note("status")>>),
                       <<Use("aligned"), Read("dfd", <<>>), Release("direct")>>)>>))>>
RandomReadsPortableC ==
    <<OpenStream("in", "f", <<Note("pass")>>), Acquire("buffered", <<Note("pass")>>),
      IfGood("pass",
        <<Get("in", <<Note("status")>>), Get("in", <<>>), Use("buffered")>>,
        <<Note("status")>>),
      IfHeld("buffered", <<Release("buffered")>>),
      IfHeld("in", <<CloseStream("in", <<>>)>>)>>
MeasureC ==
    <<IfGood("ok", <<>>, <<Say, Remove("f"), Return({})>>),
      Choose(RandomReadsC, RandomReadsPortableC),
      Remove("f"), Return({"status"})>>
RandomReadCUnchecked ==
    <<CreateStream("out", "f", <<Note("ok")>>), Put("out", <<Note("ok")>>),
      CloseStream("out", <<Note("ok")>>)>> \o MeasureC
RandomReadC ==
    <<Then(CreateStream("out", "f", <<Note("ok")>>),
           <<Put("out", <<Note("ok")>>), CloseStream("out", <<Note("ok")>>)>>)>>
      \o MeasureC

RandomReadsCpp ==
    <<Then(Open("fd", "f", <<Say>>),
           <<Read("fd", <<Note("status")>>), Read("fd", <<>>), Close("fd")>>
           \o DirectPass(<<Use("aligned"), Read("dfd", <<>>)>>))>>
RandomReadsPortableCpp ==
    <<Open("in", "f", <<>>), Read("in", <<Note("status")>>), Read("in", <<>>), Close("in")>>
RandomReadCpp ==
    <<Create("out", "f", <<>>),
      Write("out", <<Say, Close("out"), Return({})>>), Close("out"),
      Try(<<Fail>>),
      Choose(RandomReadsCpp, RandomReadsPortableCpp),
      Remove("f"), Return({"status"})>>
=============================================================================
