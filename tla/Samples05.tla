----------------------------- MODULE Samples05 -----------------------------
(***************************************************************************)
(* The sample programs of folder 05, the page cache, without 10 (see       *)
(* DurableReplace).  In C the data lives in memory from malloc, which is   *)
(* freed on every path; in C++ a vector does that.                         *)
(***************************************************************************)
EXTENDS SampleSteps

Refused(clean) == <<Say>> \o clean \o <<Return({})>>

\* A file that is on the device and not in the page cache; `or' runs when
\* one of the calls has failed.
MakeColdFile(or) ==
    <<Then(Create("cold", "f", <<Note("cold")>>),
           <<Write("cold", <<Note("cold")>>),
             IfGood("cold", <<Try(<<Note("cold")>>)>>, <<>>),
             Close("cold")>>),
      IfGood("cold", <<>>, or)>>

\* 05_cold_file: pages in the cache are counted through a mapping, before
\* and after the file is read once.
CachedPagesC ==
    <<Then(Open("fd", "f", <<>>),
           <<Then(Acquire("map", <<Close("fd")>>),
                  <<Close("fd"), Acquire("resident", <<>>),
                    IfHeld("resident", <<Use("map"), Release("resident")>>),
                    Release("map")>>)>>)>>
CachedPagesCpp ==
    <<Then(Open("fd", "f", <<>>),
           <<Then(Acquire("map", <<Close("fd")>>),
                  <<Close("fd"), Use("map"), Release("map")>>)>>)>>
ReadWholeFileC ==
    <<Then(Open("fd", "f", <<>>),
           <<Then(Acquire("buf", <<>>), <<Read("fd", <<>>), Release("buf")>>),
             Close("fd")>>)>>
ReadWholeFileCpp ==
    <<Then(Open("fd", "f", <<>>), <<Read("fd", <<>>), Close("fd")>>)>>

ColdFileC ==
    <<Acquire("data", <<Fail>>),
      Choose(
        MakeColdFile(Refused(<<Remove("f"), Release("data")>>))
          \o CachedPagesC \o ReadWholeFileC \o CachedPagesC
          \o <<Remove("f"), Release("data"), Return({})>>,
        <<Release("data"), Return({})>>)>>
ColdFileCpp ==
    <<Choose(
        MakeColdFile(Refused(<<Remove("f")>>))
          \o CachedPagesCpp \o ReadWholeFileCpp \o CachedPagesCpp
          \o <<Remove("f"), Return({})>>,
        <<Return({})>>)>>

\* 06_read_twice: a cold read, then a warm one; elsewhere the file is only
\* written through a stream, unchecked, before it is read.
ReadAllC == <<Then(Open("fd", "f", <<>>), <<Read("fd", <<>>), Close("fd")>>)>>
ReadAllCpp == <<Open("fd", "f", <<>>), Read("fd", <<>>), Close("fd")>>
ReadAllPortable ==
    <<Then(OpenStream("in", "f", <<>>), <<Get("in", <<>>), CloseStream("in", <<>>)>>)>>

FreeBoth == <<IfHeld("data", <<Release("data")>>), IfHeld("buf", <<Release("buf")>>)>>
ReadTwiceC ==
    <<Acquire("data", <<Note("memory")>>), Acquire("buf", <<Note("memory")>>),
      IfGood("memory", <<>>, FreeBoth \o <<Fail>>),
      Choose(
        MakeColdFile(Refused(<<Remove("f")>> \o FreeBoth))
          \o ReadAllC \o ReadAllC \o <<Remove("f")>>,
        <<CreateStream("out", "f", Refused(FreeBoth)),
          Put("out", <<>>), CloseStream("out", <<>>)>>
          \o ReadAllPortable \o ReadAllPortable \o <<Discard("f")>>)>>
      \o FreeBoth \o <<Return({})>>
ReadTwiceCpp ==
    <<Choose(
        MakeColdFile(Refused(<<Remove("f")>>))
          \o ReadAllCpp \o ReadAllCpp \o <<Remove("f"), Return({})>>,
        <<Create("out", "f", <<>>), Write("out", <<>>), Close("out")>>
          \o ReadAllCpp \o ReadAllCpp \o <<Discard("f"), Return({})>>)>>

\* 07_write_fsync: three files, written with no flush, with fsync and with
\* fdatasync. What the calls return is ignored: the clock is all it is about.
ThreeFiles == <<"a", "b", "c">>
WriteThreeWays ==
    [i \in 1..3 |-> Create(ThreeFiles[i], ThreeFiles[i], <<Note("open")>>)]
      \o <<IfGood("open", [i \in 1..3 |-> Write(ThreeFiles[i], <<>>)], <<Say>>)>>
      \o [i \in 1..3 |-> IfHeld(ThreeFiles[i], <<Close(ThreeFiles[i])>>)]
      \o [i \in 1..3 |-> Discard(ThreeFiles[i])]
WriteFsyncC ==
    <<Acquire("data", <<Fail>>),
      Choose(WriteThreeWays,
        <<Then(CreateStream("out", "f", <<>>),
               <<Put("out", <<>>), CloseStream("out", <<>>)>>),
          Discard("f")>>),
      Release("data"), Return({})>>
WriteFsyncCpp ==
    <<Choose(WriteThreeWays,
        <<Create("out", "f", <<>>), Write("out", <<>>), Close("out"), Discard("f")>>),
      Return({})>>

\* 08_mmap_cache: the file is written, mapped and summed through the mapping.
\* Fault: the refusal of mmap leaves the file behind.
MapFile(refusal) ==
    <<IfGood("written", <<>>, Refused(<<Remove("f")>>)),
      Open("fd", "f", Refused(refusal)),
      Acquire("map", <<Close("fd")>> \o Refused(refusal)),
      Use("map"), Read("fd", <<Note("sum")>>), Release("map"), Close("fd"),
      Remove("f"), Return({"sum"})>>
WriteData ==
    <<Then(Create("wfd", "f", <<Note("written")>>),
           <<Write("wfd", <<Note("written")>>), Close("wfd")>>)>>
MmapCacheOf(refusal) ==
    <<Acquire("data", <<Fail>>),
      Choose(WriteData \o <<Release("data")>> \o MapFile(refusal),
             <<Release("data"), Return({})>>)>>
MmapCacheCForgetsFile == MmapCacheOf(<<>>)
MmapCacheC == MmapCacheOf(<<Remove("f")>>)
MmapCacheCpp ==
    <<Choose(WriteData \o MapFile(<<Remove("f")>>), <<Return({})>>)>>
=============================================================================
