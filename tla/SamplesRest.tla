---------------------------- MODULE SamplesRest ----------------------------
(***************************************************************************)
(* The sample programs of the other folders that use the filesystem: 11 of *)
(* folder 02, 10 of folder 03 and 03 of folder 10.                         *)
(***************************************************************************)
EXTENDS SampleSteps

\* 02/11_align_io: four blocks are written, unchecked; the third is read back
\* and compared, so a loss elsewhere in the file does not show.
AlignIoC ==
    <<CreateStream("out", "f", <<Fail>>), Put("out", <<>>), CloseStream("out", <<>>),
      Then(OpenStream("in", "f", <<Note("ok")>>),
           <<Try(<<Note("ok")>>), CloseStream("in", <<>>)>>),
      Discard("f"), Return({"ok"})>>
AlignIoCpp ==
    <<Create("out", "f", <<>>), Write("out", <<>>), Close("out"),
      Then(Open("in", "f", <<Note("ok")>>), <<Try(<<Note("ok")>>), Close("in")>>),
      Discard("f"), Return({"ok"})>>

\* 03/10_hard_links: a file, a second name, and the first one removed; then
\* the same again, reading through the second. What is refused is printed.
RefusedDemo == <<Say, Remove("a"), Remove("b"), Remove("dir"), Return({})>>
WriteText ==
    <<CreateStream("text", "a", RefusedDemo), Put("text", <<Note("short")>>),
      CloseStream("text", RefusedDemo), IfGood("short", <<>>, RefusedDemo)>>
HardLinksC ==
    <<MakeDir("dir", <<Say, Return({})>>)>>
      \o WriteText \o <<Link("a", "b", RefusedDemo)>>
      \o <<Try(RefusedDemo), Remove("a"), Try(RefusedDemo), Remove("b")>>
      \o WriteText \o <<Link("a", "b", RefusedDemo)>>
      \o <<Try(RefusedDemo), Remove("a"),
           OpenStream("in", "b", RefusedDemo), Get("in", <<Note("intact")>>),
           CloseStream("in", <<>>),
           Try(RefusedDemo), Remove("b"), Remove("dir"), Return({"intact"})>>
HardLinksCpp ==
    <<MakeDir("dir", RefusedDemo),
      Create("text", "a", <<>>), Write("text", <<>>), Close("text"),
      Link("a", "b", RefusedDemo), Stat("b", <<Say>>),
      Try(RefusedDemo), Remove("a"), Try(RefusedDemo), Remove("b"),
      Create("text", "a", <<>>), Write("text", <<>>), Close("text"),
      Link("a", "b", RefusedDemo), Try(RefusedDemo), Remove("a"),
      Open("in", "b", <<>>), Read("in", <<Note("intact")>>), Close("in"),
      Try(RefusedDemo), Remove("b"), Remove("dir"), Return({"intact"})>>

\* 10/03_three_rules: tiny writes, one large write and warm reads on one
\* file; the bytes written must be there and must all be read back.
SizeAndReadBack(seen) ==
    <<Stat("f", <<Note("file_bytes")>>)>> \o seen
ReadBackC ==
    <<Then(OpenStream("in", "f", <<Note("seen")>>),
           <<Get("in", <<Note("seen")>>), CloseStream("in", <<>>)>>)>>
ReadBackCpp ==
    <<Then(Open("in", "f", <<Note("seen")>>), <<Read("in", <<Note("seen")>>), Close("in")>>)>>
FreeAll == <<IfHeld("data", <<Release("data")>>), IfHeld("lat", <<Release("lat")>>)>>
ThreeRulesC ==
    <<CreateStream("out", "f", <<Say, Return({})>>),
      Acquire("data", <<Note("memory")>>), Acquire("lat", <<Note("memory")>>),
      IfGood("memory", <<>>,
        FreeAll \o <<CloseStream("out", <<>>), Remove("f"), Fail>>)>>
      \o Bench(<<Use("data"), Put("out", <<Note("written")>>)>>)
      \o Bench(<<Use("data"), Put("out", <<Note("written")>>)>>)
      \o <<CloseStream("out", <<Note("written")>>)>>
      \o SizeAndReadBack(ReadBackC) \o <<Use("lat"), Remove("f")>> \o FreeAll
      \o <<Return({"written", "file_bytes", "seen"})>>
ThreeRulesCpp ==
    <<Create("out", "f", <<Say, Return({})>>)>>
      \o Bench(<<Write("out", <<Note("written")>>)>>)
      \o Bench(<<Write("out", <<Note("written")>>)>>)
      \o <<Close("out")>>
      \o SizeAndReadBack(ReadBackCpp)
      \o <<Remove("f"), Return({"written", "file_bytes", "seen"})>>
=============================================================================
