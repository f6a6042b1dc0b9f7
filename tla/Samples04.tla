----------------------------- MODULE Samples04 -----------------------------
(***************************************************************************)
(* The sample programs of folder 04, read and write system calls.  The C   *)
(* and the C++ version of a program are two definitions where they behave  *)
(* differently.  "Elsewhere" is the half built without Linux: it prints.   *)
(***************************************************************************)
EXTENDS SampleSteps

OnLinux(body) == <<Choose(body, <<Return({})>>)>>

\* 03_open_fd: the second descriptor takes the freed slot; what its writes
\* return is printed. The C++ version forgets the file if it cannot reopen it.
OpenFd(or) == OnLinux(
    <<Create("fd", "f", <<Fail>>), Write("fd", <<Note("n")>>), Close("fd"),
      Open("again", "f", or),
      Write("again", <<Say>>), Write("again", <<Say>>), Close("again"),
      Write("again", <<>>),
      Remove("f"), Return({"n"})>>)
OpenFdC == OpenFd(<<Remove("f"), Fail>>)
OpenFdCpp == OpenFd(<<Fail>>)

\* 06_write_all: a pipe that takes one short write, then a file that is
\* written and read back. Faults: what write_all returned and what was read
\* do not count; the C++ version forgets the file if stat or open fails.
ThroughFile(or, flags) == OnLinux(
    <<Try(<<Fail>>), Try(<<Note("first")>>),
      Create("fd", "f", <<Fail>>), Write("fd", <<Note("ok")>>), Close("fd"),
      Try(or), Open("in", "f", or),
      Read("in", <<Note("total")>>), Close("in"), Remove("f"),
      Return(flags)>>)
WriteAllCUnchecked == ThroughFile(<<Remove("f"), Fail>>, {"first"})
WriteAllC == ThroughFile(<<Remove("f"), Fail>>, {"ok", "first", "total"})
WriteAllCpp == ThroughFile(<<Fail>>, {"ok", "first", "total"})

\* The pass that strace counts, argument "once", in 07 and 08.
Once ==
    <<Create("fd", "f", <<Fail>>), Write("fd", <<Note("done")>>),
      Close("fd"), Remove("f"), Return({"done"})>>

\* The function under bench_ns: C looks at what open returned, C++ does not.
WriterC == <<Then(Create("fd", "f", <<>>), <<Write("fd", <<>>), Close("fd")>>)>>
WriterCpp == <<Create("fd", "f", <<>>), Write("fd", <<>>), Close("fd")>>

\* 07_byte_at_a_time: the timed run does not check what it wrote.
ByteAtATime(writer) == OnLinux(
    <<Choose(Once, Bench(writer) \o <<Discard("f"), Return({})>>)>>)
ByteAtATimeC == ByteAtATime(WriterC)
ByteAtATimeCpp == ByteAtATime(WriterCpp)

\* 08_one_call: "correctness, not timing, decides the exit code".
OneCall(writer) == OnLinux(
    <<Choose(Once,
        Bench(writer) \o Bench(writer) \o
        <<Stat("f", <<Note("size_ok")>>), Remove("f"), Return({"size_ok"})>>)>>)
OneCallC == OneCall(WriterC)
OneCallCpp == OneCall(WriterCpp)

\* 09_ofstream_put: a million fputc without a look at what they return; the
\* size of the file tells. The log lines that follow are timed only. Fault:
\* the stream is written to although it did not open.
PutterCUnchecked ==
    <<CreateStream("out", "f", <<>>), Put("out", <<>>), CloseStream("out", <<>>)>>
PutterC ==
    <<Then(CreateStream("out", "f", <<>>),
           <<Put("out", <<>>), CloseStream("out", <<>>)>>)>>
PutterCpp == WriterCpp
OfstreamPut(putter) ==
    <<Choose(
        putter \o <<Stat("f", <<Note("size")>>), Remove("f"), Return({"size"})>>,
        Bench(putter) \o <<Stat("f", <<Note("size")>>)>>
          \o Bench(putter) \o Bench(putter)
          \o <<Discard("f"), Return({"size"})>>)>>
OfstreamPutC == OfstreamPut(PutterC)
OfstreamPutCpp == OfstreamPut(PutterCpp)

\* 11_flush_vs_fsync: a line through the stream, then one more through a
\* descriptor; the lines in the file at the end are counted.
FlushVsFsyncC ==
    <<CreateStream("out", "f", <<Fail>>), Put("out", <<>>),
      CloseStream("out", <<>>),
      Choose(
        <<CreateStream("log", "f", <<Remove("f"), Fail>>), Put("log", <<>>),
          Then(Open("fd", "f", <<Note("lines")>>), <<Write("fd", <<>>), Close("fd")>>),
          CloseStream("log", <<>>)>>,
        <<>>),
      Stat("f", <<Note("lines")>>), Remove("f"), Return({"lines"})>>
FlushVsFsyncCpp ==
    <<Create("out", "f", <<>>), Write("out", <<>>), Close("out"),
      Choose(
        <<Create("log", "f", <<>>), Write("log", <<>>),
          Open("fd", "f", <<>>), Write("fd", <<Note("lines")>>), Close("fd"),
          Close("log")>>,
        <<>>),
      Stat("f", <<Note("lines")>>), Remove("f"), Return({"lines"})>>
=============================================================================
