---------------------------- MODULE SampleSteps ----------------------------
(***************************************************************************)
(* The vocabulary in which the modules Samples04, Samples05, ... write     *)
(* down the sample programs: a program is a sequence of steps, a step is a *)
(* call, what it works on, and what the program does next if the call      *)
(* succeeds (then) and if it fails (or).  Module Samples gives the steps   *)
(* their meaning.  Only calls that acquire or release something, move data *)
(* or decide the exit status are steps; printing and clocks are not.       *)
(***************************************************************************)
EXTENDS Naturals, Sequences

Step(do, arg, file, or) ==
    [do |-> do, arg |-> arg, file |-> file, then |-> <<>>, or |-> or]

\* What the program does only after the step has succeeded.
Then(step, body) == [step EXCEPT !.then = body]

\* Files behind a descriptor or C++ stream h: a call on one that is not open
\* fails. Create truncates, Open wants the file to exist.
Create(h, file, or) == Step("create", h, file, or)
Open(h, file, or) == Step("open", h, file, or)
Write(h, or) == Step("write", h, "", or)
Read(h, or) == Step("read", h, "", or)
Close(h) == Step("close", h, "", <<>>)

\* The same through a FILE of C: a call on one that is not open is undefined.
CreateStream(h, file, or) == Step("create stream", h, file, or)
OpenStream(h, file, or) == Step("open stream", h, file, or)
Put(h, or) == Step("put", h, "", or)
Get(h, or) == Step("get", h, "", or)
CloseStream(h, or) == Step("close stream", h, "", or)

\* Memory and mappings: Use and Release want them to be there.
Acquire(m, or) == Step("acquire", m, "", or)
Use(m) == Step("use", m, "", <<>>)
Release(m) == Step("release", m, "", <<>>)

\* Names. Stat compares the size with the one that was written; Link gives a
\* file a second name; Discard removes a file whose content the program does
\* not claim to have checked.
Stat(file, or) == Step("stat", "", file, or)
MakeDir(dir, or) == Step("link", "", dir, or)
Link(from, to, or) == Step("link", from, to, or)
Remove(file) == Step("remove", "", file, <<>>)
Discard(file) == Step("discard", "", file, <<>>)

\* A call outside the model that may fail; which of two ways a program is
\* built or started.
Try(or) == Step("try", "", "", or)
Choose(p, q) == Then(Step("choose", "", "", q), p)

\* Flags of the program, good until noted bad; whether a handle is valid.
Note(flag) == Step("note", flag, "", <<>>)
IfGood(flag, p, q) == Then(Step("if good", flag, "", q), p)
IfHeld(h, p) == Then(Step("if held", h, "", <<>>), p)

\* The program says that it could not do what it is for.
Say == Step("say", "", "", <<>>)

\* Exit with status 0 if all the flags are good, else with 1.
Return(flags) == Step("return", flags, "", <<>>)
Fail == Return({"failure"})

\* The harness bench_ns: a warm-up run, then timed runs, all of one function.
Bench(body) == body \o body

=============================================================================
