# Verification of node-flame

TLA+ models of node-flame (`../src`), the TLC runs that check them and the
proofs TLAPS checks. Line numbers refer to the files under `src/`.

## 1. The system

node-flame attaches to a running node process, stops it again and again to
walk its stack, resumes it, and in the end makes a flame graph of the stacks.
Nearly everything happens in one object, the `NodeProfiler` of `index.js`; the
addons below it act on a process that goes on living its own life.

| component | state | operations | talks to |
|---|---|---|---|
| `index.js` NodeProfiler | `isProfiling`, `pid`, `cb`, `cpuProfile`, `tracer`, two timer handles | `profile`, `stopProfiling`; timer callbacks; answers of atos | client (callbacks), tracer (calls), `osx-atos` (callback) |
| `tracer.mac.js`, `tracer.linux.js` | task port or none, memory reader, heap reader | `attach`, `takeBacktrace`, `detach` | addon (calls, with a callback per frame), HeapReader |
| `node_backtrace.mac.cc` | none of its own: the suspend count is the kernel's | `task_is_running`, pause, walk, resume | the Mach kernel; other profilers through the same count |
| `node_backtrace.linux.cc` | none of its own: the ptrace state is the kernel's | seize, interrupt + `waitpid`, walk, cont, detach | the Linux kernel; the target's own signals |
| `lib/heap-reader.js` | addresses of a paused heap | strings, frame types, function names, line numbers | memory reader |
| `lib/osx-atos.js` | buffers of two streams | `resolveSymbols` | the program `atos` |
| `lib/elf-atos/` | memory map, symbol tables | `getSymbolicatorForPid`, `atos` | `/proc`, ELF files |
| `lib/aggregation.js` | a call tree | `aggregate`, print | finished stacks |
| `lib/stackvis-adaptor.js` | none | writes stacks as text | finished stacks |
| `cmd/flame.js` | arguments | one `profile()`, one output | NodeProfiler, the two above |
| `demangle.cc` | none | `demangle` | `__cxa_demangle` |

What makes it hard, and what correctness means for each part:

* **NodeProfiler.** Its fields belong to "the" session, but a session lives in
  five places: inside `profile()` (whose attach error callback may call
  `profile()` again), active, in two timers, and with atos after
  `isProfiling` is false again. Four error paths return early. Correct means:
  each call is answered for good and properly, by its own session, with names
  looked up in the process that was sampled; nothing is left armed; and the
  target is never left stopped.
* **Addons.** The target must stand still while its stack is read and must run
  again afterwards, although the state that says so is shared with other
  profilers (macOS) or changed by signals (Linux), and although node-flame may
  be killed at any point (README.md:25).
* **Symbolication.** Names come back as text, matched to addresses by position
  alone, in chunks, mixed with complaints, from a program that may die.
* **HeapReader.** A chain of reads of a heap that was stopped anywhere, run
  while the target is paused: whatever they find and wherever they throw, a
  text must come out, soon, and no exception may pass (it would skip the
  resume).
* **elf-atos.** Tables loaded in parallel must stay with their files, whichever
  of them fail, and an address must get a symbol it lies in.

* **Command line and output.** One callback that may come inside `profile()`,
  with an error, with a profile or never; the exit code must tell which.

`PROJECT.json` lists the hazards one by one, with the line where each bites.

## 2. Modules

| module | models | kind |
|---|---|---|
| `Tracer` | `tracer*.js` on top of the addons | operators that return sets of outcomes |
| `NodeProfiler` | `index.js`, EXTENDS `Tracer` | state machine |
| `ProfileCalls` | what a client that waits for its answers may rely on | abstract specification, implemented by `NodeProfiler` |
| `MacTask` | pause, walk and resume of several profilers of one task | state machine |
| `PtraceTask` | the ptrace calls, and the walk, against the kernel | state machine |
| `Symbolizer` | what `resolveNativeFrames` promises | abstract specification |
| `Symbolication` | `resolveNativeFrames`, `osx-atos.js`, atos | state machine that implements `Symbolizer` |
| `LineNumber` | `readFuncSharedInfoLineNumber` | state machine |
| `HeapReader` | the whole `readStackFrameAnnotation`, EXTENDS `LineNumber` | state machine that implements `LineNumber` |
| `ElfSymbols` | `lib/elf-atos/` | state machine |
| `FlameCmd` | `cmd/flame.js`, `stackvis-adaptor.js`, `aggregation.js`, composed with `ProfileCalls` | state machine |
| `NodeProfilerProofs`, `MacTaskProofs`, `PtraceTaskProofs`, `SymbolicationProofs`, `HeapReaderProofs`, `ElfSymbolsProofs`, `FlameCmdProofs` | theorems about the module of that name (`HeapReaderProofs`: about `LineNumber` too) | TLAPS |
| `Recursion` | lemmas on induction and recursive functions | TLAPS |
| `MC*` | values of the constants | TLC |

How they fit: `NodeProfiler` uses the tracer through `Attach`, `Backtrace` and
`Detach`, each a set of outcomes (tracer object, process, result) because each
is one JavaScript call that nothing in node-flame can interrupt. What the rest
of the machine can observe *inside* such a call is in `MacTask` and
`PtraceTask`, where a step is one system call or the reading of one frame.
`Backtrace` also takes for granted that naming a frame never throws when there
is a heap reader; that is `AlwaysAnnotates` of `HeapReader`. What
`NodeProfiler` takes for granted of atos (`SymbolsFail`, `SymbolsResolved`: one
answer, an error leaves the profile alone, success names everything) is the
abstract module `Symbolizer`, and `Symbolication` is shown to implement it.
Upwards, `ProfileCalls` is what is left of `NodeProfiler` for a client that
waits for its answers, and `FlameCmd` uses that instead of the profiler.

### NodeProfiler and Tracer

An action is one turn of the event loop or one call of the client. The fields
keep their names; `cb`, `cpuProfile`, `tracer` and the timer handles hold the
number of the `profile()` call whose object they hold. An array of stacks is
the set of the *kinds* of stack in it (process it was read from; has a native
frame), because no decision depends on more. Time is left out: an armed timer
may fire at any moment, both may be late. Since a failed session clears no
timer, `pendingSample` is a set: several chains of samples can be alive.

The one place where client code runs in the *middle* of a method is the attach
error callback: `profile()` does not return after it (lines 83-86). `callStack`
holds the calls that are waiting for that callback, and `ProfileContinues` is
the rest of the method. All other callbacks are the last thing a method does.

Exceptions: what a client's call throws is told to the client; what a timer or
an event throws ends the process (`crashed`).

The outcomes of `Tracer` were read from both platforms' JavaScript and addon.
On macOS a null `heapReader` makes the per-frame callback throw *between* pause
and resume. On Linux `attach` throws after PTRACE_SEIZE has succeeded (see
section 5). The fault `"signal"` is a signal that reaches a process under ptrace:
then it may stand still after PTRACE_CONT as well (`LinuxResumed`), which
`PtraceTask` shows in detail.

### ProfileCalls

The calls one after the other: refused, begun (with or without an attach
error), thrown out of; then waiting for an atos that was given no address, or
ended with an error or with the call's own profile. It crashes only for a call
that went on unattached or whose atos cannot start. `NodeProfiler` maps to it
by `ActiveCall` (the call in its attach error callback, active, or with atos)
and by whether the present atos run has nothing to name. All timers, samples,
tracers and processes are hidden.

### MacTask

`pause_process` looks at the suspend count and suspends if the task runs;
`resume_process` looks and resumes if it is suspended. Looking and acting are
separate steps, the count is shared, and any profiler of `Killable`, or the
task itself, may die in between. `backtrace` may fail to read the threads, and
then the resume is the JavaScript caller's. The walk reads a frame per step up
to `MaxStackDepth`; whether the chain goes on is chosen anew for each frame,
which covers cyclic, torn and unreadable chains. `owes` and `disturbed` are
history.

### PtraceTask

The kernel half follows ptrace(2) for a seized process: every signal causes a
signal-delivery-stop, any stop takes its place before a pending trap, a stop is
collected once by `waitpid`. The node-flame half follows the addon: interrupt,
`waitpid` with the status ignored, registers, walk, `PTRACE_CONT` with signal
0. `Detach` and `TracerDies` are two ways out: the first passes no signal on, the
second (a crash, or a kill) passes on the signal the process was stopped for,
which may be one that stops. Such a process is `left`: stopped, with nobody to
resume it but a SIGCONT, as README.md:25 warns; a later node-flame may seize it
again (`SeizeStopped`), and what was in force before then still is when that one
lets go (`killed`, history). This is the addon's protocol as a working tracer would drive it; at this
commit `tracer.linux.js` throws in `attach`, and a client that catches that
exception leaves the process seized with nobody to wait for it (the state
`attached`).

### Symbolication

Text is a sequence of characters that tell only names, line ends and complaints
apart; a name is two characters so that a chunk can end inside it. `ResolveNativeFrames`
starts atos and chooses at once what it will print; `Data` hands over any
prefix of either stream; `Close` reads the result. `onStderr` pushes into
`stdoutBuffers`, as the code does. `Concat` is the `Buffer.concat` of node 0.10,
which cuts to the length it is given, but returns an only buffer as it is
(`oneBuffer`).

### HeapReader and LineNumber

`stage` is the place in the call: frame type, object type, function, the two
tests for a builtin, shared info, name, file, line. A word of memory is chosen
when it is read, out of what the code tells apart, so that any heap, and any
misread heap, is covered. Strings are the exception, since one object can be
met twice: they are a graph over `Nodes`, cyclic ones included, chosen when the
root is read, and `todo` is the rest of the recursion of `readStringInternal`
and `readConsString` (with the depth that both of them count). `Throw` is an
exception at any stage, with the `catch` that is there. `hidden` always throws:
the code calls `self.readContex`, which does not exist, and so a hidden builtin
is never recognised. A `TypeError` is caught like every other.

`LineNumber` is the bisection, one action per round of the loop. Memory is
arbitrary: the array may be unsorted, the map word may say that it is no array.
`smiValue` drops the sign (`% Word`), which is why the code's test for a
negative line is dead.

### ElfSymbols

`MapsRead` and `MapsUnreadable` are the answer of `readFile` for
`/proc/<pid>/maps`; `FileRead`, `FileUnreadable` and `FileMalformed` are the
answers for the mapped files, in any order; a file mapped twice is read twice.
Both bounds of an entry belong to it, and the physical lookup falls back to the
last entry, as in `address_map.js`; so the address right behind a region, which
is not mapped (the end in `/proc/<pid>/maps` is exclusive), is looked up in the
region's file. `NamedByItsRegion` says so, and that no name comes from further
off. Overlapping symbols, symbols of no section,
files linked at other addresses and files without symbols occur in the
instance. String tables and demangling are left out: a name is a value.

### FlameCmd

The command line is kept by what `parseArgs` and `profile()` tell apart.
`OnProfileComplete` is the callback, and part of the step that calls it. Its
`process.exit` ends what that step would still do: `BeginUnattached` of
`ProfileCalls` is the call of the callback in the middle of `profile()`, and with
`OnProfileComplete` nothing comes after it. `ErrorsEndIt` depends on that: without
the exit a second answer comes. `LogSymbols` is the `console.log` in
`resolveSymbols` (`osx-atos.js:57`), which writes to the stream the output goes
to before the error is passed on.
`StackVisAdaptor` makes lines (three blank ones, frames with shortened paths, a
count after each stack) and `ReadStacks`, the reader of stackvis, undoes them,
so that the properties speak of stacks and not of lines. `aggregate` throws at
the first frame of any stack; what lies behind it is not modelled, because it
cannot be reached with a frame.

## 3. Runs

| run | states | shows |
|---|---|---|
| `profiler_any_client` | 221,684 | with every failure and a client that overlaps, re-enters and stops: a stopped process means a crash in a tracer without heap reader; a session is in one place; an active one can end; clients are told a proper story |
| `profiler_serial` | 70,652 | a client that waits for its answer, with every failure: answered by its own session, names from the sampled process, timers leak only from failed sessions, and `ProfileCalls` is implemented, each call ending |
| `linux_profile_fails` | violation | a healthy profile on Linux throws |
| `mac_task` | 85,304 | no resume is lost, the task runs between samples and always runs again, the walk stays in its buffer, only another profiler can disturb a walk |
| `ptrace_task` | 2,135 | reads happen while stopped; between samples only signals stop; detach frees, and only a node-flame that died leaves a process stopped; `waitpid` returns; without signals every pause ends |
| `ptrace_pauses_end` | violation | after one signal the process does not run again |
| `symbolication` | 36,176 | all cuts of the output: right names, short output is an error, `Symbolizer` is implemented, an answer comes |
| `atos_complaints` | violation | a complaint of atos is taken for symbols |
| `elf_symbols` | 1,354 | one callback, tables with their files, addresses with their symbols, names only from the file mapped at the address or right before it |
| `heap_reader` | 549,858 | every annotation ends in a text; strings in order and at most seven objects each; right line in sorted arrays, inside the array and logarithmic in any |
| `flame_cmd` | 2,728 | exit code 0 means the sampled stacks were printed, any other end that no profile was; the first error ends the command; only text output loses a profile |
| `text_output` | violation | text output of any profile with a frame ends in a `TypeError` |

Bounds, and why they are enough:

* Two sessions and two processes: every property relates at most two sessions
  (an old one that is still with atos or in a timer, and the present one) or
  the process sampled and the one looked up. The theorems remove the bound for
  every safety property of both profiler runs, and add the Linux tracer, with
  which no session gets as far.
* Three profilers, two of them mortal: two that overlap, and a third that sees
  what a killed one left. Two frames per stack: one that fits and one that
  meets the limit; the theorems remove both bounds.
* Six signals: four are already enough for one stop pending, one queued, one
  collected and one taken during detach; the theorems remove the bound, and the
  liveness runs need a single signal.
* Profiles of three frames with two addresses: one address sampled twice, and
  one that is not the first; two characters of complaint can fall into a name
  and beside it. The theorems remove all these bounds.
* Arrays of up to five line ends over four positions: odd and even lengths, the
  empty array, duplicates, all orders; the theorems remove that bound. Words of
  16 values: the small integers the frame types need, and room for a wrapped
  sign.
* Three string nodes: the three levels the depth allows, shared and cyclic; the
  theorems remove the bound.
* Three memory maps and three file contents, each of two files readable,
  unreadable or malformed: three reads finishing in every order, with each
  combination of failures. The theorems hold for all maps and files.
* One or two stacks of up to two frames, empty ones included, with one to three
  path pieces: a stack that ends where the next begins, and two frames that
  shortening makes equal. The theorems hold for profiles of any size.

Deadlock is not checked: in each model the system may really stop (a client
makes no more calls, the profiler is killed, the function has returned).

Fairness is what the code's surroundings guarantee and nothing else: an armed
timer fires, a callback returns, atos exits and node delivers what it wrote (but
an atos without addresses waits on its standard input and need not exit, which
`EveryCallEnds` and `Answered` exempt), a native call that has
begun goes on, the kernel stops a process it was asked to stop, `readFile`
answers, a JavaScript function that has begun returns (`HeapFairSpec`: a read
never has to throw, except in `hidden`, where nothing else can happen). No
client call, fault, signal, kill or session end is fair.

## 4. Proofs

Each theorem is `Spec => []P`, or that one specification implements another,
for all values of the constants that satisfy the named assumption of the module.
Every safety invariant that a passing run checks is a theorem, and so are the
three refinements (of `ProfileCalls` its safety half).

The assumptions say which set a constant belongs to, and three times more:

* `ElfAssumption`: the regions of a memory map do not overlap (they are those of
  one address space).
* `FlameCmdAssumption`: every profile that is delivered has a frame, since
  atos has named one (the step `SymbolsResolved`, `Resolve` of `Symbolizer`).
* `SymbolicationAssumption`: a line end is no address, and neither is a frame
  that has been named.

Five theorems assume more. `SerialClientsAnswered`, `SymbolsAreOfSampledProcess`,
`ImplementsCalls` and `OnlyFailuresLeaveTimers`: a client that neither overlaps
nor re-enters (`Serial`); it may call `stopProfiling` at any time.
`PausedOnlyByCrash`: no signal reaches a process under ptrace (`~SignalStops`).

* `NodeProfilerProofs`. `TypeCorrect` needs `FieldsSet`: an active session has
  set `pid`, `cb` and `cpuProfile`, or `resolveNativeFrames` would run with
  nothing. `PausedOnlyByCrash`: nothing is stopped before a step, and each
  outcome of `Backtrace` and `Detach` leaves the process resumed, except the one
  that throws, after which nothing runs. It assumes `~SignalStops`, since on
  Linux a signal may leave the process in a stop (`ptrace_pauses_end`). `SessionsStayApart` is inductive with
  the types: sessions move from the call stack to the fields to `resolving`,
  each guarded by a flag. `ActiveIsArmed` builds on it. `ClientsToldProperly`
  needs `OpenSessions`: a session that is in the call stack, active or with atos
  has been told nothing but, possibly, its attach error.
  `SerialClientsAnswered` needs `SerialInv`: an atos run belongs to the session
  the fields still hold, no session is active meanwhile, and the attach error
  callback of a session runs when nothing else does.
  Its second half is about such a client. It collects those invariants in
  `Known` and first says what each step does to a session (`ProfileBegins`,
  `SessionStops`, ...).
  `SymbolsAreOfSampledProcess` follows the process: `SampledInv` says that the
  tracer, `self.pid` and all stacks of the active session name the same one.
  `ImplementsCalls`, the refinement, needs `ReaderInv`: a tracer without heap
  reader is active only after a failed attach, so that a crash is one
  `ProfileCalls` allows, and no active tracer can throw in `detach` (that takes
  a memory reader on Linux, where attaching would have thrown before).
  `OnlyFailuresLeaveTimers` counts: any chain of samples may be the one whose
  timer the session will clear, so `TimersInv` counts the others (`Orphans`)
  and shows that they never outnumber the failed sessions.
* `MacTaskProofs`. `NoResumeLost` counts, so the strengthening `OwesInside` says
  who owes: those in a sample that suspended, and the killed. With it the
  suspend count is at most the number of debtors, each `task_resume` lowers
  both, and an idle system owes nothing. `MacTypeCorrect` bounds the walk by
  `MaxStackDepth`, whatever the chain.
* `PtraceTaskProofs`. `Held` says what is true at each place of the tracer (a
  stop is collected before `regs` and `walk` and still there at `resume` and
  `detach`), and `OneStop` that a trap is pending behind another stop only if a
  signal caused that stop. This is why taking any stop for the right one is
  harmless for reading, and harmful for pausing briefly. `DetachLetsGo` needs of
  it that PTRACE_DETACH finds the process stopped, and that nothing but a
  node-flame that died is behind a process that is `left`.
* `SymbolicationProofs`. Output is matched to addresses by position, so the
  proof counts. `AtosInv` says that what was read and what is still to be read
  is a beginning of what atos prints (`InOrder`, as long as it is silent), that
  the counted length is the kept one (`Buffers`), and that a frame got the piece
  at the place of its address (`Answer`). Each line is three characters, and
  `SplitOfLines` goes through them by threes: after q lines there are q
  names and an open piece. `TrimOfLines` then says which line ends disappear, and
  `SymbolsOfFewerLines` that a missing last line makes the count wrong, but for
  an only address. `SymbolicationImplements` is a step refinement: only `Close`
  is a step of `Symbolizer`, and it leaves no native frame without a name.
* `HeapReaderProofs`. `Enclosed` is the bisection invariant: before `low` all
  lines end too early, from `high` on none does, or `high` is the last;
  `SearchStaysInside` needs no sortedness. `SearchIsLogarithmic` needs
  `Halved`: the rest of the array times 2^`probes` is less than the array.
  `AnnotationSearches`: a step of the call is a step of the bisection or leaves
  it alone, so that its theorems carry over (`AnnotationFindsLine`,
  `AnnotationIsLogarithmic`). `TodoInv` describes what the recursion has left: at
  most four strings, and behind each no more than half its depth.
  `StringsAreCheap` gives every string its full price (7, 3, 1 or 0 objects by
  depth); a cons string of price 2n + 1 leaves two of price n, so
  that what was read and what is owed never exceeds 7. `StringsReadInOrder`
  keeps "text read so far, then what is left, is the whole text" (`Order`).
* `ElfSymbolsProofs`. `CallbackOnce` needs only that the stages are the five of
  `Staged`: a failed or finished load never returns to loading.
  `TablesMatchFiles` needs `Arrived`: at every index that is no longer unread
  stands the table of the file at that index. A file mapped twice is named by its
  last index (`LastOfName`), which has the same table. `InsideIsNamed` needs
  `InsideOnlyOne` (bounds belong to two entries, insides to one) and
  `PhysEntryFits` (the fallback to the last entry is never taken when an entry
  fits). `NamesComeFromTheirRegion` follows a name back: it is in the table of a
  file, that table is at the file's index, and the entry was found by the address
  (`PhysEntryExists`: a lookup that falls back still returns an entry of the
  table it was made in).
* `FlameCmdProofs`. `RoundTrip`: what `StackVisAdaptor` writes, `ReadStacks`
  reads back, by two nested inductions, over the stacks and over the lines of a
  stack (`ReadsOneStack`), with the fact that a line once pushed stays where it
  is (`PushedStays`). `CmdInv` says what is known of the one call and of the
  output in each phase; `ExitCode` is the two together. `FirstErrorEndsIt` is a
  part of it: in each phase before the end the call has been told nothing.
* `Recursion`. The induction theorems of the library take an operator, which no
  backend instantiates. `SetInduction` is the same principle for a *set* of
  numbers, from the well-foundedness of `<`, and `ChainsExist` shows that a
  recursively defined function exists, so that its defining equation may be
  used. This is why the models write recursion as functions (`FramesArray`,
  `Split`, `Among`, `StackVisAdaptor`, `ReadStacks`, `PowerOf2`).

Only model-checked: liveness (`EveryCallEnds`, `SuspendedRunsAgain`,
`WaitpidReturns`, `SignalFreePausesEnd`, `Answered`, `EndsReadyOrFailed`,
`AnnotationEnds`, and the liveness half of `KeepsCalls`), which
needs ENABLED.

## 5. Where the code disagrees with what is said of it

* **No profile on Linux** (`linux_profile_fails`). `LinuxMemoryReader` does not
  keep the pid it is given, `init()` opens `/proc/undefined/mem` and throws
  inside `attach`, with the process already seized.
* **A pause that does not end** (`ptrace_pauses_end`). README.md:22 promises a
  brief pause. If a signal stop is taken for the trap that was asked for, the
  trap comes right after PTRACE_CONT, is taken for the next one, and so on.
* **Complaints read as symbols** (`atos_complaints`). `osx-atos.js:49-52` means
  to return an error when atos wrote to standard error; line 44 stores what it
  wrote with the symbols.
* **No text output** (`text_output`). README.md:79 shows an example of it, and
  `cmd/flame.js:62` offers it. `aggregate` calls `indexOf` on an object that has
  no such method, and the profile is lost with a `TypeError`.

Things the runs accept because nothing says otherwise, and which a reader should
know: overlapping sessions can hand one session's end to another caller
(`misdelivered`; the properties of `profiler_any_client` say what still holds);
an error leaves both timers armed; a profile without native frames ends in an
error or waits for ever; signals that reach a traced process are lost; a process stays stopped if
node-flame is killed (README.md:25 says so: on Linux when it was in a stop that a
signal had caused, on macOS until another profiler resumes it); a symbolication
that fails prints the symbols it has to standard output, so that the file the
flame graph was to go to is not empty (`osx-atos.js:57`; line 50 would do the
same, but is never reached); the address right behind a mapped region gets a name
from that region's file, since `address_map.js:52` counts the end in, and a lookup
that fits nothing gets the last entry; a hidden builtin is annotated like any function, because the test for it calls
`self.readContex` and catches the `TypeError`; a duration with a fraction of a
millisecond passes the command line's checks and is then refused by `profile()`.

## 6. Plan

Done: every component that keeps state or decides anything, each with its runs;
the refinements of `ProfileCalls`, `Symbolizer` and `LineNumber`; theorems for
all safety properties the passing runs check. Next, in this order:

1. `NodeProfiler` with a `Symbolication` per session in place of the two
   abstract steps: a step refinement by way of `SymbolicationImplements`.
2. `FlameCmd` over `NodeProfiler` itself: `ImplementsCalls` and `CmdInv` put
   together, for one session.
3. `MacTask` and `PtraceTask` as what `Backtrace` of `Tracer` promises: that its
   outcomes are those of a whole sample.

Not to be modelled: `demangle.cc` (one library call), the build files, the raw
memory readers (I/O; their failures are outcomes of `Tracer` and `Throw` of
`HeapReader`), and the part of `aggregation.js` behind the first frame, which no
profile reaches.
