------------------------------ MODULE FlameCmd ------------------------------
(***************************************************************************)
(* The command node-flame (cmd/flame.js): one profile() call between the   *)
(* command line and what is printed, which lib/stackvis-adaptor.js and     *)
(* lib/aggregation.js prepare.                                             *)
(*                                                                         *)
(* It is composed with the client's view of NodeProfiler, ProfileCalls,    *)
(* which NodeProfiler implements (see ImplementsCalls).  main() has one    *)
(* call, and process.exit() in its callback ends that call's steps too.    *)
(***************************************************************************)
EXTENDS Naturals, Sequences, SequencesExt

CONSTANTS
    Profiles,       \* what may be sampled: sequences of stacks, a stack is a
                    \* sequence of frames, a frame the sequence of the pieces
                    \* between the slashes in its text; there is a frame in
                    \* one, for atos has named one (see SymbolsResolved)
    SpawnMayFail    \* atos may fail to start

ASSUME FlameCmdAssumption ==
    /\ SpawnMayFail \in BOOLEAN
    /\ Profiles \subseteq Seq(Seq(Seq(STRING)))
    /\ \A p \in Profiles : \E i \in DOMAIN p : p[i] # <<>>

VARIABLES
    args,       \* the command line, by what the checks tell apart
    phase,      \* of main(): see Phases
    stacks,     \* the profile, once it is delivered
    lines,      \* self.lines of the StackVisAdaptor
    stdout,     \* what was printed: a sequence of chunks
    exit,       \* "running", the exit code, or "uncaught"
    nCalls, calls, active, waits, crashed       \* of ProfileCalls

Calls == INSTANCE ProfileCalls WITH MaxSessions <- 1

cmdVars == <<args, phase, stacks, lines, stdout, exit>>
callVars == <<nCalls, calls, active, waits, crashed>>
vars == <<cmdVars, callVars>>

Formats == {"text", "flame", "raw", "fullraw"}
Phases == {"args", "pid", "profile", "sampling", "output", "read", "printed", "exited"}

(* `seconds` is the duration: "ms" when it has no fraction of a millisecond*)
(* once it is multiplied by 1000 (2.01 has).                               *)
CommandLine ==
    [argc : {"five", "other"}, pid : {"positive", "other"},
     format : Formats \cup {"other"}, seconds : {"ms", "fraction", "over30", "other"}]

Init ==
    /\ Calls!Init
    /\ args \in CommandLine
    /\ phase = "args"
    /\ stacks = <<>> /\ lines = <<>> /\ stdout = <<>>
    /\ exit = "running"

Exit(code) == phase' = "exited" /\ exit' = code

-----------------------------------------------------------------------------
(* main(), up to the profile *)

ParseArgs ==
    /\ phase = "args"
    /\ IF args.argc = "five" /\ args.pid = "positive" /\ args.format \in Formats
            /\ args.seconds \in {"ms", "fraction"}
       THEN phase' = "pid" /\ UNCHANGED exit
       ELSE Exit("1")
    /\ UNCHANGED <<args, stacks, lines, stdout, callVars>>

(* The process may be gone, or another user's, and be gone later.          *)
PidExists ==
    /\ phase = "pid"
    /\ \/ phase' = "profile" /\ UNCHANGED exit
       \/ Exit("1")
    /\ UNCHANGED <<args, stacks, lines, stdout, callVars>>

\* mutant: an error is reported, and the session goes on
OnProfileComplete_NoExit ==
    IF Last(calls'[1]).kind = "ok"
    THEN /\ stacks' \in Profiles
         /\ phase' = "output"
         /\ UNCHANGED exit
    ELSE phase' = "sampling" /\ UNCHANGED <<exit, stacks>>

(* The callback, which the last answer is given to.  process.exit in it    *)
(* ends everything: profile() does not go on, no timer fires any more.     *)
OnProfileComplete ==
    IF Last(calls'[1]).kind = "ok"
    THEN /\ stacks' \in Profiles
         /\ phase' = "output"
         /\ UNCHANGED exit
    ELSE Exit("1") /\ UNCHANGED stacks

(* Called inside profile(), the callback gets an error.                    *)
Profile ==
    /\ phase = "profile"
    /\ \/ args.seconds = "fraction" /\ Calls!Refuse /\ OnProfileComplete
       \/ /\ args.seconds = "ms"
          /\ \/ Calls!Begin /\ phase' = "sampling" /\ UNCHANGED <<stacks, exit>>
             \/ Calls!BeginUnattached /\ OnProfileComplete
             \/ Calls!Throw /\ crashed' /\ Exit("uncaught") /\ UNCHANGED stacks
    /\ UNCHANGED <<args, lines, stdout>>

-----------------------------------------------------------------------------
(* The session *)

(* resolveSymbols, before it fails, prints what it takes for symbols.      *)
SymbolsLog == [kind |-> "symbols"]
LogSymbols ==
    stdout' = IF Last(calls'[1]).kind = "symbolErr" THEN <<SymbolsLog>> ELSE stdout

Session ==
    /\ phase = "sampling"
    /\ \/ Calls!Wait /\ UNCHANGED <<phase, stacks, stdout, exit>>
       \/ Calls!End /\ LogSymbols /\ OnProfileComplete
       \/ Calls!Crash /\ Exit("uncaught") /\ UNCHANGED <<stacks, stdout>>
    /\ UNCHANGED <<args, lines>>

-----------------------------------------------------------------------------
(* StackVisAdaptor *)

(* Lines of text, a frame's with its pieces.                               *)
Blank == [kind |-> "blank"]
Count == [kind |-> "count"]
FrameLine(frame) == [kind |-> "frame", frame |-> frame]

\* mutant: the last piece alone
TruncateFramePath_File(frame) ==
    IF Len(frame) > 1 THEN <<frame[Len(frame)]>> ELSE frame

(* The two pieces are put together without a slash, which is layout here.  *)
TruncateFramePath(frame) ==
    IF Len(frame) > 1 THEN <<frame[1], frame[Len(frame)]>> ELSE frame

ConvertFrame(frame, mode) ==
    IF mode = "fullraw" THEN frame ELSE TruncateFramePath(frame)

StackLines(stack, mode) ==
    Append([i \in DOMAIN stack |-> FrameLine(ConvertFrame(stack[i], mode))], Count)

StackVisAdaptor(profile, mode) ==
    LET pushed[n \in 0 .. Len(profile)] ==
            IF n = 0 THEN <<Blank, Blank, Blank>>
            ELSE pushed[n - 1] \o StackLines(profile[n], mode)
    IN  pushed[Len(profile)]

(* The dtrace reader of stackvis: three lines are skipped, and a count     *)
(* ends a stack.                                                           *)
ReadLine(read, line) ==
    IF line.kind = "count"
    THEN [stacks |-> Append(read.stacks, read.stack), stack |-> <<>>]
    ELSE [read EXCEPT !.stack = Append(@, line.frame)]

ReadStacks(text) ==
    LET read[n \in 0 .. Len(text)] ==
            IF n <= 3 THEN [stacks |-> <<>>, stack |-> <<>>]
            ELSE ReadLine(read[n - 1], text[n])
    IN  read[Len(text)].stacks

-----------------------------------------------------------------------------
(* Output *)

(* aggregate() looks a frame up in `children`, an object without indexOf.  *)
AggregateThrows(profile) == \E i \in DOMAIN profile : profile[i] # <<>>

(* display() of a root that has no children.                               *)
Total(profile) == [kind |-> "total", count |-> Len(profile)]

\* mutant: 'fullraw' was not added to the formats that are told apart
IsText_Fullraw == args.format \notin {"flame", "raw"}

IsText == args.format \notin {"flame", "raw", "fullraw"}

OutputText ==
    /\ IsText
    /\ IF AggregateThrows(stacks)
       THEN Exit("uncaught") /\ UNCHANGED stdout
       ELSE phase' = "printed" /\ stdout' = <<Total(stacks)>> /\ UNCHANGED exit
    /\ UNCHANGED lines

OpenAdaptor ==
    /\ ~IsText
    /\ lines' = StackVisAdaptor(stacks, args.format)
    /\ phase' = "read"
    /\ UNCHANGED <<stdout, exit>>

Output ==
    /\ phase = "output"
    /\ OutputText \/ OpenAdaptor
    /\ UNCHANGED <<args, stacks, callVars>>

(* _read gives all the lines in one chunk and ends the stream.             *)
Read ==
    /\ phase = "read"
    /\ stdout' = <<IF args.format = "flame"
                   THEN [kind |-> "graph", stacks |-> ReadStacks(lines)]
                   ELSE [kind |-> "lines", lines |-> lines]>>
    /\ phase' = "printed"
    /\ UNCHANGED <<args, stacks, lines, exit, callVars>>

(* The event loop is empty: no timer and no atos is left.                  *)
LoopEnds ==
    /\ phase \in {"sampling", "printed"} /\ active = Calls!None
    /\ Exit("0")
    /\ UNCHANGED <<args, stacks, lines, stdout, callVars>>

Next == ParseArgs \/ PidExists \/ Profile \/ Session \/ Output \/ Read \/ LoopEnds

Spec == Init /\ [][Next]_vars

-----------------------------------------------------------------------------
(* Properties *)

Shown ==
    CASE stdout[1].kind = "graph" -> stdout[1].stacks
      [] stdout[1].kind = "lines" -> ReadStacks(stdout[1].lines)
      [] OTHER -> <<>>

Shorten(frame) ==
    IF Len(frame) <= 2 THEN frame ELSE <<Head(frame), Last(frame)>>

Told(kind) == \E i \in DOMAIN calls[1] : calls[1][i].kind = kind

(* Exit code 0 means that the profile was printed, so that what reads it   *)
(* finds the stacks that were sampled (with short paths, except 'fullraw').*)
(* Any other end leaves no profile in the file the output goes to, and     *)
(* nothing else, but what a failed symbolication logs to the same stream   *)
(* (osx-atos.js:57).                                                       *)
ExitCodeIsHonest ==
    /\ exit = "0" =>
          /\ Len(stdout) = 1
          /\ Shown = IF args.format = "fullraw" THEN stacks
                     ELSE [i \in DOMAIN stacks |->
                              [j \in DOMAIN stacks[i] |-> Shorten(stacks[i][j])]]
    /\ exit \in {"1", "uncaught"} =>
          stdout = IF Told("symbolErr") THEN <<SymbolsLog>> ELSE <<>>

(* A profile that was collected is printed; 'text' alone loses it.         *)
Collected == Told("ok")

OnlyTextLosesProfiles ==
    exit # "running" /\ Collected => exit = "0" \/ args.format = "text"

(* The first error that main() is told of is the last answer, and the end  *)
(* with the exit code of an error: also in the middle of profile(), which  *)
(* would go on after the callback and sample a process it is not attached  *)
(* to (index.js:83-86).                                                    *)
ErrorsEndIt ==
    \A i \in DOMAIN calls[1] :
        LET kind == calls[1][i].kind IN
        kind # "ok" => /\ Len(calls[1]) = 1
                       /\ exit = IF kind = "threw" THEN "uncaught" ELSE "1"

(* README.md, "Text Example": text output shows the profile.               *)
TextIsPrinted == exit # "running" /\ Collected => exit = "0"

=============================================================================
