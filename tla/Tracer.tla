------------------------------- MODULE Tracer -------------------------------
(***************************************************************************)
(* The tracer objects behind NodeProfiler: OSXTracer (tracer.mac.js) and   *)
(* LinuxTracer (tracer.linux.js), one of which tracer.js exports.          *)
(*                                                                         *)
(* Every method runs to completion inside one JavaScript callback, so a    *)
(* method is an operator that returns the set of its possible OUTCOMES:    *)
(* the tracer object and the profiled process as the call leaves them, and *)
(* the result the caller sees.  A result "throws" is an exception that     *)
(* leaves the method.  The finer steps of the native calls, which other    *)
(* processes can observe, are those of MacTask and PtraceTask.             *)
(***************************************************************************)

CONSTANTS
    Platform,   \* "mac" or "linux": which addon `bindings` loads
    Pids,       \* the processes that can be profiled
    Faults      \* the operating system failures that may happen:
                \*   "attach"  task_for_pid / PTRACE_SEIZE may be refused
                \*   "read"    the registers of a paused process cannot be read
                \*   "symbols" atos may exit without one symbol per address
                \*   "spawn"   atos may fail to start
                \*   "exit"    a profiled process may exit
                \*   "signal"  a profiled process may get signals

ASSUME TracerAssumption ==
    /\ Pids # {}
    /\ Platform \in {"mac", "linux"}
    /\ Faults \subseteq {"attach", "read", "symbols", "spawn", "exit", "signal"}

(* A profiled process.  `traced` is PTRACE_SEIZE's mark (linux only);      *)
(* `stopped` is a raised suspend count (mac) or a ptrace-stop (linux).     *)
Target == [alive : BOOLEAN, traced : BOOLEAN, stopped : BOOLEAN]

FreshTarget == [alive |-> TRUE, traced |-> FALSE, stopped |-> FALSE]

(* A tracer object.  `port` is a task port by what it is good for: "none"  *)
(* (0), "bad" (-1 or dead) or "good"; heapReader and memReader say whether *)
(* the fields are non-null.                                                *)
TracerObject == [pid : Pids, port : {"none", "bad", "good"},
                 heapReader : BOOLEAN, memReader : BOOLEAN]

NewTracer(p) == [pid |-> p, port |-> "none",
                 heapReader |-> FALSE, memReader |-> FALSE]

Outcome(t, g, r) == [tracer |-> t, target |-> g, result |-> r]

Resumed(g) == [g EXCEPT !.stopped = FALSE]

-----------------------------------------------------------------------------
(* macOS *)

(* taskPort(pid): a usable port, or -1.                                    *)
TaskPort(g) ==
    (IF g.alive THEN {"good"} ELSE {})
        \cup (IF ~g.alive \/ "attach" \in Faults THEN {"bad"} ELSE {})

OSXAttach(p, g) ==
    { IF port = "good"
      THEN Outcome([NewTracer(p) EXCEPT !.port = port, !.heapReader = TRUE,
                                        !.memReader = TRUE], g, "true")
      ELSE Outcome([NewTracer(p) EXCEPT !.port = port], g, "false") :
          port \in TaskPort(g) }

\* mutant: resume through the port that was just renewed
OSXFailedRead_NewPort(t, g) ==
    { Outcome([t EXCEPT !.port = q], [g EXCEPT !.stopped = (q = "bad")], "null") :
        q \in TaskPort(g) }

(* tracer.backtrace paused the process and could not read its registers:   *)
(* the port is renewed, then the process resumed through the old one.      *)
OSXFailedRead(t, g) ==
    { Outcome([t EXCEPT !.port = q], Resumed(g), "null") : q \in TaskPort(g) }

(* A stack with frames needs heapReader: when it is null the call throws   *)
(* before tracer.resume, and the process stays suspended.  A stack without *)
(* native frames ("other") may also be empty.                              *)
OSXBacktrace(t, g) ==
    LET frames == IF t.heapReader
                  THEN {Outcome(t, Resumed(g), "native")}
                  ELSE {Outcome(t, [g EXCEPT !.stopped = TRUE], "throws")}
    IN  IF t.port # "good" \/ ~g.alive
        THEN { Outcome([t EXCEPT !.port = q], g, "null") : q \in TaskPort(g) }
        ELSE frames \cup {Outcome(t, Resumed(g), "other")}
                    \cup (IF "read" \in Faults THEN OSXFailedRead(t, g) ELSE {})

OSXDetach(t, g) ==
    {Outcome(NewTracer(t.pid), IF t.port = "good" THEN Resumed(g) ELSE g, "true")}

-----------------------------------------------------------------------------
(* Linux *)

(* A successful PTRACE_SEIZE is followed by memReader.init(), which opens  *)
(* /proc/undefined/mem (LinuxMemoryReader never stores its pid) and so     *)
(* throws with the process already traced and heapReader still null.       *)
LinuxAttach(p, g) ==
    (IF g.alive /\ ~g.traced
     THEN {Outcome([NewTracer(p) EXCEPT !.memReader = TRUE],
                   [g EXCEPT !.traced = TRUE], "throws")}
     ELSE {})
    \cup (IF ~g.alive \/ g.traced \/ "attach" \in Faults
          THEN {Outcome(NewTracer(p), g, "false")}
          ELSE {})

(* PTRACE_CONT, after which a trap that came behind a signal stop may stop *)
(* the process once more (Continue of PtraceTask).                         *)
LinuxResumed(g) ==
    {Resumed(g)} \cup
        (IF "signal" \in Faults THEN {[g EXCEPT !.stopped = TRUE]} ELSE {})

LinuxFailedRead(t, g) == { Outcome(t, h, "null") : h \in LinuxResumed(g) }

(* Were heapReader set, every frame would read as '[Unknown: ...]' (the    *)
(* reader's 4 byte buffer cannot take readUInt64's 8), hence no "native".  *)
LinuxBacktrace(t, g) ==
    IF ~g.alive \/ ~g.traced
    THEN {Outcome(t, g, "null")}
    ELSE { Outcome(t, h, "other") : h \in LinuxResumed(g) }
         \cup (IF t.heapReader
               THEN {}
               ELSE {Outcome(t, [g EXCEPT !.stopped = TRUE], "throws")})
         \cup (IF "read" \in Faults THEN LinuxFailedRead(t, g) ELSE {})

(* Returns undefined, which the caller takes for failure; destroy() throws *)
(* when the reader never opened its file (fs.close(null)).                 *)
LinuxDetach(t, g) ==
    {Outcome([t EXCEPT !.heapReader = FALSE],
             [g EXCEPT !.traced = FALSE, !.stopped = FALSE],
             IF t.memReader THEN "throws" ELSE "false")}

-----------------------------------------------------------------------------
(* tracer.js *)

Attach(p, g)    == IF Platform = "mac" THEN OSXAttach(p, g) ELSE LinuxAttach(p, g)
Backtrace(t, g) == IF Platform = "mac" THEN OSXBacktrace(t, g) ELSE LinuxBacktrace(t, g)
Detach(t, g)    == IF Platform = "mac" THEN OSXDetach(t, g) ELSE LinuxDetach(t, g)

=============================================================================
