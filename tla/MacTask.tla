------------------------------ MODULE MacTask ------------------------------
(***************************************************************************)
(* A macOS task profiled by several node-flame processes at once: the      *)
(* pause and resume of node_backtrace.mac.cc around one sample of          *)
(* tracer.mac.js.                                                          *)
(*                                                                         *)
(* pause_process and resume_process look at the suspend count and then act *)
(* on it.  The count belongs to the kernel and is shared by all profilers, *)
(* so looking and acting are two steps.  A step is one system call of one  *)
(* profiler, or the reading of one frame of the stack.  The frame chain is *)
(* whatever memory holds: it may be cyclic, or change while it is read.    *)
(***************************************************************************)
EXTENDS Naturals, FiniteSets

CONSTANTS
    Profilers,      \* node-flame processes with a port to the task
    Killable,       \* those that may be killed between two steps
    MaxStackDepth   \* MAX_STACK_DEPTH, the frames that frames[] has room for

ASSUME MacTaskAssumption ==
    /\ IsFiniteSet(Profilers)
    /\ Killable \subseteq Profilers
    /\ MaxStackDepth \in Nat

VARIABLES
    alive,          \* the task exists
    suspendCount,   \* of the task
    pc,             \* where each profiler is
    fcount,         \* frames each has read of the present stack
    frame,          \* whether its next frame pointer is not 0
    owes,           \* profilers whose task_suspend they have not yet undone
    disturbed       \* history: walkers that another profiler's resume met

walkVars == <<fcount, frame>>
vars == <<alive, suspendCount, pc, walkVars, owes, disturbed>>

(* "idle" between samples; "suspend" before task_suspend; "threads" before *)
(* the registers are read, "walk" while the stack is; "look" at the start  *)
(* of resume_process; "resume" before task_resume; "killed".               *)
Reading == {"threads", "walk"}
Where == {"idle", "suspend", "look", "resume", "killed"} \cup Reading

Suspended == suspendCount > 0
Running == alive /\ ~Suspended     \* task_is_running succeeds and says so

Init ==
    /\ alive = TRUE
    /\ suspendCount = 0
    /\ pc = [p \in Profilers |-> "idle"]
    /\ fcount = [p \in Profilers |-> 0]
    /\ frame = [p \in Profilers |-> FALSE]
    /\ owes = {}
    /\ disturbed = {}

Goto(p, where) == pc' = [pc EXCEPT ![p] = where]

-----------------------------------------------------------------------------
(* pause_process *)

\* mutant: the two answers of task_is_running are swapped
LookBeforePause_Swapped(p) ==
    /\ pc[p] = "idle"
    /\ Goto(p, IF Running THEN "threads" ELSE "suspend")
    /\ UNCHANGED <<alive, suspendCount, walkVars, owes, disturbed>>

(* A task that is already suspended is taken as it is.                     *)
LookBeforePause(p) ==
    /\ pc[p] = "idle"
    /\ Goto(p, IF Suspended THEN "threads" ELSE "suspend")
    /\ UNCHANGED <<alive, suspendCount, walkVars, owes, disturbed>>

(* When there is no task any more, backtrace fails, and resume comes next. *)
Suspend(p) ==
    /\ pc[p] = "suspend"
    /\ IF alive
       THEN /\ suspendCount' = suspendCount + 1
            /\ owes' = owes \cup {p}
            /\ Goto(p, "threads")
       ELSE Goto(p, "look") /\ UNCHANGED <<suspendCount, owes>>
    /\ UNCHANGED <<alive, walkVars, disturbed>>

-----------------------------------------------------------------------------
(* The rest of take_backtrace, and the heap reads of tracer.mac.js *)

LeaveStack(p) ==
    /\ Goto(p, "look")
    /\ fcount' = [fcount EXCEPT ![p] = 0]
    /\ frame' = [frame EXCEPT ![p] = FALSE]
    /\ disturbed' = disturbed \ {p}

(* task_threads and thread_get_state, which may fail.                      *)
ReadRegisters(p) ==
    /\ pc[p] = "threads"
    /\ \/ LeaveStack(p)
       \/ /\ alive
          /\ Goto(p, "walk")
          /\ \E more \in BOOLEAN : frame' = [frame EXCEPT ![p] = more]
          /\ UNCHANGED <<fcount, disturbed>>
    /\ UNCHANGED <<alive, suspendCount, owes>>

\* mutant: fcount <= MAX_STACK_DEPTH
ReadFrame_Past(p) ==
    /\ pc[p] = "walk"
    /\ frame[p] /\ fcount[p] <= MaxStackDepth
    /\ fcount' = [fcount EXCEPT ![p] = @ + 1]
    /\ \E more \in BOOLEAN : frame' = [frame EXCEPT ![p] = more /\ alive]
    /\ UNCHANGED <<alive, suspendCount, pc, owes, disturbed>>

\* mutant: the buffer is used as a ring
ReadFrame_Ring(p) ==
    /\ pc[p] = "walk"
    /\ frame[p]
    /\ fcount' = [fcount EXCEPT ![p] = (@ + 1) % MaxStackDepth]
    /\ \E more \in BOOLEAN : frame' = [frame EXCEPT ![p] = more /\ alive]
    /\ UNCHANGED <<alive, suspendCount, pc, owes, disturbed>>

(* An address that cannot be read reads as 0, which ends the chain.        *)
ReadFrame(p) ==
    /\ pc[p] = "walk"
    /\ frame[p] /\ fcount[p] < MaxStackDepth
    /\ fcount' = [fcount EXCEPT ![p] = @ + 1]
    /\ \E more \in BOOLEAN : frame' = [frame EXCEPT ![p] = more /\ alive]
    /\ UNCHANGED <<alive, suspendCount, pc, owes, disturbed>>

\* mutant: a stack that is too deep returns without tracer.resume
EndWalk_NoResume(p) ==
    /\ pc[p] = "walk"
    /\ ~frame[p] \/ fcount[p] >= MaxStackDepth
    /\ IF frame[p] THEN Goto(p, "idle") ELSE Goto(p, "look")
    /\ owes' = IF frame[p] THEN owes \ {p} ELSE owes
    /\ fcount' = [fcount EXCEPT ![p] = 0]
    /\ frame' = [frame EXCEPT ![p] = FALSE]
    /\ disturbed' = disturbed \ {p}
    /\ UNCHANGED <<alive, suspendCount>>

(* The frames that were read are annotated and the task is resumed.        *)
EndWalk(p) ==
    /\ pc[p] = "walk"
    /\ ~frame[p] \/ fcount[p] >= MaxStackDepth
    /\ LeaveStack(p)
    /\ UNCHANGED <<alive, suspendCount, owes>>

(* detach() resumes a task this profiler has not paused.                   *)
Detach(p) ==
    /\ pc[p] = "idle"
    /\ Goto(p, "look")
    /\ UNCHANGED <<alive, suspendCount, walkVars, owes, disturbed>>

-----------------------------------------------------------------------------
(* resume_process *)

LookBeforeResume(p) ==
    /\ pc[p] = "look"
    /\ IF Running
       THEN Goto(p, "idle") /\ owes' = owes \ {p}
       ELSE Goto(p, "resume") /\ UNCHANGED owes
    /\ UNCHANGED <<alive, suspendCount, walkVars, disturbed>>

(* task_resume fails when the count is 0 already, or the task is gone.     *)
Resume(p) ==
    /\ pc[p] = "resume"
    /\ suspendCount' = IF Suspended THEN suspendCount - 1 ELSE 0
    /\ Goto(p, "idle")
    /\ owes' = owes \ {p}
    /\ disturbed' = disturbed \cup {q \in Profilers : pc[q] \in Reading}
    /\ UNCHANGED <<alive, walkVars>>

-----------------------------------------------------------------------------
(* node-flame is killed *)
Kill(p) ==
    /\ p \in Killable
    /\ pc[p] # "killed"
    /\ Goto(p, "killed")
    /\ fcount' = [fcount EXCEPT ![p] = 0]
    /\ frame' = [frame EXCEPT ![p] = FALSE]
    /\ disturbed' = disturbed \ {p}
    /\ UNCHANGED <<alive, suspendCount, owes>>

(* ... or the profiled process is. *)
TaskDies ==
    /\ alive
    /\ alive' = FALSE
    /\ suspendCount' = 0
    /\ UNCHANGED <<pc, walkVars, owes, disturbed>>

Sample(p) ==
    \/ LookBeforePause(p) \/ Suspend(p)
    \/ ReadRegisters(p) \/ ReadFrame(p) \/ EndWalk(p)
    \/ LookBeforeResume(p) \/ Resume(p)

Next == (\E p \in Profilers : Sample(p) \/ Detach(p) \/ Kill(p)) \/ TaskDies

Spec == Init /\ [][Next]_vars

(* A sample is one JavaScript call: once begun it runs to its end, and the *)
(* sample timer begins the next one.                                       *)
FairSpec == Spec /\ \A p \in Profilers : WF_vars(Sample(p))

-----------------------------------------------------------------------------
(* Properties *)

TypeOK ==
    /\ alive \in BOOLEAN
    /\ suspendCount \in Nat
    /\ pc \in [Profilers -> Where]
    /\ fcount \in [Profilers -> 0 .. MaxStackDepth]
    /\ frame \in [Profilers -> BOOLEAN]
    /\ owes \subseteq Profilers
    /\ disturbed \subseteq Profilers

(* The task is never suspended more often than there are profilers that    *)
(* have still to resume it or were killed before they could: no            *)
(* interleaving of the unsynchronised looks and acts loses a resume.       *)
NoResumeLost == suspendCount <= Cardinality(owes)

(* So the profiled process runs when no profiler is inside a sample, and   *)
(* none was killed inside one.                                             *)
RunsBetweenSamples ==
    (\A p \in Profilers : pc[p] \in {"idle", "suspend"}) => ~Suspended

(* A stack is read from a running process only after another profiler has  *)
(* resumed it: a profiler alone always reads a suspended one.              *)
TornOnlyByOthers ==
    \A p \in Profilers : pc[p] \in Reading /\ p \notin disturbed => ~Running

(* A suspended process runs again as long as one profiler goes on: even a  *)
(* suspension left by a killed one is undone by the resumes of the others, *)
(* overlapping samples never keep the count above 0 for ever, and neither  *)
(* does a frame chain that is cyclic.                                      *)
SuspendedRunsAgain == Suspended ~> ~Suspended

=============================================================================
