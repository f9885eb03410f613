----------------------------- MODULE PtraceTask -----------------------------
(***************************************************************************)
(* A Linux process under the ptrace calls of node_backtrace.linux.cc, in   *)
(* the order in which tracer.linux.js makes them for a session: attach,    *)
(* any number of samples (pause, read, resume), detach.                    *)
(*                                                                         *)
(* A step is one system call of the tracer, the reading of one frame of    *)
(* the stack, or one step of the kernel.  The frame chain is whatever      *)
(* memory holds: it may be cyclic.                                         *)
(* What the kernel does (signal stops, trap stops, waitpid) is external:   *)
(* it is what ptrace(2) documents for a process attached by PTRACE_SEIZE.  *)
(***************************************************************************)
EXTENDS Naturals

CONSTANTS
    MaxSignals,     \* bound: how many signals are sent to the process
    MaxStackDepth   \* MAX_STACK_DEPTH, the frames that frames[] has room for

ASSUME PtraceAssumption ==
    /\ MaxSignals \in Nat
    /\ MaxStackDepth \in Nat

VARIABLES
    state,          \* of the process: see States
    traced,         \* it has been seized by node-flame
    pendingTrap,    \* PTRACE_INTERRUPT asked for a stop that is still to come
    waitable,       \* the present stop was not yet collected by a waitpid
    queued,         \* signals sent and not yet dequeued by the process
    sent,           \* signals sent so far
    caught,         \* history: a signal stopped it since it was seized or before
    killed,         \* history: node-flame died and did not detach from it
    fcount,         \* frames read of the present stack
    frame,          \* whether the next frame pointer is not 0
    pc              \* where node-flame is: see Where

history == <<caught, killed>>
walkVars == <<fcount, frame>>
vars == <<state, traced, pendingTrap, waitable, queued, sent, history, walkVars, pc>>

(* "trap": the stop PTRACE_INTERRUPT asks for; "signal": a signal-delivery *)
(* stop, which every signal to a traced process causes.  "left": stopped   *)
(* and traced by nobody any more, until it gets a SIGCONT.                 *)
Stops == {"trap", "signal"}
States == {"running", "left", "exited"} \cup Stops
Stopped == state \in Stops

(* "attached" until a session begins to sample; "idle" between samples;    *)
(* "wait" in the waitpid of a sample, "waitDetach" in the one of detach;   *)
(* "regs" before the registers are read, "walk" while the stack is.        *)
Where == {"detached", "attached", "idle", "wait", "regs", "walk", "resume",
          "waitDetach", "detach"}

Init ==
    /\ state = "running"
    /\ traced = FALSE /\ pendingTrap = FALSE /\ waitable = FALSE
    /\ queued = 0 /\ sent = 0
    /\ caught = FALSE /\ killed = FALSE
    /\ fcount = 0 /\ frame = FALSE
    /\ pc = "detached"

-----------------------------------------------------------------------------
(* The kernel *)

SignalArrives ==
    /\ sent < MaxSignals
    /\ state # "exited"
    /\ sent' = sent + 1
    /\ queued' = queued + 1
    /\ UNCHANGED <<state, traced, pendingTrap, waitable, history, walkVars, pc>>

(* A signal to a traced process stops it, and any stop takes the place of  *)
(* a trap that was pending; untraced, the process handles it, and one that *)
(* was left stopped runs again if it was a SIGCONT.                        *)
TakeSignal ==
    /\ state \in {"running", "left"}
    /\ queued > 0
    /\ queued' = queued - 1
    /\ IF traced
       THEN state' = "signal" /\ waitable' = TRUE /\ caught' = TRUE
       ELSE /\ state' \in {state, "running"}
            /\ UNCHANGED <<waitable, caught>>
    /\ pendingTrap' = FALSE
    /\ UNCHANGED <<traced, sent, killed, walkVars, pc>>

EnterTrap ==
    /\ state = "running"
    /\ pendingTrap
    /\ state' = "trap"
    /\ waitable' = TRUE
    /\ pendingTrap' = FALSE
    /\ UNCHANGED <<traced, queued, sent, history, walkVars, pc>>

TargetExits ==
    /\ state # "exited"
    /\ state' = "exited"
    /\ traced' = FALSE /\ pendingTrap' = FALSE /\ waitable' = FALSE
    /\ queued' = 0
    /\ UNCHANGED <<sent, history, walkVars, pc>>

(* PTRACE_INTERRUPT of a process that is stopped already leaves the trap   *)
(* pending behind the present stop.                                        *)
Interrupt == pendingTrap' = (state # "exited")

(* PTRACE_CONT with signal 0.  The signal of a signal stop is dropped, and *)
(* a pending trap stops the process again before it runs one instruction.  *)
Continue ==
    IF Stopped
    THEN /\ state' = IF pendingTrap THEN "trap" ELSE "running"
         /\ waitable' = pendingTrap
         /\ pendingTrap' = FALSE
    ELSE UNCHANGED <<state, waitable, pendingTrap>>

(* The kernel lets go of the process: it runs, unless it stays stopped.    *)
Unlink(staysStopped) ==
    /\ traced' = FALSE
    /\ state' \in CASE state = "exited" -> {"exited"}
                    [] staysStopped -> {"running", "left"}
                    [] OTHER -> {"running"}
    /\ pendingTrap' = FALSE
    /\ waitable' = FALSE

-----------------------------------------------------------------------------
(* attach_process *)

(* PTRACE_SEIZE does not stop the process; one that was left stopped then   *)
(* is in a stop that node-flame can collect.                               *)
SeizeStopped ==
    LET stopped == state = "left"
    IN  /\ state' = IF stopped THEN "trap" ELSE state
        /\ waitable' = stopped
        /\ caught' = stopped
        /\ killed' = (stopped /\ killed)

\* mutant: PTRACE_ATTACH, which sends the process a SIGSTOP
Attach_SendsStop ==
    /\ pc = "detached"
    /\ state # "exited"
    /\ traced' = TRUE
    /\ SeizeStopped
    /\ queued' = queued + 1
    /\ pc' = "attached"
    /\ UNCHANGED <<pendingTrap, sent, walkVars>>

Attach ==
    /\ pc = "detached"
    /\ state # "exited"
    /\ traced' = TRUE
    /\ SeizeStopped
    /\ pc' = "attached"
    /\ UNCHANGED <<pendingTrap, queued, sent, walkVars>>

(* attach() may throw behind PTRACE_SEIZE, and then no session begins      *)
(* before profile() is called for the process once more.                   *)
SessionBegins ==
    /\ pc = "attached"
    /\ pc' = "idle"
    /\ UNCHANGED <<state, traced, pendingTrap, waitable, queued, sent, history, walkVars>>

-----------------------------------------------------------------------------
(* pause_process: PTRACE_INTERRUPT and waitpid *)

(* A process that is gone cannot be interrupted: no waitpid follows.       *)
BeginPause(waiting, failed) ==
    /\ Interrupt
    /\ pc' = IF state = "exited" THEN failed ELSE waiting
    /\ UNCHANGED <<state, traced, waitable, queued, sent, history, walkVars>>

\* mutant: nobody waits for the stop
WaitReturns_AtOnce ==
    /\ pc \in {"wait", "waitDetach"}
    /\ pc' = IF pc = "wait" THEN "regs" ELSE "detach"
    /\ waitable' = FALSE
    /\ UNCHANGED <<state, traced, pendingTrap, queued, sent, history, walkVars>>

(* waitpid returns with whatever stop there is to collect; its status is   *)
(* not looked at.                                                          *)
WaitReturns ==
    /\ pc \in {"wait", "waitDetach"}
    /\ waitable \/ state = "exited"
    /\ waitable' = FALSE
    /\ pc' = IF pc = "wait" THEN "regs" ELSE "detach"
    /\ UNCHANGED <<state, traced, pendingTrap, queued, sent, history, walkVars>>

-----------------------------------------------------------------------------
(* take_backtrace and resume_process, as tracer.linux.js calls them *)

BeginSample == pc = "idle" /\ BeginPause("wait", "resume")

LeaveStack == pc' = "resume" /\ fcount' = 0 /\ frame' = FALSE

(* PTRACE_GETREGS, which may fail.                                         *)
ReadRegisters ==
    /\ pc = "regs"
    /\ \/ LeaveStack
       \/ /\ Stopped
          /\ pc' = "walk"
          /\ frame' \in BOOLEAN
          /\ UNCHANGED fcount
    /\ UNCHANGED <<state, traced, pendingTrap, waitable, queued, sent, history>>

\* mutant: the buffer is used as a ring
ReadFrame_Ring ==
    /\ pc = "walk"
    /\ frame
    /\ fcount' = (fcount + 1) % MaxStackDepth
    /\ frame' \in IF Stopped THEN BOOLEAN ELSE {FALSE}
    /\ UNCHANGED <<state, traced, pendingTrap, waitable, queued, sent, history, pc>>

(* An address that cannot be read reads as 0, which ends the chain.        *)
ReadFrame ==
    /\ pc = "walk"
    /\ frame /\ fcount < MaxStackDepth
    /\ fcount' = fcount + 1
    /\ frame' \in IF Stopped THEN BOOLEAN ELSE {FALSE}
    /\ UNCHANGED <<state, traced, pendingTrap, waitable, queued, sent, history, pc>>

\* mutant: a stack that is too deep returns without tracer.resume
EndWalk_NoResume ==
    /\ pc = "walk"
    /\ ~frame \/ fcount >= MaxStackDepth
    /\ pc' = IF frame THEN "idle" ELSE "resume"
    /\ fcount' = 0 /\ frame' = FALSE
    /\ UNCHANGED <<state, traced, pendingTrap, waitable, queued, sent, history>>

EndWalk ==
    /\ pc = "walk"
    /\ ~frame \/ fcount >= MaxStackDepth
    /\ LeaveStack
    /\ UNCHANGED <<state, traced, pendingTrap, waitable, queued, sent, history>>

Resume ==
    /\ pc = "resume"
    /\ Continue
    /\ pc' = "idle"
    /\ UNCHANGED <<traced, queued, sent, history, walkVars>>

-----------------------------------------------------------------------------
(* detach_process *)

BeginDetach == pc \in {"attached", "idle"} /\ BeginPause("waitDetach", "detach")

(* PTRACE_DETACH fails unless the process is stopped.  It drops the signal *)
(* of a signal stop; a stop from before PTRACE_SEIZE is still in force.    *)
Detach ==
    /\ pc = "detach"
    /\ IF Stopped
       THEN Unlink(killed)
       ELSE UNCHANGED <<state, traced, pendingTrap, waitable>>
    /\ pc' = "detached"
    /\ UNCHANGED <<queued, sent, history, walkVars>>

(* node-flame exits, by an exception or killed: the kernel lets go.  The   *)
(* signal of a signal stop is delivered, and may be one that stops.        *)
TracerDies ==
    /\ pc # "detached"
    /\ Unlink(killed \/ (Stopped /\ caught))
    /\ pc' = "detached"
    /\ killed' = TRUE
    /\ fcount' = 0 /\ frame' = FALSE
    /\ UNCHANGED <<queued, sent, caught>>

Sample ==
    BeginSample \/ WaitReturns \/ ReadRegisters \/ ReadFrame \/ EndWalk \/ Resume

Kernel == EnterTrap \/ TakeSignal

Next ==
    \/ SignalArrives \/ TakeSignal \/ EnterTrap \/ TargetExits
    \/ Attach \/ SessionBegins
    \/ Sample
    \/ BeginDetach \/ Detach
    \/ TracerDies

Spec == Init /\ [][Next]_vars

(* The sample timer goes on, a native call runs to its end, and the kernel *)
(* stops a process it was asked to stop.  That a session begins, that it   *)
(* ends, and that a signal is ever sent, is not fair.                      *)
FairSpec ==
    Spec /\ WF_vars(Sample) /\ WF_vars(Detach) /\ WF_vars(Kernel)

-----------------------------------------------------------------------------
(* Properties *)

Flags == {traced, pendingTrap, waitable, caught, killed, frame}

TypeOK ==
    /\ Flags \subseteq BOOLEAN
    /\ state \in States
    /\ sent \in Nat /\ queued \in Nat
    /\ queued <= sent /\ sent <= MaxSignals
    /\ fcount \in 0 .. MaxStackDepth
    /\ pc \in Where

(* The registers and the stack are read from a process that stands still   *)
(* (or is gone): no stop is mistaken for one that is not there any more.   *)
ReadsStoppedProcess == pc \in {"regs", "walk"} => Stopped \/ state = "exited"

(* Between samples the process runs, with no stop pending, unless a signal *)
(* stopped it since it was attached.                                       *)
IdleStopsAreSignals ==
    pc \in {"attached", "idle"} /\ (Stopped \/ pendingTrap) => caught

(* What node-flame has let go of is not traced, and it runs: PTRACE_DETACH *)
(* never finds the process running, whatever signals it got meanwhile.     *)
(* Only a node-flame that was killed may leave it stopped, as README.md:25 *)
(* warns ("if you abruptly kill node-flame [...] the process you are       *)
(* profiling can get stuck in a stopped state").                           *)
DetachedIsFree ==
    pc = "detached" =>
        ~traced /\ ~pendingTrap /\ (state \in {"running", "exited"} \/ killed)

(* waitpid, which blocks the event loop, always returns.                   *)
WaitpidReturns ==
    pc \in {"wait", "waitDetach"} ~> pc \notin {"wait", "waitDetach"}

(* As long as no signal reaches the process, every pause ends, that for a  *)
(* cyclic chain of frames too.                                             *)
SignalFreePausesEnd == (Stopped /\ ~caught) ~> (~Stopped \/ caught)

(* README.md: "Your process is paused briefly".                            *)
PausesEnd == Stopped ~> ~Stopped

=============================================================================
