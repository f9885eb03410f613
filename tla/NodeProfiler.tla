---------------------------- MODULE NodeProfiler ----------------------------
(***************************************************************************)
(* The NodeProfiler object of index.js: one object, its public profile()   *)
(* and stopProfiling(), its two timers, and the asynchronous symbolication *)
(* that ends a session.                                                    *)
(*                                                                         *)
(* An action is one turn of the event loop, or one call the client makes.  *)
(* The only client code that runs in the MIDDLE of a method is the         *)
(* callback profile() calls when attaching fails, because profile() does   *)
(* not return there: `callStack` holds the profile() calls waiting for     *)
(* such a callback to return.  Every other callback is a method's last     *)
(* act, so what it does is what the client does next.                      *)
(*                                                                         *)
(* Time is abstracted: an armed timer may fire at any moment.  durations   *)
(* and intervals are arbitrary and both timers may be late.                *)
(***************************************************************************)
EXTENDS Tracer, Naturals, Sequences, FiniteSets

CONSTANTS
    MaxSessions,    \* bound: how often the client calls profile()
    Client          \* what the client may do besides waiting for each answer:
                    \*   "overlap" profile() while atos is still running
                    \*   "reenter" profile() inside the attach error callback
                    \*   "stop"    stopProfiling() at any time

ASSUME ProfilerAssumption ==
    /\ MaxSessions \in Nat
    /\ Client \subseteq {"overlap", "reenter", "stop"}

Sessions == 1 .. MaxSessions    \* the profile() calls, in order
None == 0                       \* null, undefined, or the number 0

VARIABLES
    isProfiling, pid, cb, cpuProfile, tracer,   \* fields of the NodeProfiler
    profileTimer, sampleTimer,                  \* (sessions stand for objects)
    pendingProfile,     \* sessions whose onProfileEnd timer is armed
    pendingSample,      \* sessions whose chain of sample timers is armed
    tracers,            \* the tracer object profile() made for each session
    targets,            \* the processes being profiled
    stacks,             \* the cpuProfile array of each session
    symbolicated,       \* the arrays replaceSymbols has rewritten
    resolving,          \* atos runs that have not closed yet
    callStack,          \* profile() calls inside their attach error callback
    nCalls,             \* number of profile() calls so far
    calls,              \* what each profile() call's client has been told
    crashed,            \* an exception reached the event loop
    misdelivered        \* history: a session's end was given to another one

selfVars   == <<isProfiling, pid, cb, cpuProfile, tracer, profileTimer, sampleTimer>>
timerVars  == <<pendingProfile, pendingSample>>
arrayVars  == <<stacks, symbolicated>>
clientVars == <<callStack, nCalls, calls>>
vars == <<selfVars, timerVars, tracers, targets, arrayVars, resolving,
          clientVars, crashed, misdelivered>>

(* A sampled stack, by the process it was read from and by whether it has  *)
(* a frame that atos must name.  An array is kept as the set of the kinds  *)
(* of stack in it: no decision of the code depends on their number.        *)
Stack == [pid : Pids, native : BOOLEAN]

(* What a client is told: the callback's arguments, or an exception.       *)
Told == [kind : {"rejected", "attachErr", "threw", "detachErr", "symbolErr", "ok"},
         profile : Sessions \cup {None}]

Tell(s, kind, array) ==
    calls' = [calls EXCEPT ![s] = Append(@, [kind |-> kind, profile |-> array])]

HasNative(a) == \E x \in stacks[a] : x.native

Init ==
    /\ isProfiling = FALSE
    /\ pid = None /\ cb = None /\ cpuProfile = None /\ tracer = None
    /\ profileTimer = None /\ sampleTimer = None
    /\ pendingProfile = {} /\ pendingSample = {}
    /\ tracers = [s \in Sessions |-> NewTracer(CHOOSE p \in Pids : TRUE)]
    /\ targets = [p \in Pids |-> FreshTarget]
    /\ stacks = [s \in Sessions |-> {}]
    /\ symbolicated = {}
    /\ resolving = {}
    /\ callStack = <<>> /\ nCalls = 0
    /\ calls = [s \in Sessions |-> <<>>]
    /\ crashed = FALSE
    /\ misdelivered = FALSE

-----------------------------------------------------------------------------
(* profile(pid, duration, interval, cb) *)

ClientMayCall ==
    /\ ~crashed
    /\ nCalls < MaxSessions
    /\ resolving = {} \/ "overlap" \in Client
    /\ callStack = <<>> \/ "reenter" \in Client

(* An exception leaves a client's call: the client catches it, around the  *)
(* call or around one of the profile() calls below it, or nobody does.     *)
Unwind ==
    \/ /\ \E k \in 0 .. Len(callStack) : callStack' = SubSeq(callStack, 1, k)
       /\ UNCHANGED crashed
    \/ /\ crashed' = TRUE
       /\ UNCHANGED callStack

ArmTimers(s) ==
    /\ profileTimer' = s
    /\ sampleTimer' = s
    /\ pendingProfile' = pendingProfile \cup {s}
    /\ pendingSample' = pendingSample \cup {s}

\* mutant: self.cpuProfile = [] is left to the end of the last session
StartSession_OldArray(s, p) ==
    /\ isProfiling' = TRUE
    /\ pid' = p /\ cb' = s
    /\ cpuProfile' = IF cpuProfile = None THEN s ELSE cpuProfile
    /\ ArmTimers(s)

\* mutant: self.pid is set only when the last session reset it
StartSession_OldPid(s, p) ==
    /\ isProfiling' = TRUE
    /\ pid' = IF pid = None THEN p ELSE pid
    /\ cpuProfile' = s /\ cb' = s
    /\ ArmTimers(s)

(* The part of profile() after the attach.                                 *)
StartSession(s, p) ==
    /\ isProfiling' = TRUE
    /\ pid' = p
    /\ cpuProfile' = s
    /\ cb' = s
    /\ ArmTimers(s)

(* Already profiling, or a pid, duration or interval that is not positive. *)
ProfileRejected ==
    /\ ClientMayCall
    /\ nCalls' = nCalls + 1
    /\ Tell(nCalls + 1, "rejected", None)
    /\ UNCHANGED <<selfVars, timerVars, tracers, targets, arrayVars, resolving,
                   callStack, crashed, misdelivered>>

Profile(p) ==
    LET s == nCalls + 1 IN
    /\ ClientMayCall
    /\ ~isProfiling
    /\ nCalls' = s
    /\ \E o \in Attach(p, targets[p]) :
        /\ tracers' = [tracers EXCEPT ![s] = o.tracer]
        /\ targets' = [targets EXCEPT ![p] = o.target]
        /\ tracer' = s
        /\ \/ /\ o.result = "true"
              /\ StartSession(s, p)
              /\ UNCHANGED <<callStack, calls, crashed>>
           \/ /\ o.result = "false"
              /\ Tell(s, "attachErr", None)
              /\ callStack' = Append(callStack, s)
              /\ UNCHANGED <<isProfiling, pid, cb, cpuProfile, profileTimer,
                             sampleTimer, timerVars, crashed>>
           \/ /\ o.result = "throws"
              /\ Tell(s, "threw", None)
              /\ Unwind
              /\ UNCHANGED <<isProfiling, pid, cb, cpuProfile, profileTimer,
                             sampleTimer, timerVars>>
    /\ UNCHANGED <<arrayVars, resolving, misdelivered>>

(* The attach error callback returns and its profile() goes on regardless. *)
ProfileContinues ==
    /\ ~crashed
    /\ callStack # <<>>
    /\ LET s == callStack[Len(callStack)] IN StartSession(s, tracers[s].pid)
    /\ callStack' = SubSeq(callStack, 1, Len(callStack) - 1)
    /\ UNCHANGED <<tracer, tracers, targets, arrayVars, resolving, nCalls,
                   calls, crashed, misdelivered>>

-----------------------------------------------------------------------------
(* stopProfiling(), called by the client or by the profile timer *)

\* mutant: the early return of stopProfiling does not reset the flag
EndSession_FlagStays == UNCHANGED isProfiling

EndSession == isProfiling' = FALSE

\* mutant: self.pid is reset before the symbols are looked up
ResolveNativeFrames_PidReset ==
    resolving' = resolving \cup {[profile |-> cpuProfile, pid |-> None, cb |-> cb]}

\* mutant: nothing is looked up, and nobody told, when nothing was sampled
ResolveNativeFrames_Sampled ==
    resolving' = IF stacks[cpuProfile] = {} THEN resolving ELSE
        resolving \cup {[profile |-> cpuProfile, pid |-> pid, cb |-> cb]}

(* resolveNativeFrames: atos is started for the session's own array, with  *)
(* self.pid and the callback of this moment.                               *)
ResolveNativeFrames ==
    resolving' = resolving \cup {[profile |-> cpuProfile, pid |-> pid, cb |-> cb]}

(* The effect of stopProfiling on an active session.  `thrown` says that   *)
(* it throws; what then becomes of callStack and crashed is the caller's.  *)
Stop(thrown) ==
    /\ EndSession
    /\ UNCHANGED <<pid, cb, cpuProfile, tracer, profileTimer, sampleTimer,
                   arrayVars, nCalls, misdelivered>>
    /\ \/ /\ tracer = None      \* tracer.detach of null
          /\ thrown
          /\ UNCHANGED <<tracers, targets, resolving, calls>>
       \/ /\ tracer # None
          /\ \E o \in Detach(tracers[tracer], targets[tracers[tracer].pid]) :
              /\ tracers' = [tracers EXCEPT ![tracer] = o.tracer]
              /\ targets' = [targets EXCEPT ![tracers[tracer].pid] = o.target]
              /\ thrown = (o.result = "throws")
              /\ IF o.result = "true"
                 THEN ResolveNativeFrames
                 ELSE UNCHANGED resolving
              /\ IF o.result = "false"
                 THEN Tell(cb, "detachErr", None)
                 ELSE UNCHANGED calls

(* Called while not profiling, stopProfiling does nothing: no action.      *)
StopProfiling ==
    /\ ~crashed
    /\ "stop" \in Client
    /\ isProfiling
    /\ UNCHANGED timerVars
    /\ \/ Stop(FALSE) /\ UNCHANGED <<callStack, crashed>>
       \/ Stop(TRUE) /\ Unwind

OnProfileEnd(c) ==
    /\ ~crashed /\ callStack = <<>>
    /\ c \in pendingProfile
    /\ pendingProfile' = pendingProfile \ {c}
    /\ UNCHANGED <<pendingSample, callStack>>
    /\ \/ /\ ~isProfiling
          /\ UNCHANGED <<selfVars, tracers, targets, arrayVars, resolving,
                         nCalls, calls, crashed, misdelivered>>
       \/ /\ isProfiling
          /\ \/ Stop(FALSE) /\ UNCHANGED crashed
             \/ Stop(TRUE) /\ crashed' = TRUE

-----------------------------------------------------------------------------
(* sampleAndContinue(), as chain c of sample timers runs it *)

SampleAndContinue(c) ==
    /\ ~crashed /\ callStack = <<>>
    /\ c \in pendingSample
    /\ UNCHANGED <<isProfiling, pid, cb, cpuProfile, tracer, profileTimer,
                   pendingProfile, symbolicated, resolving, clientVars,
                   misdelivered>>
    /\ \/ /\ ~isProfiling       \* the chain ends
          /\ pendingSample' = pendingSample \ {c}
          /\ UNCHANGED <<sampleTimer, tracers, targets, stacks, crashed>>
       \/ /\ isProfiling /\ tracer = None       \* tracer.backtrace of null
          /\ crashed' = TRUE
          /\ pendingSample' = pendingSample \ {c}
          /\ UNCHANGED <<sampleTimer, tracers, targets, stacks>>
       \/ /\ isProfiling /\ tracer # None
          /\ LET p == tracers[tracer].pid IN
             \E o \in Backtrace(tracers[tracer], targets[p]) :
              /\ tracers' = [tracers EXCEPT ![tracer] = o.tracer]
              /\ targets' = [targets EXCEPT ![p] = o.target]
              /\ stacks' = IF o.result \in {"native", "other"}
                           THEN [stacks EXCEPT ![cpuProfile] =
                                    @ \cup {[pid |-> p, native |-> o.result = "native"]}]
                           ELSE stacks
              /\ IF o.result = "throws"
                 THEN /\ crashed' = TRUE
                      /\ pendingSample' = pendingSample \ {c}
                      /\ UNCHANGED sampleTimer
                 ELSE /\ sampleTimer' = c       \* re-armed
                      /\ UNCHANGED <<pendingSample, crashed>>

-----------------------------------------------------------------------------
(* The end of an atos run: resolveSymbols' callback in resolveNativeFrames *)

ResetFields ==
    /\ cpuProfile' = None
    /\ pid' = None
    /\ profileTimer' = None
    /\ sampleTimer' = None
    /\ tracer' = None
    /\ UNCHANGED <<isProfiling, cb>>

\* mutant: the sample timer is not cleared
ReturnCPUProfile_SampleTimer ==
    /\ pendingProfile' = pendingProfile \ {profileTimer}
    /\ UNCHANGED pendingSample
    /\ ResetFields
    /\ Tell(cb, "ok", cpuProfile)

(* returnCPUProfile, which reads every field of the profiler anew.         *)
ReturnCPUProfile ==
    /\ pendingProfile' = pendingProfile \ {profileTimer}
    /\ pendingSample' = pendingSample \ {sampleTimer}
    /\ ResetFields
    /\ Tell(cb, "ok", cpuProfile)

\* mutant: the error does not return, as in profile()
SymbolsFail_FallsThrough(r) ==
    /\ ~crashed /\ callStack = <<>>
    /\ r \in resolving
    /\ ~HasNative(r.profile) \/ "symbols" \in Faults
    /\ resolving' = resolving \ {r}
    /\ UNCHANGED timerVars
    /\ ResetFields
    /\ calls' = [calls EXCEPT ![r.cb] = @ \o
            <<[kind |-> "symbolErr", profile |-> None],
              [kind |-> "ok", profile |-> cpuProfile]>>]
    /\ UNCHANGED <<tracers, targets, arrayVars, callStack, nCalls, crashed,
                   misdelivered>>

(* Without addresses atos cannot print as many lines as were asked for:    *)
(* splitting its output never yields fewer than one.                       *)
SymbolsFail(r) ==
    /\ ~crashed /\ callStack = <<>>
    /\ r \in resolving
    /\ ~HasNative(r.profile) \/ "symbols" \in Faults
    /\ resolving' = resolving \ {r}
    /\ Tell(r.cb, "symbolErr", None)
    /\ UNCHANGED <<selfVars, timerVars, tracers, targets, arrayVars, callStack,
                   nCalls, crashed, misdelivered>>

SymbolsResolved(r) ==
    /\ ~crashed /\ callStack = <<>>
    /\ r \in resolving
    /\ HasNative(r.profile)
    /\ resolving' = resolving \ {r}
    /\ symbolicated' = symbolicated \cup {r.profile}
    /\ ReturnCPUProfile
    /\ misdelivered' = (misdelivered \/ cb # r.cb)
    /\ UNCHANGED <<tracers, targets, stacks, callStack, nCalls, crashed>>

(* atos cannot be started: an 'error' event that nobody listens to.        *)
SpawnFails(r) ==
    /\ ~crashed /\ callStack = <<>>
    /\ "spawn" \in Faults
    /\ r \in resolving
    /\ crashed' = TRUE
    /\ resolving' = resolving \ {r}
    /\ UNCHANGED <<selfVars, timerVars, tracers, targets, arrayVars, clientVars,
                   misdelivered>>

-----------------------------------------------------------------------------
(* Environment: a profiled process exits *)

TargetExits(p) ==
    /\ "exit" \in Faults
    /\ targets[p].alive
    /\ targets' = [targets EXCEPT ![p] =
                    [alive |-> FALSE, traced |-> FALSE, stopped |-> FALSE]]
    /\ UNCHANGED <<selfVars, timerVars, tracers, arrayVars, resolving,
                   clientVars, crashed, misdelivered>>

Next ==
    \/ ProfileRejected
    \/ \E p \in Pids : Profile(p) \/ TargetExits(p)
    \/ ProfileContinues
    \/ StopProfiling
    \/ \E c \in Sessions : OnProfileEnd(c) \/ SampleAndContinue(c)
    \/ \E r \in resolving : SymbolsFail(r) \/ SymbolsResolved(r) \/ SpawnFails(r)

Spec == Init /\ [][Next]_vars

(* The event loop runs every timer that is due and every 'close' event,    *)
(* and a client's callback returns.  What the client calls, and whether    *)
(* anything fails, is not fair; nor is the close of an atos that was given *)
(* no address and waits for them on its standard input.                    *)
SymbolsClose(r) ==
    HasNative(r.profile) /\ (SymbolsResolved(r) \/ SymbolsFail(r) \/ SpawnFails(r))

Fairness ==
    /\ WF_vars(ProfileContinues)
    /\ \A c \in Sessions : WF_vars(OnProfileEnd(c)) /\ WF_vars(SampleAndContinue(c))
    /\ WF_vars(\E r \in resolving : SymbolsClose(r))

FairSpec == Spec /\ Fairness

-----------------------------------------------------------------------------
(* Properties *)

TypeOK ==
    /\ isProfiling \in BOOLEAN
    /\ pid \in Pids \cup {None}
    /\ {cb, cpuProfile, tracer, profileTimer, sampleTimer} \subseteq Sessions \cup {None}
    /\ pendingProfile \subseteq Sessions
    /\ pendingSample \subseteq Sessions
    /\ tracers \in [Sessions -> TracerObject]
    /\ targets \in [Pids -> Target]
    /\ stacks \in [Sessions -> SUBSET Stack]
    /\ symbolicated \subseteq Sessions
    /\ resolving \subseteq [profile : Sessions, pid : Pids, cb : Sessions]
    /\ callStack \in Seq(Sessions)
    /\ nCalls \in 0 .. MaxSessions
    /\ calls \in [Sessions -> Seq(Told)]
    /\ crashed \in BOOLEAN
    /\ misdelivered \in BOOLEAN

WasTold(s, kinds) == \E i \in DOMAIN calls[s] : calls[s][i].kind \in kinds

(* Every path through a sample and through detach resumes the process it   *)
(* paused: one that is left stopped was left by an exception that ended    *)
(* node-flame, thrown in a tracer that has no heap reader (its attach had  *)
(* failed, or it had been detached already).                               *)
StoppedOnlyByCrash ==
    (\E p \in Pids : targets[p].stopped)
        => crashed /\ tracer # None /\ ~tracers[tracer].heapReader

(* A session is in one place: inside its attach error callback, active, or *)
(* with atos; and it goes to atos once.  So whoever answers a client, no   *)
(* two parts of the program believe to be holding the same session.        *)
InCallback(s) == \E i \in DOMAIN callStack : callStack[i] = s

SessionsApart ==
    /\ \A i, j \in DOMAIN callStack : callStack[i] = callStack[j] => i = j
    /\ \A i \in DOMAIN callStack : callStack[i] <= nCalls
    /\ \A r \in resolving :
          r.cb <= nCalls /\ ~InCallback(r.cb) /\ (isProfiling => r.cb # cb)
    /\ \A q, r \in resolving : q.cb = r.cb => q = r
    /\ cb <= nCalls
    /\ isProfiling => ~InCallback(cb)

(* As long as no session's end was handed to another, the active session   *)
(* can end and can deliver: the timer that will stop it is armed, and it   *)
(* has a tracer and an array of its own.                                   *)
ActiveSessionIsArmed ==
    isProfiling /\ ~misdelivered /\ ~crashed =>
        /\ profileTimer = cb /\ cb \in pendingProfile
        /\ cpuProfile = cb
        /\ tracer # None

(* The whole story a client may be told about one profile() call, as long  *)
(* as no session's end was handed to another: a refusal; or at most one    *)
(* attach error (after which the profile goes on) and at most one end,     *)
(* and a profile is delivered only to the call that collected it, with its *)
(* native frames named.                                                    *)
EndKinds == {"detachErr", "symbolErr", "ok"}

ToldProperly(s) ==
    LET told == calls[s] IN
    /\ Len(told) <= 2
    /\ Len(told) = 2 => told[1].kind = "attachErr" /\ told[2].kind \in EndKinds
    /\ \A i \in DOMAIN told :
          told[i].kind = "ok" => told[i].profile = s /\ s \in symbolicated

CallbackAccounting == ~misdelivered => \A s \in Sessions : ToldProperly(s)

(* When an atos run closes, the profiler still holds the session it was    *)
(* started for, so that returnCPUProfile answers the right caller and      *)
(* clears the right timers.                                                *)
AnswersItsCaller ==
    \A r \in resolving : r.cb = cb /\ r.profile = cpuProfile /\ ~isProfiling

(* The addresses atos is asked to name were all read from the process it   *)
(* is told to look them up in (-p pid).                                    *)
SymbolsFromSampledProcess ==
    \A r \in resolving : \A x \in stacks[r.profile] : x.pid = r.pid

(* No timer outlives its session unless that session ended in an error:    *)
(* each failed session leaks at most one chain of samples (which goes on   *)
(* sampling the next session) and only its own profile timer (which stops  *)
(* the next session early); no other timer is left behind.                 *)
Failed == {s \in Sessions : WasTold(s, {"detachErr", "symbolErr"})}

TimersOutliveOnlyFailures ==
    ~crashed =>
        /\ Cardinality(pendingSample) <=
              Cardinality(Failed) + (IF isProfiling \/ resolving # {} THEN 1 ELSE 0)
        /\ \A s \in pendingProfile :
              s \in Failed \/ (s = cb /\ (isProfiling \/ resolving # {}))

(* What a client that waits for its answers sees of all this: the calls of *)
(* ProfileCalls, one after the other, each answered for good with its own  *)
(* profile or an error, whatever the timers of failed sessions do; and no  *)
(* crash but of a call that went on unattached, or whose atos cannot start.*)
ActiveCall ==
    CASE crashed -> None
      [] ~crashed /\ callStack # <<>> -> callStack[Len(callStack)]
      [] ~crashed /\ callStack = <<>> /\ isProfiling -> cb
      [] OTHER -> IF \E r \in resolving : TRUE
                  THEN (CHOOSE r \in resolving : TRUE).cb
                  ELSE None

Calls == INSTANCE ProfileCalls WITH
            SpawnMayFail <- "spawn" \in Faults,
            active <- ActiveCall,
            waits <- ~crashed /\ \E r \in resolving : ~HasNative(r.profile)

KeepsCalls == Calls!Spec /\ Calls!EveryCallEnds

(* On a machine where nothing fails and with a client that waits for its   *)
(* answers, no profile() call throws or reports an error.                  *)
HealthyProfileSucceeds ==
    \A s \in Sessions :
        ~WasTold(s, {"attachErr", "threw", "detachErr"})
=============================================================================
