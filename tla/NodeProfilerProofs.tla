------------------------- MODULE NodeProfilerProofs -------------------------
(***************************************************************************)
(* Proofs about NodeProfiler, for every platform, set of processes, set of *)
(* faults and number of sessions: first for every client, then for one     *)
(* that waits for each answer, which sees the calls of ProfileCalls and    *)
(* nothing else.                                                           *)
(***************************************************************************)
EXTENDS NodeProfiler, FiniteSetTheorems, SequenceTheorems, TLAPS

-----------------------------------------------------------------------------
(* What the tracer's methods return.                                       *)

IsOutcome(o, p) ==
    /\ o.tracer \in TracerObject
    /\ o.tracer.pid = p
    /\ o.target \in Target

LEMMA OutcomeFields ==
    ASSUME NEW t, NEW g, NEW r
    PROVE  /\ Outcome(t, g, r).tracer = t
           /\ Outcome(t, g, r).target = g
           /\ Outcome(t, g, r).result = r
BY DEF Outcome

LEMMA ResumedRuns ==
    ASSUME NEW g \in Target
    PROVE  Resumed(g) \in Target /\ ~Resumed(g).stopped
BY DEF Resumed, Target

LEMMA NewTracerType ==
    ASSUME NEW p \in Pids
    PROVE  NewTracer(p) \in TracerObject /\ NewTracer(p).pid = p
BY DEF NewTracer, TracerObject

(* attach makes a tracer for the process, which it leaves running or       *)
(* stopped as it was.                                                      *)
LEMMA AttachOutcome ==
    ASSUME NEW p \in Pids, NEW g \in Target, NEW o \in Attach(p, g)
    PROVE  /\ IsOutcome(o, p)
           /\ o.target.stopped <=> g.stopped
           /\ o.result \in {"true", "false", "throws"}
<1>1. CASE o \in OSXAttach(p, g)
  <2> DEFINE good == [NewTracer(p) EXCEPT !.port = "good", !.heapReader = TRUE,
                                          !.memReader = TRUE]
             bad == [NewTracer(p) EXCEPT !.port = "bad"]
  <2>1. /\ good \in TracerObject /\ good.pid = p
        /\ bad \in TracerObject /\ bad.pid = p
    BY NewTracerType DEF TracerObject
  <2>2. o = Outcome(good, g, "true") \/ o = Outcome(bad, g, "false")
    BY <1>1 DEF OSXAttach, TaskPort
  <2> HIDE DEF good, bad
  <2>3. QED
    BY <2>1, <2>2, OutcomeFields DEF IsOutcome
<1>2. CASE o \in LinuxAttach(p, g)
  <2> DEFINE opened == [NewTracer(p) EXCEPT !.memReader = TRUE]
             seized == [g EXCEPT !.traced = TRUE]
  <2>1. opened \in TracerObject /\ opened.pid = p
    BY NewTracerType DEF TracerObject
  <2>2. seized \in Target /\ (seized.stopped <=> g.stopped)
    BY DEF Target
  <2>3. o = Outcome(opened, seized, "throws") \/ o = Outcome(NewTracer(p), g, "false")
    BY <1>2 DEF LinuxAttach
  <2> HIDE DEF opened, seized
  <2>4. QED
    BY <2>1, <2>2, <2>3, NewTracerType, OutcomeFields DEF IsOutcome
<1>3. QED
  BY <1>1, <1>2 DEF Attach

(* A signal may have left a trap pending behind its stop, at which the     *)
(* process stops again when it is resumed (PtraceTask).                    *)
SignalStops == Platform = "linux" /\ "signal" \in Faults

(* backtrace resumes the process it paused, unless it throws; and it only  *)
(* throws in a tracer that has no heap reader.                             *)
LEMMA BacktraceOutcome ==
    ASSUME NEW t \in TracerObject, NEW g \in Target, NEW o \in Backtrace(t, g)
    PROVE  /\ IsOutcome(o, t.pid)
           /\ o.result \in {"throws", "null", "native", "other"}
           /\ o.target.stopped =>
                \/ g.stopped \/ SignalStops
                \/ o.result = "throws" /\ ~o.tracer.heapReader
<1> DEFINE stopped == [g EXCEPT !.stopped = TRUE]
           renewed(q) == [t EXCEPT !.port = q]
<1>1. stopped \in Target
  BY DEF Target
<1>2. \A q \in TaskPort(g) : renewed(q) \in TracerObject /\ renewed(q).pid = t.pid
  BY DEF TaskPort, TracerObject
<1>3. \/ \E q \in TaskPort(g) : o = Outcome(renewed(q), g, "null")
      \/ \E q \in TaskPort(g) : o = Outcome(renewed(q), Resumed(g), "null")
      \/ o = Outcome(t, g, "null")
      \/ \E r \in {"null", "other", "native"} : o = Outcome(t, Resumed(g), r)
      \/ ~t.heapReader /\ o = Outcome(t, stopped, "throws")
      \/ SignalStops /\ \E r \in {"null", "other"} : o = Outcome(t, stopped, r)
  <2> HIDE DEF stopped, renewed
  <2>1. CASE Platform = "mac"
    <3>1. o \in OSXBacktrace(t, g)
      BY <2>1 DEF Backtrace
    <3>2. QED
      BY <3>1 DEF OSXBacktrace, OSXFailedRead, stopped, renewed
  <2>2. CASE Platform = "linux"
    <3>1. o \in LinuxBacktrace(t, g)
      BY <2>2 DEF Backtrace
    <3>2. LinuxResumed(g) \subseteq {Resumed(g)} \cup (IF SignalStops THEN {stopped} ELSE {})
      BY <2>2 DEF LinuxResumed, SignalStops, stopped
    <3>3. QED
      BY <3>1, <3>2 DEF LinuxBacktrace, LinuxFailedRead, stopped
  <2>3. QED
    BY <2>1, <2>2, TracerAssumption
<1> HIDE DEF stopped, renewed
<1>4. QED
  BY <1>1, <1>2, <1>3, ResumedRuns, OutcomeFields DEF IsOutcome

(* detach never leaves a process stopped that was not.                     *)
LEMMA DetachOutcome ==
    ASSUME NEW t \in TracerObject, NEW g \in Target, NEW o \in Detach(t, g)
    PROVE  /\ IsOutcome(o, t.pid)
           /\ o.result \in {"true", "false", "throws"}
           /\ o.target.stopped => g.stopped
<1>1. t.pid \in Pids
  BY DEF TracerObject
<1>2. CASE o \in OSXDetach(t, g)
  <2>1. \E h \in {Resumed(g), g} : o = Outcome(NewTracer(t.pid), h, "true")
    BY <1>2 DEF OSXDetach
  <2>2. QED
    BY <1>1, <2>1, NewTracerType, ResumedRuns, OutcomeFields DEF IsOutcome
<1>3. CASE o \in LinuxDetach(t, g)
  <2> DEFINE closed == [t EXCEPT !.heapReader = FALSE]
             released == [g EXCEPT !.traced = FALSE, !.stopped = FALSE]
  <2>1. closed \in TracerObject /\ closed.pid = t.pid
    BY DEF TracerObject
  <2>2. released \in Target /\ ~released.stopped
    BY DEF Target
  <2>3. \E r \in {"throws", "false"} : o = Outcome(closed, released, r)
    BY <1>3 DEF LinuxDetach
  <2> HIDE DEF closed, released
  <2>4. QED
    BY <2>1, <2>2, <2>3, OutcomeFields DEF IsOutcome
<1>4. QED
  BY <1>2, <1>3 DEF Detach

-----------------------------------------------------------------------------
(* Type correctness *)

(* TypeOK is not inductive: stopProfiling sends the fields of an active    *)
(* session to atos, so they must not be null then.  They are all null once *)
(* a session's end was handed to another, but then so is the tracer.       *)
FieldsSet ==
    /\ callStack # <<>> => tracer # None
    /\ isProfiling => cb \in Sessions
    /\ isProfiling /\ tracer # None => cpuProfile \in Sessions /\ pid \in Pids

TypeInv == TypeOK /\ FieldsSet

LEMMA SessionsType ==
    /\ Sessions \subseteq Nat /\ None \notin Sessions
    /\ \A n \in 0 .. MaxSessions : n < MaxSessions => n + 1 \in Sessions
BY ProfilerAssumption DEF Sessions, None

LEMMA TellType ==
    ASSUME calls \in [Sessions -> Seq(Told)], NEW s,
           NEW kind \in {"rejected", "attachErr", "threw", "detachErr", "symbolErr", "ok"},
           NEW a \in Sessions \cup {None}, Tell(s, kind, a)
    PROVE  calls' \in [Sessions -> Seq(Told)]
<1>1. [kind |-> kind, profile |-> a] \in Told
  BY DEF Told
<1>2. ASSUME s \in Sessions
      PROVE  Append(calls[s], [kind |-> kind, profile |-> a]) \in Seq(Told)
  BY <1>1, <1>2
<1>3. QED
  BY <1>2 DEF Tell

(* Unwinding, and returning, leave a prefix of the call stack.             *)
LEMMA Prefix ==
    ASSUME callStack \in Seq(Sessions), NEW k \in 0 .. Len(callStack),
           callStack' = SubSeq(callStack, 1, k)
    PROVE  /\ callStack' \in Seq(Sessions)
           /\ Len(callStack') = k
           /\ \A i \in DOMAIN callStack' :
                i \in DOMAIN callStack /\ callStack'[i] = callStack[i]
           /\ callStack' # <<>> => callStack # <<>>
<1>1. callStack' \in Seq(Sessions)
  OBVIOUS
<1>2. Len(callStack') = k
  OBVIOUS
<1>3. callStack' # <<>> => callStack # <<>>
  BY <1>1, <1>2
<1>4. \A i \in DOMAIN callStack' : i \in DOMAIN callStack /\ callStack'[i] = callStack[i]
  BY <1>1, <1>2
<1>5. QED
  BY <1>1, <1>2, <1>3, <1>4

LEMMA UnwindType ==
    ASSUME callStack \in Seq(Sessions), crashed \in BOOLEAN, Unwind
    PROVE  /\ callStack' \in Seq(Sessions)
           /\ crashed' \in BOOLEAN
           /\ callStack' # <<>> => callStack # <<>>
BY Prefix DEF Unwind

LEMMA StopType ==
    ASSUME TypeInv, isProfiling, NEW thrown \in BOOLEAN, Stop(thrown)
    PROVE  /\ isProfiling' = FALSE
           /\ UNCHANGED <<pid, cb, cpuProfile, tracer, profileTimer, sampleTimer,
                          stacks, symbolicated, nCalls, misdelivered>>
           /\ tracers' \in [Sessions -> TracerObject]
           /\ targets' \in [Pids -> Target]
           /\ resolving' \subseteq [profile : Sessions, pid : Pids, cb : Sessions]
           /\ calls' \in [Sessions -> Seq(Told)]
<1>1. CASE tracer = None
  BY <1>1 DEF Stop, EndSession, TypeInv, TypeOK, arrayVars
<1>2. CASE tracer # None
  <2> DEFINE t == tracers[tracer]
  <2>1. PICK o \in Detach(t, targets[t.pid]) :
          /\ tracers' = [tracers EXCEPT ![tracer] = o.tracer]
          /\ targets' = [targets EXCEPT ![t.pid] = o.target]
          /\ IF o.result = "true" THEN ResolveNativeFrames ELSE UNCHANGED resolving
          /\ IF o.result = "false" THEN Tell(cb, "detachErr", None) ELSE UNCHANGED calls
    BY <1>2 DEF Stop
  <2>2. /\ tracer \in Sessions /\ t \in TracerObject
        /\ t.pid \in Pids /\ targets[t.pid] \in Target
    BY <1>2 DEF TypeInv, TypeOK, TracerObject
  <2>3. IsOutcome(o, t.pid)
    BY <2>2, DetachOutcome
  <2>4. tracers' \in [Sessions -> TracerObject] /\ targets' \in [Pids -> Target]
    BY <2>1, <2>2, <2>3 DEF TypeInv, TypeOK, IsOutcome
  <2>5. resolving' \subseteq [profile : Sessions, pid : Pids, cb : Sessions]
    BY <1>2, <2>1 DEF TypeInv, TypeOK, FieldsSet, ResolveNativeFrames
  <2>6. calls' \in [Sessions -> Seq(Told)]
    BY <2>1, TellType DEF TypeInv, TypeOK
  <2>7. QED
    BY <2>4, <2>5, <2>6 DEF Stop, EndSession, arrayVars
<1>3. QED
  BY <1>1, <1>2

LEMMA TypeInvInvariant == Spec => []TypeInv
<1>1. Init => TypeInv
  <2> SUFFICES ASSUME Init PROVE TypeInv
    OBVIOUS
  <2>1. FreshTarget \in Target
    BY DEF FreshTarget, Target
  <2>2. NewTracer(CHOOSE p \in Pids : TRUE) \in TracerObject
    BY TracerAssumption, NewTracerType
  <2>3. tracers \in [Sessions -> TracerObject] /\ targets \in [Pids -> Target]
    BY <2>1, <2>2 DEF Init
  <2>4. calls \in [Sessions -> Seq(Told)] /\ callStack \in Seq(Sessions)
    BY DEF Init
  <2>5. nCalls \in 0 .. MaxSessions
    BY ProfilerAssumption DEF Init
  <2>6. QED
    BY <2>3, <2>4, <2>5 DEF Init, TypeInv, TypeOK, FieldsSet
<1>2. TypeInv /\ [Next]_vars => TypeInv'
  <2> SUFFICES ASSUME TypeInv, [Next]_vars PROVE TypeInv'
    OBVIOUS
  <2> USE DEF TypeInv, selfVars, timerVars, arrayVars, clientVars
  <2>1. CASE ProfileRejected
    <3>1. nCalls' \in 0 .. MaxSessions /\ nCalls + 1 \in Sessions
      BY <2>1, SessionsType, ProfilerAssumption DEF ProfileRejected, ClientMayCall, TypeOK
    <3>2. calls' \in [Sessions -> Seq(Told)]
      BY <2>1, TellType DEF ProfileRejected, TypeOK
    <3>3. QED
      BY <2>1, <3>1, <3>2 DEF ProfileRejected, TypeOK, FieldsSet
  <2>2. ASSUME NEW p \in Pids, Profile(p) PROVE TypeInv'
    <3> DEFINE s == nCalls + 1
    <3>1. /\ s \in Sessions /\ nCalls' \in 0 .. MaxSessions
          /\ ~isProfiling /\ UNCHANGED <<stacks, symbolicated, resolving, misdelivered>>
      BY <2>2, SessionsType, ProfilerAssumption DEF Profile, ClientMayCall, TypeOK
    <3>2. PICK o \in Attach(p, targets[p]) :
            /\ tracers' = [tracers EXCEPT ![s] = o.tracer]
            /\ targets' = [targets EXCEPT ![p] = o.target]
            /\ tracer' = s
            /\ \/ /\ o.result = "true"
                  /\ StartSession(s, p)
                  /\ UNCHANGED <<callStack, calls, crashed>>
               \/ /\ o.result = "false"
                  /\ Tell(s, "attachErr", None)
                  /\ callStack' = Append(callStack, s)
                  /\ UNCHANGED <<isProfiling, pid, cb, cpuProfile, profileTimer,
                                 sampleTimer, timerVars, crashed>>
               \/ /\ o.result = "throws"
                  /\ Tell(s, "threw", None)
                  /\ Unwind
                  /\ UNCHANGED <<isProfiling, pid, cb, cpuProfile, profileTimer,
                                 sampleTimer, timerVars>>
      BY <2>2 DEF Profile
    <3>3. IsOutcome(o, p)
      BY AttachOutcome DEF TypeOK
    <3>4. tracers' \in [Sessions -> TracerObject] /\ targets' \in [Pids -> Target]
      BY <3>2, <3>3 DEF TypeOK, IsOutcome
    <3>5. calls' \in [Sessions -> Seq(Told)]
      BY <3>2, TellType DEF TypeOK
    <3>6. CASE StartSession(s, p) /\ UNCHANGED <<callStack, crashed>>
      BY <3>1, <3>2, <3>4, <3>5, <3>6, SessionsType
      DEF StartSession, ArmTimers, TypeOK, FieldsSet
    <3>7. CASE /\ callStack' \in Seq(Sessions) /\ crashed' \in BOOLEAN
               /\ UNCHANGED <<isProfiling, pid, cb, cpuProfile, profileTimer,
                              sampleTimer, timerVars>>
      BY <3>1, <3>2, <3>4, <3>5, <3>7, SessionsType DEF TypeOK, FieldsSet
    <3>8. callStack' = Append(callStack, s) => callStack' \in Seq(Sessions)
      BY <3>1 DEF TypeOK
    <3>9. QED
      BY <3>2, <3>6, <3>7, <3>8, UnwindType DEF TypeOK
  <2>3. CASE ProfileContinues
    <3> DEFINE s == callStack[Len(callStack)]
    <3>1. s \in Sessions /\ tracers[s].pid \in Pids /\ tracer # None
      BY <2>3 DEF ProfileContinues, TypeOK, FieldsSet, TracerObject
    <3>2. callStack' \in Seq(Sessions)
      BY <2>3, Prefix DEF ProfileContinues, TypeOK
    <3>3. QED
      BY <2>3, <3>1, <3>2, SessionsType
      DEF ProfileContinues, StartSession, ArmTimers, TypeOK, FieldsSet
  <2>4. CASE StopProfiling
    <3>1. PICK thrown \in BOOLEAN : Stop(thrown)
      BY <2>4 DEF StopProfiling
    <3>2. /\ callStack' \in Seq(Sessions) /\ crashed' \in BOOLEAN
          /\ callStack' # <<>> => callStack # <<>>
      BY <2>4, UnwindType DEF StopProfiling, TypeOK
    <3>3. isProfiling /\ UNCHANGED timerVars
      BY <2>4 DEF StopProfiling
    <3>4. QED
      BY <3>1, <3>2, <3>3, StopType DEF TypeOK, FieldsSet
  <2>5. ASSUME NEW c \in Sessions, OnProfileEnd(c) PROVE TypeInv'
    <3>1. /\ pendingProfile' \subseteq Sessions /\ pendingSample' \subseteq Sessions
          /\ callStack' = callStack
      BY <2>5 DEF OnProfileEnd, TypeOK
    <3>2. CASE ~isProfiling
      <4>1. UNCHANGED <<selfVars, tracers, targets, arrayVars, resolving, nCalls,
                        calls, crashed, misdelivered>>
        BY <2>5, <3>2 DEF OnProfileEnd
      <4>2. QED
        BY <3>1, <4>1 DEF TypeOK, FieldsSet
    <3>3. CASE isProfiling
      <4>1. PICK thrown \in BOOLEAN : Stop(thrown)
        BY <2>5, <3>3 DEF OnProfileEnd
      <4>2. crashed' \in BOOLEAN
        BY <2>5 DEF OnProfileEnd, TypeOK
      <4>3. QED
        BY <3>1, <3>3, <4>1, <4>2, StopType DEF TypeOK, FieldsSet
    <3>4. QED
      BY <3>2, <3>3
  <2>6. ASSUME NEW c \in Sessions, SampleAndContinue(c) PROVE TypeInv'
    <3>1. /\ UNCHANGED <<isProfiling, pid, cb, cpuProfile, tracer, profileTimer,
                         pendingProfile, symbolicated, resolving, callStack,
                         nCalls, calls, misdelivered>>
          /\ pendingSample' \subseteq Sessions
          /\ sampleTimer' \in Sessions \cup {None}
          /\ crashed' \in BOOLEAN
      BY <2>6 DEF SampleAndContinue, TypeOK
    <3>2. CASE UNCHANGED <<tracers, targets, stacks>>
      BY <3>1, <3>2 DEF TypeOK, FieldsSet
    <3>3. CASE isProfiling /\ tracer # None
      <4> DEFINE t == tracers[tracer]
      <4>1. PICK o \in Backtrace(t, targets[t.pid]) :
              /\ tracers' = [tracers EXCEPT ![tracer] = o.tracer]
              /\ targets' = [targets EXCEPT ![t.pid] = o.target]
              /\ stacks' = IF o.result \in {"native", "other"}
                           THEN [stacks EXCEPT ![cpuProfile] =
                                    @ \cup {[pid |-> t.pid, native |-> o.result = "native"]}]
                           ELSE stacks
        BY <2>6, <3>3 DEF SampleAndContinue
      <4>2. /\ tracer \in Sessions /\ t \in TracerObject
            /\ t.pid \in Pids /\ targets[t.pid] \in Target
        BY <3>3 DEF TypeOK, TracerObject
      <4>3. IsOutcome(o, t.pid)
        BY <4>2, BacktraceOutcome
      <4>4. tracers' \in [Sessions -> TracerObject] /\ targets' \in [Pids -> Target]
        BY <4>1, <4>2, <4>3 DEF TypeOK, IsOutcome
      <4>5. [pid |-> t.pid, native |-> o.result = "native"] \in Stack
        BY <4>2 DEF Stack
      <4>6. stacks' \in [Sessions -> SUBSET Stack]
        BY <4>1, <4>5 DEF TypeOK
      <4>7. QED
        BY <3>1, <4>4, <4>6 DEF TypeOK, FieldsSet
    <3>4. QED
      BY <2>6, <3>2, <3>3 DEF SampleAndContinue
  <2>7. ASSUME NEW r \in resolving, SymbolsFail(r) PROVE TypeInv'
    <3>1. calls' \in [Sessions -> Seq(Told)]
      BY <2>7, TellType DEF SymbolsFail, TypeOK
    <3>2. QED
      BY <2>7, <3>1 DEF SymbolsFail, TypeOK, FieldsSet
  <2>8. ASSUME NEW r \in resolving, SymbolsResolved(r) PROVE TypeInv'
    <3>1. calls' \in [Sessions -> Seq(Told)]
      BY <2>8, TellType DEF SymbolsResolved, ReturnCPUProfile, TypeOK
    <3>2. r.profile \in Sessions
      BY DEF TypeOK
    <3>3. QED
      BY <2>8, <3>1, <3>2
      DEF SymbolsResolved, ReturnCPUProfile, ResetFields, TypeOK, FieldsSet
  <2>9. ASSUME NEW r \in resolving, SpawnFails(r) PROVE TypeInv'
    BY <2>9 DEF SpawnFails, TypeOK, FieldsSet
  <2>10. ASSUME NEW p \in Pids, TargetExits(p) PROVE TypeInv'
    <3>1. targets' \in [Pids -> Target]
      BY <2>10 DEF TargetExits, TypeOK, Target
    <3>2. QED
      BY <2>10, <3>1 DEF TargetExits, TypeOK, FieldsSet
  <2>11. CASE UNCHANGED vars
    BY <2>11 DEF vars, TypeOK, FieldsSet
  <2>12. QED
    BY <2>1, <2>2, <2>3, <2>4, <2>5, <2>6, <2>7, <2>8, <2>9, <2>10, <2>11 DEF Next
<1>3. QED
  BY <1>1, <1>2, PTL DEF Spec

(* The type invariant of NodeProfiler: every field, timer, array, tracer   *)
(* and process has the type the code gives it, whatever fails.             *)
THEOREM TypeCorrect == Spec => []TypeOK
BY TypeInvInvariant, PTL DEF TypeInv

-----------------------------------------------------------------------------
(* Paused processes *)

NoneStopped == \A p \in Pids : ~targets[p].stopped

LEMMA StopResumes ==
    ASSUME TypeInv, isProfiling, NEW thrown \in BOOLEAN, Stop(thrown), NoneStopped
    PROVE  NoneStopped'
<1>1. CASE tracer = None
  BY <1>1 DEF Stop, NoneStopped
<1>2. CASE tracer # None
  <2> DEFINE t == tracers[tracer]
  <2>1. PICK o \in Detach(t, targets[t.pid]) :
          targets' = [targets EXCEPT ![t.pid] = o.target]
    BY <1>2 DEF Stop
  <2>2. t \in TracerObject /\ t.pid \in Pids /\ targets[t.pid] \in Target
    BY <1>2 DEF TypeInv, TypeOK, TracerObject
  <2>3. ~o.target.stopped
    BY <2>2, DetachOutcome DEF NoneStopped
  <2>4. QED
    BY <2>1, <2>2, <2>3 DEF NoneStopped, TypeInv, TypeOK
<1>3. QED
  BY <1>1, <1>2

(* A profiled process is never left paused, except by an exception thrown  *)
(* out of a sample for want of a heap reader, which ends node-flame: both  *)
(* tracers resume on every other path (tracer.mac.js, tracer.linux.js),    *)
(* which on Linux is enough as long as no signal reaches the process.      *)
THEOREM PausedOnlyByCrash ==
    ASSUME ~SignalStops
    PROVE  Spec => []StoppedOnlyByCrash
<1>1. Init => StoppedOnlyByCrash
  BY DEF Init, StoppedOnlyByCrash, FreshTarget
<1>2. TypeInv /\ StoppedOnlyByCrash /\ [Next]_vars => StoppedOnlyByCrash'
  <2> SUFFICES ASSUME TypeInv, StoppedOnlyByCrash, [Next]_vars
               PROVE  StoppedOnlyByCrash'
    OBVIOUS
  <2> USE DEF TypeInv, selfVars, timerVars, arrayVars, clientVars
  <2>1. ASSUME ~crashed PROVE NoneStopped
    BY <2>1 DEF StoppedOnlyByCrash, NoneStopped
  <2>2. ASSUME ~crashed, UNCHANGED targets PROVE StoppedOnlyByCrash'
    BY <2>1, <2>2 DEF StoppedOnlyByCrash, NoneStopped
  <2>3. ASSUME NoneStopped' PROVE StoppedOnlyByCrash'
    BY <2>3 DEF StoppedOnlyByCrash, NoneStopped
  <2>4. CASE ProfileRejected
    BY <2>2, <2>4 DEF ProfileRejected, ClientMayCall
  <2>5. ASSUME NEW p \in Pids, Profile(p) PROVE StoppedOnlyByCrash'
    <3>1. PICK o \in Attach(p, targets[p]) : targets' = [targets EXCEPT ![p] = o.target]
      BY <2>5 DEF Profile
    <3>2. NoneStopped
      BY <2>1, <2>5 DEF Profile, ClientMayCall
    <3>3. ~o.target.stopped
      BY <3>2, AttachOutcome DEF TypeOK, NoneStopped
    <3>4. QED
      BY <2>3, <3>1, <3>2, <3>3 DEF TypeOK, NoneStopped
  <2>6. CASE ProfileContinues
    BY <2>2, <2>6 DEF ProfileContinues
  <2>7. CASE StopProfiling
    <3>1. PICK thrown \in BOOLEAN : Stop(thrown)
      BY <2>7 DEF StopProfiling
    <3>2. isProfiling /\ NoneStopped
      BY <2>1, <2>7 DEF StopProfiling
    <3>3. QED
      BY <2>3, <3>1, <3>2, StopResumes
  <2>8. ASSUME NEW c \in Sessions, OnProfileEnd(c) PROVE StoppedOnlyByCrash'
    <3>1. NoneStopped
      BY <2>1, <2>8 DEF OnProfileEnd
    <3>2. CASE ~isProfiling
      BY <2>2, <2>8, <3>2 DEF OnProfileEnd
    <3>3. CASE isProfiling
      <4>1. PICK thrown \in BOOLEAN : Stop(thrown)
        BY <2>8, <3>3 DEF OnProfileEnd
      <4>2. QED
        BY <2>3, <3>1, <3>3, <4>1, StopResumes
    <3>4. QED
      BY <3>2, <3>3
  <2>9. ASSUME NEW c \in Sessions, SampleAndContinue(c) PROVE StoppedOnlyByCrash'
    <3>1. ~crashed /\ NoneStopped /\ tracer' = tracer
      BY <2>1, <2>9 DEF SampleAndContinue
    <3>2. CASE UNCHANGED targets
      BY <2>2, <3>1, <3>2
    <3>3. CASE isProfiling /\ tracer # None
      <4> DEFINE t == tracers[tracer]
      <4>1. PICK o \in Backtrace(t, targets[t.pid]) :
              /\ tracers' = [tracers EXCEPT ![tracer] = o.tracer]
              /\ targets' = [targets EXCEPT ![t.pid] = o.target]
              /\ o.result = "throws" => crashed'
        BY <2>9, <3>3 DEF SampleAndContinue
      <4>2. /\ tracer \in Sessions /\ t \in TracerObject
            /\ t.pid \in Pids /\ targets[t.pid] \in Target
        BY <3>3 DEF TypeOK, TracerObject
      <4>3. /\ o.tracer = tracers'[tracer']
            /\ targets'[t.pid] = o.target
            /\ \A p \in Pids : p # t.pid => targets'[p] = targets[p]
        BY <3>1, <4>1, <4>2 DEF TypeOK
      <4>4. o.target.stopped => o.result = "throws" /\ ~o.tracer.heapReader
        BY <3>1, <4>2, BacktraceOutcome DEF NoneStopped
      <4>5. QED
        BY <3>1, <3>3, <4>1, <4>3, <4>4 DEF StoppedOnlyByCrash, NoneStopped
    <3>4. QED
      BY <2>9, <3>2, <3>3 DEF SampleAndContinue
  <2>10. ASSUME NEW r \in resolving, SymbolsFail(r) \/ SymbolsResolved(r) \/ SpawnFails(r)
         PROVE  StoppedOnlyByCrash'
    BY <2>2, <2>10 DEF SymbolsFail, SymbolsResolved, SpawnFails
  <2>11. ASSUME NEW p \in Pids, TargetExits(p) PROVE StoppedOnlyByCrash'
    <3>1. \A q \in Pids : targets'[q].stopped => targets[q].stopped
      BY <2>11 DEF TargetExits, TypeOK
    <3>2. QED
      BY <2>11, <3>1 DEF TargetExits, StoppedOnlyByCrash
  <2>12. CASE UNCHANGED vars
    BY <2>12 DEF vars, StoppedOnlyByCrash
  <2>13. QED
    BY <2>4, <2>5, <2>6, <2>7, <2>8, <2>9, <2>10, <2>11, <2>12 DEF Next
<1>3. QED
  BY <1>1, <1>2, TypeInvInvariant, PTL DEF Spec

-----------------------------------------------------------------------------
(* Sessions *)

(* How Unwind changes the call stack.                                      *)
LEMMA UnwindPrefix ==
    ASSUME callStack \in Seq(Sessions), Unwind
    PROVE  \A i \in DOMAIN callStack' :
              i \in DOMAIN callStack /\ callStack'[i] = callStack[i]
BY Prefix DEF Unwind

(* A stop moves the active session to atos, or nowhere.                    *)
LEMMA StopResolving ==
    ASSUME TypeInv, isProfiling, NEW thrown \in BOOLEAN, Stop(thrown)
    PROVE  /\ \/ resolving' = resolving
              \/ resolving' =
                    resolving \cup {[profile |-> cpuProfile, pid |-> pid, cb |-> cb]}
           /\ calls' = calls \/ Tell(cb, "detachErr", None)
BY DEF Stop, ResolveNativeFrames

LEMMA StopKeepsApart ==
    ASSUME TypeInv, SessionsApart, isProfiling, NEW thrown \in BOOLEAN, Stop(thrown),
           \A i \in DOMAIN callStack' :
              i \in DOMAIN callStack /\ callStack'[i] = callStack[i]
    PROVE  SessionsApart'
<1>1. isProfiling' = FALSE /\ UNCHANGED <<cb, nCalls>>
  BY StopType
<1>2. \A r \in resolving' : r \in resolving \/ r.cb = cb
  BY StopResolving
<1>3. \A q, r \in resolving' : q.cb = r.cb => q = r
  BY StopResolving DEF SessionsApart
<1>4. QED
  BY <1>1, <1>2, <1>3 DEF SessionsApart, InCallback

(* A session is in one place at a time: waiting in its attach error        *)
(* callback, active in the profiler, or with one run of atos.              *)
THEOREM SessionsStayApart == Spec => []SessionsApart
<1>1. Init => SessionsApart
  BY DEF Init, SessionsApart, InCallback, None
<1>2. TypeInv /\ SessionsApart /\ [Next]_vars => SessionsApart'
  <2> SUFFICES ASSUME TypeInv, SessionsApart, [Next]_vars PROVE SessionsApart'
    OBVIOUS
  <2> USE DEF selfVars, timerVars, arrayVars, clientVars
  <2>0. /\ nCalls \in Nat /\ callStack \in Seq(Sessions)
        /\ \A i \in DOMAIN callStack : callStack[i] \in Nat
        /\ \A r \in resolving : r.cb \in Nat
        /\ cb \in Nat /\ isProfiling \in BOOLEAN
    <3>1. /\ nCalls \in 0 .. MaxSessions /\ callStack \in Seq(Sessions)
          /\ resolving \subseteq [profile : Sessions, pid : Pids, cb : Sessions]
          /\ cb \in Sessions \cup {None} /\ isProfiling \in BOOLEAN
      BY DEF TypeInv, TypeOK
    <3>2. None \in Nat
      BY DEF None
    <3>3. \A i \in DOMAIN callStack : callStack[i] \in Sessions
      BY <3>1
    <3>4. nCalls \in Nat
      BY <3>1, ProfilerAssumption
    <3>5. \A r \in resolving : r.cb \in Sessions
      BY <3>1
    <3>6. QED
      BY <3>1, <3>2, <3>3, <3>4, <3>5, SessionsType
  <2>1. CASE ProfileRejected
    BY <2>0, <2>1 DEF ProfileRejected, SessionsApart, InCallback
  <2>2. ASSUME NEW p \in Pids, Profile(p) PROVE SessionsApart'
    <3> DEFINE s == nCalls + 1
    <3>1. nCalls' = s /\ ~isProfiling /\ resolving' = resolving
      BY <2>2 DEF Profile
    <3>2. ~InCallback(s) /\ \A r \in resolving : r.cb # s
      BY <2>0 DEF SessionsApart, InCallback
    <3>3. CASE StartSession(s, p) /\ UNCHANGED callStack
      BY <2>0, <3>1, <3>2, <3>3 DEF StartSession, SessionsApart, InCallback
    <3>4. CASE UNCHANGED <<isProfiling, cb>> /\ callStack' = Append(callStack, s)
      <4>1. s \in Sessions
        BY <2>2, SessionsType, ProfilerAssumption DEF Profile, ClientMayCall, TypeInv, TypeOK
      <4>2. /\ DOMAIN callStack' = DOMAIN callStack \cup {Len(callStack) + 1}
            /\ callStack'[Len(callStack) + 1] = s
            /\ \A i \in DOMAIN callStack : callStack'[i] = callStack[i]
        BY <2>0, <3>4, <4>1
      <4>3. QED
        BY <2>0, <3>1, <3>2, <3>4, <4>2 DEF SessionsApart, InCallback
    <3>5. CASE UNCHANGED <<isProfiling, cb>> /\ Unwind
      <4>1. \A i \in DOMAIN callStack' :
                i \in DOMAIN callStack /\ callStack'[i] = callStack[i]
        BY <2>0, <3>5, UnwindPrefix
      <4>2. QED
        BY <2>0, <3>1, <3>5, <4>1 DEF SessionsApart, InCallback
    <3>6. QED
      BY <2>2, <3>3, <3>4, <3>5 DEF Profile
  <2>3. CASE ProfileContinues
    <3> DEFINE s == callStack[Len(callStack)]
    <3>1. /\ Len(callStack) \in DOMAIN callStack /\ Len(callStack) - 1 \in 0 .. Len(callStack)
          /\ callStack' = SubSeq(callStack, 1, Len(callStack) - 1)
          /\ isProfiling' = TRUE /\ cb' = s
          /\ UNCHANGED <<resolving, nCalls>>
      BY <2>0, <2>3 DEF ProfileContinues, StartSession
    <3>2. \A i \in DOMAIN callStack' :
            i \in DOMAIN callStack /\ i # Len(callStack) /\ callStack'[i] = callStack[i]
      BY <2>0, <3>1, Prefix
    <3>3. QED
      BY <2>0, <3>1, <3>2 DEF SessionsApart, InCallback
  <2>4. CASE StopProfiling
    <3>1. PICK thrown \in BOOLEAN : Stop(thrown)
      BY <2>4 DEF StopProfiling
    <3>2. isProfiling
      BY <2>4 DEF StopProfiling
    <3>3. \A i \in DOMAIN callStack' :
            i \in DOMAIN callStack /\ callStack'[i] = callStack[i]
      BY <2>0, <2>4, UnwindPrefix DEF StopProfiling
    <3>4. QED
      BY <3>1, <3>2, <3>3, StopKeepsApart
  <2>5. ASSUME NEW c \in Sessions, OnProfileEnd(c) PROVE SessionsApart'
    <3>1. callStack' = callStack
      BY <2>5 DEF OnProfileEnd
    <3>2. CASE UNCHANGED <<selfVars, resolving, nCalls>>
      BY <3>1, <3>2 DEF SessionsApart, InCallback
    <3>3. CASE isProfiling /\ \E thrown \in BOOLEAN : Stop(thrown)
      BY <3>1, <3>3, StopKeepsApart
    <3>4. QED
      BY <2>5, <3>2, <3>3 DEF OnProfileEnd
  <2>6. ASSUME NEW c \in Sessions, SampleAndContinue(c) PROVE SessionsApart'
    <3>1. UNCHANGED <<isProfiling, cb, resolving, callStack, nCalls>>
      BY <2>6 DEF SampleAndContinue
    <3>2. QED
      BY <3>1 DEF SessionsApart, InCallback
  <2>7. ASSUME NEW r \in resolving, SymbolsFail(r) \/ SymbolsResolved(r) \/ SpawnFails(r)
        PROVE  SessionsApart'
    <3>1. /\ resolving' \subseteq resolving
          /\ UNCHANGED <<isProfiling, cb, callStack, nCalls>>
      BY <2>7 DEF SymbolsFail, SymbolsResolved, ReturnCPUProfile, ResetFields, SpawnFails
    <3>2. QED
      BY <3>1 DEF SessionsApart, InCallback
  <2>8. ASSUME NEW p \in Pids, TargetExits(p) PROVE SessionsApart'
    BY <2>8 DEF TargetExits, SessionsApart, InCallback
  <2>9. CASE UNCHANGED vars
    BY <2>9 DEF vars, SessionsApart, InCallback
  <2>10. QED
    BY <2>1, <2>2, <2>3, <2>4, <2>5, <2>6, <2>7, <2>8, <2>9 DEF Next
<1>3. QED
  BY <1>1, <1>2, TypeInvInvariant, PTL DEF Spec

(* The active session can be ended by its own timer and has its own array, *)
(* as long as no session's end was handed to another.                      *)
THEOREM ActiveIsArmed == Spec => []ActiveSessionIsArmed
<1>1. Init => ActiveSessionIsArmed
  BY DEF Init, ActiveSessionIsArmed
<1>2. TypeInv /\ SessionsApart /\ ActiveSessionIsArmed /\ [Next]_vars
        => ActiveSessionIsArmed'
  <2> SUFFICES ASSUME TypeInv, SessionsApart, ActiveSessionIsArmed, [Next]_vars
               PROVE  ActiveSessionIsArmed'
    OBVIOUS
  <2> USE DEF selfVars, timerVars, arrayVars, clientVars
  <2>1. ASSUME ~isProfiling' PROVE ActiveSessionIsArmed'
    BY <2>1 DEF ActiveSessionIsArmed
  <2>2. ASSUME /\ UNCHANGED <<isProfiling, cb, cpuProfile, tracer, profileTimer,
                              pendingProfile, misdelivered>>
               /\ crashed => crashed'
        PROVE  ActiveSessionIsArmed'
    BY <2>2 DEF ActiveSessionIsArmed
  <2>3. CASE ProfileRejected
    BY <2>2, <2>3 DEF ProfileRejected
  <2>4. ASSUME NEW p \in Pids, Profile(p) PROVE ActiveSessionIsArmed'
    <3>1. /\ ~isProfiling /\ tracer' # None
          /\ isProfiling' = isProfiling \/ StartSession(nCalls + 1, p)
      BY <2>4, SessionsType DEF Profile, ClientMayCall, TypeInv, TypeOK, None
    <3>2. QED
      BY <2>1, <3>1 DEF StartSession, ArmTimers, ActiveSessionIsArmed
  <2>5. CASE ProfileContinues
    BY <2>5 DEF ProfileContinues, StartSession, ArmTimers, ActiveSessionIsArmed,
                TypeInv, FieldsSet
  <2>6. CASE StopProfiling
    BY <2>1, <2>6, StopType DEF StopProfiling
  <2>7. ASSUME NEW c \in Sessions, OnProfileEnd(c) PROVE ActiveSessionIsArmed'
    <3>1. CASE ~isProfiling
      <4>1. isProfiling' = isProfiling
        BY <2>7, <3>1 DEF OnProfileEnd
      <4>2. QED
        BY <2>1, <3>1, <4>1
    <3>2. CASE isProfiling
      <4>1. PICK thrown \in BOOLEAN : Stop(thrown)
        BY <2>7, <3>2 DEF OnProfileEnd
      <4>2. QED
        BY <2>1, <3>2, <4>1, StopType
    <3>3. QED
      BY <3>1, <3>2
  <2>8. ASSUME NEW c \in Sessions, SampleAndContinue(c) PROVE ActiveSessionIsArmed'
    <3>1. /\ UNCHANGED <<isProfiling, cb, cpuProfile, tracer, profileTimer,
                         pendingProfile, misdelivered>>
          /\ ~crashed
      BY <2>8 DEF SampleAndContinue
    <3>2. QED
      BY <2>2, <3>1
  <2>9. ASSUME NEW r \in resolving, SymbolsFail(r) \/ SpawnFails(r)
        PROVE  ActiveSessionIsArmed'
    BY <2>2, <2>9 DEF SymbolsFail, SpawnFails
  <2>10. ASSUME NEW r \in resolving, SymbolsResolved(r) PROVE ActiveSessionIsArmed'
    <3>1. /\ isProfiling' = isProfiling
          /\ misdelivered' = (misdelivered \/ cb # r.cb)
      BY <2>10 DEF SymbolsResolved, ReturnCPUProfile, ResetFields
    <3>2. isProfiling => r.cb # cb
      BY DEF SessionsApart
    <3>3. QED
      BY <3>1, <3>2 DEF ActiveSessionIsArmed
  <2>11. ASSUME NEW p \in Pids, TargetExits(p) PROVE ActiveSessionIsArmed'
    BY <2>2, <2>11 DEF TargetExits
  <2>12. CASE UNCHANGED vars
    BY <2>2, <2>12 DEF vars
  <2>13. QED
    BY <2>3, <2>4, <2>5, <2>6, <2>7, <2>8, <2>9, <2>10, <2>11, <2>12 DEF Next
<1>3. QED
  BY <1>1, <1>2, TypeInvInvariant, SessionsStayApart, PTL DEF Spec

-----------------------------------------------------------------------------
(* What clients are told *)

(* A session that can still be answered was told of a failed attach at     *)
(* most; and while its callback is the profiler's, so is its array.        *)
Unanswered(s) ==
    calls[s] = <<>> \/ (Len(calls[s]) = 1 /\ calls[s][1].kind = "attachErr")

OpenSessions ==
    /\ \A s \in Sessions : s > nCalls => calls[s] = <<>>
    /\ \A s \in Sessions : InCallback(s) => Unanswered(s)
    /\ isProfiling /\ ~misdelivered => Unanswered(cb)
    /\ ~misdelivered => \A r \in resolving :
          Unanswered(r.cb) /\ r.profile = r.cb /\ (r.cb = cb => cpuProfile = cb)

Accounts == OpenSessions /\ CallbackAccounting

LEMMA OneMoreTold ==
    ASSUME calls \in [Sessions -> Seq(Told)], NEW s \in Sessions,
           NEW kind \in {"rejected", "attachErr", "threw", "detachErr", "symbolErr", "ok"},
           NEW a \in Sessions \cup {None}, Tell(s, kind, a)
    PROVE  \E e \in Told :
              /\ e.kind = kind /\ e.profile = a
              /\ calls'[s] = Append(calls[s], e)
              /\ \A x \in Sessions : x # s => calls'[x] = calls[x]
<1> DEFINE e == [kind |-> kind, profile |-> a]
<1>1. e \in Told /\ e.kind = kind /\ e.profile = a
  BY DEF Told
<1>2. calls' = [calls EXCEPT ![s] = Append(calls[s], e)]
  BY DEF Tell
<1>3. /\ calls'[s] = Append(calls[s], e)
      /\ \A x \in Sessions : x # s => calls'[x] = calls[x]
  <2> HIDE DEF e
  <2> QED
    BY <1>2
<1>4. QED
  BY <1>1, <1>3

LEMMA ErrorTold ==
    ASSUME calls \in [Sessions -> Seq(Told)], NEW s \in Sessions,
           NEW kind, Tell(s, kind, None),
           kind \in {"rejected", "attachErr", "threw", "detachErr", "symbolErr", "ok"}
    PROVE  \E e \in Told :
              /\ e.kind = kind
              /\ calls'[s] = Append(calls[s], e)
              /\ \A x \in Sessions : x # s => calls'[x] = calls[x]
<1>1. None \in Sessions \cup {None}
  OBVIOUS
<1>2. QED
  BY <1>1, OneMoreTold

LEMMA FirstTold ==
    ASSUME NEW s \in Sessions, NEW e \in Told, calls[s] = <<>>,
           calls'[s] = Append(calls[s], e), e.kind # "ok"
    PROVE  ToldProperly(s)' /\ (e.kind = "attachErr" => Unanswered(s)')
BY DEF ToldProperly, Unanswered

LEMMA AppendToOne ==
    ASSUME NEW c \in Seq(Told), Len(c) = 1, NEW e \in Told
    PROVE  /\ Len(Append(c, e)) = 2 /\ DOMAIN Append(c, e) = {1, 2}
           /\ Append(c, e)[1] = c[1] /\ Append(c, e)[2] = e
<1>1. Append(c, e) \in Seq(Told)
  OBVIOUS
<1>2. Len(Append(c, e)) = Len(c) + 1
  BY AppendProperties
<1>3. \A i \in 1 .. Len(c) : Append(c, e)[i] = c[i]
  BY AppendProperties
<1>4. Append(c, e)[Len(c) + 1] = e
  BY AppendProperties
<1>5. QED
  BY <1>1, <1>2, <1>3, <1>4

LEMMA LastTold ==
    ASSUME NEW s \in Sessions, NEW e \in Told, e.kind \in EndKinds,
           calls \in [Sessions -> Seq(Told)], Unanswered(s),
           calls'[s] = Append(calls[s], e),
           e.kind = "ok" => e.profile = s /\ s \in symbolicated'
    PROVE  ToldProperly(s)'
<1>1. CASE calls[s] = <<>>
  BY <1>1 DEF ToldProperly, EndKinds
<1>2. CASE Len(calls[s]) = 1 /\ calls[s][1].kind = "attachErr"
  <2>1. calls[s] \in Seq(Told)
    OBVIOUS
  <2>2. /\ Len(calls'[s]) = 2 /\ DOMAIN calls'[s] = {1, 2}
        /\ calls'[s][1] = calls[s][1]
        /\ calls'[s][2] = e
    BY <1>2, <2>1, AppendToOne
  <2>3. QED
    BY <1>2, <2>2 DEF ToldProperly, EndKinds
<1>3. QED
  BY <1>1, <1>2 DEF Unanswered

LEMMA UntoldUnchanged ==
    ASSUME NEW s \in Sessions, calls'[s] = calls[s]
    PROVE  /\ Unanswered(s) => Unanswered(s)'
           /\ symbolicated \subseteq symbolicated' /\ ToldProperly(s) => ToldProperly(s)'
BY DEF Unanswered, ToldProperly

LEMMA Start ==
    ASSUME NEW s \in Sessions, NEW p, StartSession(s, p), Accounts, SessionsApart,
           calls' = calls, resolving' = resolving, misdelivered' = misdelivered,
           symbolicated' = symbolicated, nCalls <= nCalls',
           nCalls \in Nat, nCalls' \in Nat,
           Unanswered(s), \A r \in resolving : r.cb # s,
           \A x \in Sessions : InCallback(x)' => InCallback(x)
    PROVE  Accounts'
<1>1. \A x : Unanswered(x)' <=> Unanswered(x)
  BY DEF Unanswered
<1>2. CallbackAccounting'
  BY DEF Accounts, CallbackAccounting, ToldProperly
<1>3. OpenSessions'
  BY <1>1, SessionsType DEF Accounts, OpenSessions, StartSession
<1>4. QED
  BY <1>2, <1>3 DEF Accounts

(* One session is told something and is settled by it, the others are left *)
(* as they were.                                                           *)
LEMMA Settle ==
    ASSUME TypeInv, Accounts, SessionsApart,
           NEW s \in Sessions,
           \A x \in Sessions : x # s => calls'[x] = calls[x],
           ~misdelivered' => ToldProperly(s)',
           s <= nCalls', nCalls' \in Nat, nCalls <= nCalls',
           ~InCallback(s)', \A x \in Sessions : InCallback(x)' => InCallback(x),
           ~misdelivered' => (isProfiling' => cb' # s),
           isProfiling' => isProfiling, cb' = cb,
           \A r \in resolving' : r \in resolving,
           ~misdelivered' => \A r \in resolving' : r.cb # s,
           ~misdelivered' => \A r \in resolving' : r.cb = cb => cpuProfile' = cpuProfile,
           misdelivered => misdelivered', symbolicated \subseteq symbolicated'
    PROVE  Accounts'
<1>1. nCalls \in Nat /\ Sessions \subseteq Nat /\ \A r \in resolving : r.cb \in Sessions
  BY SessionsType, ProfilerAssumption DEF TypeInv, TypeOK
<1>2. \A x \in Sessions : x # s => (Unanswered(x) => Unanswered(x)')
  BY DEF Unanswered
<1>3. \A x \in Sessions : x # s => (ToldProperly(x) => ToldProperly(x)')
  BY DEF ToldProperly
<1>4. CallbackAccounting'
  BY <1>3 DEF Accounts, CallbackAccounting
<1>5. \A x \in Sessions : x > nCalls' => calls'[x] = <<>>
  BY <1>1 DEF Accounts, OpenSessions
<1>6. isProfiling' /\ ~misdelivered' => Unanswered(cb)'
  BY <1>2 DEF Accounts, OpenSessions, TypeInv, FieldsSet
<1>7. ~misdelivered' => \A r \in resolving' :
        Unanswered(r.cb)' /\ r.profile = r.cb /\ (r.cb = cb' => cpuProfile' = cb')
  BY <1>1, <1>2 DEF Accounts, OpenSessions
<1>8. \A x \in Sessions : InCallback(x)' => Unanswered(x)'
  BY <1>2 DEF Accounts, OpenSessions
<1>9. QED
  BY <1>4, <1>5, <1>6, <1>7, <1>8 DEF Accounts, OpenSessions, Unanswered

LEMMA AccountsInvariant == Spec => []Accounts
<1>1. Init => Accounts
  BY DEF Init, Accounts, OpenSessions, CallbackAccounting, ToldProperly, Unanswered,
         InCallback
<1>2. TypeInv /\ SessionsApart /\ ActiveSessionIsArmed /\ Accounts /\ [Next]_vars
        => Accounts'
  <2> SUFFICES ASSUME TypeInv, SessionsApart, ActiveSessionIsArmed, Accounts, [Next]_vars
               PROVE  Accounts'
    OBVIOUS
  <2> USE DEF selfVars, timerVars, arrayVars, clientVars
  <2>0. /\ calls \in [Sessions -> Seq(Told)] /\ callStack \in Seq(Sessions)
        /\ nCalls \in Nat /\ Sessions \subseteq Nat
        /\ \A r \in resolving : r.cb \in Sessions /\ r.profile \in Sessions
        /\ None \in Sessions \cup {None}
    BY SessionsType, ProfilerAssumption DEF TypeInv, TypeOK
  <2>1. ASSUME UNCHANGED <<calls, callStack, nCalls, isProfiling, cb, cpuProfile,
                           misdelivered, symbolicated>>,
               resolving' \subseteq resolving
        PROVE  Accounts'
    BY <2>1 DEF Accounts, OpenSessions, CallbackAccounting, ToldProperly, Unanswered,
                InCallback
  <2>2. ASSUME NEW thrown \in BOOLEAN, Stop(thrown), isProfiling, ~crashed,
               \A x \in Sessions : InCallback(x)' => InCallback(x)
        PROVE  Accounts'
    <3>1. /\ isProfiling' = FALSE /\ cb \in Sessions
          /\ UNCHANGED <<cb, cpuProfile, symbolicated, nCalls, misdelivered>>
      BY <2>2, StopType DEF TypeInv, FieldsSet
    <3>2. ~InCallback(cb) /\ cb <= nCalls /\ \A r \in resolving : r.cb # cb
      BY <2>2 DEF SessionsApart
    <3>3. ~misdelivered => Unanswered(cb) /\ cpuProfile = cb
      BY <2>2 DEF Accounts, OpenSessions, ActiveSessionIsArmed
    <3>4. CASE calls' = calls
      <4>1. \A r \in resolving' : r \in resolving \/ (r.cb = cb /\ r.profile = cpuProfile)
        BY <2>2, StopResolving
      <4>2. \A x : Unanswered(x)' <=> Unanswered(x)
        BY <3>4 DEF Unanswered
      <4>3. CallbackAccounting'
        BY <3>1, <3>4 DEF Accounts, CallbackAccounting, ToldProperly
      <4>4. OpenSessions'
        BY <2>2, <3>1, <3>3, <3>4, <4>1, <4>2 DEF Accounts, OpenSessions
      <4>5. QED
        BY <4>3, <4>4 DEF Accounts
    <3>5. CASE Tell(cb, "detachErr", None) /\ resolving' = resolving
      <4> PICK s \in Sessions : s = cb
        BY <3>1
      <4>1. PICK e \in Told : /\ e.kind = "detachErr" /\ calls'[s] = Append(calls[s], e)
                             /\ \A x \in Sessions : x # s => calls'[x] = calls[x]
        BY <2>0, <3>5, ErrorTold
      <4>2. ~misdelivered' => ToldProperly(s)'
        BY <2>0, <3>1, <3>3, <4>1, LastTold DEF EndKinds
      <4>3. QED
        BY <2>0, <2>2, <3>1, <3>2, <3>5, <4>1, <4>2, Settle
    <3>6. QED
      BY <2>2, <3>4, <3>5 DEF Stop
  <2>3. CASE ProfileRejected
    <3> PICK s \in Nat : s = nCalls + 1
      BY <2>0
    <3>1. /\ Tell(s, "rejected", None) /\ s \in Sessions /\ nCalls' = s
          /\ UNCHANGED <<isProfiling, cb, cpuProfile, symbolicated, callStack,
                         resolving, misdelivered>>
      BY <2>3, SessionsType, ProfilerAssumption
      DEF ProfileRejected, ClientMayCall, TypeInv, TypeOK
    <3>2. ~InCallback(s) /\ (isProfiling => cb # s) /\ \A r \in resolving : r.cb # s
      BY <2>0 DEF SessionsApart, InCallback
    <3>3. calls[s] = <<>>
      BY <2>0, <3>1 DEF Accounts, OpenSessions
    <3>4. PICK e \in Told : /\ e.kind = "rejected" /\ calls'[s] = Append(calls[s], e)
                           /\ \A x \in Sessions : x # s => calls'[x] = calls[x]
      BY <2>0, <3>1, ErrorTold
    <3>5. ToldProperly(s)'
      BY <3>1, <3>3, <3>4, FirstTold
    <3>6. (\A x : InCallback(x)' <=> InCallback(x)) /\ nCalls <= nCalls' /\ nCalls' \in Nat
      BY <2>0, <3>1 DEF InCallback
    <3>7. QED
      BY <2>0, <3>1, <3>2, <3>4, <3>5, <3>6, Settle
  <2>4. ASSUME NEW p \in Pids, Profile(p) PROVE Accounts'
    <3> PICK s \in Nat : s = nCalls + 1
      BY <2>0
    <3>1. /\ s \in Sessions /\ nCalls' = s /\ ~isProfiling
          /\ nCalls <= nCalls' /\ nCalls' \in Nat
          /\ UNCHANGED <<symbolicated, resolving, misdelivered>>
      BY <2>0, <2>4, SessionsType, ProfilerAssumption
      DEF Profile, ClientMayCall, TypeInv, TypeOK
    <3>2. ~InCallback(s) /\ \A r \in resolving : r.cb # s
      BY <2>0 DEF SessionsApart, InCallback
    <3>3. calls[s] = <<>>
      BY <2>0, <3>1 DEF Accounts, OpenSessions
    <3>4. CASE StartSession(s, p) /\ UNCHANGED <<callStack, calls>>
      <4>1. Unanswered(s) /\ \A x : InCallback(x)' <=> InCallback(x)
        BY <3>3, <3>4 DEF Unanswered, InCallback
      <4>2. QED
        BY <2>0, <3>1, <3>2, <3>4, <4>1, Start
    <3>5. CASE /\ Tell(s, "attachErr", None) /\ callStack' = Append(callStack, s)
               /\ UNCHANGED <<isProfiling, cb, cpuProfile>>
      <4>1. PICK e \in Told : /\ e.kind = "attachErr" /\ calls'[s] = Append(calls[s], e)
                             /\ \A x \in Sessions : x # s => calls'[x] = calls[x]
        BY <2>0, <3>1, <3>5, ErrorTold
      <4>2. ToldProperly(s)' /\ Unanswered(s)'
        BY <3>1, <3>3, <4>1, FirstTold
      <4>3. \A x \in Sessions : InCallback(x)' => x = s \/ InCallback(x)
        BY <2>0, <3>1, <3>5 DEF InCallback
      <4>4. \A x \in Sessions : x # s =>
              (Unanswered(x) => Unanswered(x)') /\ (ToldProperly(x) => ToldProperly(x)')
        BY <3>1, <4>1 DEF Unanswered, ToldProperly
      <4>5. CallbackAccounting'
        BY <3>1, <4>2, <4>4 DEF Accounts, CallbackAccounting
      <4>6. OpenSessions'
        <5>1. \A x \in Sessions : x > nCalls' => calls'[x] = <<>>
          BY <2>0, <3>1, <4>1 DEF Accounts, OpenSessions
        <5>2. \A x \in Sessions : InCallback(x)' => Unanswered(x)'
          BY <4>2, <4>3, <4>4 DEF Accounts, OpenSessions
        <5>3. ~misdelivered => \A r \in resolving :
                Unanswered(r.cb)' /\ r.profile = r.cb /\ (r.cb = cb => cpuProfile = cb)
          BY <2>0, <3>2, <4>4 DEF Accounts, OpenSessions
        <5>4. QED
          BY <3>1, <3>5, <5>1, <5>2, <5>3 DEF OpenSessions
      <4>7. QED
        BY <4>5, <4>6 DEF Accounts
    <3>6. CASE /\ Tell(s, "threw", None) /\ Unwind
               /\ UNCHANGED <<isProfiling, cb, cpuProfile>>
      <4>1. PICK e \in Told : /\ e.kind = "threw" /\ calls'[s] = Append(calls[s], e)
                             /\ \A x \in Sessions : x # s => calls'[x] = calls[x]
        BY <2>0, <3>1, <3>6, ErrorTold
      <4>2. ToldProperly(s)'
        BY <3>1, <3>3, <4>1, FirstTold
      <4>3. \A x \in Sessions : InCallback(x)' => InCallback(x)
        BY <2>0, <3>6, UnwindPrefix DEF InCallback
      <4>4. QED
        BY <2>0, <3>1, <3>2, <3>6, <4>1, <4>2, <4>3, Settle
    <3>7. QED
      BY <2>4, <3>4, <3>5, <3>6 DEF Profile
  <2>5. CASE ProfileContinues
    <3> PICK s : s = callStack[Len(callStack)]
      OBVIOUS
    <3>1. /\ Len(callStack) \in DOMAIN callStack /\ Len(callStack) - 1 \in 0 .. Len(callStack)
          /\ callStack' = SubSeq(callStack, 1, Len(callStack) - 1)
          /\ StartSession(s, tracers[s].pid)
          /\ UNCHANGED <<calls, resolving, nCalls, misdelivered, symbolicated>>
      BY <2>0, <2>5 DEF ProfileContinues
    <3>2. InCallback(s) /\ s \in Sessions
      BY <2>0, <3>1 DEF InCallback
    <3>3. Unanswered(s) /\ \A r \in resolving : r.cb # s
      BY <3>2 DEF Accounts, OpenSessions, SessionsApart
    <3>4. \A x \in Sessions : InCallback(x)' => InCallback(x)
      BY <2>0, <3>1, Prefix DEF InCallback
    <3>5. QED
      BY <2>0, <3>1, <3>2, <3>3, <3>4, Start
  <2>6. CASE StopProfiling
    <3>1. \A x \in Sessions : InCallback(x)' => InCallback(x)
      BY <2>0, <2>6, UnwindPrefix DEF StopProfiling, InCallback
    <3>2. QED
      BY <2>2, <2>6, <3>1 DEF StopProfiling
  <2>7. ASSUME NEW c \in Sessions, OnProfileEnd(c) PROVE Accounts'
    <3>1. /\ \A x \in Sessions : InCallback(x)' => InCallback(x)
          /\ ~crashed
      BY <2>7 DEF OnProfileEnd, InCallback
    <3>2. CASE ~isProfiling
      <4>1. UNCHANGED <<calls, callStack, nCalls, isProfiling, cb, cpuProfile,
                        misdelivered, symbolicated, resolving>>
        BY <2>7, <3>2 DEF OnProfileEnd
      <4>2. QED
        BY <2>1, <4>1
    <3>3. CASE isProfiling
      <4>1. PICK thrown \in BOOLEAN : Stop(thrown)
        BY <2>7, <3>3 DEF OnProfileEnd
      <4>2. QED
        BY <2>2, <3>1, <3>3, <4>1
    <3>4. QED
      BY <3>2, <3>3
  <2>8. ASSUME NEW c \in Sessions, SampleAndContinue(c) PROVE Accounts'
    BY <2>1, <2>8 DEF SampleAndContinue
  <2>9. ASSUME NEW r \in resolving, SymbolsFail(r) PROVE Accounts'
    <3> PICK s \in Sessions : s = r.cb
      BY <2>0
    <3>1. /\ Tell(s, "symbolErr", None) /\ resolving' = resolving \ {r}
          /\ UNCHANGED <<isProfiling, cb, cpuProfile, symbolicated, callStack,
                         nCalls, misdelivered>>
      BY <2>9 DEF SymbolsFail
    <3>2. /\ s <= nCalls /\ ~InCallback(s) /\ (isProfiling => s # cb)
          /\ \A q \in resolving' : q \in resolving /\ q.cb # s
      BY <3>1 DEF SessionsApart
    <3>3. PICK e \in Told : /\ e.kind = "symbolErr" /\ calls'[s] = Append(calls[s], e)
                           /\ \A x \in Sessions : x # s => calls'[x] = calls[x]
      BY <2>0, <3>1, ErrorTold
    <3>4. ~misdelivered' => ToldProperly(s)'
      <4>1. ~misdelivered => Unanswered(s)
        BY DEF Accounts, OpenSessions
      <4>2. QED
        BY <2>0, <3>1, <3>3, <4>1, LastTold DEF EndKinds
    <3>5. \A x : InCallback(x)' <=> InCallback(x)
      BY <3>1 DEF InCallback
    <3>6. QED
      BY <2>0, <3>1, <3>2, <3>3, <3>4, <3>5, Settle
  <2>10. ASSUME NEW r \in resolving, SymbolsResolved(r) PROVE Accounts'
    <3>1. /\ Tell(cb, "ok", cpuProfile) /\ resolving' = resolving \ {r}
          /\ symbolicated' = symbolicated \cup {r.profile}
          /\ misdelivered' = (misdelivered \/ cb # r.cb)
          /\ callStack = <<>>
          /\ UNCHANGED <<isProfiling, cb, callStack, nCalls>>
      BY <2>10 DEF SymbolsResolved, ReturnCPUProfile, ResetFields
    <3>2. /\ r.cb <= nCalls /\ (isProfiling => r.cb # cb) /\ cb <= nCalls
          /\ \A q \in resolving' : q \in resolving /\ q.cb # r.cb
      BY <3>1 DEF SessionsApart
    <3>3. \A x : ~InCallback(x) /\ ~InCallback(x)'
      BY <3>1 DEF InCallback
    <3>4. CASE cb \in Sessions
      <4> PICK s \in Sessions : s = cb
        BY <3>4
      <4>1. PICK e \in Told : /\ e.kind = "ok" /\ e.profile = cpuProfile
                             /\ calls'[s] = Append(calls[s], e)
                             /\ \A x \in Sessions : x # s => calls'[x] = calls[x]
        <5>1. cpuProfile \in Sessions \cup {None}
          BY DEF TypeInv, TypeOK
        <5>2. QED
          BY <2>0, <3>1, <5>1, OneMoreTold
      <4>2. ~misdelivered' => /\ cb = r.cb /\ Unanswered(s)
                              /\ cpuProfile = s /\ r.profile = s
        BY <3>1 DEF Accounts, OpenSessions
      <4>3. ~misdelivered' => ToldProperly(s)'
        BY <2>0, <3>1, <4>1, <4>2, LastTold DEF EndKinds
      <4>4. ~misdelivered' => /\ isProfiling' => cb' # s
                              /\ \A q \in resolving' : q.cb # s /\ q.cb # cb
        BY <3>1, <3>2, <4>2
      <4>5. misdelivered => misdelivered'
        BY <3>1, Zenon
      <4>6. QED
        BY <2>0, <3>1, <3>2, <3>3, <4>1, <4>3, <4>4, <4>5, Settle
    <3>5. CASE cb \notin Sessions
      <4> PICK s \in Sessions : s = r.cb
        BY <2>0
      <4>1. calls' = calls /\ misdelivered'
        BY <2>0, <3>1, <3>5 DEF Tell
      <4>2. QED
        BY <2>0, <3>1, <3>2, <3>3, <4>1, Settle
    <3>6. QED
      BY <3>4, <3>5
  <2>11. ASSUME NEW r \in resolving, SpawnFails(r) PROVE Accounts'
    BY <2>1, <2>11 DEF SpawnFails
  <2>12. ASSUME NEW p \in Pids, TargetExits(p) PROVE Accounts'
    BY <2>1, <2>12 DEF TargetExits
  <2>13. CASE UNCHANGED vars
    BY <2>1, <2>13 DEF vars
  <2>14. QED
    BY <2>3, <2>4, <2>5, <2>6, <2>7, <2>8, <2>9, <2>10, <2>11, <2>12, <2>13 DEF Next
<1>3. QED
  BY <1>1, <1>2, TypeInvInvariant, SessionsStayApart, ActiveIsArmed, PTL DEF Spec

(* What the client of each profile() call is told: a refusal, or at most   *)
(* an attach error and one end, and only its own profile with its native   *)
(* frames named (index.js, every call of cb).                              *)
THEOREM ClientsToldProperly == Spec => []CallbackAccounting
BY AccountsInvariant, PTL DEF Accounts

-----------------------------------------------------------------------------
(* Clients that wait for their answer *)

SerialInv ==
    /\ AnswersItsCaller
    /\ callStack # <<>> => ~isProfiling /\ resolving = {} /\ Len(callStack) = 1
    /\ ~misdelivered

Serial == Client \cap {"overlap", "reenter"} = {}

LEMMA SerialInvariant ==
    ASSUME Serial
    PROVE  Spec => []SerialInv
<1> USE DEF Serial
<1>1. Init => SerialInv
  BY DEF Init, SerialInv, AnswersItsCaller
<1>2. TypeInv /\ SessionsApart /\ SerialInv /\ [Next]_vars => SerialInv'
  <2> SUFFICES ASSUME TypeInv, SessionsApart, SerialInv, [Next]_vars PROVE SerialInv'
    OBVIOUS
  <2> USE DEF selfVars, timerVars, arrayVars, clientVars
  <2>0. callStack \in Seq(Sessions) /\ crashed \in BOOLEAN
    BY DEF TypeInv, TypeOK
  <2>1. ASSUME UNCHANGED <<isProfiling, cb, cpuProfile, callStack, misdelivered>>,
               resolving' \subseteq resolving
        PROVE  SerialInv'
    BY <2>1 DEF SerialInv, AnswersItsCaller
  <2>2. ASSUME NEW thrown \in BOOLEAN, Stop(thrown), isProfiling,
               callStack = <<>> => callStack' = <<>>
        PROVE  SerialInv'
    <3>1. resolving = {} /\ callStack' = <<>>
      BY <2>2 DEF SerialInv, AnswersItsCaller
    <3>2. isProfiling' = FALSE /\ UNCHANGED <<cb, cpuProfile, misdelivered>>
      BY <2>2, StopType
    <3>3. \A r \in resolving' : r.cb = cb /\ r.profile = cpuProfile
      BY <2>2, <3>1, StopResolving
    <3>4. QED
      BY <3>1, <3>2, <3>3 DEF SerialInv, AnswersItsCaller
  <2>3. CASE ProfileRejected
    BY <2>1, <2>3 DEF ProfileRejected
  <2>4. ASSUME NEW p \in Pids, Profile(p) PROVE SerialInv'
    <3>1. /\ resolving = {} /\ resolving' = {} /\ callStack = <<>>
          /\ ~isProfiling /\ misdelivered' = misdelivered
      BY <2>4 DEF Profile, ClientMayCall
    <3>2. nCalls + 1 \in Sessions
      BY <2>4, SessionsType DEF Profile, ClientMayCall, TypeInv, TypeOK
    <3>3. \/ callStack' = <<>>
          \/ /\ callStack' = Append(callStack, nCalls + 1)
             /\ isProfiling' = isProfiling
      <4>1. Unwind => callStack' = <<>>
        BY <2>0, <3>1, UnwindType
      <4>2. QED
        BY <2>4, <3>1, <4>1 DEF Profile
    <3>4. QED
      BY <3>1, <3>2, <3>3 DEF SerialInv, AnswersItsCaller
  <2>5. CASE ProfileContinues
    <3>1. resolving' = {} /\ callStack' = <<>> /\ misdelivered' = misdelivered
      BY <2>0, <2>5 DEF ProfileContinues, SerialInv
    <3>2. QED
      BY <3>1 DEF SerialInv, AnswersItsCaller
  <2>6. CASE StopProfiling
    <3>1. callStack = <<>> => callStack' = <<>>
      BY <2>0, <2>6, UnwindType DEF StopProfiling
    <3>2. QED
      BY <2>2, <2>6, <3>1 DEF StopProfiling
  <2>7. ASSUME NEW c \in Sessions, OnProfileEnd(c) PROVE SerialInv'
    <3>1. callStack' = callStack
      BY <2>7 DEF OnProfileEnd
    <3>2. CASE ~isProfiling
      <4>1. UNCHANGED <<isProfiling, cb, cpuProfile, resolving, misdelivered>>
        BY <2>7, <3>2 DEF OnProfileEnd
      <4>2. QED
        BY <2>1, <3>1, <4>1
    <3>3. CASE isProfiling
      <4>1. PICK thrown \in BOOLEAN : Stop(thrown)
        BY <2>7, <3>3 DEF OnProfileEnd
      <4>2. QED
        BY <2>2, <3>1, <3>3, <4>1
    <3>4. QED
      BY <3>2, <3>3
  <2>8. ASSUME NEW c \in Sessions, SampleAndContinue(c) PROVE SerialInv'
    BY <2>1, <2>8 DEF SampleAndContinue
  <2>9. ASSUME NEW r \in resolving, SymbolsFail(r) \/ SpawnFails(r) PROVE SerialInv'
    BY <2>1, <2>9 DEF SymbolsFail, SpawnFails
  <2>10. ASSUME NEW r \in resolving, SymbolsResolved(r) PROVE SerialInv'
    <3>1. \A q \in resolving : q = r
      BY DEF SerialInv, AnswersItsCaller, SessionsApart
    <3>2. cb = r.cb /\ ~misdelivered
      BY DEF SerialInv, AnswersItsCaller
    <3>3. resolving' = {} /\ callStack' = <<>> /\ ~misdelivered'
      BY <2>10, <3>1, <3>2 DEF SymbolsResolved
    <3>4. QED
      BY <3>3 DEF SerialInv, AnswersItsCaller
  <2>11. ASSUME NEW p \in Pids, TargetExits(p) PROVE SerialInv'
    BY <2>1, <2>11 DEF TargetExits
  <2>12. CASE UNCHANGED vars
    BY <2>1, <2>12 DEF vars
  <2>13. QED
    BY <2>3, <2>4, <2>5, <2>6, <2>7, <2>8, <2>9, <2>10, <2>11, <2>12 DEF Next
<1>3. QED
  BY <1>1, <1>2, TypeInvInvariant, SessionsStayApart, PTL DEF Spec

(* With a client that calls profile() only when no other call of it is     *)
(* running or being symbolicated, an atos run that closes finds the        *)
(* profiler as stopProfiling left it, and its profile goes to the caller   *)
(* it was collected for.                                                   *)
THEOREM SerialClientsAnswered ==
    ASSUME Serial
    PROVE  Spec => [](AnswersItsCaller /\ ~misdelivered)
<1>1. Spec => []SerialInv
  BY SerialInvariant
<1>2. QED
  BY <1>1, PTL DEF SerialInv

-----------------------------------------------------------------------------
(* A client that waits for each answer *)

(* What is known so far of every reachable state.                          *)
Known == TypeInv /\ SessionsApart /\ ActiveSessionIsArmed /\ Accounts /\ SerialInv

LEMMA KnownInvariant ==
    ASSUME Serial
    PROVE  Spec => []Known
<1>1. Spec => []SerialInv
  BY SerialInvariant
<1>2. QED
  BY <1>1, TypeInvInvariant, SessionsStayApart, ActiveIsArmed, AccountsInvariant, PTL
  DEF Known

-----------------------------------------------------------------------------
(* What can throw: a backtrace with no heap reader, which only a failed    *)
(* attach leaves behind, and on Linux a detach after an attach that threw. *)

MayThrow(t) == Platform = "linux" \/ ~t.heapReader

DetachThrows(t) == Platform = "linux" /\ t.memReader

LEMMA AttachesReader ==
    ASSUME NEW p \in Pids, NEW g \in Target, NEW o \in Attach(p, g)
    PROVE  /\ o.result = "true" => ~MayThrow(o.tracer)
           /\ o.result # "throws" => ~DetachThrows(o.tracer)
<1>1. CASE Platform = "mac"
  <2>1. o.result = "true" => o.tracer.heapReader
    <3>1. o \in OSXAttach(p, g)
      BY <1>1 DEF Attach
    <3>2. PICK port \in TaskPort(g) :
            o = IF port = "good"
                THEN Outcome([NewTracer(p) EXCEPT !.port = port, !.heapReader = TRUE,
                                                  !.memReader = TRUE], g, "true")
                ELSE Outcome([NewTracer(p) EXCEPT !.port = port], g, "false")
      BY <3>1 DEF OSXAttach
    <3>3. QED
      BY <3>2 DEF Outcome, NewTracer
  <2>2. QED
    BY <1>1, <2>1 DEF MayThrow, DetachThrows
<1>2. CASE Platform = "linux"
  <2>1. o \in LinuxAttach(p, g)
    BY <1>2 DEF Attach
  <2>2. o.result = "throws" \/ o = Outcome(NewTracer(p), g, "false")
    BY <2>1, OutcomeFields DEF LinuxAttach
  <2>3. QED
    BY <2>2, OutcomeFields DEF DetachThrows, NewTracer
<1>3. QED
  BY <1>1, <1>2, TracerAssumption

LEMMA BacktraceKeepsReader ==
    ASSUME NEW t \in TracerObject, NEW g \in Target, NEW o \in Backtrace(t, g)
    PROVE  /\ MayThrow(o.tracer) = MayThrow(t)
           /\ DetachThrows(o.tracer) = DetachThrows(t)
           /\ o.result = "throws" => MayThrow(t)
<1>1. /\ o.tracer.heapReader = t.heapReader /\ o.tracer.memReader = t.memReader
      /\ o.result = "throws" => MayThrow(t)
  <2>1. CASE Platform = "mac"
    <3>1. o \in OSXBacktrace(t, g)
      BY <2>1 DEF Backtrace
    <3>2. \/ \E q \in TaskPort(g), h \in {g, Resumed(g)} :
                o = Outcome([t EXCEPT !.port = q], h, "null")
          \/ \E r \in {"native", "other"} : o = Outcome(t, Resumed(g), r)
          \/ ~t.heapReader /\ o = Outcome(t, [g EXCEPT !.stopped = TRUE], "throws")
      BY <3>1 DEF OSXBacktrace, OSXFailedRead
    <3>3. \A q : /\ [t EXCEPT !.port = q].heapReader = t.heapReader
                 /\ [t EXCEPT !.port = q].memReader = t.memReader
      BY DEF TracerObject
    <3>4. CASE \E q \in TaskPort(g), h \in {g, Resumed(g)} :
                   o = Outcome([t EXCEPT !.port = q], h, "null")
      <4>1. PICK q, h : o = Outcome([t EXCEPT !.port = q], h, "null")
        BY <3>4
      <4>2. o.tracer = [t EXCEPT !.port = q] /\ o.result = "null"
        BY <4>1, OutcomeFields
      <4>3. QED
        BY <3>3, <4>2
    <3>5. CASE \E r \in {"native", "other"} : o = Outcome(t, Resumed(g), r)
      BY <3>5, OutcomeFields
    <3>6. CASE ~t.heapReader /\ o = Outcome(t, [g EXCEPT !.stopped = TRUE], "throws")
      BY <3>6 DEF MayThrow, Outcome
    <3>7. QED
      BY <3>2, <3>4, <3>5, <3>6
  <2>2. CASE Platform = "linux"
    <3>1. o \in LinuxBacktrace(t, g)
      BY <2>2 DEF Backtrace
    <3>2. \E h, r : o = Outcome(t, h, r)
      BY <3>1 DEF LinuxBacktrace, LinuxFailedRead
    <3>3. QED
      BY <2>2, <3>2, OutcomeFields DEF MayThrow
  <2>3. QED
    BY <2>1, <2>2, TracerAssumption
<1>2. QED
  BY <1>1 DEF MayThrow, DetachThrows

LEMMA DetachReturns ==
    ASSUME NEW t \in TracerObject, NEW g \in Target, NEW o \in Detach(t, g),
           ~DetachThrows(t)
    PROVE  o.result # "throws"
<1>1. CASE Platform = "mac"
  BY <1>1, OutcomeFields DEF Detach, OSXDetach
<1>2. CASE Platform = "linux"
  BY <1>2, OutcomeFields DEF Detach, LinuxDetach, DetachThrows
<1>3. QED
  BY <1>1, <1>2, TracerAssumption

-----------------------------------------------------------------------------
(* The steps of a session, as a client that waits for its answers finds    *)
(* them: at each of them the profiler holds that session and no other.     *)

LEMMA ProfileBegins ==
    ASSUME Serial, Known, NEW p \in Pids, Profile(p)
    PROVE  /\ ~crashed /\ ~isProfiling /\ callStack = <<>>
           /\ resolving = {} /\ resolving' = {}
           /\ nCalls < MaxSessions /\ nCalls + 1 \in Sessions
           /\ nCalls' = nCalls + 1 /\ tracer' = nCalls + 1
           /\ tracers'[nCalls + 1].pid = p
           /\ UNCHANGED <<stacks, misdelivered>>
           /\ \/ /\ StartSession(nCalls + 1, p) /\ callStack' = <<>>
                 /\ UNCHANGED <<calls, crashed>>
                 /\ ~MayThrow(tracers'[nCalls + 1])
                 /\ ~DetachThrows(tracers'[nCalls + 1])
              \/ /\ Tell(nCalls + 1, "attachErr", None)
                 /\ callStack' = <<nCalls + 1>>
                 /\ UNCHANGED <<isProfiling, cb, profileTimer, sampleTimer,
                                timerVars, crashed>>
                 /\ ~DetachThrows(tracers'[nCalls + 1])
              \/ /\ Tell(nCalls + 1, "threw", None)
                 /\ callStack' = <<>>
                 /\ UNCHANGED <<isProfiling, cb, profileTimer, sampleTimer, timerVars>>
                 /\ crashed' \in BOOLEAN
<1> DEFINE s == nCalls + 1
<1>1. /\ ~crashed /\ ~isProfiling /\ callStack = <<>> /\ resolving = {}
      /\ nCalls < MaxSessions
  BY DEF Profile, ClientMayCall, Serial
<1>2. s \in Sessions
  BY <1>1, SessionsType DEF Known, TypeInv, TypeOK
<1>3. PICK o \in Attach(p, targets[p]) :
        /\ tracers' = [tracers EXCEPT ![s] = o.tracer]
        /\ tracer' = s
        /\ \/ /\ o.result = "true"
              /\ StartSession(s, p)
              /\ UNCHANGED <<callStack, calls, crashed>>
           \/ /\ o.result = "false"
              /\ Tell(s, "attachErr", None)
              /\ callStack' = Append(callStack, s)
              /\ UNCHANGED <<isProfiling, pid, cb, cpuProfile, profileTimer,
                             sampleTimer, timerVars, crashed>>
           \/ /\ o.result = "throws"
              /\ Tell(s, "threw", None)
              /\ Unwind
              /\ UNCHANGED <<isProfiling, pid, cb, cpuProfile, profileTimer,
                             sampleTimer, timerVars>>
  BY DEF Profile
<1>4. targets[p] \in Target /\ tracers \in [Sessions -> TracerObject]
      /\ callStack \in Seq(Sessions) /\ crashed \in BOOLEAN
  BY DEF Known, TypeInv, TypeOK
<1>5. tracers'[s] = o.tracer /\ o.tracer.pid = p
  BY <1>2, <1>3, <1>4, AttachOutcome DEF IsOutcome
<1>6. /\ o.result = "true" => ~MayThrow(o.tracer)
      /\ o.result # "throws" => ~DetachThrows(o.tracer)
  BY <1>4, AttachesReader
<1>7. Unwind => callStack' = <<>> /\ crashed' \in BOOLEAN
  BY <1>1, <1>4, UnwindType
<1>8. Append(callStack, s) = <<s>>
  BY <1>1
<1>9. /\ nCalls' = s /\ resolving' = resolving
      /\ UNCHANGED <<stacks, misdelivered>>
  BY DEF Profile, arrayVars
<1>10. \/ /\ StartSession(s, p) /\ callStack' = <<>>
          /\ UNCHANGED <<calls, crashed>>
          /\ ~MayThrow(tracers'[s]) /\ ~DetachThrows(tracers'[s])
       \/ /\ Tell(s, "attachErr", None)
          /\ callStack' = <<s>>
          /\ UNCHANGED <<isProfiling, cb, profileTimer, sampleTimer, timerVars, crashed>>
          /\ ~DetachThrows(tracers'[s])
       \/ /\ Tell(s, "threw", None)
          /\ callStack' = <<>>
          /\ UNCHANGED <<isProfiling, cb, profileTimer, sampleTimer, timerVars>>
          /\ crashed' \in BOOLEAN
  <2>1. CASE o.result = "true" /\ StartSession(s, p) /\ UNCHANGED <<callStack, calls, crashed>>
    BY <1>1, <1>5, <1>6, <2>1
  <2>2. CASE /\ o.result = "false"
             /\ Tell(s, "attachErr", None)
             /\ callStack' = Append(callStack, s)
             /\ UNCHANGED <<isProfiling, pid, cb, cpuProfile, profileTimer,
                            sampleTimer, timerVars, crashed>>
    BY <1>5, <1>6, <1>8, <2>2
  <2>3. CASE /\ o.result = "throws"
             /\ Tell(s, "threw", None)
             /\ Unwind
             /\ UNCHANGED <<isProfiling, pid, cb, cpuProfile, profileTimer,
                            sampleTimer, timerVars>>
    BY <1>7, <2>3
  <2>4. QED
    BY <1>3, <2>1, <2>2, <2>3
<1>11. QED
  BY <1>1, <1>2, <1>3, <1>5, <1>9, <1>10

LEMMA ProfileGoesOn ==
    ASSUME Known, ProfileContinues
    PROVE  /\ ~crashed /\ ~isProfiling /\ resolving = {} /\ resolving' = {}
           /\ Len(callStack) = 1 /\ callStack[1] \in Sessions /\ callStack' = <<>>
           /\ StartSession(callStack[1], tracers[callStack[1]].pid)
           /\ UNCHANGED <<tracer, tracers, stacks, nCalls, calls, crashed>>
<1>1. callStack \in Seq(Sessions) /\ callStack # <<>> /\ ~crashed
  BY DEF Known, TypeInv, TypeOK, ProfileContinues
<1>2. Len(callStack) = 1 /\ ~isProfiling /\ resolving = {}
  BY <1>1 DEF Known, SerialInv
<1>3. callStack[1] \in Sessions /\ SubSeq(callStack, 1, 1 - 1) = <<>>
  BY <1>1, <1>2
<1>4. /\ StartSession(callStack[1], tracers[callStack[1]].pid)
      /\ callStack' = SubSeq(callStack, 1, 1 - 1)
      /\ UNCHANGED <<tracer, tracers, stacks, resolving, nCalls, calls, crashed>>
  BY <1>2 DEF ProfileContinues, arrayVars
<1>5. QED
  BY <1>1, <1>2, <1>3, <1>4

(* While a session is active the profiler's fields are its own.            *)
LEMMA ActiveSession ==
    ASSUME Known, isProfiling, ~crashed
    PROVE  /\ callStack = <<>> /\ resolving = {}
           /\ cb \in Sessions /\ cpuProfile = cb /\ profileTimer = cb
           /\ tracer \in Sessions /\ tracers[tracer] \in TracerObject
           /\ pid \in Pids /\ targets[tracers[tracer].pid] \in Target
           /\ cb <= nCalls /\ Unanswered(cb)
<1>1. callStack = <<>> /\ resolving = {} /\ ~misdelivered
  BY DEF Known, SerialInv, AnswersItsCaller
<1>2. cpuProfile = cb /\ profileTimer = cb /\ tracer # None
  BY <1>1 DEF Known, ActiveSessionIsArmed
<1>3. cb \in Sessions /\ tracer \in Sessions /\ tracers[tracer] \in TracerObject
      /\ pid \in Pids
  BY <1>2 DEF Known, TypeInv, TypeOK, FieldsSet
<1>4. targets[tracers[tracer].pid] \in Target
  BY <1>3 DEF Known, TypeInv, TypeOK, TracerObject
<1>5. cb <= nCalls /\ Unanswered(cb)
  BY <1>1 DEF Known, SessionsApart, Accounts, OpenSessions
<1>6. QED
  BY <1>1, <1>2, <1>3, <1>4, <1>5

(* A session ends with an error, or its array goes to atos; when detach    *)
(* cannot throw, nothing else happens.                                     *)
LEMMA SessionStops ==
    ASSUME Known, isProfiling, ~DetachThrows(tracers[tracer]),
           StopProfiling \/ (\E c \in Sessions : OnProfileEnd(c))
    PROVE  /\ ~crashed /\ ~crashed' /\ callStack' = <<>> /\ ~isProfiling'
           /\ UNCHANGED <<cb, cpuProfile, tracer, profileTimer, sampleTimer, stacks,
                          nCalls, pendingSample, crashed>>
           /\ pendingProfile' \subseteq pendingProfile
           /\ \/ /\ resolving' = {[profile |-> cb, pid |-> pid, cb |-> cb]}
                 /\ UNCHANGED calls
              \/ /\ resolving' = {}
                 /\ Tell(cb, "detachErr", None)
<1>1. /\ ~crashed /\ pendingProfile' \subseteq pendingProfile
      /\ UNCHANGED pendingSample
  BY DEF StopProfiling, OnProfileEnd, timerVars
<1>2. callStack = <<>> /\ resolving = {} /\ cpuProfile = cb /\ tracer \in Sessions
      /\ tracer # None
      /\ tracers[tracer] \in TracerObject /\ targets[tracers[tracer].pid] \in Target
  BY <1>1, ActiveSession, SessionsType
<1>3. ASSUME NEW thrown \in BOOLEAN, Stop(thrown)
      PROVE  /\ thrown = FALSE
             /\ \/ /\ resolving' = {[profile |-> cb, pid |-> pid, cb |-> cb]}
                   /\ UNCHANGED calls
                \/ /\ resolving' = {}
                   /\ Tell(cb, "detachErr", None)
  <2>1. PICK o \in Detach(tracers[tracer], targets[tracers[tracer].pid]) :
          /\ thrown = (o.result = "throws")
          /\ IF o.result = "true" THEN ResolveNativeFrames ELSE UNCHANGED resolving
          /\ IF o.result = "false" THEN Tell(cb, "detachErr", None) ELSE UNCHANGED calls
    BY <1>2, <1>3 DEF Stop
  <2>2. o.result \in {"true", "false"}
    BY <1>2, DetachOutcome, DetachReturns
  <2>3. QED
    BY <1>2, <2>1, <2>2 DEF ResolveNativeFrames
<1>4. PICK thrown \in BOOLEAN : /\ Stop(thrown)
                                /\ ~thrown => UNCHANGED <<callStack, crashed>>
  BY DEF StopProfiling, OnProfileEnd
<1>5. ~isProfiling' /\ UNCHANGED <<cb, cpuProfile, tracer, profileTimer, sampleTimer,
                                   stacks, nCalls>>
  BY <1>4, StopType DEF Known
<1>6. /\ UNCHANGED <<callStack, crashed>>
      /\ \/ /\ resolving' = {[profile |-> cb, pid |-> pid, cb |-> cb]}
            /\ UNCHANGED calls
         \/ /\ resolving' = {}
            /\ Tell(cb, "detachErr", None)
  BY <1>3, <1>4
<1>7. QED
  BY <1>1, <1>2, <1>5, <1>6

LEMMA SessionSamples ==
    ASSUME Known, isProfiling, NEW c \in Sessions, SampleAndContinue(c)
    PROVE  /\ ~crashed /\ callStack = <<>> /\ tracer \in Sessions
           /\ cpuProfile \in Sessions /\ pid \in Pids
           /\ UNCHANGED <<isProfiling, pid, cb, cpuProfile, tracer, profileTimer,
                          pendingProfile, resolving, callStack, nCalls, calls,
                          misdelivered>>
           /\ tracers'[tracer].pid = tracers[tracer].pid
           /\ MayThrow(tracers'[tracer]) = MayThrow(tracers[tracer])
           /\ DetachThrows(tracers'[tracer]) = DetachThrows(tracers[tracer])
           /\ \A s \in Sessions : \A x \in stacks'[s] :
                 x \in stacks[s] \/ (s = cpuProfile /\ x.pid = tracers[tracer].pid)
           /\ \/ UNCHANGED crashed /\ UNCHANGED pendingSample /\ sampleTimer' = c
              \/ crashed' /\ MayThrow(tracers[tracer])
           /\ c \in pendingSample
<1> USE DEF clientVars
<1>1. ~crashed /\ callStack = <<>> /\ tracer \in Sessions /\ tracer # None
      /\ cpuProfile \in Sessions /\ pid \in Pids
      /\ tracers[tracer] \in TracerObject /\ targets[tracers[tracer].pid] \in Target
      /\ tracers \in [Sessions -> TracerObject] /\ stacks \in [Sessions -> SUBSET Stack]
  BY ActiveSession, SessionsType DEF SampleAndContinue, Known, TypeInv, TypeOK
<1>2. PICK o \in Backtrace(tracers[tracer], targets[tracers[tracer].pid]) :
        /\ tracers' = [tracers EXCEPT ![tracer] = o.tracer]
        /\ stacks' = IF o.result \in {"native", "other"}
                     THEN [stacks EXCEPT ![cpuProfile] =
                              @ \cup {[pid |-> tracers[tracer].pid,
                                       native |-> o.result = "native"]}]
                     ELSE stacks
        /\ IF o.result = "throws"
           THEN crashed' = TRUE
           ELSE sampleTimer' = c /\ UNCHANGED <<pendingSample, crashed>>
  BY <1>1 DEF SampleAndContinue
<1>3. tracers'[tracer] = o.tracer /\ o.tracer.pid = tracers[tracer].pid
  BY <1>1, <1>2, BacktraceOutcome DEF IsOutcome
<1>4. /\ MayThrow(o.tracer) = MayThrow(tracers[tracer])
      /\ DetachThrows(o.tracer) = DetachThrows(tracers[tracer])
      /\ o.result = "throws" => MayThrow(tracers[tracer])
  BY <1>1, <1>2, BacktraceKeepsReader
<1>5. \A s \in Sessions : \A x \in stacks'[s] :
         x \in stacks[s] \/ (s = cpuProfile /\ x.pid = tracers[tracer].pid)
  BY <1>1, <1>2
<1>6. /\ UNCHANGED <<isProfiling, pid, cb, cpuProfile, tracer, profileTimer,
                     pendingProfile, resolving, callStack, nCalls, calls, misdelivered>>
      /\ c \in pendingSample
  BY DEF SampleAndContinue
<1>7. \/ UNCHANGED crashed /\ UNCHANGED pendingSample /\ sampleTimer' = c
      \/ crashed' /\ MayThrow(tracers[tracer])
  BY <1>2, <1>4
<1>8. QED
  BY <1>1, <1>3, <1>4, <1>5, <1>6, <1>7

(* An atos run that closes is the only one, and its session's fields are   *)
(* still in place.                                                         *)
LEMMA SymbolsClosed ==
    ASSUME Known, NEW r \in resolving, ~crashed
    PROVE  /\ resolving = {r} /\ ~isProfiling /\ callStack = <<>>
           /\ r.cb = cb /\ r.profile = cb /\ cpuProfile = cb
           /\ cb \in Sessions /\ Unanswered(cb)
<1>1. /\ \A q \in resolving : q = r
      /\ r.cb = cb /\ r.profile = cpuProfile /\ ~isProfiling /\ ~misdelivered
      /\ callStack = <<>>
  BY DEF Known, SerialInv, AnswersItsCaller, SessionsApart
<1>2. r.profile = r.cb /\ Unanswered(r.cb)
  BY <1>1 DEF Known, Accounts, OpenSessions
<1>3. r.cb \in Sessions
  BY DEF Known, TypeInv, TypeOK
<1>4. QED
  BY <1>1, <1>2, <1>3

-----------------------------------------------------------------------------
(* Sampled process *)

(* A stack is read from the process the tracer was made for, and that is   *)
(* the one self.pid names as long as the session holds the fields.         *)
SampledInv ==
    /\ \A s \in Sessions : s > nCalls => stacks[s] = {}
    /\ callStack # <<>> =>
          tracer = callStack[1] /\ stacks[callStack[1]] = {}
    /\ isProfiling =>
          tracers[tracer].pid = pid /\ \A x \in stacks[cpuProfile] : x.pid = pid
    /\ SymbolsFromSampledProcess

(* With a client that waits for its answers the addresses atos is given    *)
(* all come from the process it is told to look them up in, although       *)
(* self.pid is read only when the session ends (index.js:181).             *)
THEOREM SymbolsAreOfSampledProcess ==
    ASSUME Serial
    PROVE  Spec => []SymbolsFromSampledProcess
<1>1. Init => SampledInv
  BY DEF Init, SampledInv, SymbolsFromSampledProcess
<1>2. Known /\ SampledInv /\ [Next]_vars => SampledInv'
  <2> SUFFICES ASSUME Known, SampledInv, [Next]_vars PROVE SampledInv'
    OBVIOUS
  <2> USE DEF selfVars, timerVars, arrayVars, clientVars
  <2>0. Sessions \subseteq Nat /\ nCalls \in Nat
    BY SessionsType, ProfilerAssumption DEF Known, TypeInv, TypeOK
  <2>1. ASSUME /\ UNCHANGED <<isProfiling, pid, cpuProfile, tracer, tracers, stacks,
                              callStack>>
               /\ nCalls' \in {nCalls, nCalls + 1}
               /\ resolving' \subseteq resolving
        PROVE  SampledInv'
    BY <2>0, <2>1 DEF SampledInv, SymbolsFromSampledProcess
  <2>2. CASE ProfileRejected
    BY <2>1, <2>2 DEF ProfileRejected
  <2>3. ASSUME NEW p \in Pids, Profile(p) PROVE SampledInv'
    <3> DEFINE s == nCalls + 1
    <3>1. /\ resolving' = {} /\ s \in Sessions /\ nCalls' = s /\ tracer' = s
          /\ tracers'[s].pid = p /\ stacks' = stacks
          /\ \/ StartSession(s, p) /\ callStack' = <<>>
             \/ /\ isProfiling' = isProfiling /\ ~isProfiling
                /\ callStack' \in {<<>>, <<s>>}
      <4>1. /\ resolving' = {} /\ s \in Sessions /\ nCalls' = s /\ tracer' = s
            /\ tracers'[s].pid = p /\ stacks' = stacks /\ ~isProfiling
        BY <2>3, ProfileBegins
      <4>2. \/ StartSession(s, p) /\ callStack' = <<>>
            \/ isProfiling' = isProfiling /\ callStack' \in {<<>>, <<s>>}
        BY <2>3, ProfileBegins
      <4>3. QED
        BY <4>1, <4>2
    <3>2. stacks[s] = {} /\ \A t \in Sessions : t > s => stacks[t] = {}
      <4>1. s > nCalls /\ \A t \in Sessions : t > s => t > nCalls
        BY <2>0
      <4>2. \A t \in Sessions : t > nCalls => stacks[t] = {}
        BY DEF SampledInv
      <4>3. s \in Sessions
        BY <3>1
      <4> HIDE DEF s
      <4>4. QED
        BY <4>1, <4>2, <4>3
    <3>3. CASE StartSession(s, p) /\ callStack' = <<>>
      BY <3>1, <3>2, <3>3 DEF StartSession, SampledInv, SymbolsFromSampledProcess
    <3>4. CASE isProfiling' = isProfiling /\ ~isProfiling /\ callStack' \in {<<>>, <<s>>}
      BY <3>1, <3>2, <3>4 DEF SampledInv, SymbolsFromSampledProcess
    <3>5. QED
      BY <3>1, <3>3, <3>4
  <2>4. CASE ProfileContinues
    <3>1. /\ callStack # <<>> /\ callStack' = <<>> /\ resolving' = {}
          /\ StartSession(callStack[1], tracers[callStack[1]].pid)
          /\ UNCHANGED <<tracer, tracers, stacks, nCalls>>
      BY <2>4, ProfileGoesOn DEF ProfileContinues
    <3>2. QED
      BY <3>1 DEF SampledInv, StartSession, SymbolsFromSampledProcess
  <2>5. ASSUME NEW thrown \in BOOLEAN, Stop(thrown), isProfiling, ~crashed,
               callStack = <<>> => callStack' = <<>>
        PROVE  SampledInv'
    <3>1. /\ callStack' = <<>> /\ resolving = {} /\ ~isProfiling'
          /\ UNCHANGED <<stacks, nCalls>>
      BY <2>5, ActiveSession, StopType DEF Known
    <3>2. \A r \in resolving' : r.profile = cpuProfile /\ r.pid = pid
      BY <2>5, <3>1, StopResolving DEF Known
    <3>3. QED
      BY <2>5, <3>1, <3>2 DEF SampledInv, SymbolsFromSampledProcess
  <2>6. CASE StopProfiling
    <3>1. callStack = <<>> => callStack' = <<>>
      BY <2>6, UnwindType DEF StopProfiling, Known, TypeInv, TypeOK
    <3>2. QED
      BY <2>5, <2>6, <3>1 DEF StopProfiling
  <2>7. ASSUME NEW c \in Sessions, OnProfileEnd(c) PROVE SampledInv'
    <3>1. CASE isProfiling
      BY <2>5, <2>7, <3>1 DEF OnProfileEnd
    <3>2. CASE ~isProfiling
      BY <2>1, <2>7, <3>2 DEF OnProfileEnd
    <3>3. QED
      BY <3>1, <3>2
  <2>8. ASSUME NEW c \in Sessions, SampleAndContinue(c) PROVE SampledInv'
    <3>1. CASE isProfiling
      <4>1. /\ callStack = <<>> /\ resolving = {} /\ cb <= nCalls /\ cpuProfile = cb
            /\ cb \in Sessions
        BY <2>8, <3>1, ActiveSession DEF SampleAndContinue
      <4>2. /\ UNCHANGED <<isProfiling, pid, cpuProfile, tracer, resolving, callStack, nCalls>>
            /\ tracers'[tracer].pid = tracers[tracer].pid
            /\ \A s \in Sessions : \A x \in stacks'[s] :
                 x \in stacks[s] \/ (s = cpuProfile /\ x.pid = tracers[tracer].pid)
        BY <2>8, <3>1, SessionSamples
      <4>3. \A s \in Sessions : s > nCalls => stacks'[s] = {}
        <5>1. cb \in Nat /\ \A s \in Sessions : s > nCalls => stacks[s] = {}
          BY <2>0, <4>1 DEF SampledInv
        <5>2. ASSUME NEW s \in Sessions, s > nCalls, NEW x \in stacks'[s]
              PROVE  FALSE
          <6>1. x \notin stacks[s] /\ s # cpuProfile
            BY <2>0, <4>1, <5>1, <5>2
          <6>2. QED
            BY <4>2, <5>2, <6>1
        <5>3. QED
          BY <5>2
      <4>4. QED
        BY <3>1, <4>1, <4>2, <4>3 DEF SampledInv, SymbolsFromSampledProcess
    <3>2. CASE ~isProfiling
      BY <2>1, <2>8, <3>2 DEF SampleAndContinue
    <3>3. QED
      BY <3>1, <3>2
  <2>9. ASSUME NEW r \in resolving, SymbolsFail(r) \/ SpawnFails(r) PROVE SampledInv'
    BY <2>1, <2>9 DEF SymbolsFail, SpawnFails
  <2>10. ASSUME NEW r \in resolving, SymbolsResolved(r) PROVE SampledInv'
    <3>1. /\ resolving' = {} /\ callStack' = <<>> /\ ~isProfiling'
          /\ UNCHANGED <<stacks, nCalls>>
      BY <2>10, SymbolsClosed DEF SymbolsResolved, ReturnCPUProfile, ResetFields
    <3>2. QED
      BY <3>1 DEF SampledInv, SymbolsFromSampledProcess
  <2>11. ASSUME NEW p \in Pids, TargetExits(p) PROVE SampledInv'
    BY <2>1, <2>11 DEF TargetExits
  <2>12. CASE UNCHANGED vars
    BY <2>1, <2>12 DEF vars
  <2>13. QED
    BY <2>2, <2>3, <2>4, <2>6, <2>7, <2>8, <2>9, <2>10, <2>11, <2>12 DEF Next
<1>3. SampledInv => SymbolsFromSampledProcess
  BY DEF SampledInv
<1>4. Spec => []Known
  BY KnownInvariant
<1>5. QED
  BY <1>1, <1>2, <1>3, <1>4, PTL DEF Spec

-----------------------------------------------------------------------------
(* ProfileCalls *)

(* Only a session that was told of a failed attach has a tracer that may   *)
(* throw in a backtrace, and no active session has one that may throw in a *)
(* detach: that would have thrown out of profile() before.                 *)
ReaderInv ==
    /\ callStack # <<>> =>
          /\ tracer = callStack[1]
          /\ Calls!AttachFailed(callStack[1])
          /\ ~DetachThrows(tracers[tracer])
    /\ isProfiling =>
          /\ MayThrow(tracers[tracer]) => Calls!AttachFailed(cb)
          /\ ~DetachThrows(tracers[tracer])

LEMMA TellsCall ==
    ASSUME NEW s, NEW kind, NEW a, Tell(s, kind, a)
    PROVE  Calls!Tell(s, kind, a)
BY DEF Tell, Calls!Tell, Calls!Told

LEMMA ToldOfAttach ==
    ASSUME Known, NEW s \in Sessions, Tell(s, "attachErr", None)
    PROVE  Calls!Told("attachErr", Calls!None) \in {calls'[s][i] : i \in DOMAIN calls'[s]}
<1>1. calls \in [Sessions -> Seq(Told)]
  BY DEF Known, TypeInv, TypeOK
<1>2. calls'[s] = Append(calls[s], [kind |-> "attachErr", profile |-> None])
  BY <1>1 DEF Tell
<1>3. /\ Len(calls[s]) + 1 \in DOMAIN calls'[s]
      /\ calls'[s][Len(calls[s]) + 1] = [kind |-> "attachErr", profile |-> None]
  BY <1>1, <1>2
<1>4. QED
  BY <1>3 DEF Calls!Told, Calls!None, None

LEMMA ReaderInvariant ==
    ASSUME Serial
    PROVE  Spec => []ReaderInv
<1>1. Init => ReaderInv
  BY DEF Init, ReaderInv
<1>2. Known /\ ReaderInv /\ [Next]_vars => ReaderInv'
  <2> SUFFICES ASSUME Known, ReaderInv, [Next]_vars PROVE ReaderInv'
    OBVIOUS
  <2> USE DEF selfVars, timerVars, arrayVars, clientVars
  <2>1. ASSUME UNCHANGED <<isProfiling, cb, tracer, tracers, calls, callStack>>
        PROVE  ReaderInv'
    BY <2>1 DEF ReaderInv, Calls!AttachFailed
  <2>2. ASSUME ~isProfiling', callStack' = <<>>
        PROVE  ReaderInv'
    BY <2>2 DEF ReaderInv
  <2>3. CASE ProfileRejected
    <3>1. ~isProfiling => ~isProfiling'
      BY <2>3 DEF ProfileRejected
    <3>2. callStack = <<>> /\ callStack' = callStack
      BY <2>3 DEF ProfileRejected, ClientMayCall, Serial
    <3>3. CASE isProfiling
      <4>1. cb \in Sessions /\ cb <= nCalls /\ ~crashed
        BY <2>3, <3>3, ActiveSession DEF ProfileRejected, ClientMayCall
      <4>2. nCalls + 1 # cb
        BY <4>1, SessionsType, ProfilerAssumption DEF Known, TypeInv, TypeOK
      <4>3. calls'[cb] = calls[cb]
        BY <2>3, <4>1, <4>2 DEF ProfileRejected, Tell, Known, TypeInv, TypeOK
      <4>4. UNCHANGED <<isProfiling, cb, tracer, tracers>>
        BY <2>3 DEF ProfileRejected
      <4>5. QED
        BY <3>2, <3>3, <4>3, <4>4 DEF ReaderInv, Calls!AttachFailed
    <3>4. QED
      BY <2>2, <3>1, <3>2, <3>3
  <2>4. ASSUME NEW p \in Pids, Profile(p) PROVE ReaderInv'
    <3>1. nCalls + 1 \in Sessions /\ tracer' = nCalls + 1 /\ ~isProfiling
      BY <2>4, ProfileBegins
    <3>2. \/ /\ StartSession(nCalls + 1, p) /\ callStack' = <<>>
             /\ ~MayThrow(tracers'[nCalls + 1]) /\ ~DetachThrows(tracers'[nCalls + 1])
          \/ /\ Tell(nCalls + 1, "attachErr", None)
             /\ callStack' = <<nCalls + 1>> /\ isProfiling' = isProfiling
             /\ ~DetachThrows(tracers'[nCalls + 1])
          \/ callStack' = <<>> /\ isProfiling' = isProfiling
      BY <2>4, ProfileBegins
    <3>3. CASE /\ StartSession(nCalls + 1, p) /\ callStack' = <<>>
               /\ ~MayThrow(tracers'[nCalls + 1]) /\ ~DetachThrows(tracers'[nCalls + 1])
      BY <3>1, <3>3 DEF ReaderInv, MayThrow, DetachThrows
    <3>4. CASE /\ Tell(nCalls + 1, "attachErr", None)
               /\ callStack' = <<nCalls + 1>> /\ isProfiling' = isProfiling
               /\ ~DetachThrows(tracers'[nCalls + 1])
      <4>1. Calls!Told("attachErr", Calls!None)
                \in {calls'[nCalls + 1][i] : i \in DOMAIN calls'[nCalls + 1]}
        BY <3>1, <3>4, ToldOfAttach
      <4>2. callStack'[1] = nCalls + 1
        BY <3>4
      <4>3. QED
        BY <3>1, <3>4, <4>1, <4>2 DEF ReaderInv, DetachThrows, Calls!AttachFailed
    <3>5. CASE callStack' = <<>> /\ isProfiling' = isProfiling
      BY <2>2, <3>1, <3>5
    <3>6. QED
      BY <3>2, <3>3, <3>4, <3>5
  <2>5. CASE ProfileContinues
    <3>1. /\ callStack # <<>> /\ callStack' = <<>>
          /\ StartSession(callStack[1], tracers[callStack[1]].pid)
          /\ UNCHANGED <<tracer, tracers, calls>>
      BY <2>5, ProfileGoesOn DEF ProfileContinues
    <3>2. QED
      BY <3>1 DEF ReaderInv, StartSession, DetachThrows, Calls!AttachFailed
  <2>6. CASE StopProfiling
    BY <2>2, <2>6, SessionStops DEF StopProfiling, ReaderInv
  <2>7. ASSUME NEW c \in Sessions, OnProfileEnd(c) PROVE ReaderInv'
    <3>1. CASE isProfiling
      BY <2>2, <2>7, <3>1, SessionStops DEF ReaderInv
    <3>2. CASE ~isProfiling
      BY <2>1, <2>7, <3>2 DEF OnProfileEnd
    <3>3. QED
      BY <3>1, <3>2
  <2>8. ASSUME NEW c \in Sessions, SampleAndContinue(c) PROVE ReaderInv'
    <3>1. CASE isProfiling
      <4>1. /\ UNCHANGED <<isProfiling, cb, tracer, callStack, calls>>
            /\ callStack = <<>>
            /\ MayThrow(tracers'[tracer]) = MayThrow(tracers[tracer])
            /\ DetachThrows(tracers'[tracer]) = DetachThrows(tracers[tracer])
        BY <2>8, <3>1, SessionSamples
      <4>2. QED
        BY <3>1, <4>1 DEF ReaderInv, MayThrow, DetachThrows, Calls!AttachFailed
    <3>2. CASE ~isProfiling
      BY <2>1, <2>8, <3>2 DEF SampleAndContinue
    <3>3. QED
      BY <3>1, <3>2
  <2>9. ASSUME NEW r \in resolving,
               SymbolsFail(r) \/ SymbolsResolved(r) \/ SpawnFails(r)
        PROVE  ReaderInv'
    <3>1. ~isProfiling /\ callStack = <<>>
      BY <2>9, SymbolsClosed DEF SymbolsFail, SymbolsResolved, SpawnFails
    <3>2. UNCHANGED <<isProfiling, callStack>>
      BY <2>9 DEF SymbolsFail, SymbolsResolved, SpawnFails, ReturnCPUProfile, ResetFields
    <3>3. QED
      BY <2>2, <3>1, <3>2
  <2>10. ASSUME NEW p \in Pids, TargetExits(p) PROVE ReaderInv'
    BY <2>1, <2>10 DEF TargetExits
  <2>11. CASE UNCHANGED vars
    BY <2>1, <2>11 DEF vars
  <2>12. QED
    BY <2>3, <2>4, <2>5, <2>6, <2>7, <2>8, <2>9, <2>10, <2>11 DEF Next
<1>3. Spec => []Known
  BY KnownInvariant
<1>4. QED
  BY <1>1, <1>2, <1>3, PTL DEF Spec

(* The values of `active` and `waits` in each situation of a session.      *)
Waits == ~crashed /\ \E r \in resolving : ~HasNative(r.profile)

Idle == ~isProfiling /\ callStack = <<>> /\ resolving = {}

LEMMA NoCall ==
    /\ crashed \/ Idle => ActiveCall = None /\ ~Waits
    /\ crashed' \/ Idle' => ActiveCall' = None /\ ~Waits'
BY DEF Idle, Waits, ActiveCall

LEMMA CallInProfile ==
    /\ ~crashed /\ callStack # <<>> => ActiveCall = callStack[Len(callStack)]
    /\ ~crashed' /\ callStack' # <<>> => ActiveCall' = callStack'[Len(callStack')]
BY DEF ActiveCall

LEMMA CallProfiling ==
    /\ ~crashed /\ callStack = <<>> /\ isProfiling => ActiveCall = cb
    /\ ~crashed' /\ callStack' = <<>> /\ isProfiling' => ActiveCall' = cb'
BY DEF ActiveCall

LEMMA CallResolving ==
    ASSUME NEW r
    PROVE  /\ ~crashed /\ callStack = <<>> /\ ~isProfiling /\ resolving = {r}
                => ActiveCall = r.cb /\ Waits = ~HasNative(r.profile)
           /\ ~crashed' /\ callStack' = <<>> /\ ~isProfiling' /\ resolving' = {r}
                => ActiveCall' = r.cb
<1>1. \A S : S = {r} => (\E q \in S : TRUE) /\ (CHOOSE q \in S : TRUE) = r
  OBVIOUS
<1>2. resolving = {r} => Waits = (~crashed /\ ~HasNative(r.profile))
  BY DEF Waits
<1>3. ASSUME ~crashed, callStack = <<>>, ~isProfiling, resolving = {r}
      PROVE  ActiveCall = r.cb
  BY <1>1, <1>3 DEF ActiveCall
<1>4. ASSUME ~crashed', callStack' = <<>>, ~isProfiling', resolving' = {r}
      PROVE  ActiveCall' = r.cb
  BY <1>1, <1>4 DEF ActiveCall
<1>5. QED
  BY <1>2, <1>3, <1>4

LEMMA NoWait ==
    /\ resolving = {} => ~Waits
    /\ resolving' = {} => ~Waits'
BY DEF Waits

LEMMA CallUnchanged ==
    ASSUME UNCHANGED <<crashed, callStack, isProfiling, cb, resolving, stacks>>
    PROVE  ActiveCall' = ActiveCall /\ Waits' = Waits
BY DEF ActiveCall, Waits, HasNative

(* A client that waits for its answers sees ProfileCalls: each step of     *)
(* index.js is a step of its calls or is hidden from it, whatever timers,  *)
(* tracers and atos do meanwhile.                                          *)
THEOREM ImplementsCalls ==
    ASSUME Serial
    PROVE  Spec => Calls!Spec
<1>1. Init => Calls!Init
  BY DEF Init, Calls!Init, Calls!Sessions, Sessions, Calls!None, None, ActiveCall
<1>2. Known /\ ReaderInv /\ [Next]_vars => [Calls!Next]_(Calls!vars)
  <2> SUFFICES ASSUME Known, ReaderInv, [Next]_vars
               PROVE  Calls!Next \/ UNCHANGED Calls!vars
    OBVIOUS
  <2> USE DEF selfVars, timerVars, arrayVars, clientVars, Calls!None, None
  <2>1. ASSUME UNCHANGED <<nCalls, calls, crashed>>, ActiveCall' = ActiveCall,
               Waits' <=> Waits
        PROVE  UNCHANGED Calls!vars
    <3>1. Waits' = Waits
      BY <2>1 DEF Waits
    <3>2. QED
      BY <2>1, <3>1 DEF Calls!vars, Waits
  <2>2. CASE ProfileRejected
    <3>1. ActiveCall' = ActiveCall /\ Waits' = Waits
      BY <2>2, CallUnchanged DEF ProfileRejected
    <3>2. Calls!Tell(nCalls', "rejected", None)
      BY <2>2, TellsCall DEF ProfileRejected
    <3>3. Calls!Refuse
      BY <2>2, <3>1, <3>2 DEF ProfileRejected, ClientMayCall, Calls!Refuse, Calls!Call, Waits
    <3>4. QED
      BY <3>3 DEF Calls!Next
  <2>3. ASSUME NEW p \in Pids, Profile(p) PROVE Calls!Next
    <3>1. /\ ~crashed /\ Idle /\ resolving' = {}
          /\ nCalls < MaxSessions /\ nCalls' = nCalls + 1
      BY <2>3, ProfileBegins DEF Idle
    <3>2. ActiveCall = None /\ ~Waits /\ ~Waits'
      BY <3>1, NoCall, NoWait
    <3>3. Calls!Call
      BY <3>1 DEF Calls!Call
    <3>4. \/ /\ StartSession(nCalls + 1, p) /\ callStack' = <<>>
             /\ UNCHANGED <<calls, crashed>>
          \/ /\ Tell(nCalls + 1, "attachErr", None)
             /\ callStack' = <<nCalls + 1>>
             /\ UNCHANGED <<isProfiling, crashed>>
          \/ /\ Tell(nCalls + 1, "threw", None)
             /\ callStack' = <<>>
             /\ UNCHANGED isProfiling
             /\ crashed' \in BOOLEAN
      BY <2>3, ProfileBegins
    <3>5. CASE /\ StartSession(nCalls + 1, p) /\ callStack' = <<>>
               /\ UNCHANGED <<calls, crashed>>
      <4>1. ActiveCall' = nCalls'
        BY <3>1, <3>5, CallProfiling DEF StartSession
      <4>2. Calls!Begin
        BY <3>2, <3>3, <3>5, <4>1 DEF Calls!Begin, Waits
      <4>3. QED
        BY <4>2 DEF Calls!Next
    <3>6. CASE /\ Tell(nCalls + 1, "attachErr", None)
               /\ callStack' = <<nCalls + 1>>
               /\ UNCHANGED <<isProfiling, crashed>>
      <4>1. ActiveCall' = nCalls'
        BY <3>1, <3>6, CallInProfile
      <4>2. Calls!Tell(nCalls', "attachErr", None)
        BY <3>1, <3>6, TellsCall
      <4>3. Calls!BeginUnattached
        BY <3>2, <3>3, <3>6, <4>1, <4>2 DEF Calls!BeginUnattached, Waits
      <4>4. QED
        BY <4>3 DEF Calls!Next
    <3>7. CASE /\ Tell(nCalls + 1, "threw", None)
               /\ callStack' = <<>>
               /\ UNCHANGED isProfiling
               /\ crashed' \in BOOLEAN
      <4>1. Idle'
        BY <3>1, <3>7 DEF Idle
      <4>2. ActiveCall' = None
        BY <4>1, NoCall
      <4>3. Calls!Tell(nCalls', "threw", None)
        BY <3>1, <3>7, TellsCall
      <4>4. Calls!Throw
        BY <3>2, <3>3, <3>7, <4>2, <4>3 DEF Calls!Throw, Waits
      <4>5. QED
        BY <4>4 DEF Calls!Next
    <3>8. QED
      BY <3>4, <3>5, <3>6, <3>7
  <2>4. CASE ProfileContinues
    <3>1. /\ ~crashed /\ resolving = {} /\ resolving' = {} /\ callStack # <<>>
          /\ Len(callStack) = 1 /\ callStack' = <<>>
          /\ StartSession(callStack[1], tracers[callStack[1]].pid)
          /\ UNCHANGED <<nCalls, calls, crashed>>
      BY <2>4, ProfileGoesOn DEF ProfileContinues
    <3>2. ActiveCall = callStack[1] /\ ~Waits
      BY <3>1, CallInProfile, NoWait
    <3>3. ActiveCall' = callStack[1] /\ ~Waits'
      BY <3>1, CallProfiling, NoWait DEF StartSession
    <3>4. QED
      BY <2>1, <3>1, <3>2, <3>3
  <2>5. ASSUME isProfiling, StopProfiling \/ (\E c \in Sessions : OnProfileEnd(c))
        PROVE  Calls!Next \/ UNCHANGED Calls!vars
    <3>1. /\ ~crashed /\ ~crashed' /\ callStack' = <<>> /\ ~isProfiling'
          /\ UNCHANGED <<cb, nCalls, stacks, crashed>>
          /\ \/ /\ resolving' = {[profile |-> cb, pid |-> pid, cb |-> cb]}
                /\ UNCHANGED calls
             \/ /\ resolving' = {}
                /\ Tell(cb, "detachErr", None)
      BY <2>5, SessionStops DEF ReaderInv
    <3>2. callStack = <<>> /\ resolving = {} /\ cb \in Sessions
      BY <2>5, <3>1, ActiveSession
    <3>3. ActiveCall = cb /\ ~Waits /\ ActiveCall # None
      BY <2>5, <3>1, <3>2, CallProfiling, NoWait, SessionsType
    <3>4. CASE /\ resolving' = {[profile |-> cb, pid |-> pid, cb |-> cb]}
               /\ UNCHANGED calls
      <4>1. ActiveCall' = cb
        <5> DEFINE r == [profile |-> cb, pid |-> pid, cb |-> cb]
        <5>1. resolving' = {r} /\ r.cb = cb
          BY <3>4
        <5> HIDE DEF r
        <5>2. QED
          BY <3>1, <5>1, CallResolving
      <4>2. CASE Waits'
        <5>1. Calls!Wait
          BY <3>1, <3>3, <3>4, <4>1, <4>2 DEF Calls!Wait, Waits
        <5>2. QED
          BY <5>1 DEF Calls!Next
      <4>3. CASE ~Waits'
        BY <2>1, <3>1, <3>3, <3>4, <4>1, <4>3
      <4>4. QED
        BY <4>2, <4>3
    <3>5. CASE resolving' = {} /\ Tell(cb, "detachErr", None)
      <4>1. ActiveCall' = None /\ ~Waits'
        BY <3>1, <3>5, NoCall, NoWait DEF Idle
      <4>2. Calls!Tell(ActiveCall, "detachErr", None)
        BY <3>3, <3>5, TellsCall
      <4>3. Calls!End
        BY <3>1, <3>3, <4>1, <4>2 DEF Calls!End, Waits
      <4>4. QED
        BY <4>3 DEF Calls!Next
    <3>6. QED
      BY <3>1, <3>4, <3>5
  <2>6. ASSUME NEW c \in Sessions, OnProfileEnd(c)
        PROVE  Calls!Next \/ UNCHANGED Calls!vars
    <3>1. CASE isProfiling
      BY <2>5, <2>6, <3>1
    <3>2. CASE ~isProfiling
      <4>1. UNCHANGED <<crashed, callStack, isProfiling, cb, resolving, stacks, nCalls, calls>>
        BY <2>6, <3>2 DEF OnProfileEnd
      <4>2. QED
        BY <2>1, <4>1, CallUnchanged
    <3>3. QED
      BY <3>1, <3>2
  <2>7. ASSUME NEW c \in Sessions, SampleAndContinue(c)
        PROVE  Calls!Next \/ UNCHANGED Calls!vars
    <3>1. CASE isProfiling
      <4>1. /\ ~crashed /\ callStack = <<>>
            /\ UNCHANGED <<isProfiling, cb, resolving, callStack, nCalls, calls>>
            /\ UNCHANGED crashed \/ (crashed' /\ MayThrow(tracers[tracer]))
        BY <2>7, <3>1, SessionSamples
      <4>2. resolving = {} /\ cb \in Sessions
        BY <3>1, <4>1, ActiveSession
      <4>3. ActiveCall = cb /\ ActiveCall # None /\ ~Waits /\ ~Waits'
        BY <3>1, <4>1, <4>2, CallProfiling, NoWait, SessionsType
      <4>4. CASE UNCHANGED crashed
        <5>1. ActiveCall' = cb
          BY <3>1, <4>1, <4>4, CallProfiling
        <5>2. QED
          BY <2>1, <4>1, <4>3, <4>4, <5>1
      <4>5. CASE crashed' /\ MayThrow(tracers[tracer])
        <5>1. Calls!AttachFailed(ActiveCall)
          BY <3>1, <4>3, <4>5 DEF ReaderInv, Calls!AttachFailed
        <5>2. ActiveCall' = None
          BY <4>5, NoCall
        <5>3. crashed' = TRUE
          BY <2>7, <3>1, <4>1, <4>5 DEF SampleAndContinue
        <5>4. Calls!Crash
          BY <4>1, <4>3, <5>1, <5>2, <5>3 DEF Calls!Crash, Waits
        <5>5. QED
          BY <5>4 DEF Calls!Next
      <4>6. QED
        BY <4>1, <4>4, <4>5
    <3>2. CASE ~isProfiling
      <4>1. UNCHANGED <<crashed, callStack, isProfiling, cb, resolving, stacks, nCalls, calls>>
        BY <2>7, <3>2 DEF SampleAndContinue
      <4>2. QED
        BY <2>1, <4>1, CallUnchanged
    <3>3. QED
      BY <3>1, <3>2
  <2>8. ASSUME NEW r \in resolving,
               SymbolsFail(r) \/ SymbolsResolved(r) \/ SpawnFails(r)
        PROVE  Calls!Next
    <3>1. ~crashed
      BY <2>8 DEF SymbolsFail, SymbolsResolved, SpawnFails
    <3>2. /\ resolving = {r} /\ ~isProfiling /\ callStack = <<>>
          /\ r.cb = cb /\ r.profile = cb /\ cpuProfile = cb /\ cb \in Sessions
      BY <3>1, SymbolsClosed
    <3>3. ActiveCall = cb /\ ActiveCall # None /\ Waits = ~HasNative(r.profile)
      BY <3>1, <3>2, CallResolving, SessionsType
    <3>4. resolving' = {} /\ UNCHANGED <<isProfiling, callStack, nCalls>>
      BY <2>8, <3>2 DEF SymbolsFail, SymbolsResolved, SpawnFails, ReturnCPUProfile,
                        ResetFields
    <3>5. ActiveCall' = None /\ ~Waits'
      BY <3>2, <3>4, NoCall, NoWait DEF Idle
    <3>6. CASE SymbolsFail(r)
      <4>1. Calls!Tell(ActiveCall, "symbolErr", None)
        BY <3>2, <3>3, <3>6, TellsCall DEF SymbolsFail
      <4>2. Calls!End
        BY <3>1, <3>3, <3>4, <3>5, <3>6, <4>1 DEF Calls!End, Waits, SymbolsFail
      <4>3. QED
        BY <4>2 DEF Calls!Next
    <3>7. CASE SymbolsResolved(r)
      <4>1. Calls!Tell(ActiveCall, "ok", ActiveCall)
        BY <3>2, <3>3, <3>7, TellsCall DEF SymbolsResolved, ReturnCPUProfile
      <4>2. ~Waits
        BY <3>3, <3>7 DEF SymbolsResolved
      <4>3. Calls!End
        BY <3>1, <3>3, <3>4, <3>5, <3>7, <4>1, <4>2 DEF Calls!End, Waits, SymbolsResolved
      <4>4. QED
        BY <4>3 DEF Calls!Next
    <3>8. CASE SpawnFails(r)
      <4>1. Calls!Crash
        BY <3>1, <3>3, <3>4, <3>5, <3>8 DEF Calls!Crash, Waits, SpawnFails
      <4>2. QED
        BY <4>1 DEF Calls!Next
    <3>9. QED
      BY <2>8, <3>6, <3>7, <3>8
  <2>9. ASSUME NEW p \in Pids, TargetExits(p) PROVE UNCHANGED Calls!vars
    BY <2>1, <2>9, CallUnchanged DEF TargetExits
  <2>10. CASE UNCHANGED vars
    BY <2>1, <2>10, CallUnchanged DEF vars
  <2>11. CASE StopProfiling
    BY <2>5, <2>11 DEF StopProfiling
  <2>12. QED
    BY <2>2, <2>3, <2>4, <2>6, <2>7, <2>8, <2>9, <2>10, <2>11 DEF Next
<1>3. Spec => []Known
  BY KnownInvariant
<1>4. Spec => []ReaderInv
  BY ReaderInvariant
<1>5. QED
  BY <1>1, <1>2, <1>3, <1>4, PTL DEF Spec, Calls!Spec

-----------------------------------------------------------------------------
(* Timers left behind *)

Running == isProfiling \/ resolving # {}

(* The chains of samples that no session will stop.                        *)
Orphans == IF Running THEN pendingSample \ {sampleTimer} ELSE pendingSample

(* The bound of TimersOutliveOnlyFailures counts the running session's     *)
(* chain as one; but any chain may be the one whose timer it will clear,   *)
(* so it is the others that have to be counted.                            *)
TimersInv ==
    ~crashed =>
        /\ Cardinality(Orphans) <= Cardinality(Failed)
        /\ isProfiling => sampleTimer \in pendingSample
        /\ resolving # {} => profileTimer = cb
        /\ \A s \in pendingProfile : s \in Failed \/ (s = cb /\ Running)

LEMMA Counts ==
    ASSUME NEW T, IsFiniteSet(T)
    PROVE  /\ Cardinality(T) \in Nat
           /\ \A S : S \subseteq T => IsFiniteSet(S) /\ Cardinality(S) \in Nat
                                      /\ Cardinality(S) <= Cardinality(T)
           /\ \A x : /\ Cardinality(T) <= Cardinality(T \ {x}) + 1
                     /\ x \notin T => Cardinality(T \cup {x}) = Cardinality(T) + 1
                     /\ Cardinality(T \ {x}) \in Nat
           /\ \A x, y \in T : Cardinality(T \ {x}) = Cardinality(T \ {y})
<1>1. Cardinality(T) \in Nat
  BY FS_CardinalityType
<1>2. ASSUME NEW S, S \subseteq T
      PROVE  IsFiniteSet(S) /\ Cardinality(S) \in Nat /\ Cardinality(S) <= Cardinality(T)
  BY <1>2, FS_Subset, FS_CardinalityType
<1>3. ASSUME NEW x
      PROVE  /\ Cardinality(T) <= Cardinality(T \ {x}) + 1
             /\ x \notin T => Cardinality(T \cup {x}) = Cardinality(T) + 1
             /\ Cardinality(T \ {x}) \in Nat
  <2>1. Cardinality(T \ {x}) = IF x \in T THEN Cardinality(T) - 1 ELSE Cardinality(T)
    BY FS_RemoveElement
  <2>2. x \notin T => Cardinality(T \cup {x}) = Cardinality(T) + 1
    BY FS_AddElement
  <2>3. Cardinality(T \ {x}) \in Nat
    BY <1>2
  <2>4. QED
    BY <1>1, <2>1, <2>2, <2>3
<1>4. ASSUME NEW x \in T, NEW y \in T
      PROVE  Cardinality(T \ {x}) = Cardinality(T \ {y})
  BY FS_RemoveElement
<1>5. QED
  BY <1>1, <1>2, <1>3, <1>4

LEMMA SessionsFinite ==
    ASSUME NEW S, S \subseteq Sessions
    PROVE  IsFiniteSet(S)
<1>1. MaxSessions \in Int /\ 1 \in Int
  BY ProfilerAssumption
<1>2. IsFiniteSet(Sessions)
  BY <1>1, FS_Interval DEF Sessions
<1>3. QED
  BY <1>2, FS_Subset

LEMMA FailedSessions ==
    /\ Failed \subseteq Sessions /\ Failed' \subseteq Sessions
    /\ calls' = calls => Failed' = Failed
    /\ \A s : Unanswered(s) => s \notin Failed
BY DEF Failed, WasTold, Unanswered

LEMMA TellFails ==
    ASSUME Known, NEW s \in Sessions, NEW a \in Sessions \cup {None},
           NEW kind \in {"rejected", "attachErr", "threw", "detachErr", "symbolErr", "ok"},
           Tell(s, kind, a)
    PROVE  /\ Failed \subseteq Failed'
           /\ kind \in {"detachErr", "symbolErr"} => s \in Failed'
<1>1. calls \in [Sessions -> Seq(Told)]
  BY DEF Known, TypeInv, TypeOK
<1>2. PICK e \in Told :
         /\ e.kind = kind
         /\ calls'[s] = Append(calls[s], e)
         /\ \A x \in Sessions : x # s => calls'[x] = calls[x]
  BY <1>1, OneMoreTold
<1>3. /\ \A i \in DOMAIN calls[s] : i \in DOMAIN calls'[s] /\ calls'[s][i] = calls[s][i]
      /\ Len(calls[s]) + 1 \in DOMAIN calls'[s]
      /\ calls'[s][Len(calls[s]) + 1].kind = kind
  BY <1>1, <1>2
<1>4. ASSUME NEW x \in Failed
      PROVE  x \in Failed'
  BY <1>2, <1>3, <1>4 DEF Failed, WasTold
<1>5. QED
  BY <1>3, <1>4 DEF Failed, WasTold

(* Only sessions that ended in an error leave timers behind, one chain of  *)
(* samples each and their own profile timer (every error path of index.js  *)
(* returns before returnCPUProfile clears them).                           *)
THEOREM OnlyFailuresLeaveTimers ==
    ASSUME Serial
    PROVE  Spec => []TimersOutliveOnlyFailures
<1>1. Init => TimersInv
  <2>1. IsFiniteSet(Failed) /\ Cardinality({}) = 0
    BY FailedSessions, SessionsFinite, FS_EmptySet
  <2>2. Cardinality(Failed) \in Nat
    BY <2>1, Counts
  <2>3. QED
    BY <2>1, <2>2 DEF Init, TimersInv, Orphans, Running
<1>2. Known /\ Known' /\ ReaderInv /\ TimersInv /\ [Next]_vars => TimersInv'
  <2> SUFFICES ASSUME Known, Known', ReaderInv, TimersInv, [Next]_vars
               PROVE  TimersInv'
    OBVIOUS
  <2> USE DEF selfVars, timerVars, arrayVars, clientVars
  <2>0. /\ IsFiniteSet(pendingSample) /\ IsFiniteSet(Orphans)
        /\ IsFiniteSet(Failed) /\ IsFiniteSet(Failed')
    <3>1. pendingSample \subseteq Sessions /\ Orphans \subseteq Sessions
      BY DEF Known, TypeInv, TypeOK, Orphans
    <3>2. QED
      BY <3>1, SessionsFinite, FailedSessions
  <2>1. ASSUME ~crashed,
               Orphans' \subseteq Orphans, Failed \subseteq Failed',
               isProfiling' => sampleTimer' \in pendingSample',
               resolving' # {} => profileTimer' = cb',
               \A s \in pendingProfile' : s \in Failed' \/ (s = cb' /\ Running')
        PROVE  TimersInv'
    <3>1. /\ Cardinality(Orphans') <= Cardinality(Orphans)
          /\ Cardinality(Failed) <= Cardinality(Failed')
          /\ Cardinality(Orphans) <= Cardinality(Failed)
          /\ Cardinality(Orphans') \in Nat /\ Cardinality(Orphans) \in Nat
          /\ Cardinality(Failed) \in Nat /\ Cardinality(Failed') \in Nat
      BY <2>0, <2>1, Counts DEF TimersInv
    <3>2. Cardinality(Orphans') <= Cardinality(Failed')
      BY <3>1
    <3>3. QED
      BY <2>1, <3>2 DEF TimersInv
  <2>2. ASSUME ~crashed, Running, ~Running', cb \in Failed', cb \notin Failed,
               Failed \subseteq Failed', UNCHANGED pendingSample,
               pendingProfile' \subseteq pendingProfile
        PROVE  TimersInv'
    <3>1. Orphans = pendingSample \ {sampleTimer} /\ Orphans' = pendingSample
      BY <2>2 DEF Orphans
    <3>2. Failed \cup {cb} \subseteq Failed'
      BY <2>2
    <3>3. /\ Cardinality(pendingSample) <= Cardinality(Orphans) + 1
          /\ Cardinality(Orphans) <= Cardinality(Failed)
          /\ Cardinality(Failed \cup {cb}) = Cardinality(Failed) + 1
          /\ Cardinality(Failed \cup {cb}) <= Cardinality(Failed')
          /\ Cardinality(pendingSample) \in Nat /\ Cardinality(Orphans) \in Nat
          /\ Cardinality(Failed) \in Nat /\ Cardinality(Failed') \in Nat
      BY <2>0, <2>2, <3>1, <3>2, Counts DEF TimersInv
    <3>4. Cardinality(Orphans') <= Cardinality(Failed')
      BY <3>1, <3>3
    <3>5. \A s \in pendingProfile' : s \in Failed'
      BY <2>2 DEF TimersInv
    <3>6. ~isProfiling' /\ resolving' = {}
      BY <2>2 DEF Running
    <3>7. QED
      BY <3>4, <3>5, <3>6 DEF TimersInv
  <2>3. ASSUME UNCHANGED <<isProfiling, cb, profileTimer, sampleTimer, pendingProfile,
                           pendingSample, resolving, calls, crashed>>
        PROVE  TimersInv'
    BY <2>3, FailedSessions DEF TimersInv, Orphans, Running
  <2>4. CASE crashed'
    BY <2>4 DEF TimersInv
  <2>5. CASE ProfileRejected
    <3>1. nCalls + 1 \in Sessions /\ None \in Sessions \cup {None} /\ ~crashed
      BY <2>5, SessionsType DEF ProfileRejected, ClientMayCall, Known, TypeInv, TypeOK
    <3>2. Failed \subseteq Failed'
      BY <2>5, <3>1, TellFails DEF ProfileRejected
    <3>3. UNCHANGED <<isProfiling, cb, profileTimer, sampleTimer, pendingProfile,
                      pendingSample, resolving>>
      BY <2>5 DEF ProfileRejected
    <3>4. QED
      BY <2>1, <3>1, <3>2, <3>3 DEF TimersInv, Orphans, Running
  <2>6. ASSUME NEW s \in Sessions, NEW p, StartSession(s, p), ~crashed, ~Running,
               UNCHANGED <<calls, resolving>>
        PROVE  TimersInv'
    <3>1. /\ Orphans = pendingSample /\ resolving' = {} /\ Running' /\ isProfiling'
          /\ sampleTimer' = s /\ cb' = s /\ pendingSample' = pendingSample \cup {s}
          /\ pendingProfile' = pendingProfile \cup {s}
      BY <2>6 DEF StartSession, ArmTimers, Orphans, Running
    <3>2. Orphans' \subseteq Orphans
      BY <3>1 DEF Orphans
    <3>3. Failed' = Failed /\ \A x \in pendingProfile : x \in Failed
      BY <2>6, FailedSessions DEF TimersInv
    <3>4. QED
      BY <2>1, <2>6, <3>1, <3>2, <3>3
  <2>7. ASSUME NEW p \in Pids, Profile(p) PROVE TimersInv'
    <3>1. /\ ~crashed /\ ~Running /\ nCalls + 1 \in Sessions /\ UNCHANGED resolving
          /\ None \in Sessions \cup {None}
      BY <2>7, ProfileBegins DEF Running
    <3>2. \/ StartSession(nCalls + 1, p) /\ UNCHANGED calls
          \/ /\ Tell(nCalls + 1, "attachErr", None) \/ Tell(nCalls + 1, "threw", None)
             /\ UNCHANGED <<isProfiling, cb, profileTimer, sampleTimer, pendingProfile,
                            pendingSample>>
      BY <2>7, ProfileBegins
    <3>3. CASE StartSession(nCalls + 1, p) /\ UNCHANGED calls
      BY <2>6, <3>1, <3>3
    <3>4. CASE /\ Tell(nCalls + 1, "attachErr", None) \/ Tell(nCalls + 1, "threw", None)
               /\ UNCHANGED <<isProfiling, cb, profileTimer, sampleTimer, pendingProfile,
                              pendingSample>>
      <4>1. Failed \subseteq Failed'
        BY <3>1, <3>4, TellFails
      <4>2. Orphans' = Orphans /\ Running' = Running
        BY <3>1, <3>4 DEF Orphans, Running
      <4>3. QED
        BY <2>1, <3>1, <3>4, <4>1, <4>2 DEF TimersInv
    <3>5. QED
      BY <3>2, <3>3, <3>4
  <2>8. CASE ProfileContinues
    <3>1. /\ ~crashed /\ ~Running /\ UNCHANGED <<calls, resolving>>
          /\ callStack[1] \in Sessions
          /\ StartSession(callStack[1], tracers[callStack[1]].pid)
      BY <2>8, ProfileGoesOn DEF Running
    <3>2. QED
      BY <2>6, <3>1
  <2>9. ASSUME isProfiling, StopProfiling \/ (\E c \in Sessions : OnProfileEnd(c))
        PROVE  TimersInv'
    <3>1. /\ ~crashed /\ ~isProfiling' /\ pendingProfile' \subseteq pendingProfile
          /\ UNCHANGED <<cb, profileTimer, sampleTimer, pendingSample>>
      BY <2>9, SessionStops DEF ReaderInv
    <3>2. \/ resolving' = {[profile |-> cb, pid |-> pid, cb |-> cb]} /\ UNCHANGED calls
          \/ resolving' = {} /\ Tell(cb, "detachErr", None)
      BY <2>9, SessionStops DEF ReaderInv
    <3>3. /\ profileTimer = cb /\ cb \in Sessions /\ cb \notin Failed
          /\ None \in Sessions \cup {None} /\ Running
      BY <2>9, <3>1, ActiveSession, FailedSessions DEF Running
    <3>4. CASE resolving' = {[profile |-> cb, pid |-> pid, cb |-> cb]} /\ UNCHANGED calls
      <4>1. Running' /\ Failed' = Failed
        BY <3>4, FailedSessions DEF Running
      <4>2. Orphans' = Orphans
        BY <3>1, <3>3, <4>1 DEF Orphans
      <4>3. QED
        BY <2>1, <3>1, <3>3, <4>1, <4>2 DEF TimersInv
    <3>5. CASE resolving' = {} /\ Tell(cb, "detachErr", None)
      <4>1. Failed \subseteq Failed' /\ cb \in Failed'
        BY <3>3, <3>5, TellFails
      <4>2. ~Running'
        BY <3>1, <3>5 DEF Running
      <4>3. QED
        BY <2>2, <3>1, <3>3, <4>1, <4>2
    <3>6. QED
      BY <3>2, <3>4, <3>5
  <2>10. CASE StopProfiling
    BY <2>9, <2>10 DEF StopProfiling
  <2>11. ASSUME NEW c \in Sessions, OnProfileEnd(c) PROVE TimersInv'
    <3>1. CASE isProfiling
      BY <2>9, <2>11, <3>1
    <3>2. CASE ~isProfiling
      <4>1. /\ ~crashed /\ pendingProfile' \subseteq pendingProfile
            /\ UNCHANGED <<isProfiling, cb, profileTimer, sampleTimer, pendingSample,
                           resolving, calls>>
        BY <2>11, <3>2 DEF OnProfileEnd
      <4>2. Orphans' = Orphans /\ Running' = Running /\ Failed' = Failed
        BY <4>1, FailedSessions DEF Orphans, Running
      <4>3. QED
        BY <2>1, <4>1, <4>2 DEF TimersInv
    <3>3. QED
      BY <3>1, <3>2
  <2>12. ASSUME NEW c \in Sessions, SampleAndContinue(c), ~crashed' PROVE TimersInv'
    <3>1. /\ ~crashed /\ c \in pendingSample
          /\ UNCHANGED <<isProfiling, cb, profileTimer, pendingProfile, resolving, calls>>
      BY <2>12 DEF SampleAndContinue
    <3>2. Running' = Running /\ Failed' = Failed
      BY <3>1, FailedSessions DEF Running
    <3>3. CASE isProfiling
      <4>1. pendingSample' = pendingSample /\ sampleTimer' = c
        BY <2>12, <3>3, SessionSamples
      <4>2. /\ Orphans = pendingSample \ {sampleTimer}
            /\ Orphans' = pendingSample \ {c}
        BY <3>2, <3>3, <4>1 DEF Orphans, Running
      <4>3. sampleTimer \in pendingSample
        BY <3>1, <3>3 DEF TimersInv
      <4>4. Cardinality(Orphans') = Cardinality(Orphans)
        BY <2>0, <3>1, <4>2, <4>3, Counts
      <4>5. QED
        BY <3>1, <3>2, <4>1, <4>4 DEF TimersInv
    <3>4. CASE ~isProfiling
      <4>1. pendingSample' = pendingSample \ {c} /\ sampleTimer' = sampleTimer
        BY <2>12, <3>4 DEF SampleAndContinue
      <4>2. Orphans' \subseteq Orphans
        BY <3>2, <4>1 DEF Orphans
      <4>3. QED
        BY <2>1, <3>1, <3>2, <3>4, <4>2 DEF TimersInv
    <3>5. QED
      BY <3>3, <3>4
  <2>13. ASSUME NEW r \in resolving, SymbolsFail(r) \/ SymbolsResolved(r)
         PROVE  TimersInv'
    <3>1. ~crashed /\ Running
      BY <2>13 DEF SymbolsFail, SymbolsResolved, Running
    <3>2. /\ resolving = {r} /\ ~isProfiling /\ r.cb = cb /\ cpuProfile = cb
          /\ cb \in Sessions /\ cb \notin Failed /\ None \in Sessions \cup {None}
          /\ profileTimer = cb
      BY <3>1, SymbolsClosed, FailedSessions DEF TimersInv
    <3>3. resolving' = {} /\ isProfiling' = isProfiling /\ cb' = cb
      BY <2>13, <3>2 DEF SymbolsFail, SymbolsResolved, ReturnCPUProfile, ResetFields
    <3>4. ~Running'
      BY <3>2, <3>3 DEF Running
    <3>5. CASE SymbolsFail(r)
      <4>1. Failed \subseteq Failed' /\ cb \in Failed'
        BY <3>2, <3>5, TellFails DEF SymbolsFail
      <4>2. UNCHANGED <<pendingSample, pendingProfile>>
        BY <3>5 DEF SymbolsFail
      <4>3. QED
        BY <2>2, <3>1, <3>2, <3>4, <4>1, <4>2
    <3>6. CASE SymbolsResolved(r)
      <4>1. Failed \subseteq Failed'
        BY <3>2, <3>6, TellFails DEF SymbolsResolved, ReturnCPUProfile
      <4>2. /\ pendingSample' = pendingSample \ {sampleTimer}
            /\ pendingProfile' = pendingProfile \ {cb}
        BY <3>2, <3>6 DEF SymbolsResolved, ReturnCPUProfile
      <4>3. Orphans' = Orphans
        BY <3>1, <3>4, <4>2 DEF Orphans
      <4>4. \A s \in pendingProfile' : s \in Failed'
        BY <3>1, <4>1, <4>2 DEF TimersInv
      <4>5. QED
        BY <2>1, <3>1, <3>2, <3>3, <4>1, <4>3, <4>4
    <3>7. QED
      BY <2>13, <3>5, <3>6
  <2>14. ASSUME NEW r \in resolving, SpawnFails(r) PROVE TimersInv'
    BY <2>14 DEF SpawnFails, TimersInv
  <2>15. ASSUME NEW p \in Pids, TargetExits(p) PROVE TimersInv'
    BY <2>3, <2>15 DEF TargetExits
  <2>16. CASE UNCHANGED vars
    BY <2>3, <2>16 DEF vars
  <2>17. QED
    BY <2>4, <2>5, <2>7, <2>8, <2>10, <2>11, <2>12, <2>13, <2>14, <2>15, <2>16 DEF Next
<1>3. Known /\ TimersInv => TimersOutliveOnlyFailures
  <2> SUFFICES ASSUME Known, TimersInv, ~crashed
               PROVE  TimersOutliveOnlyFailures
    BY DEF TimersOutliveOnlyFailures
  <2>1. IsFiniteSet(pendingSample) /\ IsFiniteSet(Failed)
    BY SessionsFinite, FailedSessions DEF Known, TypeInv, TypeOK
  <2>2. /\ Cardinality(pendingSample) \in Nat /\ Cardinality(Failed) \in Nat
        /\ Cardinality(pendingSample \ {sampleTimer}) \in Nat
        /\ Cardinality(pendingSample) <= Cardinality(pendingSample \ {sampleTimer}) + 1
    BY <2>1, Counts
  <2>3. IF Running
        THEN Cardinality(pendingSample \ {sampleTimer}) <= Cardinality(Failed)
        ELSE Cardinality(pendingSample) <= Cardinality(Failed)
    BY DEF TimersInv, Orphans
  <2>4. Cardinality(pendingSample) <= Cardinality(Failed) + (IF Running THEN 1 ELSE 0)
    BY <2>2, <2>3
  <2>5. QED
    BY <2>4 DEF TimersOutliveOnlyFailures, TimersInv, Running
<1>4. Spec => []Known
  BY KnownInvariant
<1>5. Spec => []ReaderInv
  BY ReaderInvariant
<1>6. QED
  BY <1>1, <1>2, <1>3, <1>4, <1>5, PTL DEF Spec

=============================================================================
