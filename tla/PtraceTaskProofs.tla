-------------------------- MODULE PtraceTaskProofs --------------------------
(***************************************************************************)
(* Proofs about PtraceTask, for any number of signals.                     *)
(***************************************************************************)
EXTENDS PtraceTask, TLAPS

(* While node-flame holds the process it stays traced, a stop it has       *)
(* collected lasts until it is continued, and between samples only a       *)
(* signal can have brought a stop about: this is what an inductive         *)
(* invariant has to remember of the samples that went before.  A process   *)
(* that is stopped and not held was left so by a node-flame that died.     *)
Held ==
    /\ traced <=> pc # "detached" /\ state # "exited"
    /\ pc \in {"regs", "walk", "resume", "detach"} => Stopped \/ state = "exited"
    /\ Stopped \/ pendingTrap => traced
    /\ state = "left" => killed /\ pc = "detached"
    /\ waitable => Stopped
    /\ pc \in {"attached", "idle"} /\ (Stopped \/ pendingTrap) => caught

(* A process that was never stopped by a signal has at most one stop, the  *)
(* one the present sample asked for.                                       *)
OneStop == pendingTrap /\ ~caught => state = "running"

Inv == TypeOK /\ Held /\ OneStop

LEMMA InvInvariant == Spec => []Inv
<1>1. Init => Inv
  <2> SUFFICES ASSUME Init PROVE Inv
    OBVIOUS
  <2>1. TypeOK
    <3>1. Flags \subseteq BOOLEAN
      BY DEF Init, Flags
    <3>2. QED
      BY <3>1, PtraceAssumption DEF PtraceAssumption, Init, TypeOK, States, Stops, Where
  <2>2. Held
    BY DEF Init, Held, Stopped, Stops
  <2>3. OneStop
    BY DEF Init, OneStop
  <2>4. QED
    BY <2>1, <2>2, <2>3 DEF Inv
<1>2. Inv /\ [Next]_vars => Inv'
  <2> SUFFICES ASSUME Inv, [Next]_vars PROVE Inv'
    OBVIOUS
  <2> USE PtraceAssumption
          DEF PtraceAssumption, Inv, TypeOK, States, Stops, Stopped, Where, Held, OneStop,
              walkVars, history
  <2>1. CASE SignalArrives
    <3>1. (Flags \subseteq BOOLEAN)'
      BY <2>1 DEF SignalArrives, Flags
    <3>2. TypeOK'
      BY <2>1, <3>1 DEF SignalArrives
    <3>3. Held' /\ OneStop'
      BY <2>1 DEF SignalArrives, Flags
    <3>4. QED
      BY <3>2, <3>3
  <2>2. CASE TakeSignal
    <3>1. (Flags \subseteq BOOLEAN)'
      BY <2>2 DEF TakeSignal, Flags
    <3>2. TypeOK'
      BY <2>2, <3>1 DEF TakeSignal
    <3>3. Held' /\ OneStop'
      BY <2>2 DEF TakeSignal, Flags
    <3>4. QED
      BY <3>2, <3>3
  <2>3. CASE EnterTrap
    BY <2>3 DEF EnterTrap, Flags
  <2>4. CASE TargetExits
    <3>1. (Flags \subseteq BOOLEAN)'
      BY <2>4 DEF TargetExits, Flags
    <3>2. TypeOK'
      BY <2>4, <3>1 DEF TargetExits
    <3>3. Held' /\ OneStop'
      BY <2>4 DEF TargetExits, Flags
    <3>4. QED
      BY <3>2, <3>3
  <2>5. CASE Attach
    <3>1. (Flags \subseteq BOOLEAN)'
      BY <2>5 DEF Attach, SeizeStopped, Flags
    <3>2. TypeOK'
      BY <2>5, <3>1 DEF Attach, SeizeStopped
    <3>3. Held' /\ OneStop'
      BY <2>5 DEF Attach, SeizeStopped, Flags
    <3>4. QED
      BY <3>2, <3>3
  <2>6. CASE SessionBegins
    BY <2>6 DEF SessionBegins, Flags
  <2>7. CASE BeginSample
    <3>1. (Flags \subseteq BOOLEAN)'
      BY <2>7 DEF BeginSample, BeginPause, Interrupt, Flags
    <3>2. TypeOK'
      BY <2>7, <3>1 DEF BeginSample, BeginPause, Interrupt
    <3>3. Held'
      BY <2>7 DEF BeginSample, BeginPause, Interrupt, Flags
    <3>4. OneStop'
      BY <2>7 DEF BeginSample, BeginPause, Interrupt, Flags
    <3>5. QED
      BY <3>2, <3>3, <3>4
  <2>8. CASE WaitReturns
    BY <2>8 DEF WaitReturns, Flags
  <2>9. CASE ReadRegisters
    <3>1. (Flags \subseteq BOOLEAN)'
      BY <2>9 DEF ReadRegisters, LeaveStack, Flags
    <3>2. TypeOK'
      BY <2>9, <3>1 DEF ReadRegisters, LeaveStack
    <3>3. Held' /\ OneStop'
      BY <2>9 DEF ReadRegisters, LeaveStack, Flags
    <3>4. QED
      BY <3>2, <3>3
  <2>10. CASE ReadFrame
    <3>1. fcount' \in 0 .. MaxStackDepth
      BY <2>10 DEF ReadFrame
    <3>2. UNCHANGED <<state, traced, pendingTrap, waitable, queued, sent, history, pc>>
      BY <2>10 DEF ReadFrame
    <3>3. (Flags \subseteq BOOLEAN)'
      BY <2>10, <3>2 DEF ReadFrame, Flags
    <3>4. TypeOK'
      BY <3>1, <3>2, <3>3
    <3>5. Held' /\ OneStop'
      BY <3>2
    <3>6. QED
      BY <3>4, <3>5
  <2>11. CASE EndWalk
    <3>1. (Flags \subseteq BOOLEAN)'
      BY <2>11 DEF EndWalk, LeaveStack, Flags
    <3>2. TypeOK'
      BY <2>11, <3>1 DEF EndWalk, LeaveStack
    <3>3. Held' /\ OneStop'
      BY <2>11 DEF EndWalk, LeaveStack, Flags
    <3>4. QED
      BY <3>2, <3>3
  <2>12. CASE Resume
    BY <2>12 DEF Resume, Continue, Flags
  <2>13. CASE BeginDetach
    <3>1. (Flags \subseteq BOOLEAN)'
      BY <2>13 DEF BeginDetach, BeginPause, Interrupt, Flags
    <3>2. TypeOK'
      BY <2>13, <3>1 DEF BeginDetach, BeginPause, Interrupt
    <3>3. Held'
      BY <2>13 DEF BeginDetach, BeginPause, Interrupt, Flags
    <3>4. OneStop'
      BY <2>13 DEF BeginDetach, BeginPause, Interrupt, Flags
    <3>5. QED
      BY <3>2, <3>3, <3>4
  <2>14. CASE Detach
    <3>1. (Flags \subseteq BOOLEAN)'
      BY <2>14 DEF Detach, Unlink, Flags
    <3>2. TypeOK'
      BY <2>14, <3>1 DEF Detach, Unlink
    <3>3. Held' /\ OneStop'
      BY <2>14 DEF Detach, Unlink, Flags
    <3>4. QED
      BY <3>2, <3>3
  <2>15. CASE TracerDies
    <3>1. (Flags \subseteq BOOLEAN)'
      BY <2>15 DEF TracerDies, Unlink, Flags
    <3>2. TypeOK'
      BY <2>15, <3>1 DEF TracerDies, Unlink
    <3>3. Held' /\ OneStop'
      BY <2>15 DEF TracerDies, Unlink, Flags
    <3>4. QED
      BY <3>2, <3>3
  <2>16. CASE UNCHANGED vars
    BY <2>16 DEF vars, Flags
  <2>17. QED
    BY <2>1, <2>2, <2>3, <2>4, <2>5, <2>6, <2>7, <2>8, <2>9, <2>10, <2>11,
       <2>12, <2>13, <2>14, <2>15, <2>16 DEF Next, Sample
<1>3. QED
  BY <1>1, <1>2, PTL DEF Spec

(* Type correctness; no more signals are queued than were sent.            *)
THEOREM PtraceTypeCorrect == Spec => []TypeOK
BY InvInvariant, PTL DEF Inv

(* take_backtrace reads a process that stands still, although its waitpid  *)
(* takes any stop for the one it asked for.                                *)
THEOREM SamplesReadStopped == Spec => []ReadsStoppedProcess
<1>1. Inv => ReadsStoppedProcess
  BY DEF Inv, Held, ReadsStoppedProcess
<1>2. QED
  BY <1>1, InvInvariant, PTL

(* Without signals, resume_process leaves the process running.             *)
THEOREM IdleRunsWithoutSignals == Spec => []IdleStopsAreSignals
<1>1. Inv => IdleStopsAreSignals
  BY DEF Inv, Held, IdleStopsAreSignals
<1>2. QED
  BY <1>1, InvInvariant, PTL

(* detach_process always finds the process stopped and so lets go of it:   *)
(* only a node-flame that died may have left it stopped.                   *)
THEOREM DetachLetsGo == Spec => []DetachedIsFree
<1>1. Inv => DetachedIsFree
  BY DEF Inv, TypeOK, States, Stops, Stopped, Held, DetachedIsFree
<1>2. QED
  BY <1>1, InvInvariant, PTL

=============================================================================
