--------------------------- MODULE MacTaskProofs ---------------------------
(***************************************************************************)
(* Proofs about MacTask, for any finite set of profilers.                  *)
(***************************************************************************)
EXTENDS MacTask, FiniteSetTheorems, TLAPS

(* A profiler that owes a resume is past its task_suspend, or was killed.  *)
OwesInside ==
    \A p \in owes : pc[p] \in {"threads", "walk", "look", "resume", "killed"}

Inv == TypeOK /\ OwesInside /\ NoResumeLost

LEMMA OwesFinite ==
    ASSUME TypeOK
    PROVE  IsFiniteSet(owes) /\ Cardinality(owes) \in Nat
BY MacTaskAssumption, FS_Subset, FS_CardinalityType DEF TypeOK

(* Paying one resume back lowers the debt by one at most.                  *)
LEMMA PayBack ==
    ASSUME TypeOK, NEW p
    PROVE  /\ Cardinality(owes \ {p}) \in Nat
           /\ Cardinality(owes) <= Cardinality(owes \ {p}) + 1
<1>1. CASE p \in owes
  <2>1. IsFiniteSet(owes \ {p}) /\ Cardinality(owes \ {p}) = Cardinality(owes) - 1
    BY <1>1, OwesFinite, FS_RemoveElement
  <2>2. Cardinality(owes \ {p}) \in Nat
    BY <2>1, FS_CardinalityType
  <2>3. QED
    BY <2>1, <2>2, OwesFinite
<1>2. CASE p \notin owes
  <2>1. owes \ {p} = owes
    BY <1>2
  <2>2. QED
    BY <2>1, OwesFinite
<1>3. QED
  BY <1>1, <1>2

LEMMA InvInvariant == Spec => []Inv
<1>1. Init => Inv
  <2> SUFFICES ASSUME Init PROVE Inv
    OBVIOUS
  <2>1. Cardinality(owes) = 0
    BY FS_EmptySet DEF Init
  <2>2. QED
    BY <2>1, MacTaskAssumption
       DEF MacTaskAssumption, Init, Inv, TypeOK, Where, OwesInside, NoResumeLost
<1>2. Inv /\ [Next]_vars => Inv'
  <2> SUFFICES ASSUME Inv, [Next]_vars PROVE Inv'
    OBVIOUS
  <2> USE MacTaskAssumption
          DEF MacTaskAssumption, Inv, Goto, TypeOK, Where, Reading, OwesInside
  <2>1. ASSUME NEW p \in Profilers, LookBeforePause(p) PROVE Inv'
    BY <2>1 DEF LookBeforePause, walkVars, NoResumeLost
  <2>2. ASSUME NEW p \in Profilers, Suspend(p) PROVE Inv'
    <3>1. CASE alive
      <4>1. p \notin owes
        BY <2>2 DEF Suspend
      <4>2. owes' = owes \cup {p} /\ suspendCount' = suspendCount + 1
        BY <2>2, <3>1 DEF Suspend
      <4>3. Cardinality(owes') = Cardinality(owes) + 1 /\ Cardinality(owes) \in Nat
        BY <4>1, <4>2, OwesFinite, FS_AddElement
      <4>4. NoResumeLost'
        BY <4>2, <4>3 DEF NoResumeLost
      <4>5. QED
        BY <2>2, <3>1, <4>4 DEF Suspend, walkVars
    <3>2. CASE ~alive
      BY <2>2, <3>2 DEF Suspend, walkVars, NoResumeLost
    <3>3. QED
      BY <3>1, <3>2
  <2>3. ASSUME NEW p \in Profilers, ReadRegisters(p) PROVE Inv'
    <3>1. CASE LeaveStack(p)
      BY <2>3, <3>1 DEF ReadRegisters, LeaveStack, NoResumeLost
    <3>2. CASE ~LeaveStack(p)
      BY <2>3, <3>2 DEF ReadRegisters, NoResumeLost
    <3>3. QED
      BY <3>1, <3>2
  <2>4. ASSUME NEW p \in Profilers, ReadFrame(p) PROVE Inv'
    <3>1. fcount[p] + 1 \in 0 .. MaxStackDepth
      BY <2>4 DEF ReadFrame
    <3>2. QED
      BY <2>4, <3>1 DEF ReadFrame, NoResumeLost
  <2>5. ASSUME NEW p \in Profilers, EndWalk(p) PROVE Inv'
    BY <2>5 DEF EndWalk, LeaveStack, NoResumeLost
  <2>6. ASSUME NEW p \in Profilers, Detach(p) PROVE Inv'
    BY <2>6 DEF Detach, walkVars, NoResumeLost
  <2>7. ASSUME NEW p \in Profilers, LookBeforeResume(p) PROVE Inv'
    <3>1. NoResumeLost'
      <4>1. CASE Running
        <5>1. suspendCount' = 0 /\ owes' = owes \ {p}
          BY <2>7, <4>1 DEF LookBeforeResume, Running, Suspended
        <5>2. Cardinality(owes') \in Nat
          BY <5>1, PayBack
        <5>3. QED
          BY <5>1, <5>2 DEF NoResumeLost
      <4>2. CASE ~Running
        BY <2>7, <4>2 DEF LookBeforeResume, NoResumeLost
      <4>3. QED
        BY <4>1, <4>2
    <3>2. QED
      BY <2>7, <3>1 DEF LookBeforeResume, walkVars
  <2>8. ASSUME NEW p \in Profilers, Resume(p) PROVE Inv'
    <3>1. owes' = owes \ {p}
      BY <2>8 DEF Resume
    <3>2. /\ Cardinality(owes') \in Nat
          /\ Cardinality(owes) \in Nat
          /\ Cardinality(owes) <= Cardinality(owes') + 1
      BY <3>1, PayBack, OwesFinite
    <3>3. suspendCount' = IF suspendCount > 0 THEN suspendCount - 1 ELSE 0
      BY <2>8 DEF Resume, Suspended
    <3>4. NoResumeLost' /\ suspendCount' \in Nat
      BY <3>2, <3>3 DEF NoResumeLost
    <3>5. QED
      BY <2>8, <3>4 DEF Resume, walkVars
  <2>9. ASSUME NEW p \in Profilers, Kill(p) PROVE Inv'
    BY <2>9 DEF Kill, NoResumeLost
  <2>10. CASE TaskDies
    <3>1. suspendCount' = 0 /\ owes' = owes
      BY <2>10 DEF TaskDies
    <3>2. NoResumeLost'
      BY <3>1, OwesFinite DEF NoResumeLost
    <3>3. QED
      BY <2>10, <3>2 DEF TaskDies, walkVars
  <2>11. CASE UNCHANGED vars
    BY <2>11 DEF vars, walkVars, NoResumeLost
  <2>12. QED
    BY <2>1, <2>2, <2>3, <2>4, <2>5, <2>6, <2>7, <2>8, <2>9, <2>10, <2>11
       DEF Next, Sample
<1>3. QED
  BY <1>1, <1>2, PTL DEF Spec

(* The suspend count never exceeds the resumes still owed: although every  *)
(* profiler looks at the count and acts on it in two steps, no resume is   *)
(* lost (pause_process, resume_process).                                   *)
THEOREM SuspensionsAreOwed == Spec => []NoResumeLost
BY InvInvariant, PTL DEF Inv

(* Types; in particular, no chain of frames writes beyond frames[].        *)
THEOREM MacTypeCorrect == Spec => []TypeOK
BY InvInvariant, PTL DEF Inv

(* Between samples the profiled process runs.                              *)
THEOREM IdleMeansRunning == Spec => []RunsBetweenSamples
<1>1. Inv => RunsBetweenSamples
  <2> SUFFICES ASSUME Inv, \A p \in Profilers : pc[p] \in {"idle", "suspend"}
               PROVE  ~Suspended
    BY DEF RunsBetweenSamples
  <2>1. owes = {}
    BY DEF Inv, TypeOK, OwesInside
  <2>2. Cardinality(owes) = 0
    BY <2>1, FS_EmptySet
  <2>3. QED
    BY <2>2 DEF Inv, TypeOK, NoResumeLost, Suspended
<1>2. QED
  BY <1>1, InvInvariant, PTL

(* A profiler that no other one disturbs reads a suspended process.        *)
THEOREM AloneReadsSuspended == Spec => []TornOnlyByOthers
<1>1. Init => TornOnlyByOthers
  BY DEF Init, TornOnlyByOthers, Reading
<1>2. Inv /\ TornOnlyByOthers /\ [Next]_vars => TornOnlyByOthers'
  <2> SUFFICES ASSUME Inv, TornOnlyByOthers, [Next]_vars PROVE TornOnlyByOthers'
    OBVIOUS
  <2> USE DEF Inv, TypeOK, TornOnlyByOthers, Running, Suspended, Reading, Goto
  <2>1. ASSUME NEW p \in Profilers, LookBeforePause(p) PROVE TornOnlyByOthers'
    BY <2>1 DEF LookBeforePause
  <2>2. ASSUME NEW p \in Profilers, Suspend(p) PROVE TornOnlyByOthers'
    BY <2>2 DEF Suspend
  <2>3. ASSUME NEW p \in Profilers, ReadRegisters(p) PROVE TornOnlyByOthers'
    BY <2>3 DEF ReadRegisters, LeaveStack
  <2>4. ASSUME NEW p \in Profilers, ReadFrame(p) \/ Detach(p) PROVE TornOnlyByOthers'
    BY <2>4 DEF ReadFrame, Detach
  <2>5. ASSUME NEW p \in Profilers, EndWalk(p) PROVE TornOnlyByOthers'
    BY <2>5 DEF EndWalk, LeaveStack
  <2>6. ASSUME NEW p \in Profilers, LookBeforeResume(p) PROVE TornOnlyByOthers'
    BY <2>6 DEF LookBeforeResume
  <2>7. ASSUME NEW p \in Profilers, Resume(p) PROVE TornOnlyByOthers'
    BY <2>7 DEF Resume
  <2>8. ASSUME NEW p \in Profilers, Kill(p) PROVE TornOnlyByOthers'
    BY <2>8 DEF Kill
  <2>9. CASE TaskDies
    BY <2>9 DEF TaskDies
  <2>10. CASE UNCHANGED vars
    BY <2>10 DEF vars
  <2>11. QED
    BY <2>1, <2>2, <2>3, <2>4, <2>5, <2>6, <2>7, <2>8, <2>9, <2>10 DEF Next, Sample
<1>3. QED
  BY <1>1, <1>2, InvInvariant, PTL DEF Spec

=============================================================================
