-------------------------- MODULE HeapReaderProofs --------------------------
(***************************************************************************)
(* Proofs about HeapReader, for any memory: any graph of strings, any      *)
(* array of line ends, and exceptions anywhere.                            *)
(***************************************************************************)
EXTENDS HeapReader, Recursion, SequenceTheorems

-----------------------------------------------------------------------------
(* The bisection of LineNumber, by itself *)

(* Between the rounds of the loop, the line looked for is not below low    *)
(* and not above high.                                                     *)
Enclosed ==
    Sorted(lineEnds) /\ size > 0 =>
        /\ \A j \in 0 .. low - 1 : lineEnds[j] < startPosition
        /\ lineEnds[high] >= startPosition \/ high = size - 1

Answered ==
    result >= 0 => low >= high /\ result = low + lineOffset

Inv == TypeOK /\ Enclosed /\ Answered

(* The middle lies in the interval, below its upper end.                   *)
LEMMA MidInside ==
    ASSUME TypeOK, low < high
    PROVE  Mid \in Nat /\ low <= Mid /\ Mid < high /\ Mid \in 0 .. size - 1
BY DEF TypeOK, Mid

LEMMA InitInv == Init => Inv
BY DEF Init, Inv, TypeOK, Enclosed, Answered, None, NotCalled

LEMMA ReadArrayInv == Inv /\ ReadArray => Inv'
<1> SUFFICES ASSUME Inv, ReadArray PROVE Inv'
  OBVIOUS
<1> USE LineNumberAssumption DEF LineNumberAssumption
<1>1. PICK n \in 0 .. MaxSize :
        size' = n /\ lineEnds' \in [0 .. n - 1 -> Position] /\ high' = n - 1
  BY DEF ReadArray
<1>2. low' = 0 /\ probes' = 0 /\ probed' = None /\ result' = None
  BY DEF ReadArray
<1>3. startPosition' \in Nat /\ lineOffset' \in Nat
  BY DEF ReadArray, SmiValue
<1>4. lineEnds' \in [0 .. n - 1 -> Nat]
  BY <1>1
<1>5. TypeOK'
  BY <1>1, <1>2, <1>3, <1>4 DEF TypeOK
<1>6. Enclosed' /\ Answered'
  BY <1>1, <1>2 DEF Enclosed, Answered, None
<1>7. QED
  BY <1>5, <1>6 DEF Inv

LEMMA ProbeInv == Inv /\ Probe => Inv'
<1> SUFFICES ASSUME Inv, Probe PROVE Inv'
  OBVIOUS
<1>1. TypeOK /\ low < high /\ result = None
  BY DEF Inv, Probe
<1>2. UNCHANGED <<lineEnds, size, startPosition, lineOffset, result>>
  BY DEF Probe, memory
<1>3. Mid \in Nat /\ low <= Mid /\ Mid < high /\ Mid \in 0 .. size - 1
  BY <1>1, MidInside
<1>4. \/ lineEnds[Mid] < startPosition /\ low' = Mid + 1 /\ high' = high
      \/ ~(lineEnds[Mid] < startPosition) /\ high' = Mid /\ low' = low
  BY DEF Probe, Narrow
<1>5. probes' = (IF probes > size THEN probes ELSE probes + 1) /\ probed' = Mid
  BY DEF Probe
<1>6. TypeOK'
  BY <1>1, <1>2, <1>3, <1>4, <1>5 DEF TypeOK
<1>7. Enclosed'
  <2> SUFFICES ASSUME Sorted(lineEnds), size > 0
               PROVE  /\ \A j \in 0 .. low' - 1 : lineEnds[j] < startPosition
                      /\ lineEnds[high'] >= startPosition \/ high' = size - 1
    BY <1>2 DEF Enclosed, Sorted
  <2>1. /\ \A j \in 0 .. low - 1 : lineEnds[j] < startPosition
        /\ lineEnds[high] >= startPosition \/ high = size - 1
    BY DEF Inv, Enclosed
  <2>2. CASE lineEnds[Mid] < startPosition /\ low' = Mid + 1 /\ high' = high
    <3>1. ASSUME NEW j \in 0 .. low' - 1 PROVE lineEnds[j] < startPosition
      <4>1. j \in 0 .. size - 1 /\ j <= Mid
        BY <1>1, <1>3, <2>2, <3>1 DEF TypeOK
      <4>2. lineEnds[j] <= lineEnds[Mid]
        BY <1>1, <1>3, <4>1 DEF Sorted, TypeOK
      <4>3. lineEnds[j] \in Nat /\ lineEnds[Mid] \in Nat /\ startPosition \in Nat
        BY <1>1, <1>3, <4>1 DEF TypeOK
      <4>4. QED
        BY <2>2, <4>2, <4>3
    <3>2. QED
      BY <2>1, <2>2, <3>1
  <2>3. CASE ~(lineEnds[Mid] < startPosition) /\ high' = Mid /\ low' = low
    <3>1. lineEnds[Mid] \in Nat /\ startPosition \in Nat
      BY <1>1, <1>3 DEF TypeOK
    <3>2. QED
      BY <2>1, <2>3, <3>1
  <2>4. QED
    BY <1>4, <2>2, <2>3
<1>8. Answered'
  BY <1>1, <1>2 DEF Answered, None
<1>9. QED
  BY <1>6, <1>7, <1>8 DEF Inv

LEMMA AnswerInv == Inv /\ Answer => Inv'
<1> SUFFICES ASSUME Inv, Answer PROVE Inv'
  OBVIOUS
<1>1. /\ UNCHANGED <<lineEnds, size, startPosition, lineOffset>>
      /\ UNCHANGED <<low, high, probes, probed>>
      /\ low >= high /\ result' = low + lineOffset
  BY DEF Answer, memory, search
<1>2. TypeOK /\ low + lineOffset \in Nat
  BY DEF Inv, TypeOK
<1>3. TypeOK'
  BY <1>1, <1>2 DEF TypeOK
<1>4. Enclosed' /\ Answered'
  BY <1>1 DEF Inv, Enclosed, Answered, Sorted
<1>5. QED
  BY <1>3, <1>4 DEF Inv

LEMMA InvInvariant == Spec => []Inv
<1>1. Inv /\ [Next]_vars => Inv'
  <2> SUFFICES ASSUME Inv, [Next]_vars PROVE Inv'
    OBVIOUS
  <2>1. CASE NotAnArray
    <3>1. UNCHANGED <<memory, search>> /\ result' = Unknown
      BY <2>1 DEF NotAnArray
    <3>2. TypeOK'
      BY <3>1 DEF Inv, TypeOK, memory, search
    <3>3. Enclosed' /\ Answered'
      BY <3>1 DEF Inv, Enclosed, Answered, Sorted, memory, search, Unknown
    <3>4. QED
      BY <3>2, <3>3 DEF Inv
  <2>2. CASE Probe
    BY <2>2, ProbeInv
  <2>3. CASE Answer
    BY <2>3, AnswerInv
  <2>4. CASE UNCHANGED vars
    BY <2>4 DEF vars, memory, search, Inv, TypeOK, Enclosed, Answered, Sorted
  <2>5. CASE ReadArray
    BY <2>5, ReadArrayInv
  <2>6. QED
    BY <2>1, <2>2, <2>3, <2>4, <2>5 DEF Next
<1>2. QED
  BY <1>1, InitInv, PTL DEF Spec

(* The search never reads outside the array and its interval never         *)
(* empties, even if the array is not sorted because it is not one.         *)
THEOREM SearchStaysInside == Spec => []TypeOK
BY InvInvariant, PTL DEF Inv

(* The bisection of readFuncSharedInfoLineNumber is correct: for every     *)
(* sorted array of line ends and every position.                           *)
THEOREM SearchFindsLine == Spec => []FindsLine
<1>1. Inv => FindsLine
  <2> SUFFICES ASSUME Inv, result >= 0, Sorted(lineEnds), size > 0
               PROVE  /\ result - lineOffset \in DOMAIN lineEnds
                      /\ IsLineOf(result - lineOffset)
    BY DEF FindsLine
  <2>1. low = high /\ low \in 0 .. size - 1 /\ result - lineOffset = low
    BY DEF Inv, TypeOK, Answered
  <2>2. low \in DOMAIN lineEnds
    BY <2>1 DEF Inv, TypeOK
  <2>3. IsLineOf(low)
    BY <2>1 DEF Inv, Enclosed, IsLineOf
  <2>4. QED
    BY <2>1, <2>2, <2>3
<1>2. QED
  BY <1>1, InvInvariant, PTL

-----------------------------------------------------------------------------
(* The defining equation of PowerOf2, and its type.                        *)
LEMMA PowerOf2Def ==
    PowerOf2 = [n \in 0 .. MaxSize + 1 |->
                   IF n = 0 THEN 1 ELSE 2 * PowerOf2[n - 1]]
<1> DEFINE m == MaxSize + 1
           step == [x \in (1 .. m) \X Nat |-> 2 * x[2]]
<1>1. m \in Nat
  BY LineNumberAssumption DEF LineNumberAssumption
<1>2. PICK g : Chain(g, m, Nat, 1, step)
  <2>1. \A n \in 1 .. m : \A v \in Nat : step[<<n, v>>] \in Nat
    OBVIOUS
  <2> HIDE DEF step, m
  <2>2. QED
    BY <1>1, <2>1, ChainsExist
<1> HIDE DEF m
<1>3. ASSUME NEW n \in 1 .. m PROVE g[n] = 2 * g[n - 1]
  <2>1. n - 1 \in 0 .. m
    BY <1>1
  <2>2. g[n - 1] \in Nat /\ g[n] = step[<<n, g[n - 1]>>]
    BY <1>2, <2>1 DEF Chain
  <2>3. QED
    BY <2>2
<1>4. g = [n \in 0 .. m |-> IF n = 0 THEN 1 ELSE 2 * g[n - 1]]
  BY <1>1, <1>2, <1>3 DEF Chain
<1>5. QED
  BY <1>4, Zenon DEF PowerOf2, m

LEMMA PowerOf2Type == \A n \in 0 .. MaxSize + 1 : PowerOf2[n] \in Nat
<1> DEFINE S == {n \in Nat : n <= MaxSize + 1 => PowerOf2[n] \in Nat}
<1>1. 0 \in S
  BY PowerOf2Def, LineNumberAssumption DEF LineNumberAssumption
<1>2. ASSUME NEW n \in Nat, n \in S PROVE n + 1 \in S
  BY <1>2, PowerOf2Def, LineNumberAssumption DEF LineNumberAssumption
<1> HIDE DEF S
<1>3. \A n \in Nat : n \in S
  BY <1>1, <1>2, SetInduction
<1>4. QED
  BY <1>3, LineNumberAssumption DEF S, LineNumberAssumption

(* Multiplication is monotonic.                                            *)
LEMMA TimesMonotonic ==
    ASSUME NEW a \in Nat, NEW b \in Nat, a <= b, NEW c \in Nat
    PROVE  a * c <= b * c
OBVIOUS

(* The rounds so far, and what they have halved.                           *)
Halved ==
    /\ size \in 0 .. MaxSize
    /\ probes <= size + 1
    /\ ProbesAreFew

LEMMA ProbeHalves == Inv /\ Halved /\ Probe => Halved'
<1> SUFFICES ASSUME Inv, Halved, Probe PROVE Halved'
  OBVIOUS
<1> DEFINE d == high - low
           e == high' - low'
           p == PowerOf2[probes]
<1>1. TypeOK /\ low < high /\ result = None
  BY DEF Inv, Probe
<1>2. UNCHANGED size
  BY DEF Probe, memory
<1>3. probes' = IF probes > size THEN probes ELSE probes + 1
  BY DEF Probe
<1>4. d \in Nat /\ e \in Nat /\ 2 * e <= d
  <2>1. Mid \in Nat /\ low <= Mid /\ Mid < high
    BY <1>1, MidInside
  <2>2. \/ low' = Mid + 1 /\ high' = high
        \/ high' = Mid /\ low' = low
    BY DEF Probe, Narrow
  <2>3. QED
    BY <1>1, <2>1, <2>2 DEF Mid, TypeOK
<1>5. probes \in 0 .. MaxSize + 1 /\ probes' \in 0 .. MaxSize + 1
  BY <1>1, <1>2, <1>3, LineNumberAssumption DEF Halved, TypeOK, LineNumberAssumption
<1>6. p \in Nat /\ d * p <= size - 1
  <2>1. p \in Nat
    BY <1>5, PowerOf2Type
  <2>2. size > 0
    BY <1>1 DEF TypeOK
  <2>3. QED
    BY <2>1, <2>2 DEF Halved, ProbesAreFew
<1>7. e * PowerOf2[probes'] <= d * p
  <2>1. CASE probes > size
    <3>1. e <= d
      BY <1>4
    <3> HIDE DEF d, e, p
    <3>2. e * p <= d * p
      BY <1>4, <1>6, <3>1, TimesMonotonic
    <3>3. QED
      BY <1>3, <2>1, <3>2 DEF p
  <2>2. CASE ~(probes > size)
    <3>1. PowerOf2[probes'] = 2 * p
      BY <1>1, <1>3, <1>5, <2>2, PowerOf2Def DEF TypeOK
    <3> HIDE DEF d, e, p
    <3>2. 2 * e \in Nat /\ (2 * e) * p <= d * p
      BY <1>4, <1>6, TimesMonotonic
    <3>3. e * (2 * p) = (2 * e) * p
      BY <1>4, <1>6
    <3>4. QED
      BY <3>1, <3>2, <3>3
  <2>3. QED
    BY <2>1, <2>2
<1>8. QED
  <2>1. e * PowerOf2[probes'] <= size' - 1
    <3>1. PowerOf2[probes'] \in Nat /\ size \in Nat
      BY <1>1, <1>5, PowerOf2Type DEF TypeOK
    <3>2. e * PowerOf2[probes'] \in Int /\ d * p \in Int
      BY <1>4, <1>6, <3>1
    <3> HIDE DEF d, e, p
    <3>3. QED
      BY <1>2, <1>6, <1>7, <3>1, <3>2
  <2>2. size' \in 0 .. MaxSize /\ probes' <= size' + 1
    BY <1>1, <1>2, <1>3 DEF Halved, TypeOK
  <2>3. QED
    BY <2>1, <2>2 DEF Halved, ProbesAreFew

(* The profiled process is not paused for longer than the logarithm of the *)
(* length of the array, whatever the array holds.                          *)
THEOREM SearchIsLogarithmic == Spec => []ProbesAreFew
<1>1. Init => Halved
  BY LineNumberAssumption DEF Init, Halved, ProbesAreFew, LineNumberAssumption
<1>2. Inv /\ Halved /\ [Next]_vars => Halved'
  <2> SUFFICES ASSUME Inv, Halved, [Next]_vars PROVE Halved'
    OBVIOUS
  <2>1. CASE ReadArray
    <3>1. PICK n \in 0 .. MaxSize : size' = n /\ high' = n - 1
      BY <2>1 DEF ReadArray
    <3>2. low' = 0 /\ probes' = 0
      BY <2>1 DEF ReadArray
    <3>3. PowerOf2[0] = 1
      BY PowerOf2Def, LineNumberAssumption DEF LineNumberAssumption
    <3>4. QED
      BY <3>1, <3>2, <3>3 DEF Halved, ProbesAreFew
  <2>2. CASE Probe
    BY <2>2, ProbeHalves
  <2>3. ASSUME UNCHANGED <<memory, search>> PROVE Halved'
    BY <2>3 DEF memory, search, Halved, ProbesAreFew
  <2>4. QED
    BY <2>1, <2>2, <2>3 DEF Next, NotAnArray, Answer, vars
<1>3. Halved => ProbesAreFew
  BY DEF Halved
<1>4. QED
  BY <1>1, <1>2, <1>3, InvInvariant, PTL DEF Spec

-----------------------------------------------------------------------------
(* Exceptions *)

(* readStackFrameAnnotation returns a text wherever a read throws, so that *)
(* the tracer's callback returns and the process is resumed.               *)
THEOREM AnnotationReturned == HeapSpec => []AlwaysAnnotates
<1>1. HeapInit => AlwaysAnnotates
  BY DEF HeapInit, AlwaysAnnotates
<1>2. AlwaysAnnotates /\ [HeapNext]_heapVars => AlwaysAnnotates'
  <2> SUFFICES ASSUME AlwaysAnnotates, [HeapNext]_heapVars PROVE AlwaysAnnotates'
    OBVIOUS
  <2> USE DEF AlwaysAnnotates, Goto, Finish
  <2>1. ASSUME NEW type, Typed(type) PROVE AlwaysAnnotates'
    BY <2>1 DEF Typed, AnnotateNonJSFrame
  <2>2. CASE ReadFrameType
    BY <2>1, <2>2 DEF ReadFrameType
  <2>3. CASE ReadObjectType
    BY <2>1, <2>3 DEF ReadObjectType
  <2>4. CASE ReadPointer
    BY <2>4 DEF ReadPointer
  <2>5. CASE ReadFuncSharedInfoName \/ ReadFuncSharedInfoFileName
    BY <2>5 DEF ReadFuncSharedInfoName, ReadFuncSharedInfoFileName, BeginString
  <2>6. CASE ReadStringInternal
    BY <2>6 DEF ReadStringInternal
  <2>7. CASE EndString
    BY <2>7 DEF EndString, AfterString
  <2>8. CASE ReadLineNumber
    BY <2>8 DEF ReadLineNumber
  <2>9. CASE Throw
    BY <2>1, <2>9 DEF Throw, CatchInTests, Catch, AfterString
  <2>10. CASE UNCHANGED heapVars
    BY <2>10 DEF heapVars
  <2>11. QED
    BY <2>2, <2>3, <2>4, <2>5, <2>6, <2>7, <2>8, <2>9, <2>10 DEF HeapNext, HeapRead
<1>3. QED
  BY <1>1, <1>2, PTL DEF HeapSpec

-----------------------------------------------------------------------------
(* The search for the line *)

(* Seen through the variables of LineNumber, every annotation is a run of  *)
(* the search, or of a part of it that an exception cut short.             *)
THEOREM AnnotationSearches == HeapSpec => Spec
<1>1. HeapInit => Init
  BY DEF HeapInit
<1>2. [HeapNext]_heapVars => [Next]_vars
  <2> SUFFICES ASSUME [HeapNext]_heapVars PROVE [Next]_vars
    OBVIOUS
  <2>1. CASE ReadLineNumber
    BY <2>1 DEF ReadLineNumber
  <2>2. CASE Throw
    BY <2>2 DEF Throw, ForgetStrings
  <2>3. CASE EndString
    BY <2>3 DEF EndString, ForgetStrings
  <2>4. CASE ReadFuncSharedInfoName \/ ReadFuncSharedInfoFileName
    BY <2>4 DEF ReadFuncSharedInfoName, ReadFuncSharedInfoFileName, BeginString
  <2>5. CASE ReadFrameType \/ ReadObjectType \/ ReadPointer \/ ReadStringInternal
    BY <2>5 DEF ReadFrameType, ReadObjectType, ReadPointer, ReadStringInternal
  <2>6. CASE UNCHANGED heapVars
    BY <2>6 DEF heapVars
  <2>7. QED
    BY <2>1, <2>2, <2>3, <2>4, <2>5, <2>6 DEF HeapNext, HeapRead
<1>3. QED
  BY <1>1, <1>2, PTL DEF HeapSpec, Spec

(* So a line number in an annotation is the right one if the line ends     *)
(* that were read are sorted, whatever was read before them.               *)
THEOREM AnnotationFindsLine == HeapSpec => []FindsLine
BY AnnotationSearches, SearchFindsLine, PTL

(* ... and it takes no more rounds than the logarithm of what was read as  *)
(* the array's length.                                                     *)
THEOREM AnnotationIsLogarithmic == HeapSpec => []ProbesAreFew
BY AnnotationSearches, SearchIsLogarithmic, PTL

-----------------------------------------------------------------------------
(* Strings *)

(* What is left to read has the depths of a path down three levels of cons *)
(* strings: two for each object, and no more strings behind one than cons  *)
(* strings above it.                                                       *)
Entry == [at : Nodes, depth : {0, 2, 4, 6}]

Marks == {"...", "[unknown]"}

TodoInv ==
    /\ root \in Nodes
    /\ strings \in [Nodes -> StringObject]
    /\ todo \in Seq(Entry)
    /\ \A i \in 1 .. Len(todo) : 2 * (Len(todo) - i) <= todo[i].depth
    /\ text \in Seq(Nodes \cup Marks)
    /\ objects \in Nat
    /\ stage \notin Walks => todo = <<>> /\ text = <<>> /\ objects = 0

LEMMA AtMostFour ==
    ASSUME TodoInv
    PROVE  Len(todo) \in 0 .. 4
<1>1. CASE Len(todo) >= 1
  <2>1. Len(todo) \in Nat /\ todo[1] \in Entry
    BY <1>1 DEF TodoInv
  <2>2. 2 * (Len(todo) - 1) <= todo[1].depth
    BY <1>1, <2>1 DEF TodoInv
  <2>3. todo[1].depth \in {0, 2, 4, 6}
    BY <2>1 DEF Entry
  <2>4. todo[1].depth \in Nat /\ todo[1].depth <= 6
    BY <2>3
  <2>5. 2 * (Len(todo) - 1) <= 6
    BY <2>1, <2>2, <2>4
  <2>6. \A n \in Nat : 2 * (n - 1) <= 6 => n \in 0 .. 4
    OBVIOUS
  <2>7. QED
    BY <2>1, <2>5, <2>6
<1>2. CASE ~(Len(todo) >= 1)
  BY <1>2 DEF TodoInv
<1>3. QED
  BY <1>1, <1>2

(* The two ways in which a step changes what is left.                      *)
Pop ==
    /\ todo' = Tail(todo)
    /\ todo' \in Seq(Entry)
    /\ Len(todo') = Len(todo) - 1
    /\ \A i \in 1 .. Len(todo') : todo'[i] = todo[i + 1]

Push(first, second) ==
    /\ todo' \in Seq(Entry)
    /\ Len(todo') = Len(todo) + 1
    /\ todo'[1] = first /\ todo'[2] = second
    /\ \A i \in 3 .. Len(todo') : todo'[i] = todo[i - 1]

LEMMA HeadOfTodo ==
    ASSUME TodoInv, todo # <<>>
    PROVE  /\ Len(todo) \in 1 .. 4 /\ Head(todo) = todo[1]
           /\ todo[1] \in Entry /\ todo[1].at \in Nodes
           /\ todo[1].depth \in {0, 2, 4, 6}
<1>1. todo \in Seq(Entry)
  BY DEF TodoInv
<1>2. Len(todo) \in 1 .. 4
  BY <1>1, AtMostFour, EmptySeq
<1>3. Head(todo) = todo[1] /\ todo[1] \in Entry
  BY <1>1, <1>2
<1>4. QED
  BY <1>2, <1>3 DEF Entry

LEMMA PopsTodo ==
    ASSUME TodoInv, todo # <<>>, todo' = Tail(todo)
    PROVE  Pop
BY HeadTailProperties DEF TodoInv, Pop

LEMMA PushesTodo ==
    ASSUME TodoInv, todo # <<>>, NEW f \in Entry, NEW s \in Entry,
           todo' = <<f, s>> \o Tail(todo)
    PROVE  Push(f, s)
<1>1. /\ Tail(todo) \in Seq(Entry) /\ Len(Tail(todo)) = Len(todo) - 1
      /\ \A i \in 1 .. Len(Tail(todo)) : Tail(todo)[i] = todo[i + 1]
  BY HeadTailProperties DEF TodoInv
<1>2. <<f, s>> \in Seq(Entry) /\ Len(<<f, s>>) = 2
  OBVIOUS
<1>3. /\ todo' \in Seq(Entry)
      /\ Len(todo') = 2 + (Len(todo) - 1)
      /\ \A i \in 1 .. 2 + (Len(todo) - 1) :
            todo'[i] = IF i <= 2 THEN <<f, s>>[i] ELSE Tail(todo)[i - 2]
  BY <1>1, <1>2, ConcatProperties
<1>4. Len(todo) \in 1 .. 4
  BY HeadOfTodo
<1>5. Len(todo') = Len(todo) + 1
  BY <1>3, <1>4
<1>6. todo'[1] = f /\ todo'[2] = s
  BY <1>3, <1>4
<1>7. ASSUME NEW i \in 3 .. Len(todo') PROVE todo'[i] = todo[i - 1]
  <2>1. i - 2 \in 1 .. Len(Tail(todo)) /\ ~(i <= 2) /\ i \in 1 .. 2 + (Len(todo) - 1)
    BY <1>1, <1>4, <1>5
  <2>2. todo'[i] = Tail(todo)[i - 2]
    BY <1>3, <2>1
  <2>3. Tail(todo)[i - 2] = todo[(i - 2) + 1]
    BY <1>1, <2>1
  <2>4. (i - 2) + 1 = i - 1
    BY <1>4, <1>5
  <2>5. QED
    BY <2>2, <2>3, <2>4
<1>8. QED
  BY <1>3, <1>5, <1>6, <1>7 DEF Push

(* readStringInternal, by the three things it may find.                    *)
LEMMA StringRead ==
    ASSUME TodoInv, ReadStringInternal
    PROVE  /\ todo # <<>>
           /\ \/ /\ todo[1].depth = 6
                 /\ Pop /\ text' = Append(text, "...") /\ objects' = objects
              \/ /\ todo[1].depth \in {0, 2, 4}
                 /\ strings[todo[1].at].kind # "cons"
                 /\ Pop /\ text' = text \o Own(todo[1].at) /\ objects' = objects + 1
              \/ /\ todo[1].depth \in {0, 2, 4}
                 /\ strings[todo[1].at].kind = "cons"
                 /\ Push([at |-> strings[todo[1].at].first, depth |-> todo[1].depth + 2],
                         [at |-> strings[todo[1].at].second, depth |-> todo[1].depth + 2])
                 /\ text' = text /\ objects' = objects + 1
<1> DEFINE d == todo[1].depth
           o == strings[todo[1].at]
           f == [at |-> o.first, depth |-> d + 2]
           s == [at |-> o.second, depth |-> d + 2]
<1>1. todo # <<>>
  BY DEF ReadStringInternal
<1>2. /\ Head(todo) = todo[1] /\ d \in {0, 2, 4, 6} /\ todo[1].at \in Nodes
  BY <1>1, HeadOfTodo
<1>3. o \in StringObject
  BY <1>2 DEF TodoInv
<1>4. CASE d >= MAX_CONS_STRING_DEPTH
  <2>1. d = 6 /\ todo' = Tail(todo) /\ text' = Append(text, "...") /\ objects' = objects
    <3>1. d = 6 /\ ~(Head(todo).depth < MAX_CONS_STRING_DEPTH)
      BY <1>2, <1>4 DEF MAX_CONS_STRING_DEPTH
    <3>2. todo' = Tail(todo) /\ text' = Append(text, "...") /\ UNCHANGED objects
      BY <3>1, Zenon DEF ReadStringInternal
    <3>3. QED
      BY <3>1, <3>2
  <2>2. Pop
    BY <1>1, <2>1, PopsTodo
  <2>3. QED
    BY <1>1, <2>1, <2>2
<1>5. CASE d < MAX_CONS_STRING_DEPTH
  <2>1. d \in {0, 2, 4}
    BY <1>2, <1>5 DEF MAX_CONS_STRING_DEPTH
  <2>2. /\ text' = text \o Own(todo[1].at) /\ objects' = objects + 1
        /\ todo' = (IF o.kind = "cons" THEN ReadConsString(o, d + 1) ELSE <<>>) \o Tail(todo)
    <3>1. ~(Head(todo).depth >= MAX_CONS_STRING_DEPTH)
      BY <1>2, <1>5, <2>1 DEF MAX_CONS_STRING_DEPTH
    <3>2. /\ text' = text \o Own(Head(todo).at) /\ objects' = objects + 1
          /\ todo' = (IF strings[Head(todo).at].kind = "cons"
                      THEN ReadConsString(strings[Head(todo).at], Head(todo).depth + 1)
                      ELSE <<>>) \o Tail(todo)
      BY <3>1, Zenon DEF ReadStringInternal
    <3>3. QED
      BY <1>2, <3>2
  <2>3. CASE o.kind = "cons"
    <3>1. o.first \in Nodes /\ o.second \in Nodes
      BY <1>3, <2>3 DEF StringObject
    <3>2. f \in Entry /\ s \in Entry
      BY <2>1, <3>1 DEF Entry
    <3>3. d + 1 + 1 = d + 2
      BY <2>1
    <3>4. todo' = <<f, s>> \o Tail(todo)
      BY <2>2, <2>3, <3>3 DEF ReadConsString
    <3>5. Push(f, s)
      BY <1>1, <3>2, <3>4, PushesTodo
    <3>6. text \o Own(todo[1].at) = text
      BY <1>2, <2>3, ConcatEmptySeq DEF TodoInv, Own
    <3>7. QED
      BY <1>1, <2>1, <2>2, <2>3, <3>5, <3>6, Zenon
  <2>4. CASE o.kind # "cons"
    <3>1. Tail(todo) \in Seq(Entry)
      BY <1>1, HeadTailProperties DEF TodoInv
    <3>2. todo' = Tail(todo)
      BY <2>2, <2>4, <3>1, ConcatEmptySeq
    <3>3. Pop
      BY <1>1, <3>2, PopsTodo
    <3>4. QED
      BY <1>1, <2>1, <2>2, <2>4, <3>3
  <2>5. QED
    BY <2>3, <2>4
<1>6. QED
  BY <1>2, <1>4, <1>5 DEF MAX_CONS_STRING_DEPTH

LEMMA OwnPieces ==
    ASSUME NEW n \in Nodes
    PROVE  Own(n) \in Seq(Nodes \cup Marks)
<1>1. Own(n) \in {<<n>>, <<"[unknown]">>, <<>>}
  BY Zenon DEF Own
<1>2. \A S : \A e \in S : <<e>> \in Seq(S)
  OBVIOUS
<1>3. n \in Nodes \cup Marks /\ "[unknown]" \in Nodes \cup Marks
  BY DEF Marks
<1>4. <<n>> \in Seq(Nodes \cup Marks) /\ <<"[unknown]">> \in Seq(Nodes \cup Marks)
  BY <1>2, <1>3
<1>5. <<>> \in Seq(Nodes \cup Marks)
  OBVIOUS
<1>6. QED
  BY <1>1, <1>4, <1>5

LEMMA ForgetsTodo ==
    ASSUME TodoInv, ForgetStrings
    PROVE  TodoInv'
BY DEF TodoInv, ForgetStrings, NoStrings, StringObject

LEMMA BeginsTodo ==
    ASSUME TodoInv, stage \notin Walks, NEW pointer \in Nodes, NEW next \in Walks,
           strings' \in [Nodes -> StringObject], BeginString(pointer, next)
    PROVE  TodoInv' /\ Len(todo') = 1 /\ todo'[1] = [at |-> pointer, depth |-> 0]
<1>1. /\ root' = pointer /\ todo' = <<[at |-> pointer, depth |-> 0]>>
      /\ stage' = next /\ text' = text /\ objects' = objects
  BY DEF BeginString, Goto
<1>2. [at |-> pointer, depth |-> 0] \in Entry
  BY DEF Entry
<1>3. todo' \in Seq(Entry) /\ Len(todo') = 1 /\ todo'[1] = [at |-> pointer, depth |-> 0]
  BY <1>1, <1>2
<1>4. \A i \in 1 .. Len(todo') : 2 * (Len(todo') - i) <= todo'[i].depth
  BY <1>3
<1>5. QED
  BY <1>1, <1>3, <1>4 DEF TodoInv

LEMMA ReadsTodo ==
    ASSUME TodoInv, ReadStringInternal
    PROVE  TodoInv'
<1>1. todo # <<>> /\ Len(todo) \in 1 .. 4 /\ todo[1] \in Entry /\ todo[1].at \in Nodes
  BY StringRead, HeadOfTodo
<1>2. UNCHANGED <<stage, strings, root>> /\ stage \in Walks
  BY DEF ReadStringInternal
<1>3. \A i \in 1 .. Len(todo) : todo[i].depth \in Nat /\ 2 * (Len(todo) - i) <= todo[i].depth
  <2>1. \A i \in 1 .. Len(todo) : todo[i] \in Entry
    BY DEF TodoInv
  <2>2. QED
    BY <2>1 DEF TodoInv, Entry
<1>4. text' \in Seq(Nodes \cup Marks) /\ objects' \in Nat
  <2>1. text \in Seq(Nodes \cup Marks) /\ objects \in Nat
    BY DEF TodoInv
  <2>2. Append(text, "...") \in Seq(Nodes \cup Marks)
    BY <2>1, AppendProperties DEF Marks
  <2>3. text \o Own(todo[1].at) \in Seq(Nodes \cup Marks)
    BY <1>1, <2>1, OwnPieces, ConcatProperties
  <2>4. text' \in {text, Append(text, "..."), text \o Own(todo[1].at)}
    BY StringRead, Zenon
  <2>5. objects' = objects \/ objects' = objects + 1
    BY StringRead, Zenon
  <2>6. text' \in Seq(Nodes \cup Marks)
    BY <2>1, <2>2, <2>3, <2>4
  <2>7. QED
    BY <2>1, <2>5, <2>6
<1>5. todo' \in Seq(Entry)
  BY StringRead DEF Pop, Push
<1>6. \A i \in 1 .. Len(todo') : 2 * (Len(todo') - i) <= todo'[i].depth
  <2>1. CASE Pop
    <3>1. ASSUME NEW i \in 1 .. Len(todo') PROVE 2 * (Len(todo') - i) <= todo'[i].depth
      <4>1. /\ Len(todo') = Len(todo) - 1 /\ i + 1 \in 1 .. Len(todo)
            /\ todo'[i] = todo[i + 1]
        BY <1>1, <2>1, <3>1 DEF Pop
      <4>2. 2 * (Len(todo) - (i + 1)) <= todo[i + 1].depth
        BY <1>3, <4>1
      <4>3. Len(todo) - (i + 1) = Len(todo') - i
        BY <1>1, <4>1
      <4>4. QED
        BY <4>1, <4>2, <4>3
    <3>2. QED
      BY <3>1
  <2>2. ASSUME todo[1].depth \in {0, 2, 4},
               NEW a, NEW b, Push([at |-> a, depth |-> todo[1].depth + 2],
                                  [at |-> b, depth |-> todo[1].depth + 2])
        PROVE  \A i \in 1 .. Len(todo') : 2 * (Len(todo') - i) <= todo'[i].depth
    <3>1. /\ Len(todo') = Len(todo) + 1
          /\ todo'[1].depth = todo[1].depth + 2 /\ todo'[2].depth = todo[1].depth + 2
          /\ \A i \in 3 .. Len(todo') : todo'[i] = todo[i - 1]
      BY <2>2 DEF Push
    <3>2. todo[1].depth \in Nat /\ 2 * (Len(todo) - 1) <= todo[1].depth
      BY <1>1, <1>3
    <3>3. ASSUME NEW i \in 1 .. Len(todo') PROVE 2 * (Len(todo') - i) <= todo'[i].depth
      <4>1. CASE i \in {1, 2}
        BY <1>1, <3>1, <3>2, <4>1
      <4>2. CASE i \notin {1, 2}
        <5>1. i - 1 \in 1 .. Len(todo) /\ i \in 3 .. Len(todo')
          BY <1>1, <3>1, <3>3, <4>2
        <5>2. 2 * (Len(todo) - (i - 1)) <= todo[i - 1].depth
          BY <1>3, <5>1
        <5>3. Len(todo) - (i - 1) = Len(todo') - i
          BY <1>1, <3>1, <5>1
        <5>4. QED
          BY <3>1, <5>1, <5>2, <5>3
      <4>3. QED
        BY <4>1, <4>2
    <3>4. QED
      BY <3>3
  <2>3. QED
    BY <2>1, <2>2, StringRead
<1>7. QED
  BY <1>2, <1>4, <1>5, <1>6 DEF TodoInv

LEMMA TodoInvariant == HeapSpec => []TodoInv
<1>1. HeapInit => TodoInv
  BY DEF HeapInit, TodoInv, NoStrings, StringObject, Walks, Marks
<1>2. TodoInv /\ [HeapNext]_heapVars => TodoInv'
  <2> SUFFICES ASSUME TodoInv, [HeapNext]_heapVars PROVE TodoInv'
    OBVIOUS
  <2>1. ASSUME UNCHANGED stringVars, stage \in Walks => stage' \in Walks
        PROVE  TodoInv'
    BY <2>1 DEF stringVars, TodoInv
  <2>2. ASSUME stage \notin Walks, UNCHANGED stringVars PROVE TodoInv'
    BY <2>1, <2>2
  <2>3. CASE ReadFrameType
    BY <2>2, <2>3 DEF ReadFrameType, Walks
  <2>4. CASE ReadObjectType
    BY <2>2, <2>4 DEF ReadObjectType, Walks
  <2>5. CASE ReadPointer
    BY <2>2, <2>5 DEF ReadPointer, Walks
  <2>6. CASE ReadFuncSharedInfoName
    BY <2>6, BeginsTodo DEF ReadFuncSharedInfoName, Walks
  <2>7. CASE ReadFuncSharedInfoFileName
    BY <2>7, BeginsTodo DEF ReadFuncSharedInfoFileName, Walks
  <2>8. CASE ReadStringInternal
    BY <2>8, ReadsTodo
  <2>9. CASE EndString \/ Throw
    BY <2>9, ForgetsTodo DEF EndString, Throw
  <2>10. CASE ReadLineNumber
    BY <2>2, <2>10 DEF ReadLineNumber, Walks
  <2>11. CASE UNCHANGED heapVars
    BY <2>1, <2>11 DEF heapVars
  <2>12. QED
    BY <2>3, <2>4, <2>5, <2>6, <2>7, <2>8, <2>9, <2>10, <2>11 DEF HeapNext, HeapRead
<1>3. QED
  BY <1>1, <1>2, PTL DEF HeapSpec

(* Each string left may still cost the objects of a full tree below it.    *)
Cost(d) == IF d = 0 THEN 7 ELSE IF d = 2 THEN 3 ELSE IF d = 4 THEN 1 ELSE 0

Owed(i) == IF i <= Len(todo) THEN Cost(todo[i].depth) ELSE 0

Budget == objects + (Owed(1) + Owed(2) + Owed(3) + Owed(4)) <= 7

LEMMA OwedIsNat ==
    ASSUME NEW i \in Nat
    PROVE  Owed(i) \in Nat
BY DEF Owed, Cost

LEMMA PopOwes ==
    ASSUME TodoInv, todo # <<>>, Pop
    PROVE  /\ Owed(1) = Cost(todo[1].depth)
           /\ Owed(1)' = Owed(2) /\ Owed(2)' = Owed(3) /\ Owed(3)' = Owed(4)
           /\ Owed(4)' = 0
BY HeadOfTodo DEF Pop, Owed

LEMMA PushOwes ==
    ASSUME TodoInv, todo # <<>>, todo[1].depth \in {0, 2, 4}, NEW a, NEW b,
           Push([at |-> a, depth |-> todo[1].depth + 2],
                [at |-> b, depth |-> todo[1].depth + 2])
    PROVE  /\ Owed(1) = Cost(todo[1].depth)
           /\ Owed(1)' = Cost(todo[1].depth + 2) /\ Owed(2)' = Cost(todo[1].depth + 2)
           /\ Owed(3)' = Owed(2) /\ Owed(4)' = Owed(3) /\ Owed(4) = 0
<1>1. Len(todo) \in 1 .. 4
  BY HeadOfTodo
<1>2. 2 * (Len(todo) - 1) <= todo[1].depth
  BY <1>1 DEF TodoInv
<1>3. Len(todo) \in 1 .. 3
  <2>1. 2 * (Len(todo) - 1) <= 4
    BY <1>1, <1>2
  <2>2. \A n \in 1 .. 4 : 2 * (n - 1) <= 4 => n \in 1 .. 3
    OBVIOUS
  <2>3. QED
    BY <1>1, <2>1, <2>2
<1>4. /\ Len(todo') = Len(todo) + 1
      /\ todo'[1].depth = todo[1].depth + 2 /\ todo'[2].depth = todo[1].depth + 2
      /\ \A i \in 3 .. Len(todo') : todo'[i] = todo[i - 1]
  BY DEF Push
<1>5. /\ Len(todo') >= 3 => todo'[3] = todo[2]
      /\ Len(todo') >= 4 => todo'[4] = todo[3]
  BY <1>3, <1>4
<1>6. Owed(1) = Cost(todo[1].depth) /\ Owed(4) = 0
  BY <1>3 DEF Owed
<1>7. Owed(1)' = Cost(todo[1].depth + 2) /\ Owed(2)' = Cost(todo[1].depth + 2)
  BY <1>3, <1>4 DEF Owed
<1>8. Owed(3)' = Owed(2)
  BY <1>3, <1>4, <1>5 DEF Owed
<1>9. Owed(4)' = Owed(3)
  BY <1>3, <1>4, <1>5 DEF Owed
<1>10. QED
  BY <1>6, <1>7, <1>8, <1>9

(* Reading a name takes seven string objects at most, whatever the heap    *)
(* holds: the two increments of the depth in readStringInternal and        *)
(* readConsString allow a tree of three levels, cyclic strings included.   *)
THEOREM StringsAreCheap == HeapSpec => []FewStringsRead
<1> DEFINE I == stage \in Walks => Budget
<1>1. HeapInit => I
  BY DEF HeapInit, Walks
<1>2. TodoInv /\ I /\ [HeapNext]_heapVars => I'
  <2> SUFFICES ASSUME TodoInv, I, [HeapNext]_heapVars PROVE I'
    OBVIOUS
  <2>1. ASSUME stage' \notin Walks PROVE I'
    BY <2>1
  <2>2. ASSUME TodoInv', NEW pointer, objects' = 0, Len(todo') = 1,
               todo'[1] = [at |-> pointer, depth |-> 0]
        PROVE  I'
    BY <2>2 DEF Budget, Owed, Cost
  <2>3. CASE ReadStringInternal
    <3>1. todo # <<>> /\ stage \in Walks /\ stage' = stage
      BY <2>3 DEF ReadStringInternal
    <3>2. objects \in Nat /\ todo[1].depth \in {0, 2, 4, 6}
      BY <3>1, HeadOfTodo DEF TodoInv
    <3>3. Owed(1) \in Nat /\ Owed(2) \in Nat /\ Owed(3) \in Nat /\ Owed(4) \in Nat
      BY OwedIsNat
    <3>4. Budget
      BY <3>1
    <3>5. CASE Pop /\ objects' = objects
      BY <3>1, <3>2, <3>3, <3>4, <3>5, PopOwes DEF Budget
    <3>6. CASE Pop /\ objects' = objects + 1 /\ todo[1].depth \in {0, 2, 4}
      <4>1. Cost(todo[1].depth) >= 1
        BY <3>6 DEF Cost
      <4>2. QED
        BY <3>1, <3>2, <3>3, <3>4, <3>6, <4>1, PopOwes DEF Budget
    <3>7. ASSUME todo[1].depth \in {0, 2, 4}, NEW a, NEW b,
                 Push([at |-> a, depth |-> todo[1].depth + 2],
                      [at |-> b, depth |-> todo[1].depth + 2]),
                 objects' = objects + 1
          PROVE  I'
      <4>1. Cost(todo[1].depth) = 1 + Cost(todo[1].depth + 2) + Cost(todo[1].depth + 2)
        BY <3>7 DEF Cost
      <4>2. Cost(todo[1].depth + 2) \in Nat
        BY DEF Cost
      <4>3. /\ Owed(1) = Cost(todo[1].depth)
            /\ Owed(1)' = Cost(todo[1].depth + 2) /\ Owed(2)' = Cost(todo[1].depth + 2)
            /\ Owed(3)' = Owed(2) /\ Owed(4)' = Owed(3) /\ Owed(4) = 0
        BY <3>1, <3>7, PushOwes
      <4>4. QED
        BY <3>2, <3>3, <3>4, <3>7, <4>1, <4>2, <4>3 DEF Budget
    <3>8. QED
      BY <2>3, <3>5, <3>6, <3>7, StringRead, Zenon
  <2>4. CASE ReadFuncSharedInfoName
    <3>1. stage \notin Walks /\ objects = 0
      BY <2>4 DEF ReadFuncSharedInfoName, Walks, TodoInv
    <3>2. PICK pointer \in Nodes : BeginString(pointer, "nameString")
      BY <2>4 DEF ReadFuncSharedInfoName
    <3>3. strings' \in [Nodes -> StringObject] /\ "nameString" \in Walks
      BY <2>4 DEF ReadFuncSharedInfoName, Walks
    <3>4. TodoInv' /\ Len(todo') = 1 /\ todo'[1] = [at |-> pointer, depth |-> 0]
      BY <3>1, <3>2, <3>3, BeginsTodo
    <3>5. objects' = 0
      BY <3>1, <3>2 DEF BeginString
    <3>6. QED
      BY <2>2, <3>4, <3>5
  <2>5. CASE ReadFuncSharedInfoFileName
    <3>1. stage \notin Walks /\ objects = 0
      BY <2>5 DEF ReadFuncSharedInfoFileName, Walks, TodoInv
    <3>2. PICK pointer \in Nodes : BeginString(pointer, "fileString")
      BY <2>5 DEF ReadFuncSharedInfoFileName
    <3>3. strings' \in [Nodes -> StringObject] /\ "fileString" \in Walks
      BY <2>5 DEF ReadFuncSharedInfoFileName, Walks
    <3>4. TodoInv' /\ Len(todo') = 1 /\ todo'[1] = [at |-> pointer, depth |-> 0]
      BY <3>1, <3>2, <3>3, BeginsTodo
    <3>5. objects' = 0
      BY <3>1, <3>2 DEF BeginString
    <3>6. QED
      BY <2>2, <3>4, <3>5
  <2>6. CASE ReadFrameType \/ ReadObjectType \/ ReadPointer
    BY <2>1, <2>6 DEF ReadFrameType, ReadObjectType, ReadPointer, Typed, Goto, Finish, Walks
  <2>7. CASE EndString
    BY <2>1, <2>7 DEF EndString, AfterString, Goto, Walks
  <2>8. CASE ReadLineNumber
    BY <2>1, <2>8 DEF ReadLineNumber, Finish, Walks
  <2>9. CASE Throw
    BY <2>1, <2>9 DEF Throw, Catch, CatchInTests, Typed, AfterString, Goto, Finish, Walks
  <2>10. CASE UNCHANGED heapVars
    BY <2>10 DEF heapVars, stringVars, Budget, Owed
  <2>11. QED
    BY <2>3, <2>4, <2>5, <2>6, <2>7, <2>8, <2>9, <2>10 DEF HeapNext, HeapRead
<1>3. TodoInv /\ I => FewStringsRead
  <2> SUFFICES ASSUME TodoInv, I PROVE objects <= 2 ^ 3 - 1
    BY DEF FewStringsRead
  <2>1. objects \in Nat /\ Owed(1) \in Nat /\ Owed(2) \in Nat /\ Owed(3) \in Nat /\ Owed(4) \in Nat
    BY OwedIsNat DEF TodoInv
  <2>2. objects <= 7
    BY <2>1 DEF TodoInv, Budget
  <2>3. 2 ^ 3 - 1 = 7
    OBVIOUS
  <2>4. QED
    BY <2>2, <2>3
<1>4. QED
  BY <1>1, <1>2, <1>3, TodoInvariant, PTL DEF HeapSpec

-----------------------------------------------------------------------------
(* What strings say *)

Pieces == Nodes \cup Marks

(* What a string at a given depth is read as.                              *)
Level(d) ==
    IF d = 0 THEN Whole
    ELSE IF d = 2 THEN Expanded(Expanded(Elided))
    ELSE IF d = 4 THEN Expanded(Elided)
    ELSE Elided

Rest(i) == IF i <= Len(todo) THEN Level(todo[i].depth)[todo[i].at] ELSE <<>>

Pending == Rest(1) \o (Rest(2) \o (Rest(3) \o Rest(4)))

LEMMA ExpandedType ==
    ASSUME TodoInv, NEW below \in [Nodes -> Seq(Pieces)]
    PROVE  Expanded(below) \in [Nodes -> Seq(Pieces)]
<1> SUFFICES ASSUME NEW n \in Nodes
             PROVE  (IF strings[n].kind = "cons"
                     THEN below[strings[n].first] \o below[strings[n].second]
                     ELSE Own(n)) \in Seq(Pieces)
  BY DEF Expanded
<1>1. Own(n) \in Seq(Pieces)
  BY OwnPieces DEF Pieces
<1>2. ASSUME strings[n].kind = "cons"
      PROVE  below[strings[n].first] \o below[strings[n].second] \in Seq(Pieces)
  <2>1. strings[n] \in StringObject
    BY DEF TodoInv
  <2>2. strings[n].first \in Nodes /\ strings[n].second \in Nodes
    BY <1>2, <2>1 DEF StringObject
  <2>3. below[strings[n].first] \in Seq(Pieces) /\ below[strings[n].second] \in Seq(Pieces)
    BY <2>2
  <2>4. QED
    BY <2>3, ConcatProperties
<1>3. QED
  BY <1>1, <1>2

LEMMA LevelType ==
    ASSUME TodoInv, NEW d
    PROVE  Level(d) \in [Nodes -> Seq(Pieces)]
<1>1. <<"...">> \in Seq(Pieces)
  <2>1. "..." \in Pieces
    BY DEF Pieces, Marks
  <2>2. \A S : \A e \in S : <<e>> \in Seq(S)
    OBVIOUS
  <2>3. QED
    BY <2>1, <2>2
<1>2. Elided \in [Nodes -> Seq(Pieces)]
  BY <1>1 DEF Elided
<1>3. Expanded(Elided) \in [Nodes -> Seq(Pieces)]
  BY <1>2, ExpandedType
<1>4. Expanded(Expanded(Elided)) \in [Nodes -> Seq(Pieces)]
  BY <1>3, ExpandedType
<1>5. Whole \in [Nodes -> Seq(Pieces)]
  BY <1>4, ExpandedType DEF Whole
<1>6. QED
  BY <1>2, <1>3, <1>4, <1>5 DEF Level

LEMMA RestType ==
    ASSUME TodoInv, NEW i \in 1 .. 4
    PROVE  Rest(i) \in Seq(Pieces)
<1>1. CASE i <= Len(todo)
  <2>1. todo[i] \in Entry
    BY <1>1, AtMostFour DEF TodoInv
  <2>2. todo[i].at \in Nodes
    BY <2>1 DEF Entry
  <2>3. Level(todo[i].depth) \in [Nodes -> Seq(Pieces)]
    BY LevelType
  <2>4. QED
    BY <1>1, <2>2, <2>3 DEF Rest
<1>2. CASE ~(i <= Len(todo))
  BY <1>2 DEF Rest
<1>3. QED
  BY <1>1, <1>2

(* An object gives its own piece, or what its two parts say.               *)
LEMMA LevelOfOther ==
    ASSUME NEW d \in {0, 2, 4}, NEW n \in Nodes, strings[n].kind # "cons"
    PROVE  Level(d)[n] = Own(n)
BY DEF Level, Whole, Expanded

LEMMA LevelOfCons ==
    ASSUME NEW d \in {0, 2, 4}, NEW n \in Nodes, strings[n].kind = "cons"
    PROVE  Level(d)[n] = Level(d + 2)[strings[n].first] \o Level(d + 2)[strings[n].second]
<1>1. \A below : Expanded(below)[n] = below[strings[n].first] \o below[strings[n].second]
  BY DEF Expanded
<1>2. CASE d = 0
  <2>1. Level(0)[n] = Whole[n] /\ Level(2) = Expanded(Expanded(Elided)) /\ d + 2 = 2
    BY <1>2 DEF Level
  <2>2. Whole[n] = Level(2)[strings[n].first] \o Level(2)[strings[n].second]
    BY <1>1, <2>1 DEF Whole
  <2>3. QED
    BY <1>2, <2>1, <2>2
<1>3. CASE d = 2
  <2>1. Level(2) = Expanded(Expanded(Elided)) /\ Level(4) = Expanded(Elided) /\ d + 2 = 4
    BY <1>3 DEF Level
  <2>2. QED
    BY <1>1, <1>3, <2>1
<1>4. CASE d = 4
  <2>1. Level(4) = Expanded(Elided) /\ Level(6) = Elided /\ d + 2 = 6
    BY <1>4 DEF Level
  <2>2. QED
    BY <1>1, <1>4, <2>1
<1>5. QED
  BY <1>2, <1>3, <1>4

Order == stage \in Walks => text \o Pending = Whole[root]

LEMMA LevelUnchanged ==
    ASSUME strings' = strings
    PROVE  Whole' = Whole /\ \A d : Level(d)' = Level(d)
<1>1. Whole' = Whole
  BY DEF Whole, Expanded, Own, Elided
<1>2. QED
  BY <1>1 DEF Level, Expanded, Own, Elided

LEMMA PopRests ==
    ASSUME TodoInv, todo # <<>>, strings' = strings, Pop
    PROVE  /\ Rest(1) = Level(todo[1].depth)[todo[1].at]
           /\ Rest(1)' = Rest(2) /\ Rest(2)' = Rest(3) /\ Rest(3)' = Rest(4)
           /\ Rest(4)' = <<>>
<1>1. Len(todo) \in 1 .. 4 /\ \A d : Level(d)' = Level(d)
  BY HeadOfTodo, LevelUnchanged
<1>2. /\ Len(todo') = Len(todo) - 1
      /\ \A i \in 1 .. Len(todo') : todo'[i] = todo[i + 1]
  BY DEF Pop
<1>3. ASSUME NEW i \in 1 .. 3 PROVE Rest(i)' = Rest(i + 1)
  <2>1. CASE i + 1 <= Len(todo)
    <3>1. i <= Len(todo') /\ todo'[i] = todo[i + 1]
      BY <1>1, <1>2, <2>1
    <3>2. Rest(i)' = Level(todo[i + 1].depth)[todo[i + 1].at]
      BY <1>1, <3>1 DEF Rest
    <3>3. QED
      BY <2>1, <3>2 DEF Rest
  <2>2. CASE ~(i + 1 <= Len(todo))
    BY <1>1, <1>2, <2>2 DEF Rest
  <2>3. QED
    BY <2>1, <2>2
<1>4. Rest(4)' = <<>> /\ Rest(1) = Level(todo[1].depth)[todo[1].at]
  BY <1>1, <1>2 DEF Rest
<1>5. Rest(1)' = Rest(1 + 1) /\ Rest(2)' = Rest(2 + 1) /\ Rest(3)' = Rest(3 + 1)
  BY <1>3
<1>6. QED
  BY <1>4, <1>5

LEMMA PushRests ==
    ASSUME TodoInv, todo # <<>>, strings' = strings,
           todo[1].depth \in {0, 2, 4}, NEW a, NEW b,
           Push([at |-> a, depth |-> todo[1].depth + 2],
                [at |-> b, depth |-> todo[1].depth + 2])
    PROVE  /\ Rest(1) = Level(todo[1].depth)[todo[1].at]
           /\ Rest(1)' = Level(todo[1].depth + 2)[a]
           /\ Rest(2)' = Level(todo[1].depth + 2)[b]
           /\ Rest(3)' = Rest(2) /\ Rest(4)' = Rest(3) /\ Rest(4) = <<>>
<1>1. Len(todo) \in 1 .. 4 /\ \A d : Level(d)' = Level(d)
  BY HeadOfTodo, LevelUnchanged
<1>2. Len(todo) \in 1 .. 3
  <2>1. 2 * (Len(todo) - 1) <= 4
    BY <1>1 DEF TodoInv
  <2>2. \A n \in 1 .. 4 : 2 * (n - 1) <= 4 => n \in 1 .. 3
    OBVIOUS
  <2>3. QED
    BY <1>1, <2>1, <2>2
<1>3. /\ Len(todo') = Len(todo) + 1
      /\ todo'[1] = [at |-> a, depth |-> todo[1].depth + 2]
      /\ todo'[2] = [at |-> b, depth |-> todo[1].depth + 2]
      /\ \A i \in 3 .. Len(todo') : todo'[i] = todo[i - 1]
  BY DEF Push
<1>4. /\ Len(todo') >= 3 => todo'[3] = todo[2]
      /\ Len(todo') >= 4 => todo'[4] = todo[3]
  BY <1>2, <1>3
<1>5. Rest(1) = Level(todo[1].depth)[todo[1].at] /\ Rest(4) = <<>>
  BY <1>2 DEF Rest
<1>6. /\ todo'[1].at = a /\ todo'[1].depth = todo[1].depth + 2
      /\ todo'[2].at = b /\ todo'[2].depth = todo[1].depth + 2
      /\ 1 <= Len(todo') /\ 2 <= Len(todo')
  BY <1>2, <1>3
<1>7. Rest(1)' = Level(todo[1].depth + 2)[a] /\ Rest(2)' = Level(todo[1].depth + 2)[b]
  BY <1>1, <1>6 DEF Rest
<1>8. Rest(3)' = Rest(2)
  <2>1. (3 <= Len(todo')) <=> (2 <= Len(todo))
    BY <1>2, <1>3
  <2>2. QED
    BY <1>1, <1>2, <1>3, <1>4, <2>1 DEF Rest
<1>9. Rest(4)' = Rest(3)
  <2>1. (4 <= Len(todo')) <=> (3 <= Len(todo))
    BY <1>2, <1>3
  <2>2. QED
    BY <1>1, <1>2, <1>3, <1>4, <2>1 DEF Rest
<1>10. QED
  BY <1>5, <1>7, <1>8, <1>9

(* One step of readStringInternal moves a piece from what is left to what  *)
(* was read, or takes a cons string apart.                                 *)
LEMMA ReadsInOrder ==
    ASSUME TodoInv, ReadStringInternal
    PROVE  text' \o Pending' = text \o Pending
<1>1. todo # <<>> /\ strings' = strings
  BY DEF ReadStringInternal
<1>2. todo[1].at \in Nodes /\ todo[1].depth \in {0, 2, 4, 6}
  BY <1>1, HeadOfTodo
<1>3. /\ Rest(1) \in Seq(Pieces) /\ Rest(2) \in Seq(Pieces)
      /\ Rest(3) \in Seq(Pieces) /\ Rest(4) \in Seq(Pieces)
  BY RestType
<1>4. text \in Seq(Pieces)
  BY DEF TodoInv, Pieces
<1>5. ASSUME Pop, text' = text \o Rest(1) PROVE text' \o Pending' = text \o Pending
  <2>1. Pending' = Rest(2) \o (Rest(3) \o (Rest(4) \o <<>>))
    BY <1>1, <1>5, PopRests DEF Pending
  <2>2. Rest(4) \o <<>> = Rest(4)
    BY <1>3, ConcatEmptySeq
  <2>3. ASSUME NEW rest, rest = Rest(2) \o (Rest(3) \o Rest(4))
        PROVE  (text \o Rest(1)) \o rest = text \o (Rest(1) \o rest)
    <3>1. rest \in Seq(Pieces)
      BY <1>3, <2>3, ConcatProperties
    <3>2. QED
      BY <1>3, <1>4, <3>1
  <2>4. QED
    BY <1>5, <2>1, <2>2, <2>3 DEF Pending
<1>6. CASE Pop /\ text' = Append(text, "...") /\ todo[1].depth = 6
  <2>1. Rest(1) = <<"...">>
    BY <1>1, <1>2, <1>6, PopRests DEF Level, Elided
  <2>2. "..." \in Pieces
    BY DEF Pieces, Marks
  <2>3. text' = text \o Rest(1)
    BY <1>4, <1>6, <2>1, <2>2, AppendIsConcat
  <2>4. QED
    BY <1>5, <1>6, <2>3
<1>7. CASE /\ Pop /\ text' = text \o Own(todo[1].at)
           /\ todo[1].depth \in {0, 2, 4} /\ strings[todo[1].at].kind # "cons"
  <2>1. Rest(1) = Own(todo[1].at)
    BY <1>1, <1>2, <1>7, PopRests, LevelOfOther
  <2>2. QED
    BY <1>5, <1>7, <2>1
<1>8. CASE /\ todo[1].depth \in {0, 2, 4} /\ strings[todo[1].at].kind = "cons"
           /\ Push([at |-> strings[todo[1].at].first, depth |-> todo[1].depth + 2],
                   [at |-> strings[todo[1].at].second, depth |-> todo[1].depth + 2])
           /\ text' = text
  <2> DEFINE f == Level(todo[1].depth + 2)[strings[todo[1].at].first]
             s == Level(todo[1].depth + 2)[strings[todo[1].at].second]
  <2>1. strings[todo[1].at].first \in Nodes /\ strings[todo[1].at].second \in Nodes
    <3>1. strings[todo[1].at] \in StringObject
      BY <1>2 DEF TodoInv
    <3>2. QED
      BY <1>8, <3>1 DEF StringObject
  <2>2. f \in Seq(Pieces) /\ s \in Seq(Pieces)
    <3>1. Level(todo[1].depth + 2) \in [Nodes -> Seq(Pieces)]
      BY LevelType
    <3>2. QED
      BY <2>1, <3>1
  <2>3. Rest(1) = f \o s
    BY <1>1, <1>2, <1>8, PushRests, LevelOfCons
  <2>4. /\ Rest(1)' = f /\ Rest(2)' = s /\ Rest(3)' = Rest(2) /\ Rest(4)' = Rest(3)
        /\ Rest(4) = <<>>
    BY <1>1, <1>8, PushRests
  <2> HIDE DEF f, s
  <2>5. Pending = (f \o s) \o (Rest(2) \o (Rest(3) \o <<>>))
    BY <2>3, <2>4 DEF Pending
  <2>6. Pending' = f \o (s \o (Rest(2) \o Rest(3)))
    BY <2>4 DEF Pending
  <2>7. Rest(3) \o <<>> = Rest(3)
    BY <1>3, ConcatEmptySeq
  <2>8. ASSUME NEW rest, rest = Rest(2) \o Rest(3)
        PROVE  (f \o s) \o rest = f \o (s \o rest)
    <3>1. rest \in Seq(Pieces)
      BY <1>3, <2>8, ConcatProperties
    <3>2. QED
      BY <2>2, <3>1
  <2>9. QED
    BY <1>8, <2>5, <2>6, <2>7, <2>8
<1>9. QED
  BY <1>6, <1>7, <1>8, StringRead, Zenon

(* readString reads a string whole and in order, to the depth that its     *)
(* constant allows, whatever graph of cons strings the heap holds.         *)
THEOREM StringsReadInOrder == HeapSpec => []StringsInOrder
<1>1. HeapInit => Order
  BY DEF HeapInit, Order, Walks
<1>2. (TodoInv => Rest(1) \in Seq(Pieces))'
  <2>1. TodoInv => Rest(1) \in Seq(Pieces)
    BY RestType
  <2>2. QED
    BY <2>1, PTL
<1>3. TodoInv /\ Order /\ [HeapNext]_heapVars => Order'
  <2> SUFFICES ASSUME TodoInv, Order, [HeapNext]_heapVars PROVE Order'
    OBVIOUS
  <2>1. ASSUME stage' \notin Walks PROVE Order'
    BY <2>1 DEF Order
  <2>2. ASSUME NEW pointer \in Nodes, NEW next \in Walks, stage \notin Walks,
               strings' \in [Nodes -> StringObject], BeginString(pointer, next)
        PROVE  Order'
    <3>1. TodoInv' /\ Len(todo') = 1 /\ todo'[1] = [at |-> pointer, depth |-> 0]
      BY <2>2, BeginsTodo
    <3>2. text' = <<>> /\ root' = pointer
      BY <2>2 DEF BeginString, TodoInv
    <3>3. Rest(1)' = Whole'[pointer] /\ Rest(2)' = <<>> /\ Rest(3)' = <<>> /\ Rest(4)' = <<>>
      BY <3>1 DEF Rest, Level
    <3>4. Rest(1)' \in Seq(Pieces)
      BY <1>2, <3>1
    <3>5. QED
      BY <3>2, <3>3, <3>4, ConcatEmptySeq DEF Order, Pending
  <2>3. CASE ReadStringInternal
    <3>1. stage \in Walks /\ root' = root /\ strings' = strings
      BY <2>3 DEF ReadStringInternal
    <3>2. Whole' = Whole
      BY <3>1, LevelUnchanged
    <3>3. QED
      BY <2>3, <3>1, <3>2, ReadsInOrder DEF Order
  <2>4. CASE ReadFuncSharedInfoName
    <3>1. PICK pointer \in Nodes : BeginString(pointer, "nameString")
      BY <2>4 DEF ReadFuncSharedInfoName
    <3>2. QED
      BY <2>2, <2>4, <3>1 DEF ReadFuncSharedInfoName, Walks
  <2>5. CASE ReadFuncSharedInfoFileName
    <3>1. PICK pointer \in Nodes : BeginString(pointer, "fileString")
      BY <2>5 DEF ReadFuncSharedInfoFileName
    <3>2. QED
      BY <2>2, <2>5, <3>1 DEF ReadFuncSharedInfoFileName, Walks
  <2>6. CASE ReadFrameType \/ ReadObjectType \/ ReadPointer
    BY <2>1, <2>6 DEF ReadFrameType, ReadObjectType, ReadPointer, Typed, Goto, Finish, Walks
  <2>7. CASE EndString
    BY <2>1, <2>7 DEF EndString, AfterString, Goto, Walks
  <2>8. CASE ReadLineNumber
    BY <2>1, <2>8 DEF ReadLineNumber, Finish, Walks
  <2>9. CASE Throw
    BY <2>1, <2>9 DEF Throw, Catch, CatchInTests, Typed, AfterString, Goto, Finish, Walks
  <2>10. CASE UNCHANGED heapVars
    <3>1. strings' = strings /\ UNCHANGED <<stage, root, todo, text>>
      BY <2>10 DEF heapVars, stringVars
    <3>2. Whole' = Whole /\ \A d : Level(d)' = Level(d)
      BY <3>1, LevelUnchanged
    <3>3. QED
      BY <3>1, <3>2 DEF Order, Pending, Rest
  <2>11. QED
    BY <2>3, <2>4, <2>5, <2>6, <2>7, <2>8, <2>9, <2>10 DEF HeapNext, HeapRead
<1>4. TodoInv /\ Order => StringsInOrder
  <2> SUFFICES ASSUME TodoInv, Order, stage \in Walks, todo = <<>>
               PROVE  text = Whole[root]
    BY DEF StringsInOrder
  <2>1. Rest(1) = <<>> /\ Rest(2) = <<>> /\ Rest(3) = <<>> /\ Rest(4) = <<>>
    BY DEF Rest
  <2>2. Pending = <<>>
    BY <2>1, ConcatEmptySeq DEF Pending
  <2>3. text \o <<>> = text
    BY ConcatEmptySeq DEF TodoInv
  <2>4. QED
    BY <2>2, <2>3 DEF Order
<1>5. QED
  BY <1>1, <1>3, <1>4, TodoInvariant, PTL DEF HeapSpec

=============================================================================
