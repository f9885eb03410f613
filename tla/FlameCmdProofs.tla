--------------------------- MODULE FlameCmdProofs ---------------------------
(***************************************************************************)
(* Proofs about FlameCmd, for profiles of any size.                        *)
(***************************************************************************)
EXTENDS FlameCmd, Recursion

Frame == Seq(STRING)
Text == {Blank, Count} \cup {FrameLine(f) : f \in Frame}

LEMMA ProfilesTyped == Profiles \subseteq Seq(Seq(Frame))
BY FlameCmdAssumption DEF FlameCmdAssumption, Frame

-----------------------------------------------------------------------------
(* StackVisAdaptor *)

Converted(stack, mode) == [j \in DOMAIN stack |-> ConvertFrame(stack[j], mode)]

LEMMA ConvertFrameType ==
    ASSUME NEW f \in Frame, NEW mode
    PROVE  ConvertFrame(f, mode) \in Frame
BY DEF ConvertFrame, TruncateFramePath, Frame

LEMMA StackLinesAre ==
    ASSUME NEW stack \in Seq(Frame), NEW mode
    PROVE  LET lns == StackLines(stack, mode) IN
           /\ lns \in Seq(Text \ {Blank})
           /\ Len(lns) = Len(stack) + 1
           /\ \A j \in DOMAIN stack : lns[j] = FrameLine(Converted(stack, mode)[j])
           /\ lns[Len(stack) + 1] = Count
<1> DEFINE fls == [i \in DOMAIN stack |-> FrameLine(ConvertFrame(stack[i], mode))]
<1>1. DOMAIN stack = 1 .. Len(stack) /\ Len(stack) \in Nat
  OBVIOUS
<1>2. \A i \in DOMAIN stack : fls[i] \in Text \ {Blank}
  BY ConvertFrameType DEF Text, FrameLine, Blank
<1>3. fls \in Seq(Text \ {Blank}) /\ Len(fls) = Len(stack)
  BY <1>1, <1>2
<1>4. Count \in Text \ {Blank}
  BY DEF Text, Count, Blank
<1>5. StackLines(stack, mode) = Append(fls, Count)
  BY DEF StackLines
<1>6. \A i \in DOMAIN stack : fls[i] = FrameLine(Converted(stack, mode)[i])
  BY DEF Converted
<1> HIDE DEF fls
<1>7. QED
  BY <1>1, <1>3, <1>4, <1>5, <1>6

(* The lines are those of one stack after the other.                       *)
LEMMA AdaptorPushes ==
    ASSUME NEW profile \in Seq(Seq(Frame)), NEW mode
    PROVE  \E pushed :
              /\ pushed \in [0 .. Len(profile) -> Seq(Text)]
              /\ pushed[0] = <<Blank, Blank, Blank>>
              /\ \A n \in 1 .. Len(profile) :
                    pushed[n] = pushed[n - 1] \o StackLines(profile[n], mode)
              /\ StackVisAdaptor(profile, mode) = pushed[Len(profile)]
<1> DEFINE m == Len(profile)
           V == Seq(Text)
           base == <<Blank, Blank, Blank>>
           push(n, v) == v \o StackLines(profile[n], mode)
           step == [x \in (1 .. m) \X V |-> push(x[1], x[2])]
           pushed == CHOOSE g : g = [n \in 0 .. m |->
                         IF n = 0 THEN base ELSE push(n, g[n - 1])]
<1>1. m \in Nat /\ base \in V
  BY DEF Text
<1>2. \A n \in 1 .. m : \A v \in V : push(n, v) \in V
  <2> SUFFICES ASSUME NEW n \in 1 .. m, NEW v \in V PROVE push(n, v) \in V
    OBVIOUS
  <2>1. StackLines(profile[n], mode) \in Seq(Text)
    <3>1. profile[n] \in Seq(Frame)
      OBVIOUS
    <3>2. StackLines(profile[n], mode) \in Seq(Text \ {Blank})
      BY <3>1, StackLinesAre
    <3>3. QED
      BY <3>2
  <2>2. QED
    BY <2>1
<1>3. StackVisAdaptor(profile, mode) = pushed[m]
  BY DEF StackVisAdaptor
<1> HIDE DEF m, V, push, base
<1>4. PICK g : Chain(g, m, V, base, step)
  <2>1. \A n \in 1 .. m : \A v \in V : step[<<n, v>>] \in V
    BY <1>2
  <2> HIDE DEF step
  <2>2. QED
    BY <1>1, <2>1, ChainsExist
<1>5. ASSUME NEW n \in 1 .. m PROVE g[n] = push(n, g[n - 1])
  <2>1. n - 1 \in 0 .. m
    BY <1>1
  <2>2. g[n - 1] \in V /\ g[n] = step[<<n, g[n - 1]>>]
    BY <1>4, <2>1 DEF Chain
  <2>3. QED
    BY <2>2
<1>6. g = [n \in 0 .. m |-> IF n = 0 THEN base ELSE push(n, g[n - 1])]
  <2>1. g = [n \in 0 .. m |-> g[n]] /\ g[0] = base
    BY <1>4 DEF Chain
  <2>2. QED
    BY <1>1, <1>5, <2>1
<1>7. pushed = [n \in 0 .. m |-> IF n = 0 THEN base ELSE push(n, pushed[n - 1])]
  BY <1>6, Zenon
<1> HIDE DEF pushed
<1> DEFINE S == {n \in Nat : n <= m => pushed[n] \in V}
<1>8. 0 \in S
  BY <1>1, <1>7
<1>9. ASSUME NEW n \in Nat, n \in S PROVE n + 1 \in S
  BY <1>1, <1>2, <1>7, <1>9
<1> HIDE DEF S
<1>10. \A n \in Nat : n \in S
  BY <1>8, <1>9, SetInduction
<1>11. pushed \in [0 .. m -> V]
  <2>1. \A n \in 0 .. m : pushed[n] \in V
    BY <1>1, <1>10 DEF S
  <2>2. pushed = [n \in 0 .. m |-> pushed[n]]
    BY <1>7
  <2>3. QED
    BY <2>1, <2>2
<1>12. pushed[0] = base /\ \A n \in 1 .. m : pushed[n] = push(n, pushed[n - 1])
  BY <1>1, <1>7
<1>13. QED
  BY <1>3, <1>11, <1>12 DEF m, V, base, push

-----------------------------------------------------------------------------
(* The reader of stackvis *)

Nothing == [stacks |-> <<>>, stack |-> <<>>]
ReadState == [stacks : Seq(Seq(Frame)), stack : Seq(Frame)]

LEMMA ReadLineType ==
    ASSUME NEW read \in ReadState, NEW line \in Text \ {Blank}
    PROVE  ReadLine(read, line) \in ReadState
<1>1. CASE line = Count
  BY <1>1 DEF ReadLine, Count, ReadState
<1>2. CASE line # Count
  <2>1. PICK f \in Frame : line = FrameLine(f)
    BY <1>2 DEF Text
  <2>2. line.kind # "count" /\ line.frame = f
    BY <2>1 DEF FrameLine
  <2>3. ReadLine(read, line) = [read EXCEPT !.stack = Append(read.stack, f)]
    BY <2>2 DEF ReadLine
  <2>4. Append(read.stack, f) \in Seq(Frame)
    BY DEF ReadState
  <2>5. QED
    BY <2>3, <2>4 DEF ReadState
<1>3. QED
  BY <1>1, <1>2

(* Three lines are skipped, the others are read one by one.                *)
LEMMA ReaderReads ==
    ASSUME NEW text \in Seq(Text), \A n \in 4 .. Len(text) : text[n] # Blank
    PROVE  \E read :
              /\ read \in [0 .. Len(text) -> ReadState]
              /\ \A n \in 0 .. Len(text) : n <= 3 => read[n] = Nothing
              /\ \A n \in 4 .. Len(text) : read[n] = ReadLine(read[n - 1], text[n])
              /\ ReadStacks(text) = read[Len(text)].stacks
<1> DEFINE m == Len(text)
           V == ReadState
           next(n, v) == IF n <= 3 THEN Nothing ELSE ReadLine(v, text[n])
           step == [x \in (1 .. m) \X V |-> next(x[1], x[2])]
           read == CHOOSE g : g = [n \in 0 .. m |->
                       IF n <= 3 THEN Nothing ELSE ReadLine(g[n - 1], text[n])]
<1>1. m \in Nat /\ Nothing \in V
  BY DEF Nothing, ReadState
<1>2. \A n \in 1 .. m : \A v \in V : next(n, v) \in V
  <2> SUFFICES ASSUME NEW n \in 1 .. m, NEW v \in V, ~(n <= 3)
               PROVE  ReadLine(v, text[n]) \in V
    BY <1>1
  <2>1. text[n] \in Text \ {Blank}
    OBVIOUS
  <2>2. QED
    BY <2>1, ReadLineType
<1>3. ReadStacks(text) = read[m].stacks
  BY DEF ReadStacks, Nothing
<1> HIDE DEF m, V
<1>4. PICK g : Chain(g, m, V, Nothing, step)
  <2>1. \A n \in 1 .. m : \A v \in V : step[<<n, v>>] \in V
    BY <1>2
  <2> HIDE DEF step
  <2>2. QED
    BY <1>1, <2>1, ChainsExist
<1>5. ASSUME NEW n \in 1 .. m PROVE g[n] = next(n, g[n - 1])
  <2>1. n - 1 \in 0 .. m
    BY <1>1
  <2>2. g[n - 1] \in V /\ g[n] = step[<<n, g[n - 1]>>]
    BY <1>4, <2>1 DEF Chain
  <2>3. QED
    BY <2>2
<1>6. g = [n \in 0 .. m |-> IF n <= 3 THEN Nothing ELSE ReadLine(g[n - 1], text[n])]
  <2>1. g = [n \in 0 .. m |-> g[n]] /\ g[0] = Nothing
    BY <1>4 DEF Chain
  <2>2. ASSUME NEW n \in 0 .. m
        PROVE  g[n] = IF n <= 3 THEN Nothing ELSE ReadLine(g[n - 1], text[n])
    <3>1. CASE n = 0
      BY <2>1, <3>1
    <3>2. CASE n # 0
      <4>1. n \in 1 .. m
        BY <1>1, <3>2
      <4>2. QED
        BY <1>5, <4>1, Zenon
    <3>3. QED
      BY <3>1, <3>2
  <2>3. QED
    BY <2>1, <2>2
<1>7. read = [n \in 0 .. m |-> IF n <= 3 THEN Nothing
                               ELSE ReadLine(read[n - 1], text[n])]
  BY <1>6, Zenon
<1> HIDE DEF read
<1> DEFINE S == {n \in Nat : n <= m => read[n] \in V}
<1>8. 0 \in S
  BY <1>1, <1>7
<1>9. ASSUME NEW n \in Nat, n \in S PROVE n + 1 \in S
  BY <1>1, <1>2, <1>7, <1>9
<1> HIDE DEF S
<1>10. \A n \in Nat : n \in S
  BY <1>8, <1>9, SetInduction
<1>11. read \in [0 .. m -> V]
  BY <1>1, <1>7, <1>10 DEF S
<1>12. /\ \A n \in 0 .. m : n <= 3 => read[n] = Nothing
       /\ \A n \in 4 .. m : read[n] = ReadLine(read[n - 1], text[n])
  BY <1>1, <1>7
<1>13. QED
  BY <1>3, <1>11, <1>12 DEF m, V

-----------------------------------------------------------------------------
(* What the reader makes of the adaptor's lines *)

(* Text that is pushed stays where it is.                                  *)
LEMMA PushedStays ==
    ASSUME NEW m \in Nat, NEW pushed \in [0 .. m -> Seq(Text)],
           \A n \in 1 .. m : \E b \in Seq(Text) : pushed[n] = pushed[n - 1] \o b
    PROVE  \A n \in 0 .. m :
              /\ Len(pushed[n]) <= Len(pushed[m])
              /\ \A k \in 1 .. Len(pushed[n]) : pushed[m][k] = pushed[n][k]
<1> DEFINE Stays(n) ==
              /\ Len(pushed[n]) <= Len(pushed[m])
              /\ \A k \in 1 .. Len(pushed[n]) : pushed[m][k] = pushed[n][k]
           S == {d \in Nat : d <= m => Stays(m - d)}
<1>1. 0 \in S
  <2>1. m - 0 = m /\ pushed[m] \in Seq(Text)
    OBVIOUS
  <2>2. Stays(m)
    BY <2>1
  <2>3. QED
    BY <2>1, <2>2
<1>2. ASSUME NEW d \in Nat, d \in S PROVE d + 1 \in S
  <2> SUFFICES ASSUME d + 1 <= m PROVE Stays(m - (d + 1))
    OBVIOUS
  <2> DEFINE n == m - d
  <2>1. n \in 1 .. m /\ n - 1 \in 0 .. m /\ m - (d + 1) = n - 1
    OBVIOUS
  <2>2. Stays(n)
    BY <1>2
  <2> HIDE DEF n
  <2> DEFINE a == pushed[n - 1]
             whole == pushed[m]
  <2>b. PICK b \in Seq(Text) : pushed[n] = a \o b
    BY <2>1
  <2>3. a \in Seq(Text) /\ b \in Seq(Text) /\ whole \in Seq(Text) /\ pushed[n] = a \o b
    <3>1. m \in 0 .. m
      OBVIOUS
    <3>2. a \in Seq(Text) /\ whole \in Seq(Text)
      BY <2>1, <3>1
    <3>3. QED
      BY <2>b, <3>2
  <2>4. /\ Len(a \o b) <= Len(whole)
        /\ \A k \in 1 .. Len(a \o b) : whole[k] = (a \o b)[k]
    BY <2>2, <2>3
  <2> HIDE DEF a, whole
  <2>5. /\ Len(a) <= Len(whole)
        /\ \A k \in 1 .. Len(a) : whole[k] = a[k]
    <3>1. Len(a) \in Nat /\ Len(b) \in Nat /\ Len(whole) \in Nat
      BY <2>3
    <3>2. /\ Len(a \o b) = Len(a) + Len(b)
          /\ \A k \in 1 .. Len(a) : (a \o b)[k] = a[k]
      BY <2>3, Concatenation
    <3>3. \A k \in 1 .. Len(a) : k \in 1 .. Len(a \o b)
      BY <3>1, <3>2
    <3> DEFINE ab == a \o b
    <3> HIDE DEF ab
    <3>4. Len(a) <= Len(whole)
      BY <2>4, <3>1, <3>2
    <3>5. ASSUME NEW k \in 1 .. Len(a) PROVE whole[k] = a[k]
      <4>1. whole[k] = ab[k]
        BY <2>4, <3>3 DEF ab
      <4>2. ab[k] = a[k]
        BY <3>2 DEF ab
      <4>3. QED
        BY <4>1, <4>2
    <3>6. QED
      BY <3>4, <3>5
  <2>6. Stays(n - 1)
    BY <2>5 DEF a, whole
  <2>7. QED
    BY <2>1, <2>6
<1> HIDE DEF S
<1>3. \A d \in Nat : d \in S
  BY <1>1, <1>2, SetInduction
<1>4. ASSUME NEW n \in 0 .. m PROVE Stays(n)
  <2>1. m - n \in Nat /\ m - n <= m /\ m - (m - n) = n
    OBVIOUS
  <2>2. m - n \in S
    BY <1>3, <2>1
  <2>3. Stays(m - (m - n))
    BY <2>1, <2>2 DEF S
  <2>4. QED
    BY <2>1, <2>3
<1>5. QED
  BY <1>4

LEMMA AppendLonger ==
    ASSUME NEW X, NEW c \in Seq(X), NEW j \in Nat, j + 1 <= Len(c)
    PROVE  /\ [k \in 1 .. j |-> c[k]] \in Seq(X)
           /\ Append([k \in 1 .. j |-> c[k]], c[j + 1]) = [k \in 1 .. j + 1 |-> c[k]]
OBVIOUS

(* A stack's lines, wherever they are in the text, make that stack.        *)
LEMMA ReadsOneStack ==
    ASSUME NEW text \in Seq(Text), NEW read \in [0 .. Len(text) -> ReadState],
           \A n \in 4 .. Len(text) : read[n] = ReadLine(read[n - 1], text[n]),
           NEW stack \in Seq(Frame), NEW mode,
           NEW at \in Nat, at >= 3, at + Len(stack) + 1 <= Len(text),
           \A j \in 1 .. Len(stack) + 1 : text[at + j] = StackLines(stack, mode)[j],
           read[at].stack = <<>>
    PROVE  /\ read[at + Len(stack) + 1].stack = <<>>
           /\ read[at + Len(stack) + 1].stacks =
                 Append(read[at].stacks, Converted(stack, mode))
<1> DEFINE c == Converted(stack, mode)
<1>1. c \in Seq(Frame) /\ Len(c) = Len(stack) /\ Len(stack) \in Nat
  <2>1. DOMAIN stack = 1 .. Len(stack) /\ Len(stack) \in Nat
    OBVIOUS
  <2>2. \A j \in DOMAIN stack : ConvertFrame(stack[j], mode) \in Frame
    BY ConvertFrameType
  <2>3. QED
    BY <2>1, <2>2 DEF Converted
<1>2. /\ \A j \in 1 .. Len(stack) : text[at + j] = FrameLine(c[j])
      /\ text[at + Len(stack) + 1] = Count
  <2> DEFINE lns == StackLines(stack, mode)
  <2>1. /\ \A j \in DOMAIN stack : lns[j] = FrameLine(c[j])
        /\ lns[Len(stack) + 1] = Count
    BY StackLinesAre
  <2> HIDE DEF lns, c
  <2>2. \A j \in 1 .. Len(stack) + 1 : text[at + j] = lns[j]
    BY DEF lns
  <2>3. DOMAIN stack = 1 .. Len(stack) /\ Len(stack) \in Nat
    OBVIOUS
  <2>4. at + Len(stack) + 1 = at + (Len(stack) + 1)
    BY <2>3
  <2>5. Len(stack) + 1 \in 1 .. Len(stack) + 1
    BY <2>3
  <2>6. \A j \in 1 .. Len(stack) : j \in 1 .. Len(stack) + 1
    BY <2>3
  <2>7. \A j \in 1 .. Len(stack) : text[at + j] = FrameLine(c[j])
    BY <2>1, <2>2, <2>3, <2>6, Zenon
  <2>8. text[at + Len(stack) + 1] = Count
    <3>1. text[at + (Len(stack) + 1)] = Count
      BY <2>1, <2>2, <2>5, Zenon
    <3>2. QED
      BY <2>4, <3>1, Zenon
  <2>9. QED
    BY <2>7, <2>8
<1> HIDE DEF c
<1> DEFINE Partly(j) == /\ read[at + j].stacks = read[at].stacks
                       /\ read[at + j].stack = [k \in 1 .. j |-> c[k]]
           S == {j \in Nat : j <= Len(stack) => Partly(j)}
<1>3. 0 \in S
  <2>1. read[at + 0] = read[at] /\ [k \in 1 .. 0 |-> c[k]] = <<>>
    OBVIOUS
  <2>2. QED
    BY <2>1
<1>4. ASSUME NEW j \in Nat, j \in S PROVE j + 1 \in S
  <2> SUFFICES ASSUME j + 1 <= Len(stack) PROVE Partly(j + 1)
    OBVIOUS
  <2>1. Partly(j)
    BY <1>1, <1>4
  <2>2. /\ at + (j + 1) \in 4 .. Len(text) /\ (at + (j + 1)) - 1 = at + j
        /\ at + j \in 0 .. Len(text) /\ j + 1 \in 1 .. Len(stack)
    BY <1>1
  <2>3. read[at + (j + 1)] = ReadLine(read[at + j], FrameLine(c[j + 1]))
    BY <1>2, <2>2
  <2>4. read[at + j] \in ReadState
    BY <2>2
  <2>5. /\ read[at + (j + 1)].stacks = read[at + j].stacks
        /\ read[at + (j + 1)].stack = Append(read[at + j].stack, c[j + 1])
    BY <2>3, <2>4 DEF ReadLine, FrameLine, ReadState
  <2>6. QED
    BY <1>1, <2>1, <2>5, AppendLonger
<1> HIDE DEF S
<1>5. Partly(Len(stack))
  <2>1. Len(stack) \in S
    BY <1>1, <1>3, <1>4, SetInduction
  <2>2. QED
    BY <1>1, <2>1 DEF S
<1> DEFINE e == at + Len(stack)
<1>6. e + 1 \in 4 .. Len(text) /\ (e + 1) - 1 = e /\ e \in 0 .. Len(text)
  BY <1>1
<1>7. read[e + 1] = ReadLine(read[e], Count) /\ read[e] \in ReadState
  BY <1>2, <1>6
<1>8. [k \in 1 .. Len(stack) |-> c[k]] = c
  BY <1>1
<1>9. read[e].stacks = read[at].stacks /\ read[e].stack = c
  BY <1>5, <1>8
<1> HIDE DEF e, Partly
<1>10. read[e + 1] = [stacks |-> Append(read[e].stacks, read[e].stack), stack |-> <<>>]
  BY <1>7 DEF ReadLine, Count
<1>11. QED
  BY <1>9, <1>10 DEF e, c

-----------------------------------------------------------------------------
(* The round trip: what goes through the adaptor, the reader finds *)

(* Only the three lines that are skipped are blank.                        *)
LEMMA NoBlankIsRead ==
    ASSUME NEW profile \in Seq(Seq(Frame)), NEW mode,
           NEW pushed \in [0 .. Len(profile) -> Seq(Text)],
           pushed[0] = <<Blank, Blank, Blank>>,
           \A n \in 1 .. Len(profile) :
              pushed[n] = pushed[n - 1] \o StackLines(profile[n], mode)
    PROVE  \A n \in 0 .. Len(profile) :
              /\ Len(pushed[n]) >= 3
              /\ \A k \in 4 .. Len(pushed[n]) : pushed[n][k] # Blank
<1> DEFINE m == Len(profile)
           Fine(t) == Len(t) >= 3 /\ \A k \in 4 .. Len(t) : t[k] # Blank
           S == {n \in Nat : n <= m => Fine(pushed[n])}
<1>1. m \in Nat
  OBVIOUS
<1>2. 0 \in S
  <2>1. Fine(<<Blank, Blank, Blank>>)
    OBVIOUS
  <2>2. QED
    BY <2>1
<1>3. ASSUME NEW n \in Nat, n \in S PROVE n + 1 \in S
  <2> SUFFICES ASSUME n + 1 <= m PROVE Fine(pushed[n + 1])
    OBVIOUS
  <2> DEFINE a == pushed[n]
             b == StackLines(profile[n + 1], mode)
  <2>1. n \in 0 .. m /\ n + 1 \in 1 .. m /\ (n + 1) - 1 = n
    BY <1>1
  <2>2. profile[n + 1] \in Seq(Frame)
    BY <2>1
  <2>3. b \in Seq(Text \ {Blank})
    BY <2>2, StackLinesAre
  <2>4. a \in Seq(Text) /\ pushed[n + 1] = a \o b /\ Fine(a)
    <3>1. a \in Seq(Text)
      BY <2>1
    <3>2. pushed[n + 1] = pushed[(n + 1) - 1] \o b
      BY <2>1, Zenon
    <3>3. pushed[n + 1] = a \o b
      BY <2>1, <3>2, Zenon
    <3>4. Fine(a)
      BY <1>1, <1>3, <2>1
    <3>5. QED
      BY <3>1, <3>3, <3>4
  <2> HIDE DEF a, b
  <2>5. Fine(a \o b)
    <3>1. b \in Seq(Text)
      BY <2>3
    <3>2. /\ Len(a \o b) = Len(a) + Len(b)
          /\ \A k \in 1 .. Len(a) : (a \o b)[k] = a[k]
          /\ \A k \in 1 .. Len(b) : (a \o b)[Len(a) + k] = b[k]
      BY <2>4, <3>1, Concatenation
    <3>3. Len(a) \in Nat /\ Len(b) \in Nat
      BY <2>4, <3>1
    <3> DEFINE ab == a \o b
    <3> HIDE DEF ab
    <3>4. ASSUME NEW k \in 4 .. Len(ab) PROVE ab[k] # Blank
      <4>1. CASE k <= Len(a)
        BY <2>4, <3>2, <3>3, <4>1 DEF ab
      <4>2. CASE k > Len(a)
        <5>1. k - Len(a) \in 1 .. Len(b) /\ k = Len(a) + (k - Len(a))
          BY <3>2, <3>3, <4>2 DEF ab
        <5>2. ab[k] = b[k - Len(a)]
          BY <3>2, <5>1 DEF ab
        <5>3. QED
          BY <2>3, <5>1, <5>2
      <4>3. QED
        BY <3>2, <3>3, <4>1, <4>2 DEF ab
    <3>5. Len(ab) >= 3
      BY <2>4, <3>2, <3>3 DEF ab
    <3>6. QED
      BY <3>4, <3>5 DEF ab
  <2>6. QED
    BY <2>4, <2>5
<1> HIDE DEF S
<1>4. \A n \in Nat : n \in S
  BY <1>2, <1>3, SetInduction
<1>5. QED
  BY <1>1, <1>4 DEF S

(* The reader finds the stacks of the profile, converted, in their order,  *)
(* empty stacks and the last one too.                                      *)
LEMMA RoundTrip ==
    ASSUME NEW profile \in Seq(Seq(Frame)), NEW mode
    PROVE  ReadStacks(StackVisAdaptor(profile, mode)) =
              [i \in DOMAIN profile |-> Converted(profile[i], mode)]
<1> DEFINE m == Len(profile)
           C == [i \in DOMAIN profile |-> Converted(profile[i], mode)]
           text == StackVisAdaptor(profile, mode)
<1>1. m \in Nat /\ DOMAIN profile = 1 .. m
  OBVIOUS
<1>2. PICK pushed :
              /\ pushed \in [0 .. m -> Seq(Text)]
              /\ pushed[0] = <<Blank, Blank, Blank>>
              /\ \A n \in 1 .. m :
                    pushed[n] = pushed[n - 1] \o StackLines(profile[n], mode)
              /\ text = pushed[m]
  BY AdaptorPushes
<1>3. /\ C \in Seq(Seq(Frame)) /\ Len(C) = m
      /\ \A i \in 1 .. m : C[i] = Converted(profile[i], mode)
  <2>1. ASSUME NEW i \in 1 .. m PROVE Converted(profile[i], mode) \in Seq(Frame)
    <3>1. profile[i] \in Seq(Frame)
      BY <1>1
    <3>2. DOMAIN profile[i] = 1 .. Len(profile[i]) /\ Len(profile[i]) \in Nat
      BY <3>1
    <3>3. \A j \in DOMAIN profile[i] : ConvertFrame(profile[i][j], mode) \in Frame
      BY <3>1, ConvertFrameType
    <3>4. QED
      BY <3>2, <3>3 DEF Converted
  <2>2. QED
    BY <1>1, <2>1
<1> HIDE DEF C, text
<1>4. \A n \in 0 .. m : /\ Len(pushed[n]) >= 3
                        /\ \A k \in 4 .. Len(pushed[n]) : pushed[n][k] # Blank
  BY <1>2, NoBlankIsRead
<1>5. text \in Seq(Text) /\ Len(text) >= 3 /\ \A k \in 4 .. Len(text) : text[k] # Blank
  <2>1. m \in 0 .. m
    BY <1>1
  <2>2. QED
    BY <1>2, <1>4, <2>1
<1>6. PICK read :
              /\ read \in [0 .. Len(text) -> ReadState]
              /\ \A n \in 0 .. Len(text) : n <= 3 => read[n] = Nothing
              /\ \A n \in 4 .. Len(text) : read[n] = ReadLine(read[n - 1], text[n])
              /\ ReadStacks(text) = read[Len(text)].stacks
  BY <1>5, ReaderReads
<1>7. \A n \in 1 .. m : StackLines(profile[n], mode) \in Seq(Text)
  <2> SUFFICES ASSUME NEW n \in 1 .. m PROVE StackLines(profile[n], mode) \in Seq(Text)
    OBVIOUS
  <2>1. profile[n] \in Seq(Frame)
    BY <1>1
  <2>2. StackLines(profile[n], mode) \in Seq(Text \ {Blank})
    BY <2>1, StackLinesAre
  <2>3. QED
    BY <2>2
<1>8. \A n \in 0 .. m :
              /\ Len(pushed[n]) <= Len(text)
              /\ \A k \in 1 .. Len(pushed[n]) : text[k] = pushed[n][k]
  <2> HIDE DEF m
  <2>1. \A n \in 1 .. m : \E b \in Seq(Text) : pushed[n] = pushed[n - 1] \o b
    BY <1>2, <1>7
  <2>2. \A n \in 0 .. m :
              /\ Len(pushed[n]) <= Len(pushed[m])
              /\ \A k \in 1 .. Len(pushed[n]) : pushed[m][k] = pushed[n][k]
    <3>1. pushed \in [0 .. m -> Seq(Text)]
      BY <1>2
    <3>2. QED
      BY ONLY <1>1, <2>1, <3>1, PushedStays
  <2>3. QED
    BY <1>2, <2>2
<1> DEFINE Done(n) == /\ read[Len(pushed[n])].stack = <<>>
                      /\ read[Len(pushed[n])].stacks = [i \in 1 .. n |-> C[i]]
           S == {n \in Nat : n <= m => Done(n)}
<1>9. 0 \in S
  <2>1. Len(pushed[0]) = 3 /\ 3 \in 0 .. Len(text)
    BY <1>2, <1>5
  <2>2. read[Len(pushed[0])] = Nothing /\ [i \in 1 .. 0 |-> C[i]] = <<>>
    BY <1>6, <2>1
  <2>3. QED
    BY <2>2 DEF Nothing
<1>10. ASSUME NEW n \in Nat, n \in S PROVE n + 1 \in S
  <2> SUFFICES ASSUME n + 1 <= m PROVE Done(n + 1)
    OBVIOUS
  <2> DEFINE stack == profile[n + 1]
             lns == StackLines(stack, mode)
             at == Len(pushed[n])
  <2>1. n \in 0 .. m /\ n + 1 \in 1 .. m /\ n + 1 \in 0 .. m /\ (n + 1) - 1 = n
    BY <1>1
  <2>2. Done(n)
    BY <1>1, <1>10
  <2>3. stack \in Seq(Frame) /\ Len(stack) \in Nat
    BY <1>1, <2>1
  <2>4. lns \in Seq(Text) /\ Len(lns) = Len(stack) + 1
    BY <1>7, <2>1, <2>3, StackLinesAre
  <2>5. pushed[n] \in Seq(Text) /\ pushed[n + 1] = pushed[n] \o lns
    BY <1>2, <2>1
  <2>6. at \in Nat /\ at >= 3
    BY <1>4, <2>1, <2>5
  <2> HIDE DEF lns
  <2>7. /\ Len(pushed[n + 1]) = at + Len(stack) + 1
        /\ \A j \in 1 .. Len(stack) + 1 : pushed[n + 1][at + j] = lns[j]
    <3> DEFINE p == pushed[n]
    <3>1. p \in Seq(Text) /\ pushed[n + 1] = p \o lns /\ at = Len(p)
      BY <2>5
    <3> HIDE DEF p, at, stack
    <3>2. /\ Len(p \o lns) = Len(p) + Len(lns)
          /\ \A k \in 1 .. Len(lns) : (p \o lns)[Len(p) + k] = lns[k]
      <4>1. p \in Seq(Text) /\ lns \in Seq(Text)
        BY <2>4, <3>1
      <4>2. QED
        BY ONLY <4>1, Concatenation
    <3>3. Len(p \o lns) = at + Len(stack) + 1
      BY <2>3, <2>4, <2>6, <3>1, <3>2
    <3>4. \A j \in 1 .. Len(stack) + 1 : (p \o lns)[at + j] = lns[j]
      BY <2>4, <3>1, <3>2, Zenon
    <3>5. QED
      BY <3>1, <3>3, <3>4, Zenon
  <2>8. at + Len(stack) + 1 <= Len(text)
    BY <1>8, <2>1, <2>7
  <2>9. ASSUME NEW j \in 1 .. Len(stack) + 1 PROVE text[at + j] = lns[j]
    <3>1. at + j \in 1 .. Len(pushed[n + 1])
      <4> HIDE DEF at, stack
      <4>1. QED
        BY <2>3, <2>6, <2>7
    <3>2. text[at + j] = pushed[n + 1][at + j]
      BY <1>8, <2>1, <3>1
    <3>3. QED
      BY <2>7, <3>2
  <2>10. read[at].stack = <<>>
    BY <2>2
  <2> HIDE DEF at, stack
  <2>11. /\ read[at + Len(stack) + 1].stack = <<>>
         /\ read[at + Len(stack) + 1].stacks =
               Append(read[at].stacks, Converted(stack, mode))
    BY <1>5, <1>6, <2>3, <2>6, <2>8, <2>9, <2>10, ReadsOneStack DEF lns
  <2>12. read[at].stacks = [i \in 1 .. n |-> C[i]]
    BY <2>2 DEF at
  <2>13. Converted(stack, mode) = C[n + 1]
    BY <1>3, <2>1 DEF stack
  <2>14. Append([i \in 1 .. n |-> C[i]], C[n + 1]) = [i \in 1 .. n + 1 |-> C[i]]
    BY <1>3, AppendLonger
  <2>15. QED
    BY <2>7, <2>11, <2>12, <2>13, <2>14
<1> HIDE DEF S
<1>11. Done(m)
  <2>1. m \in S
    BY <1>1, <1>9, <1>10, SetInduction
  <2>2. QED
    BY <1>1, <2>1 DEF S
<1>12. [i \in 1 .. m |-> C[i]] = C
  BY <1>3
<1> HIDE DEF Done
<1>13. read[Len(pushed[m])].stacks = C
  BY <1>11, <1>12 DEF Done
<1>14. QED
  BY <1>2, <1>6, <1>13 DEF text, C

(* The adaptor shortens a frame's path as it says, 'fullraw' does not.     *)
LEMMA TruncateIsShorten ==
    ASSUME NEW f \in Frame PROVE TruncateFramePath(f) = Shorten(f)
<1>1. Len(f) \in Nat
  BY DEF Frame
<1>2. CASE Len(f) = 2
  BY <1>2 DEF Frame, TruncateFramePath, Shorten
<1>3. CASE Len(f) # 2
  BY <1>1, <1>3 DEF Frame, TruncateFramePath, Shorten, Last
<1>4. QED
  BY <1>2, <1>3

Expected(profile, mode) ==
    IF mode = "fullraw" THEN profile
    ELSE [i \in DOMAIN profile |-> [j \in DOMAIN profile[i] |-> Shorten(profile[i][j])]]

LEMMA ConvertedIsExpected ==
    ASSUME NEW profile \in Seq(Seq(Frame)), NEW mode
    PROVE  [i \in DOMAIN profile |-> Converted(profile[i], mode)] = Expected(profile, mode)
<1>1. \A i \in DOMAIN profile : profile[i] \in Seq(Frame)
  OBVIOUS
<1>2. CASE mode = "fullraw"
  <2>1. ASSUME NEW i \in DOMAIN profile PROVE Converted(profile[i], mode) = profile[i]
    BY <1>1, <1>2 DEF Converted, ConvertFrame
  <2>2. QED
    BY <1>2, <2>1 DEF Expected
<1>3. CASE mode # "fullraw"
  <2>1. ASSUME NEW i \in DOMAIN profile
        PROVE  Converted(profile[i], mode) =
                  [j \in DOMAIN profile[i] |-> Shorten(profile[i][j])]
    <3>1. ASSUME NEW j \in DOMAIN profile[i]
          PROVE  ConvertFrame(profile[i][j], mode) = Shorten(profile[i][j])
      <4>1. profile[i][j] \in Frame
        BY <1>1
      <4>2. QED
        BY <1>3, <4>1, TruncateIsShorten DEF ConvertFrame
    <3>2. QED
      BY <3>1 DEF Converted
  <2>2. QED
    BY <1>3, <2>1 DEF Expected
<1>4. QED
  BY <1>2, <1>3

-----------------------------------------------------------------------------
(* The command *)

Answer ==
    [kind : {"ok", "rejected", "attachErr", "threw", "detachErr", "symbolErr"},
     profile : {0, 1}]

CmdType ==
    /\ phase \in Phases
    /\ exit \in {"running", "0", "1", "uncaught"}
    /\ exit = "running" <=> phase # "exited"
    /\ calls \in [1 .. 1 -> Seq(Answer)]
    /\ phase = "args" \/ exit = "1" \/ args.format \in Formats

(* The one call: it has no answer before it is made and while its session  *)
(* runs, and an error is its only answer.                                  *)
OneCall ==
    /\ phase \in {"args", "pid", "profile"} => nCalls = 0
    /\ phase \in {"args", "pid", "profile", "sampling"} => calls[1] = <<>>
    /\ phase = "sampling" => active = 1
    /\ exit = "1" => ~Told("ok")
    /\ exit = "uncaught" => ~Told("ok") \/ args.format = "text"
    /\ ErrorsEndIt

(* Nothing but a log is printed before the end, and then what the adaptor  *)
(* gave.                                                                   *)
Printing ==
    /\ exit \in {"1", "uncaught"} \/ phase \notin {"printed", "exited"} =>
          stdout = IF Told("symbolErr") THEN <<SymbolsLog>> ELSE <<>>
    /\ phase \in {"output", "read", "printed"} \/ exit = "0" => stacks \in Profiles
    /\ phase \in {"read", "printed"} \/ exit = "0" =>
          /\ ~IsText
          /\ lines = StackVisAdaptor(stacks, args.format)
    /\ phase = "printed" \/ exit = "0" =>
          stdout = <<IF args.format = "flame"
                     THEN [kind |-> "graph", stacks |-> ReadStacks(lines)]
                     ELSE [kind |-> "lines", lines |-> lines]>>

CmdInv == CmdType /\ OneCall /\ Printing

(* The first answer.                                                       *)
LEMMA FirstAnswer ==
    ASSUME CmdType, calls[1] = <<>>, NEW told \in Answer,
           calls' = [calls EXCEPT ![1] = Append(calls[1], told)]
    PROVE  /\ calls' \in [1 .. 1 -> Seq(Answer)]
           /\ Last(calls'[1]) = told
           /\ Told("ok")' <=> told.kind = "ok"
           /\ Told("symbolErr")' <=> told.kind = "symbolErr"
           /\ \/ told.kind = "ok"
              \/ exit' = IF told.kind = "threw" THEN "uncaught" ELSE "1"
              => ErrorsEndIt'
<1>1. told \in Answer
  OBVIOUS
<1>2. calls'[1] = <<told>>
  BY DEF CmdType
<1>3. calls' \in [1 .. 1 -> Seq(Answer)]
  BY <1>1, <1>2 DEF CmdType
<1>4. Len(calls'[1]) = 1 /\ calls'[1][1] = told /\ DOMAIN calls'[1] = {1}
  BY <1>1, <1>2
<1>5. Last(calls'[1]) = told
  BY <1>4 DEF Last
<1>6. /\ Told("ok")' <=> told.kind = "ok"
      /\ Told("symbolErr")' <=> told.kind = "symbolErr"
  BY <1>4 DEF Told
<1>7. ASSUME \/ told.kind = "ok"
             \/ exit' = IF told.kind = "threw" THEN "uncaught" ELSE "1"
      PROVE  ErrorsEndIt'
  BY <1>4, <1>7 DEF ErrorsEndIt
<1>8. QED
  BY <1>3, <1>5, <1>6, <1>7

(* Before the end main() was told of no error.                             *)
LEMMA NoErrorYet ==
    ASSUME ErrorsEndIt, exit = "running", calls' = calls PROVE ErrorsEndIt'
BY DEF ErrorsEndIt

LEMMA NothingTold ==
    ASSUME calls[1] = <<>> PROVE ~Told("ok") /\ ~Told("symbolErr") /\ ErrorsEndIt
BY DEF Told, ErrorsEndIt

LEMMA CmdInvInit == Init => CmdInv
<1> SUFFICES ASSUME Init PROVE CmdInv
  OBVIOUS
<1>1. calls = [s \in 1 .. 1 |-> <<>>] /\ nCalls = 0
  BY DEF Init, Calls!Init, Calls!Sessions
<1>2. calls[1] = <<>> /\ calls \in [1 .. 1 -> Seq(Answer)]
  BY <1>1
<1>3. phase = "args" /\ exit = "running" /\ stdout = <<>>
  BY DEF Init
<1>4. QED
  BY <1>1, <1>2, <1>3, NothingTold DEF CmdInv, CmdType, OneCall, Printing, Phases

LEMMA ParseArgsKeeps == CmdInv /\ ParseArgs => CmdInv'
BY NoErrorYet
   DEF CmdInv, CmdType, OneCall, Printing, Phases, Told, IsText, ParseArgs, Exit, callVars

LEMMA PidExistsKeeps == CmdInv /\ PidExists => CmdInv'
BY NoErrorYet
   DEF CmdInv, CmdType, OneCall, Printing, Phases, Told, IsText, PidExists, Exit, callVars

(* An error that is told, in profile() or later.                           *)
LEMMA ErrorKeeps ==
    ASSUME CmdInv, phase \in {"profile", "sampling"}, UNCHANGED <<args, stacks, lines>>,
           NEW kind \in {"rejected", "attachErr", "threw", "detachErr", "symbolErr"},
           calls' = [calls EXCEPT ![1] = Append(calls[1], [kind |-> kind, profile |-> 0])],
           Exit(IF kind = "threw" THEN "uncaught" ELSE "1"),
           stdout' = IF kind = "symbolErr" THEN <<SymbolsLog>> ELSE stdout
    PROVE  CmdInv'
<1> DEFINE told == [kind |-> kind, profile |-> 0]
<1>1. told \in Answer /\ told.kind = kind
  BY DEF Answer
<1>2. calls' = [calls EXCEPT ![1] = Append(calls[1], told)]
  OBVIOUS
<1> HIDE DEF told
<1>3. calls[1] = <<>> /\ CmdType /\ exit = "running"
  BY DEF CmdInv, CmdType, OneCall
<1>4. stdout = <<>> /\ (phase = "exited" \/ args.format \in Formats)
  BY <1>3, NothingTold DEF CmdInv, CmdType, Printing
<1>5. phase' = "exited" /\ exit' = IF kind = "threw" THEN "uncaught" ELSE "1"
  BY DEF Exit
<1>6. /\ calls' \in [1 .. 1 -> Seq(Answer)] /\ ErrorsEndIt'
      /\ ~Told("ok")' /\ (Told("symbolErr")' <=> kind = "symbolErr")
  BY <1>1, <1>2, <1>3, <1>5, FirstAnswer
<1>7. CmdType'
  BY <1>3, <1>4, <1>5, <1>6 DEF CmdType, Phases
<1>8. OneCall' /\ Printing'
  BY <1>4, <1>5, <1>6 DEF OneCall, Printing
<1>9. QED
  BY <1>7, <1>8 DEF CmdInv

LEMMA ProfileKeeps ==
    ASSUME CmdInv, Profile PROVE CmdInv'
<1>1. /\ phase = "profile" /\ nCalls = 0 /\ calls[1] = <<>> /\ exit = "running"
      /\ CmdType
  BY DEF CmdInv, CmdType, OneCall, Profile
<1>2. UNCHANGED <<args, lines, stdout>>
  BY DEF Profile
<1>3. ASSUME NEW kind \in {"rejected", "attachErr", "threw"},
             Calls!Tell(nCalls', kind, Calls!None), nCalls' = nCalls + 1,
             IF kind = "threw" THEN Exit("uncaught") /\ UNCHANGED stacks
             ELSE OnProfileComplete
      PROVE  CmdInv'
  <2>1. calls' = [calls EXCEPT ![1] = Append(calls[1], [kind |-> kind, profile |-> 0])]
    <3>1. nCalls' = 1
      BY <1>1, <1>3
    <3>2. Calls!Tell(1, kind, Calls!None)
      BY <1>3, <3>1
    <3>3. QED
      BY <1>1, <3>2 DEF Calls!Tell, Calls!Told, Calls!None, CmdType
  <2>2. Last(calls'[1]).kind # "ok"
    BY <1>1, <2>1 DEF CmdType, Last
  <2>3. Exit(IF kind = "threw" THEN "uncaught" ELSE "1") /\ UNCHANGED stacks
    BY <1>3, <2>2 DEF OnProfileComplete, Exit
  <2>4. QED
    BY <1>1, <1>2, <2>1, <2>3, ErrorKeeps
<1>4. CASE Calls!Refuse /\ OnProfileComplete
  BY <1>3, <1>4 DEF Calls!Refuse, Calls!Call
<1>5. CASE Calls!BeginUnattached /\ OnProfileComplete
  BY <1>3, <1>5 DEF Calls!BeginUnattached, Calls!Call
<1>6. CASE Calls!Throw /\ Exit("uncaught") /\ UNCHANGED stacks
  BY <1>3, <1>6 DEF Calls!Throw, Calls!Call
<1>7. CASE Calls!Begin /\ phase' = "sampling" /\ UNCHANGED <<stacks, exit>>
  <2>1. active' = 1 /\ calls' = calls
    BY <1>1, <1>7 DEF Calls!Begin, Calls!Call
  <2>2. QED
    BY <1>1, <1>2, <1>7, <2>1, NoErrorYet
       DEF CmdInv, CmdType, OneCall, Printing, Phases, Told
<1>8. QED
  BY <1>4, <1>5, <1>6, <1>7 DEF Profile

LEMMA SessionKeeps ==
    ASSUME CmdInv, Session PROVE CmdInv'
<1>1. /\ phase = "sampling" /\ active = 1 /\ calls[1] = <<>> /\ exit = "running"
      /\ CmdType /\ args.format \in Formats
  BY DEF CmdInv, CmdType, OneCall, Session
<1>2. stdout = <<>> /\ UNCHANGED <<args, lines>>
  BY <1>1, NothingTold DEF CmdInv, Printing, Session
<1>3. CASE Calls!Wait /\ UNCHANGED <<phase, stacks, stdout, exit>>
  <2>1. active' = active /\ calls' = calls
    BY <1>3 DEF Calls!Wait
  <2>2. QED
    BY <1>1, <1>2, <1>3, <2>1, NoErrorYet
       DEF CmdInv, CmdType, OneCall, Printing, Phases, Told
<1>4. CASE Calls!End /\ LogSymbols /\ OnProfileComplete
  <2>1. ASSUME NEW kind \in {"detachErr", "symbolErr"},
               Calls!Tell(active, kind, Calls!None)
        PROVE  CmdInv'
    <3>1. calls' = [calls EXCEPT ![1] = Append(calls[1], [kind |-> kind, profile |-> 0])]
      BY <1>1, <2>1 DEF Calls!Tell, Calls!Told, Calls!None, CmdType
    <3>2. Last(calls'[1]).kind = kind
      BY <1>1, <3>1 DEF CmdType, Last
    <3>3. Exit("1") /\ UNCHANGED stacks
      BY <1>4, <3>2 DEF OnProfileComplete
    <3>4. stdout' = IF kind = "symbolErr" THEN <<SymbolsLog>> ELSE stdout
      BY <1>4, <3>2 DEF LogSymbols
    <3>5. QED
      BY <1>1, <1>2, <3>1, <3>3, <3>4, ErrorKeeps
  <2>2. CASE Calls!Tell(active, "ok", active)
    <3> DEFINE told == [kind |-> "ok", profile |-> 1]
    <3>1. /\ told \in Answer /\ told.kind = "ok"
          /\ calls' = [calls EXCEPT ![1] = Append(calls[1], told)]
      BY <1>1, <2>2 DEF Calls!Tell, Calls!Told, CmdType, Answer
    <3> HIDE DEF told
    <3>2. /\ calls' \in [1 .. 1 -> Seq(Answer)] /\ Last(calls'[1]) = told
          /\ ErrorsEndIt' /\ ~Told("symbolErr")'
      BY <1>1, <3>1, FirstAnswer
    <3>3. stacks' \in Profiles /\ phase' = "output" /\ UNCHANGED <<stdout, exit>>
      BY <1>4, <3>1, <3>2 DEF OnProfileComplete, LogSymbols
    <3>4. QED
      BY <1>1, <1>2, <3>2, <3>3 DEF CmdInv, CmdType, OneCall, Printing, Phases
  <2>3. QED
    BY <1>4, <2>1, <2>2 DEF Calls!End
<1>5. CASE Calls!Crash /\ Exit("uncaught") /\ UNCHANGED <<stacks, stdout>>
  <2>1. calls' = calls
    BY <1>5 DEF Calls!Crash
  <2>2. CmdType' /\ Printing'
    BY <1>1, <1>2, <1>5, <2>1 DEF CmdInv, CmdType, Printing, Phases, Exit, Told
  <2>3. OneCall'
    BY <1>1, <1>2, <1>5, <2>1, NothingTold, NoErrorYet DEF OneCall, Exit, Told
  <2>4. QED
    BY <2>2, <2>3 DEF CmdInv
<1>6. QED
  BY <1>3, <1>4, <1>5 DEF Session

LEMMA OutputKeeps ==
    ASSUME CmdInv, Output PROVE CmdInv'
<1>1. /\ phase = "output" /\ exit = "running"
      /\ args.format \in Formats /\ stacks \in Profiles
  BY DEF CmdInv, CmdType, Printing, Output
<1>2. UNCHANGED <<args, stacks, callVars>> /\ ErrorsEndIt'
  BY <1>1, NoErrorYet DEF Output, CmdInv, OneCall, callVars
<1>3. CASE OutputText
  <2>1. AggregateThrows(stacks)
    BY <1>1, FlameCmdAssumption DEF FlameCmdAssumption, AggregateThrows
  <2>2. Exit("uncaught") /\ UNCHANGED stdout /\ args.format = "text"
    BY <1>1, <1>3, <2>1 DEF OutputText, IsText, Formats
  <2>3. QED
    BY <1>1, <1>2, <2>2 DEF CmdInv, CmdType, OneCall, Printing, Phases, Exit, Told, callVars
<1>4. CASE OpenAdaptor
  BY <1>1, <1>2, <1>4
     DEF CmdInv, CmdType, OneCall, Printing, Phases, OpenAdaptor, IsText, Told, callVars
<1>5. QED
  BY <1>3, <1>4 DEF Output

LEMMA ReadKeeps == CmdInv /\ Read => CmdInv'
BY NoErrorYet DEF CmdInv, CmdType, OneCall, Printing, Phases, Read, IsText, Told, callVars

(* While its session runs the loop is never empty.                         *)
LEMMA LoopEndsKeeps == CmdInv /\ LoopEnds => CmdInv'
<1> SUFFICES ASSUME CmdInv, LoopEnds PROVE CmdInv'
  OBVIOUS
<1>1. phase = "printed" /\ exit = "running"
  BY DEF CmdInv, CmdType, OneCall, LoopEnds, Calls!None
<1>2. ErrorsEndIt'
  BY <1>1, NoErrorYet DEF LoopEnds, CmdInv, OneCall, callVars
<1>3. QED
  BY <1>1, <1>2
     DEF CmdInv, CmdType, OneCall, Printing, Phases, LoopEnds, IsText, Told, Exit, callVars

LEMMA CmdInvKept == CmdInv /\ [Next]_vars => CmdInv'
<1> SUFFICES ASSUME CmdInv, [Next]_vars PROVE CmdInv'
  OBVIOUS
<1>1. CASE Next
  BY <1>1, ParseArgsKeeps, PidExistsKeeps, ProfileKeeps, SessionKeeps, OutputKeeps,
     ReadKeeps, LoopEndsKeeps DEF Next
<1>2. CASE UNCHANGED vars
  BY <1>2
     DEF vars, cmdVars, callVars, CmdInv, CmdType, OneCall, Printing, IsText, Told, ErrorsEndIt
<1>3. QED
  BY <1>1, <1>2

LEMMA CmdInvHolds == Spec => []CmdInv
BY CmdInvInit, CmdInvKept, PTL DEF Spec

(* Exit code 0 means that whoever reads the output finds the stacks that   *)
(* were sampled, whatever their number, their depth and their frames; any  *)
(* other leaves no profile there, and at most the log of resolveSymbols.   *)
THEOREM ExitCode == Spec => []ExitCodeIsHonest
<1>1. CmdInv => ExitCodeIsHonest
  <2> SUFFICES ASSUME CmdInv PROVE ExitCodeIsHonest
    OBVIOUS
  <2>1. exit \in {"1", "uncaught"} =>
            stdout = IF Told("symbolErr") THEN <<SymbolsLog>> ELSE <<>>
    BY DEF CmdInv, Printing
  <2>2. ASSUME exit = "0" PROVE Len(stdout) = 1 /\ Shown = Expected(stacks, args.format)
    <3>1. /\ stacks \in Seq(Seq(Frame))
          /\ lines = StackVisAdaptor(stacks, args.format)
          /\ stdout = <<IF args.format = "flame"
                        THEN [kind |-> "graph", stacks |-> ReadStacks(lines)]
                        ELSE [kind |-> "lines", lines |-> lines]>>
      BY <2>2, ProfilesTyped DEF CmdInv, Printing
    <3>2. ReadStacks(lines) = Expected(stacks, args.format)
      BY <3>1, RoundTrip, ConvertedIsExpected
    <3>3. CASE args.format = "flame"
      BY <3>1, <3>2, <3>3 DEF Shown
    <3>4. CASE args.format # "flame"
      BY <3>1, <3>2, <3>4 DEF Shown
    <3>5. Len(stdout) = 1
      BY <3>1
    <3>6. QED
      BY <3>3, <3>4, <3>5
  <2>3. QED
    BY <2>1, <2>2 DEF ExitCodeIsHonest, Expected
<1>2. QED
  BY <1>1, CmdInvHolds, PTL

(* A profile that was collected gets printed, but for 'text'.              *)
THEOREM CollectedIsPrinted == Spec => []OnlyTextLosesProfiles
<1>1. CmdInv => OnlyTextLosesProfiles
  BY DEF CmdInv, CmdType, OneCall, Collected, OnlyTextLosesProfiles
<1>2. QED
  BY <1>1, CmdInvHolds, PTL

(* An error that the callback is given, in the middle of profile() or by   *)
(* the session, is the only answer main() gets and ends the command.       *)
THEOREM FirstErrorEndsIt == Spec => []ErrorsEndIt
<1>1. CmdInv => ErrorsEndIt
  BY DEF CmdInv, OneCall
<1>2. QED
  BY <1>1, CmdInvHolds, PTL

=============================================================================
