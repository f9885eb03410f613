------------------------- MODULE SymbolicationProofs -------------------------
(***************************************************************************)
(* Proofs about Symbolication, for any addresses, any profile and any      *)
(* chunks atos' output comes in.                                           *)
(***************************************************************************)
EXTENDS Symbolication, Recursion

Str == Seq(Character)

-----------------------------------------------------------------------------
(* What resolveNativeFrames asks for *)

Add(asked, f) == IF f \in Addresses /\ ~Contains(asked, f) THEN Append(asked, f) ELSE asked

(* The addresses of the first n frames, each of them once.                 *)
Lists(asked, p, n) ==
    /\ asked \in Seq(Addresses)
    /\ Len(asked) <= n
    /\ \A i, j \in 1 .. Len(asked) : asked[i] = asked[j] => i = j
    /\ \A i \in 1 .. n : p[i] \in Addresses => \E j \in 1 .. Len(asked) : asked[j] = p[i]
    /\ \A j \in 1 .. Len(asked) : \E i \in 1 .. n : asked[j] = p[i]

LEMMA AddLists ==
    ASSUME NEW p, NEW n \in Nat, NEW asked, Lists(asked, p, n)
    PROVE  Lists(Add(asked, p[n + 1]), p, n + 1)
<1> DEFINE f == p[n + 1]
<1>0. /\ asked \in Seq(Addresses) /\ Len(asked) \in Nat /\ Len(asked) <= n
      /\ \A i, j \in 1 .. Len(asked) : asked[i] = asked[j] => i = j
      /\ \A i \in 1 .. n : p[i] \in Addresses => \E j \in 1 .. Len(asked) : asked[j] = p[i]
      /\ \A j \in 1 .. Len(asked) : \E i \in 1 .. n : asked[j] = p[i]
  BY DEF Lists
<1>1. CASE f \in Addresses /\ ~Contains(asked, f)
  <2> DEFINE bs == Append(asked, f)
  <2>1. Add(asked, f) = bs
    BY <1>1 DEF Add
  <2>2. /\ bs \in Seq(Addresses) /\ Len(bs) = Len(asked) + 1
        /\ \A j \in 1 .. Len(asked) : bs[j] = asked[j]
        /\ bs[Len(asked) + 1] = f
    BY <1>0, <1>1
  <2>3. \A j \in 1 .. Len(asked) : asked[j] # f
    BY <1>1 DEF Contains
  <2> HIDE DEF bs
  <2>4. \A i, j \in 1 .. Len(bs) : bs[i] = bs[j] => i = j
    BY <1>0, <2>2, <2>3
  <2>5. ASSUME NEW i \in 1 .. n + 1, p[i] \in Addresses
        PROVE  \E j \in 1 .. Len(bs) : bs[j] = p[i]
    <3>1. CASE i = n + 1
      BY <1>0, <2>2, <3>1
    <3>2. CASE i # n + 1
      <4>1. PICK j \in 1 .. Len(asked) : asked[j] = p[i]
        BY <1>0, <2>5, <3>2
      <4>2. j \in 1 .. Len(bs) /\ bs[j] = p[i]
        BY <1>0, <2>2, <4>1
      <4>3. QED
        BY <4>2
    <3>3. QED
      BY <3>1, <3>2
  <2>6. ASSUME NEW j \in 1 .. Len(bs)
        PROVE  \E i \in 1 .. n + 1 : bs[j] = p[i]
    <3>1. CASE j = Len(asked) + 1
      BY <2>2, <3>1
    <3>2. CASE j # Len(asked) + 1
      <4>1. PICK i \in 1 .. n : asked[j] = p[i]
        BY <1>0, <2>2, <3>2
      <4>2. i \in 1 .. n + 1 /\ bs[j] = p[i]
        BY <1>0, <2>2, <3>2, <4>1
      <4>3. QED
        BY <4>2
    <3>3. QED
      BY <3>1, <3>2
  <2>7. QED
    BY <1>0, <2>1, <2>2, <2>4, <2>5, <2>6 DEF Lists
<1>2. CASE ~(f \in Addresses /\ ~Contains(asked, f))
  <2>1. Add(asked, f) = asked
    BY <1>2 DEF Add
  <2>2. ASSUME NEW i \in 1 .. n + 1, p[i] \in Addresses
        PROVE  \E j \in 1 .. Len(asked) : asked[j] = p[i]
    <3>1. CASE i = n + 1
      BY <1>2, <2>2, <3>1 DEF Contains
    <3>2. CASE i # n + 1
      BY <1>0, <2>2, <3>2
    <3>3. QED
      BY <3>1, <3>2
  <2>3. \A j \in 1 .. Len(asked) : \E i \in 1 .. n + 1 : asked[j] = p[i]
    <3>1. ASSUME NEW j \in 1 .. Len(asked) PROVE \E i \in 1 .. n + 1 : asked[j] = p[i]
      <4>1. PICK i \in 1 .. n : asked[j] = p[i]
        BY <1>0
      <4>2. i \in 1 .. n + 1
        OBVIOUS
      <4>3. QED
        BY <4>1, <4>2
    <3>2. QED
      BY <3>1
  <2>4. QED
    BY <1>0, <2>1, <2>2, <2>3 DEF Lists
<1>3. QED
  BY <1>1, <1>2

LEMMA FramesArrayLists ==
    ASSUME NEW p \in Seq(S!Frame)
    PROVE  Lists(FramesArray(p), p, Len(p))
<1> DEFINE m == Len(p)
           V == Seq(Addresses)
           step == [x \in (1 .. m) \X V |-> Add(x[2], p[x[1]])]
           seen == CHOOSE g : g = [n \in 0 .. m |->
                       IF n = 0 THEN <<>>
                       ELSE IF p[n] \in Addresses /\ ~Contains(g[n - 1], p[n])
                            THEN Append(g[n - 1], p[n]) ELSE g[n - 1]]
<1>1. m \in Nat /\ <<>> \in V
  OBVIOUS
<1>2. \A n \in 1 .. m : \A v \in V : Add(v, p[n]) \in V
  BY DEF Add
<1>3. FramesArray(p) = seen[m]
  BY DEF FramesArray
<1> HIDE DEF m, V
<1>4. PICK g : Chain(g, m, V, <<>>, step)
  <2>1. \A n \in 1 .. m : \A v \in V : step[<<n, v>>] \in V
    BY <1>2
  <2> HIDE DEF step
  <2>2. QED
    BY <1>1, <2>1, ChainsExist
<1>5. ASSUME NEW n \in 1 .. m PROVE g[n] = Add(g[n - 1], p[n])
  <2>1. n - 1 \in 0 .. m
    BY <1>1
  <2>2. g[n - 1] \in V /\ g[n] = step[<<n, g[n - 1]>>]
    BY <1>4, <2>1 DEF Chain
  <2>3. QED
    BY <2>2
<1>6. g = [n \in 0 .. m |-> IF n = 0 THEN <<>>
                            ELSE IF p[n] \in Addresses /\ ~Contains(g[n - 1], p[n])
                                 THEN Append(g[n - 1], p[n]) ELSE g[n - 1]]
  <2>1. g = [n \in 0 .. m |-> g[n]] /\ g[0] = <<>>
    BY <1>4 DEF Chain
  <2>2. ASSUME NEW n \in 0 .. m
        PROVE  g[n] = IF n = 0 THEN <<>>
                      ELSE IF p[n] \in Addresses /\ ~Contains(g[n - 1], p[n])
                           THEN Append(g[n - 1], p[n]) ELSE g[n - 1]
    <3>1. CASE n = 0
      BY <2>1, <3>1
    <3>2. CASE n # 0
      <4>1. n \in 1 .. m
        BY <1>1, <3>2
      <4>2. g[n] = Add(g[n - 1], p[n])
        BY <1>5, <4>1
      <4>3. QED
        BY <3>2, <4>2 DEF Add
    <3>3. QED
      BY <3>1, <3>2
  <2>3. QED
    BY <2>1, <2>2
<1>7. seen = [n \in 0 .. m |-> IF n = 0 THEN <<>>
                            ELSE IF p[n] \in Addresses /\ ~Contains(seen[n - 1], p[n])
                                 THEN Append(seen[n - 1], p[n]) ELSE seen[n - 1]]
  BY <1>6, Zenon
<1> HIDE DEF seen
<1>8. seen[0] = <<>> /\ \A n \in 1 .. m : seen[n] = Add(seen[n - 1], p[n])
  <2>1. 0 \in 0 .. m /\ \A n \in 1 .. m : n \in 0 .. m /\ n # 0
    BY <1>1
  <2>2. seen[0] = <<>>
    BY <1>7, <2>1
  <2>3. ASSUME NEW n \in 1 .. m PROVE seen[n] = Add(seen[n - 1], p[n])
    <3>1. seen[n] = IF p[n] \in Addresses /\ ~Contains(seen[n - 1], p[n])
                    THEN Append(seen[n - 1], p[n]) ELSE seen[n - 1]
      BY <1>7, <2>1
    <3>2. QED
      BY <3>1 DEF Add
  <2>4. QED
    BY <2>2, <2>3
<1> DEFINE T == {n \in Nat : n <= m => Lists(seen[n], p, n)}
<1>9. 0 \in T
  <2>1. Lists(<<>>, p, 0)
    <3>1. /\ <<>> \in Seq(Addresses) /\ Len(<<>>) = 0
          /\ 1 .. 0 = {}
      OBVIOUS
    <3>2. QED
      BY <3>1 DEF Lists
  <2>2. QED
    BY <1>8, <2>1
<1>10. ASSUME NEW n \in Nat, n \in T PROVE n + 1 \in T
  <2> SUFFICES ASSUME n + 1 <= m PROVE Lists(seen[n + 1], p, n + 1)
    OBVIOUS
  <2>1. Lists(seen[n], p, n)
    BY <1>1, <1>10
  <2>2. n + 1 \in 1 .. m /\ (n + 1) - 1 = n
    BY <1>1
  <2>3. seen[n + 1] = Add(seen[(n + 1) - 1], p[n + 1])
    BY <1>8, <2>2, Zenon
  <2>4. QED
    BY <2>1, <2>2, <2>3, AddLists
<1> HIDE DEF T
<1>11. m \in T
  BY <1>1, <1>9, <1>10, SetInduction
<1>12. QED
  BY <1>1, <1>3, <1>11 DEF T, m

-----------------------------------------------------------------------------
(* What atos prints *)

LEMMA PrintedIs ==
    ASSUME NEW asked \in Seq(Addresses)
    PROVE  /\ Printed(asked) \in Str
           /\ Len(Printed(asked)) = 3 * Len(asked)
           /\ \A j \in 1 .. Len(asked) :
                 /\ Printed(asked)[3 * j - 2] = asked[j]
                 /\ Printed(asked)[3 * j - 1] = asked[j]
                 /\ Printed(asked)[3 * j] = NL
<1>1. Len(asked) \in Nat /\ \A j \in 1 .. Len(asked) : asked[j] \in Addresses
  OBVIOUS
<1>2. ASSUME NEW i \in 1 .. 3 * Len(asked), i % 3 # 0
      PROVE  (i + 2) \div 3 \in 1 .. Len(asked)
  BY <1>1, <1>2
<1>3. ASSUME NEW i \in 1 .. 3 * Len(asked)
      PROVE  (IF i % 3 = 0 THEN NL ELSE asked[(i + 2) \div 3]) \in Character
  BY <1>1, <1>2 DEF Character
<1>4. 3 * Len(asked) \in Nat
  BY <1>1
<1>5. Printed(asked) \in [1 .. 3 * Len(asked) -> Character]
  BY <1>3 DEF Printed
<1>6. ASSUME NEW j \in 1 .. Len(asked)
      PROVE  /\ Printed(asked)[3 * j - 2] = asked[j]
             /\ Printed(asked)[3 * j - 1] = asked[j]
             /\ Printed(asked)[3 * j] = NL
  <2>1. /\ 3 * j - 2 \in 1 .. 3 * Len(asked)
        /\ 3 * j - 1 \in 1 .. 3 * Len(asked)
        /\ 3 * j \in 1 .. 3 * Len(asked)
    BY <1>1
  <2>2. /\ (3 * j - 2) % 3 = 1 /\ ((3 * j - 2) + 2) \div 3 = j
        /\ (3 * j - 1) % 3 = 2 /\ ((3 * j - 1) + 2) \div 3 = j
        /\ (3 * j) % 3 = 0
    BY <1>1
  <2>3. QED
    BY <2>1, <2>2 DEF Printed
<1>7. QED
  BY <1>4, <1>5, <1>6 DEF Str

-----------------------------------------------------------------------------
(* How the output is taken apart *)

ReadCharacter(ps, c) ==
    IF c = NL THEN Append(ps, <<>>) ELSE [ps EXCEPT ![Len(ps)] = Append(@, c)]

Pieces == {ps \in Seq(Str) : ps # <<>>}

LEMMA ReadCharacterType ==
    ASSUME NEW ps \in Pieces, NEW c \in Character
    PROVE  ReadCharacter(ps, c) \in Pieces
<1>1. ps \in Seq(Str) /\ Len(ps) \in Nat /\ Len(ps) >= 1
  BY DEF Pieces
<1>2. CASE c = NL
  <2>1. Append(ps, <<>>) \in Seq(Str) /\ Len(Append(ps, <<>>)) = Len(ps) + 1
    BY <1>1 DEF Str
  <2>2. QED
    BY <1>1, <1>2, <2>1 DEF ReadCharacter, Pieces
<1>3. CASE c # NL
  <2>1. ps[Len(ps)] \in Str
    BY <1>1
  <2>2. Append(ps[Len(ps)], c) \in Str
    BY <2>1 DEF Str
  <2> DEFINE qs == [ps EXCEPT ![Len(ps)] = Append(@, c)]
  <2>3. qs \in Seq(Str) /\ Len(qs) = Len(ps)
    BY <1>1, <2>2
  <2> HIDE DEF qs
  <2>4. qs # <<>>
    BY <1>1, <2>3
  <2>5. QED
    BY <1>3, <2>3, <2>4 DEF ReadCharacter, Pieces, qs
<1>4. QED
  BY <1>2, <1>3

LEMMA SplitReads ==
    ASSUME NEW t \in Str
    PROVE  \E pieces :
              /\ pieces \in [0 .. Len(t) -> Pieces]
              /\ pieces[0] = << <<>> >>
              /\ \A n \in 1 .. Len(t) : pieces[n] = ReadCharacter(pieces[n - 1], t[n])
              /\ Split(t) = pieces[Len(t)]
<1> DEFINE m == Len(t)
           base == << <<>> >>
           step == [x \in (1 .. m) \X Pieces |-> ReadCharacter(x[2], t[x[1]])]
           pieces == CHOOSE g : g = [n \in 0 .. m |->
                       IF n = 0 THEN base
                       ELSE IF t[n] = NL THEN Append(g[n - 1], <<>>)
                       ELSE [g[n - 1] EXCEPT ![Len(g[n - 1])] = Append(@, t[n])]]
<1>1. m \in Nat /\ base \in Pieces
  BY DEF Str, Pieces
<1>2. \A n \in 1 .. m : \A v \in Pieces : ReadCharacter(v, t[n]) \in Pieces
  <2>1. \A n \in 1 .. m : t[n] \in Character
    BY DEF Str
  <2>2. QED
    BY <2>1, ReadCharacterType
<1>3. Split(t) = pieces[m]
  BY DEF Split
<1> HIDE DEF m, base
<1>4. PICK g : Chain(g, m, Pieces, base, step)
  <2>1. \A n \in 1 .. m : \A v \in Pieces : step[<<n, v>>] \in Pieces
    BY <1>2
  <2> HIDE DEF step
  <2>2. QED
    BY <1>1, <2>1, ChainsExist
<1>5. ASSUME NEW n \in 1 .. m PROVE g[n] = ReadCharacter(g[n - 1], t[n])
  <2>1. n - 1 \in 0 .. m
    BY <1>1
  <2>2. g[n - 1] \in Pieces /\ g[n] = step[<<n, g[n - 1]>>]
    BY <1>4, <2>1 DEF Chain
  <2>3. QED
    BY <2>2
<1>6. g = [n \in 0 .. m |->
             IF n = 0 THEN base
             ELSE IF t[n] = NL THEN Append(g[n - 1], <<>>)
             ELSE [g[n - 1] EXCEPT ![Len(g[n - 1])] = Append(@, t[n])]]
  <2>1. g = [n \in 0 .. m |-> g[n]] /\ g[0] = base
    BY <1>4 DEF Chain
  <2>2. ASSUME NEW n \in 0 .. m
        PROVE  g[n] = IF n = 0 THEN base
                      ELSE IF t[n] = NL THEN Append(g[n - 1], <<>>)
                      ELSE [g[n - 1] EXCEPT ![Len(g[n - 1])] = Append(@, t[n])]
    <3>1. CASE n = 0
      BY <2>1, <3>1
    <3>2. CASE n # 0
      <4>1. n \in 1 .. m
        BY <1>1, <3>2
      <4>2. g[n] = ReadCharacter(g[n - 1], t[n])
        BY <1>5, <4>1
      <4>3. QED
        BY <3>2, <4>2 DEF ReadCharacter
    <3>3. QED
      BY <3>1, <3>2
  <2>3. QED
    BY <2>1, <2>2
<1>7. pieces = [n \in 0 .. m |->
             IF n = 0 THEN base
             ELSE IF t[n] = NL THEN Append(pieces[n - 1], <<>>)
             ELSE [pieces[n - 1] EXCEPT ![Len(pieces[n - 1])] = Append(@, t[n])]]
  BY <1>6, Zenon
<1> HIDE DEF pieces
<1>8. pieces[0] = base /\ \A n \in 1 .. m : pieces[n] = ReadCharacter(pieces[n - 1], t[n])
  <2>1. 0 \in 0 .. m /\ \A n \in 1 .. m : n \in 0 .. m /\ n # 0
    BY <1>1
  <2>2. pieces[0] = base
    BY <1>7, <2>1
  <2>3. ASSUME NEW n \in 1 .. m PROVE pieces[n] = ReadCharacter(pieces[n - 1], t[n])
    <3>1. pieces[n] = IF t[n] = NL THEN Append(pieces[n - 1], <<>>)
                ELSE [pieces[n - 1] EXCEPT ![Len(pieces[n - 1])] = Append(@, t[n])]
      BY <1>7, <2>1
    <3>2. QED
      BY <3>1 DEF ReadCharacter
  <2>4. QED
    BY <2>2, <2>3
<1> DEFINE T == {n \in Nat : n <= m => pieces[n] \in Pieces}
<1>9. 0 \in T
  BY <1>1, <1>8
<1>10. ASSUME NEW n \in Nat, n \in T PROVE n + 1 \in T
  <2> SUFFICES ASSUME n + 1 <= m PROVE pieces[n + 1] \in Pieces
    OBVIOUS
  <2>1. pieces[n] \in Pieces /\ n + 1 \in 1 .. m /\ (n + 1) - 1 = n
    BY <1>1, <1>10
  <2>2. pieces[n + 1] = ReadCharacter(pieces[(n + 1) - 1], t[n + 1])
    BY <1>8, <2>1, Zenon
  <2>3. QED
    BY <1>2, <2>1, <2>2
<1> HIDE DEF T
<1>11. \A n \in Nat : n \in T
  BY <1>9, <1>10, SetInduction
<1>12. pieces \in [0 .. m -> Pieces]
  <2>1. \A n \in 0 .. m : pieces[n] \in Pieces
    BY <1>1, <1>11 DEF T
  <2>2. pieces = [n \in 0 .. m |-> pieces[n]]
    BY <1>7
  <2>3. QED
    BY <2>1, <2>2
<1>13. QED
  BY <1>3, <1>8, <1>12 DEF m, base

(* There is a piece always, in the empty text too.                         *)
LEMMA SplitType ==
    ASSUME NEW t \in Str
    PROVE  Split(t) \in Seq(Str) /\ Len(Split(t)) >= 1
<1>1. PICK pieces : pieces \in [0 .. Len(t) -> Pieces] /\ Split(t) = pieces[Len(t)]
  BY SplitReads
<1>2. Len(t) \in 0 .. Len(t)
  BY DEF Str
<1>3. Split(t) \in Pieces
  BY <1>1, <1>2
<1>4. QED
  BY <1>3 DEF Pieces

(* `text` is the beginning of what atos prints.                            *)
Begins(text, asked) ==
    /\ text \in Str
    /\ Len(text) <= 3 * Len(asked)
    /\ \A k \in 1 .. Len(text) : text[k] = Printed(asked)[k]

(* After q lines there are q names, and an empty piece.                    *)
Words(asked, q) == [j \in 1 .. q + 1 |-> IF j <= q THEN Name(asked[j]) ELSE <<>>]

LEMMA TwoAppended ==
    ASSUME NEW x PROVE Append(<<x>>, x) = <<x, x>> /\ Append(<<>>, x) = <<x>>
<1>1. <<x>> \in Seq({x}) /\ <<>> \in Seq({x})
  OBVIOUS
<1> DEFINE t == Append(<<x>>, x)
<1>2. t \in Seq({x}) /\ Len(t) = 2 /\ t[1] = x /\ t[2] = x
  BY <1>1
<1> HIDE DEF t
<1>3. t = <<x, x>>
  BY <1>2
<1>4. QED
  BY <1>3 DEF t

LEMMA ThreeCharacters ==
    ASSUME NEW asked \in Seq(Addresses), NEW q \in Nat, q < Len(asked)
    PROVE  LET one == ReadCharacter(Words(asked, q), asked[q + 1])
               two == ReadCharacter(one, asked[q + 1])
               three == ReadCharacter(two, NL)
           IN  /\ Len(one) = q + 1
               /\ Len(two) = q + 1 /\ \A j \in 1 .. q + 1 : two[j] = Name(asked[j])
               /\ three = Words(asked, q + 1)
<1> DEFINE a == asked[q + 1]
           w == Words(asked, q)
           one == [j \in 1 .. q + 1 |-> IF j <= q THEN Name(asked[j]) ELSE <<a>>]
           two == [j \in 1 .. q + 1 |-> Name(asked[j])]
<1>1. a \in Addresses /\ a # NL
  BY SymbolicationAssumption DEF SymbolicationAssumption
<1>2. w \in Seq(Seq(Addresses)) /\ Len(w) = q + 1
  <2>1. \A j \in 1 .. q : asked[j] \in Addresses
    OBVIOUS
  <2>2. \A j \in 1 .. q : Name(asked[j]) \in Seq(Addresses)
    BY <2>1 DEF Name
  <2>3. \A j \in 1 .. q + 1 :
           (IF j <= q THEN Name(asked[j]) ELSE <<>>) \in Seq(Addresses)
    BY <2>2
  <2>4. QED
    BY <2>3 DEF Words
<1> HIDE DEF a
<1>3. ReadCharacter(w, a) = one
  <2>1. w[q + 1] = <<>> /\ \A j \in 1 .. q : w[j] = Name(asked[j])
    BY DEF Words
  <2>2. ReadCharacter(w, a) = [w EXCEPT ![q + 1] = Append(w[q + 1], a)]
    BY <1>1, <1>2 DEF ReadCharacter
  <2> HIDE DEF w
  <2>3. ReadCharacter(w, a) = [w EXCEPT ![q + 1] = <<a>>]
    BY <2>1, <2>2, TwoAppended
  <2>4. w \in [1 .. q + 1 -> Seq(Addresses)]
    BY <1>2
  <2>5. [w EXCEPT ![q + 1] = <<a>>] =
           [j \in 1 .. q + 1 |-> IF j <= q THEN w[j] ELSE <<a>>]
    <3> DEFINE v == <<a>>
               g == [w EXCEPT ![q + 1] = v]
    <3> HIDE DEF v
    <3>1. g = [j \in 1 .. q + 1 |-> g[j]]
      BY <2>4
    <3>2. \A j \in 1 .. q + 1 : g[j] = IF j <= q THEN w[j] ELSE v
      BY <2>4
    <3> HIDE DEF g
    <3>3. g = [j \in 1 .. q + 1 |-> IF j <= q THEN w[j] ELSE v]
      BY <3>1, <3>2
    <3>4. QED
      BY <3>3 DEF g, v
  <2>6. QED
    BY <2>1, <2>3, <2>5
<1>4. Len(one) = q + 1 /\ Len(two) = q + 1
  OBVIOUS
<1>5. ReadCharacter(one, a) = two
  <2>1. one[q + 1] = <<a>> /\ \A j \in 1 .. q : one[j] = Name(asked[j])
    OBVIOUS
  <2>2. one \in [1 .. q + 1 -> {one[j] : j \in 1 .. q + 1}]
    OBVIOUS
  <2>3. ReadCharacter(one, a) = [one EXCEPT ![q + 1] = Append(one[q + 1], a)]
    BY <1>1, <1>4 DEF ReadCharacter
  <2> HIDE DEF one
  <2>4. ReadCharacter(one, a) = [one EXCEPT ![q + 1] = <<a, a>>]
    BY <2>1, <2>3, TwoAppended
  <2>5. [one EXCEPT ![q + 1] = <<a, a>>] =
           [j \in 1 .. q + 1 |-> IF j <= q THEN one[j] ELSE <<a, a>>]
    <3> DEFINE v == <<a, a>>
               g == [one EXCEPT ![q + 1] = v]
    <3> HIDE DEF v
    <3>1. g = [j \in 1 .. q + 1 |-> g[j]]
      BY <2>2
    <3>2. \A j \in 1 .. q + 1 : g[j] = IF j <= q THEN one[j] ELSE v
      BY <2>2
    <3> HIDE DEF g
    <3>3. g = [j \in 1 .. q + 1 |-> IF j <= q THEN one[j] ELSE v]
      BY <3>1, <3>2
    <3>4. QED
      BY <3>3 DEF g, v
  <2>6. Name(asked[q + 1]) = <<a, a>>
    BY DEF Name, a
  <2>7. \A j \in 1 .. q + 1 :
           (IF j <= q THEN one[j] ELSE <<a, a>>) = Name(asked[j])
    BY <2>1, <2>6
  <2>8. QED
    BY <2>4, <2>5, <2>7
<1>6. ReadCharacter(two, NL) = Words(asked, q + 1)
  <2>1. ReadCharacter(two, NL) = Append(two, <<>>)
    BY DEF ReadCharacter
  <2>2. QED
    BY <1>4, <2>1 DEF Words
<1>7. QED
  BY <1>3, <1>4, <1>5, <1>6 DEF a

(* What Split makes of q lines and r characters more.                      *)
LEMMA SplitOfLines ==
    ASSUME NEW asked \in Seq(Addresses), NEW text, Begins(text, asked),
           NEW q \in Nat, NEW r \in 0 .. 2, Len(text) = 3 * q + r
    PROVE  /\ Len(Split(text)) = q + 1
           /\ \A j \in 1 .. q : Split(text)[j] = Name(asked[j])
           /\ r = 0 => Split(text)[q + 1] = <<>>
           /\ r = 2 => Split(text)[q + 1] = Name(asked[q + 1])
<1> DEFINE m == Len(text)
           n == Len(asked)
<1>1. m \in Nat /\ n \in Nat /\ m <= 3 * n /\ text \in Str
  BY DEF Begins, Str
<1>2. PICK pieces :
              /\ pieces \in [0 .. m -> Pieces]
              /\ pieces[0] = << <<>> >>
              /\ \A k \in 1 .. m : pieces[k] = ReadCharacter(pieces[k - 1], text[k])
              /\ Split(text) = pieces[m]
  BY <1>1, SplitReads
<1>3. ASSUME NEW j \in 1 .. n
      PROVE  /\ 3 * j - 2 <= m => text[3 * j - 2] = asked[j]
             /\ 3 * j - 1 <= m => text[3 * j - 1] = asked[j]
             /\ 3 * j <= m => text[3 * j] = NL
  <2>1. /\ Printed(asked)[3 * j - 2] = asked[j]
        /\ Printed(asked)[3 * j - 1] = asked[j]
        /\ Printed(asked)[3 * j] = NL
    BY PrintedIs
  <2>2. \A k \in 1 .. m : text[k] = Printed(asked)[k]
    BY DEF Begins
  <2> HIDE DEF m, n
  <2>3. 3 * j - 2 >= 1 /\ 3 * j - 1 >= 1 /\ 3 * j >= 1
    BY <1>1
  <2>4. QED
    BY <1>1, <2>1, <2>2, <2>3
<1> HIDE DEF m, n
<1>4. ASSUME NEW i \in Nat, 3 * i + 1 <= m
      PROVE  /\ pieces[3 * i + 1] = ReadCharacter(pieces[3 * i], asked[i + 1])
             /\ 3 * i + 2 <= m =>
                   pieces[3 * i + 2] = ReadCharacter(pieces[3 * i + 1], asked[i + 1])
             /\ 3 * i + 3 <= m => pieces[3 * i + 3] = ReadCharacter(pieces[3 * i + 2], NL)
  <2>1. /\ i + 1 \in 1 .. n
        /\ 3 * (i + 1) - 2 = 3 * i + 1 /\ 3 * (i + 1) - 1 = 3 * i + 2
        /\ 3 * (i + 1) = 3 * i + 3
    BY <1>1, <1>4
  <2>2. /\ text[3 * i + 1] = asked[i + 1]
        /\ 3 * i + 2 <= m => text[3 * i + 2] = asked[i + 1]
        /\ 3 * i + 3 <= m => text[3 * i + 3] = NL
    <3>1. /\ 3 * (i + 1) - 2 <= m => text[3 * (i + 1) - 2] = asked[i + 1]
          /\ 3 * (i + 1) - 1 <= m => text[3 * (i + 1) - 1] = asked[i + 1]
          /\ 3 * (i + 1) <= m => text[3 * (i + 1)] = NL
      BY <1>3, <2>1
    <3>2. QED
      BY <1>4, <2>1, <3>1
  <2>3. /\ 3 * i + 1 \in 1 .. m /\ (3 * i + 1) - 1 = 3 * i
        /\ 3 * i + 2 <= m => 3 * i + 2 \in 1 .. m
        /\ (3 * i + 2) - 1 = 3 * i + 1
        /\ 3 * i + 3 <= m => 3 * i + 3 \in 1 .. m
        /\ (3 * i + 3) - 1 = 3 * i + 2
    BY <1>1, <1>4
  <2>4. pieces[3 * i + 1] = ReadCharacter(pieces[(3 * i + 1) - 1], text[3 * i + 1])
    BY <1>2, <2>3
  <2>5. 3 * i + 2 <= m =>
           pieces[3 * i + 2] = ReadCharacter(pieces[(3 * i + 2) - 1], text[3 * i + 2])
    BY <1>2, <2>3
  <2>6. 3 * i + 3 <= m =>
           pieces[3 * i + 3] = ReadCharacter(pieces[(3 * i + 3) - 1], text[3 * i + 3])
    BY <1>2, <2>3
  <2>7. QED
    BY <2>2, <2>3, <2>4, <2>5, <2>6
<1> DEFINE T == {i \in Nat : 3 * i <= m => pieces[3 * i] = Words(asked, i)}
<1>5. 0 \in T
  <2>1. Words(asked, 0) = << <<>> >>
    BY DEF Words
  <2>2. QED
    BY <1>2, <2>1
<1>6. ASSUME NEW i \in Nat, i \in T PROVE i + 1 \in T
  <2> SUFFICES ASSUME 3 * (i + 1) <= m PROVE pieces[3 * (i + 1)] = Words(asked, i + 1)
    OBVIOUS
  <2>1. /\ 3 * i <= m /\ 3 * i + 1 <= m /\ 3 * i + 2 <= m /\ 3 * i + 3 <= m
        /\ 3 * (i + 1) = 3 * i + 3 /\ i < n
    BY <1>1
  <2>2. pieces[3 * i] = Words(asked, i)
    BY <1>6, <2>1
  <2>3. ReadCharacter(ReadCharacter(ReadCharacter(Words(asked, i),
              asked[i + 1]), asked[i + 1]), NL) = Words(asked, i + 1)
    BY <2>1, ThreeCharacters DEF n
  <2>4. QED
    BY <1>4, <2>1, <2>2, <2>3
<1> HIDE DEF T
<1>7. pieces[3 * q] = Words(asked, q)
  <2>1. q \in T
    BY <1>5, <1>6, SetInduction
  <2>2. 3 * q <= m
    BY DEF m
  <2>3. QED
    BY <2>1, <2>2 DEF T
<1>8. /\ Len(Words(asked, q)) = q + 1 /\ Words(asked, q)[q + 1] = <<>>
      /\ \A j \in 1 .. q : Words(asked, q)[j] = Name(asked[j])
  BY DEF Words
<1>9. CASE r = 0
  BY <1>2, <1>7, <1>8, <1>9 DEF m
<1>10. CASE r # 0
  <2>1. 3 * q + 1 <= m /\ q < n
    BY <1>1, <1>10 DEF m
  <2> DEFINE one == ReadCharacter(Words(asked, q), asked[q + 1])
             two == ReadCharacter(one, asked[q + 1])
  <2>2. /\ Len(one) = q + 1
        /\ Len(two) = q + 1 /\ \A j \in 1 .. q + 1 : two[j] = Name(asked[j])
    BY <2>1, ThreeCharacters DEF n
  <2>3. CASE r = 1
    <3>1. Split(text) = one
      BY <1>2, <1>4, <1>7, <2>1, <2>3 DEF m
    <3>2. \A j \in 1 .. q : one[j] = Name(asked[j])
      <4> DEFINE w == Words(asked, q)
      <4>1. asked[q + 1] # NL
        BY <2>1, SymbolicationAssumption DEF SymbolicationAssumption, n
      <4>2. one = [w EXCEPT ![q + 1] = Append(@, asked[q + 1])]
        BY <1>8, <4>1 DEF ReadCharacter
      <4>3. DOMAIN w = 1 .. q + 1
        BY DEF Words
      <4> HIDE DEF w, one
      <4>4. \A j \in 1 .. q : one[j] = w[j]
        BY <4>2, <4>3
      <4>5. QED
        BY <1>8, <4>4 DEF w
    <3>3. QED
      BY <2>2, <2>3, <3>1, <3>2
  <2>4. CASE r = 2
    <3>1. Split(text) = two
      BY <1>2, <1>4, <1>7, <2>1, <2>4 DEF m
    <3>2. QED
      BY <2>2, <2>4, <3>1
  <2>5. QED
    BY <1>10, <2>3, <2>4
<1>11. QED
  BY <1>9, <1>10

(* Trim takes the line ends off, and nothing else: the last one is all     *)
(* there is.                                                               *)
LEMMA TrimOfLines ==
    ASSUME NEW asked \in Seq(Addresses), NEW text, Begins(text, asked),
           NEW q \in Nat, NEW r \in 0 .. 2, Len(text) = 3 * q + r
    PROVE  Trim(text) = SubSeq(text, 1, IF r = 0 /\ q > 0 THEN 3 * q - 1 ELSE 3 * q + r)
<1> DEFINE m == Len(text)
           n == Len(asked)
           ink == {i \in DOMAIN text : text[i] # NL}
           last == IF r = 0 /\ q > 0 THEN 3 * q - 1 ELSE 3 * q + r
<1>1. /\ m \in Nat /\ n \in Nat /\ m <= 3 * n /\ text \in Str
      /\ DOMAIN text = 1 .. m
  BY DEF Begins, Str
<1>2. ASSUME NEW k \in 1 .. m
      PROVE  text[k] = NL <=> \E j \in 1 .. n : k = 3 * j
  <2>1. PICK j \in 1 .. n : k = 3 * j - 2 \/ k = 3 * j - 1 \/ k = 3 * j
    <3>1. CASE k % 3 = 0
      <4>1. k = 3 * (k \div 3) /\ k \div 3 \in 1 .. n
        BY <1>1, <3>1
      <4>2. QED
        BY <4>1
    <3>2. CASE k % 3 # 0
      <4>1. /\ k = 3 * (k \div 3 + 1) - 2 \/ k = 3 * (k \div 3 + 1) - 1
            /\ k \div 3 + 1 \in 1 .. n
        BY <1>1, <3>2
      <4>2. QED
        BY <4>1
    <3>3. QED
      BY <3>1, <3>2
  <2>2. text[k] = Printed(asked)[k]
    BY DEF Begins
  <2>3. /\ Printed(asked)[3 * j - 2] = asked[j]
        /\ Printed(asked)[3 * j - 1] = asked[j]
        /\ Printed(asked)[3 * j] = NL
    BY PrintedIs
  <2>4. asked[j] # NL
    BY SymbolicationAssumption DEF SymbolicationAssumption
  <2>5. QED
    BY <1>1, <2>1, <2>2, <2>3, <2>4
<1>3. CASE m = 0
  <2>1. ink = {} /\ text = <<>> /\ q = 0 /\ r = 0
    BY <1>1, <1>3
  <2>2. Trim(text) = <<>>
    BY <2>1 DEF Trim
  <2>3. SubSeq(text, 1, last) = <<>>
    BY <2>1
  <2>4. QED
    BY <2>2, <2>3
<1>4. CASE m # 0
  <2>1. 1 \in ink
    <3>1. 1 \in 1 .. m /\ \A j \in 1 .. n : 1 # 3 * j
      BY <1>1, <1>4
    <3>2. QED
      BY <1>1, <1>2, <3>1
  <2>2. last \in ink
    <3>1. last \in 1 .. m /\ \A j \in 1 .. n : last # 3 * j
      BY <1>1, <1>4
    <3>2. QED
      BY <1>1, <1>2, <3>1
  <2>3. \A k \in ink : k \in Nat /\ 1 <= k /\ k <= last
    <3>1. ASSUME NEW k \in ink PROVE k <= last
      <4>1. k \in 1 .. m /\ ~ \E j \in 1 .. n : k = 3 * j
        BY <1>1, <1>2
      <4>2. CASE r = 0 /\ q > 0
        <5>1. q \in 1 .. n /\ m = 3 * q
          BY <1>1, <4>2
        <5>2. k # 3 * q
          BY <4>1, <5>1
        <5>3. QED
          BY <1>1, <4>1, <4>2, <5>1, <5>2
      <4>3. CASE ~(r = 0 /\ q > 0)
        BY <1>1, <4>1, <4>3
      <4>4. QED
        BY <4>2, <4>3
    <3>2. QED
      BY <1>1, <3>1
  <2> HIDE DEF ink, last
  <2>4. Min(ink) = 1
    BY <2>1, <2>3 DEF Min
  <2>5. Max(ink) = last
    BY <2>2, <2>3 DEF Max
  <2>6. Trim(text) = SubSeq(text, Min(ink), Max(ink))
    BY <2>1 DEF Trim, ink
  <2>7. QED
    BY <2>4, <2>5, <2>6 DEF last
<1>5. QED
  BY <1>3, <1>4

LEMMA BeginsPart ==
    ASSUME NEW asked \in Seq(Addresses), NEW text, Begins(text, asked),
           NEW l \in 0 .. Len(text)
    PROVE  Begins(SubSeq(text, 1, l), asked) /\ Len(SubSeq(text, 1, l)) = l
<1>1. text \in Str /\ Len(text) \in Nat /\ Len(text) <= 3 * Len(asked) /\ Len(asked) \in Nat
  BY DEF Begins, Str
<1> DEFINE t == SubSeq(text, 1, l)
<1>2. t \in Str /\ Len(t) = l /\ \A k \in 1 .. l : t[k] = text[k]
  BY <1>1 DEF Str
<1> HIDE DEF t
<1>3. Begins(t, asked)
  BY <1>1, <1>2 DEF Begins
<1>4. QED
  BY <1>2, <1>3 DEF t

LEMMA TrimType ==
    ASSUME NEW t \in Str PROVE Trim(t) \in Str
<1> DEFINE ink == {i \in DOMAIN t : t[i] # NL}
<1>1. ink \in SUBSET Nat /\ Len(t) \in Nat /\ \A i \in ink : i \in 1 .. Len(t)
  BY DEF Str
<1>2. CASE ink = {}
  BY <1>2 DEF Trim, Str
<1>3. CASE ink # {}
  <2>1. Trim(t) = SubSeq(t, Min(ink), Max(ink))
    BY <1>3 DEF Trim
  <2> HIDE DEF ink
  <2>2. \E k \in ink : \A i \in ink : k <= i
    BY <1>1, <1>3, LeastNatural
  <2>3. \E k \in ink : \A i \in ink : i <= k
    <3> DEFINE b == Len(t)
    <3>1. b \in Nat /\ \A i \in ink : i <= b
      BY <1>1
    <3> HIDE DEF b
    <3>2. QED
      BY <1>1, <1>3, <3>1, GreatestNatural
  <2>4. Min(ink) \in ink
    BY <2>2 DEF Min
  <2>5. Max(ink) \in ink
    <3>1. \E k \in ink : \A i \in ink : k >= i
      BY <1>1, <2>3
    <3>2. QED
      BY <3>1 DEF Max
  <2> DEFINE first == Min(ink)
             last == Max(ink)
  <2>6. first \in 1 .. Len(t) /\ last \in 1 .. Len(t)
    BY <1>1, <2>4, <2>5
  <2>7. Trim(t) = SubSeq(t, first, last)
    BY <2>1
  <2> HIDE DEF first, last
  <2>8. SubSeq(t, first, last) \in Seq(Character)
    BY <1>1, <2>6 DEF Str
  <2>9. QED
    BY <2>7, <2>8 DEF Str
<1>4. QED
  BY <1>2, <1>3

(* All the lines make the names of all the addresses.                      *)
LEMMA SymbolsOfAllLines ==
    ASSUME NEW asked \in Seq(Addresses), asked # <<>>,
           NEW text, Begins(text, asked), Len(text) = 3 * Len(asked)
    PROVE  /\ Len(Split(Trim(text))) = Len(asked)
           /\ \A j \in 1 .. Len(asked) : Split(Trim(text))[j] = Name(asked[j])
<1> DEFINE n == Len(asked)
           t == SubSeq(text, 1, 3 * n - 1)
<1>1. n \in Nat /\ n > 0
  OBVIOUS
<1>2. Trim(text) = t
  <2>1. n \in Nat /\ 0 \in 0 .. 2 /\ Len(text) = 3 * n + 0
    BY <1>1
  <2>2. QED
    BY <1>1, <2>1, TrimOfLines
<1>3. Begins(t, asked) /\ Len(t) = 3 * n - 1
  BY <1>1, BeginsPart
<1>4. n - 1 \in Nat /\ 2 \in 0 .. 2 /\ Len(t) = 3 * (n - 1) + 2
  BY <1>1, <1>3
<1> HIDE DEF t
<1>5. /\ Len(Split(t)) = (n - 1) + 1
      /\ \A j \in 1 .. n - 1 : Split(t)[j] = Name(asked[j])
      /\ Split(t)[(n - 1) + 1] = Name(asked[(n - 1) + 1])
  BY <1>3, <1>4, SplitOfLines
<1>6. (n - 1) + 1 = n /\ \A j \in 1 .. n : j \in 1 .. n - 1 \/ j = n
  BY <1>1
<1>7. QED
  BY <1>2, <1>5, <1>6

(* Without any character of the last line, the number of lines is wrong,   *)
(* unless one was asked for.                                               *)
LEMMA SymbolsOfFewerLines ==
    ASSUME NEW asked \in Seq(Addresses), NEW text, Begins(text, asked),
           Len(text) <= 3 * (Len(asked) - 1),
           Len(Split(Trim(text))) = Len(asked)
    PROVE  Len(asked) = 1 /\ Split(Trim(text))[1] = <<>>
<1> DEFINE n == Len(asked)
           m == Len(text)
           q == m \div 3
           r == m % 3
           t == Trim(text)
<1>1. n \in Nat /\ m \in Nat
  BY DEF Begins, Str
<1>2. q \in Nat /\ r \in 0 .. 2 /\ m = 3 * q + r
  BY <1>1
<1> HIDE DEF n, m, q, r
<1>3. t = SubSeq(text, 1, IF r = 0 /\ q > 0 THEN 3 * q - 1 ELSE 3 * q + r)
  BY <1>2, TrimOfLines DEF m
<1>4. CASE r = 0 /\ q > 0
  <2>1. 3 * q - 1 \in 0 .. m
    BY <1>1, <1>2, <1>4
  <2>2. Begins(t, asked) /\ Len(t) = 3 * q - 1
    BY <1>3, <1>4, <2>1, BeginsPart DEF m
  <2>3. q - 1 \in Nat /\ 2 \in 0 .. 2 /\ Len(t) = 3 * (q - 1) + 2
    BY <1>2, <1>4, <2>2
  <2> HIDE DEF t
  <2>4. Len(Split(t)) = (q - 1) + 1
    BY <2>2, <2>3, SplitOfLines
  <2>5. QED
    BY <1>1, <1>2, <1>4, <2>4 DEF n, m, t
<1>5. CASE ~(r = 0 /\ q > 0)
  <2>1. m \in 0 .. m /\ t = SubSeq(text, 1, m)
    BY <1>1, <1>2, <1>3, <1>5
  <2>2. Begins(t, asked) /\ Len(t) = 3 * q + r
    BY <1>2, <2>1, BeginsPart DEF m
  <2> HIDE DEF t
  <2>3. Len(Split(t)) = q + 1 /\ (r = 0 => Split(t)[q + 1] = <<>>)
    BY <1>2, <2>2, SplitOfLines
  <2>4. n = q + 1 /\ 3 * q + r <= 3 * (n - 1)
    BY <1>2, <2>3 DEF n, m, t
  <2>5. r = 0 /\ q = 0
    BY <1>1, <1>2, <1>5, <2>4
  <2>6. QED
    BY <2>3, <2>4, <2>5 DEF n, t
<1>6. QED
  BY <1>4, <1>5

-----------------------------------------------------------------------------
(* The inductive invariant *)

(* The chunks: nothing gets lost, and what is counted is there.            *)
Buffers ==
    /\ out \in Str /\ err \in Str /\ stdoutBuffers \in Str
    /\ stdoutLength \in Nat /\ stderrLength \in Nat
    /\ stderrBuffers = <<>> /\ oneBuffer \in BOOLEAN
    /\ Len(stdoutBuffers) = stdoutLength + stderrLength
    /\ stderrLength + Len(err) <= MaxNoise
    /\ outcome = "pending" => stdoutBuffers = <<>> /\ stdoutLength = 0 /\ stderrLength = 0
    /\ ~complained => err = <<>> /\ stderrLength = 0

Asked ==
    /\ outcome \in {"pending", "running", "error", "resolved"}
    /\ sampled \in S!Profiles
    /\ IF outcome = "pending" THEN addresses = <<>>
       ELSE Lists(addresses, sampled, Len(sampled))

(* As long as atos does not complain, what was read and what is still to   *)
(* be read make up the beginning of what it prints, or all of it.          *)
InOrder ==
    outcome # "pending" /\ ~complained =>
        /\ Begins(stdoutBuffers \o out, addresses)
        /\ complete => Len(stdoutBuffers \o out) = 3 * Len(addresses)

(* A frame has the symbol whose place is that of its address.              *)
Called(symbols, i) ==
    \E j \in 1 .. Len(addresses) :
        /\ addresses[j] = sampled[i]
        /\ profile[i] = [native |-> IF symbols[j] = <<>> THEN "Unknown" ELSE symbols[j]]

NamesPut(symbols) ==
    /\ Len(symbols) = Len(addresses)
    /\ DOMAIN profile = DOMAIN sampled
    /\ \A i \in DOMAIN sampled : IF sampled[i] \in Addresses THEN Called(symbols, i)
                                 ELSE profile[i] = sampled[i]

Answer ==
    IF outcome = "resolved" THEN out = <<>> /\ NamesPut(Symbols) ELSE profile = sampled

AtosInv == Buffers /\ Asked /\ InOrder /\ Answer

-----------------------------------------------------------------------------

LEMMA ProfilesAre ==
    ASSUME NEW p \in S!Profiles
    PROVE  p \in Seq(S!Frame) /\ DOMAIN p = 1 .. Len(p) /\ Len(p) \in 0 .. MaxFrames
<1>1. PICK n \in 0 .. MaxFrames : p \in [1 .. n -> S!Frame]
  BY DEF S!Profiles
<1>2. QED
  BY <1>1

LEMMA EmptyAppended ==
    ASSUME NEW X, NEW s \in Seq(X) PROVE <<>> \o s = s /\ s \o <<>> = s
OBVIOUS

(* The first k characters go from one sequence to the end of another.      *)
LEMMA ChunkMoves ==
    ASSUME NEW b \in Str, NEW o \in Str, NEW k \in 1 .. Len(o)
    PROVE  /\ b \o SubSeq(o, 1, k) \in Str /\ Len(b \o SubSeq(o, 1, k)) = Len(b) + k
           /\ SubSeq(o, k + 1, Len(o)) \in Str /\ Len(SubSeq(o, k + 1, Len(o))) = Len(o) - k
           /\ (b \o SubSeq(o, 1, k)) \o SubSeq(o, k + 1, Len(o)) = b \o o
<1> DEFINE c == SubSeq(o, 1, k)
           d == SubSeq(o, k + 1, Len(o))
<1>1. Len(o) \in Nat /\ Len(b) \in Nat
  BY DEF Str
<1>2. c \in Str /\ Len(c) = k /\ \A i \in 1 .. k : c[i] = o[i]
  BY <1>1 DEF Str
<1>3. d \in Str /\ Len(d) = Len(o) - k /\ \A i \in 1 .. Len(o) - k : d[i] = o[k + i]
  BY <1>1 DEF Str
<1> HIDE DEF c, d
<1> DEFINE bc == b \o c
           bcd == bc \o d
           bo == b \o o
<1>4. /\ bc \in Str /\ Len(bc) = Len(b) + k
      /\ \A i \in 1 .. Len(b) : bc[i] = b[i]
      /\ \A i \in 1 .. k : bc[Len(b) + i] = c[i]
  <2>1. b \in Seq(Character) /\ c \in Seq(Character)
    BY <1>2 DEF Str
  <2>2. /\ b \o c \in Seq(Character) /\ Len(b \o c) = Len(b) + Len(c)
        /\ \A i \in 1 .. Len(b) : (b \o c)[i] = b[i]
        /\ \A i \in 1 .. Len(c) : (b \o c)[Len(b) + i] = c[i]
    BY ONLY <2>1, Concatenation
  <2>3. QED
    BY <1>2, <2>2 DEF Str
<1> HIDE DEF bc
<1>5. /\ bcd \in Str /\ Len(bcd) = Len(b) + Len(o)
      /\ \A i \in 1 .. Len(bc) : bcd[i] = bc[i]
      /\ \A i \in 1 .. Len(d) : bcd[Len(bc) + i] = d[i]
  <2>1. /\ bcd \in Str /\ Len(bcd) = Len(bc) + Len(d)
        /\ \A i \in 1 .. Len(bc) : bcd[i] = bc[i]
        /\ \A i \in 1 .. Len(d) : bcd[Len(bc) + i] = d[i]
    <3>1. bc \in Seq(Character) /\ d \in Seq(Character)
      BY <1>3, <1>4 DEF Str
    <3>2. /\ bc \o d \in Seq(Character) /\ Len(bc \o d) = Len(bc) + Len(d)
          /\ \A i \in 1 .. Len(bc) : (bc \o d)[i] = bc[i]
          /\ \A i \in 1 .. Len(d) : (bc \o d)[Len(bc) + i] = d[i]
      BY ONLY <3>1, Concatenation
    <3>3. QED
      BY <3>2 DEF Str
  <2> HIDE DEF bcd
  <2>2. QED
    BY <1>1, <1>3, <1>4, <2>1
<1>6. /\ bo \in Str /\ Len(bo) = Len(b) + Len(o)
      /\ \A i \in 1 .. Len(b) : bo[i] = b[i]
      /\ \A i \in 1 .. Len(o) : bo[Len(b) + i] = o[i]
  BY Concatenation DEF Str
<1> HIDE DEF bcd, bo
<1>7. ASSUME NEW i \in 1 .. Len(b) + Len(o) PROVE bcd[i] = bo[i]
  <2>1. CASE i <= Len(b)
    BY <1>1, <1>4, <1>5, <1>6, <2>1
  <2>2. CASE i > Len(b) /\ i <= Len(b) + k
    <3>1. i - Len(b) \in 1 .. k /\ i = Len(b) + (i - Len(b)) /\ i - Len(b) \in 1 .. Len(o)
      BY <1>1, <2>2
    <3>2. bcd[i] = bc[i] /\ bc[i] = c[i - Len(b)] /\ bo[i] = o[i - Len(b)]
      BY <1>1, <1>4, <1>5, <1>6, <2>2, <3>1
    <3>3. QED
      BY <1>2, <3>1, <3>2
  <2>3. CASE i > Len(b) + k
    <3> DEFINE e == i - (Len(b) + k)
    <3>1. e \in 1 .. Len(o) - k /\ i = Len(bc) + e /\ i = Len(b) + (k + e)
          /\ k + e \in 1 .. Len(o)
      BY <1>1, <1>4, <2>3
    <3> HIDE DEF e
    <3>2. bcd[i] = d[e] /\ bo[i] = o[k + e]
      BY <1>3, <1>5, <1>6, <3>1
    <3>3. QED
      BY <1>3, <3>1, <3>2
  <2>4. QED
    BY <1>1, <2>1, <2>2, <2>3
<1>8. bcd = bo
  BY <1>5, <1>6, <1>7 DEF Str
<1>9. QED
  BY <1>2, <1>3, <1>4, <1>8 DEF bc, bcd, bo, c, d

LEMMA SymbolsType ==
    ASSUME Buffers
    PROVE  Symbols \in Seq(Str) /\ Len(Symbols) >= 1
<1> DEFINE t == Concat
<1>1. t \in Str
  BY DEF Concat, Buffers, Str
<1> HIDE DEF t
<1>2. Trim(t) \in Str
  BY <1>1, TrimType
<1>3. Split(Trim(t)) \in Seq(Str) /\ Len(Split(Trim(t))) >= 1
  BY <1>2, SplitType
<1>4. QED
  BY <1>3 DEF Symbols, t

-----------------------------------------------------------------------------

LEMMA AtosInvInit == Init => AtosInv
<1> SUFFICES ASSUME Init PROVE AtosInv
  OBVIOUS
<1>1. Buffers
  <2>1. <<>> \in Str /\ Len(<<>>) = 0 /\ MaxNoise \in Nat
    BY SymbolicationAssumption DEF SymbolicationAssumption, Str
  <2>2. oneBuffer \in BOOLEAN
    BY DEF Init
  <2>3. QED
    BY <2>1, <2>2 DEF Init, Buffers
<1>2. Asked /\ InOrder /\ Answer
  BY DEF Init, Asked, InOrder, Answer
<1>3. QED
  BY <1>1, <1>2 DEF AtosInv

LEMMA ResolveNativeFramesKeeps ==
    ASSUME AtosInv, ResolveNativeFrames PROVE AtosInv'
<1>1. /\ outcome = "pending" /\ outcome' = "running"
      /\ profile' = profile /\ sampled' = sampled /\ profile = sampled
      /\ stdoutBuffers' = stdoutBuffers /\ stderrBuffers' = stderrBuffers
      /\ stdoutLength' = stdoutLength /\ stderrLength' = stderrLength
      /\ oneBuffer' = oneBuffer
  BY DEF AtosInv, Answer, ResolveNativeFrames, bufferVars
<1>2. /\ stdoutBuffers = <<>> /\ stderrBuffers = <<>>
      /\ stdoutLength = 0 /\ stderrLength = 0 /\ oneBuffer \in BOOLEAN
  BY <1>1 DEF AtosInv, Buffers
<1>3. Lists(addresses', sampled, Len(sampled)) /\ sampled \in S!Profiles
  <2>1. sampled \in S!Profiles
    BY DEF AtosInv, Asked
  <2>2. sampled \in Seq(S!Frame)
    BY <2>1, ProfilesAre
  <2>3. addresses' = FramesArray(sampled)
    BY <1>1 DEF ResolveNativeFrames
  <2>4. QED
    BY <2>1, <2>2, <2>3, FramesArrayLists
<1>4. addresses' \in Seq(Addresses)
  BY <1>3 DEF Lists
<1>5. Begins(out', addresses') /\ (complete' => Len(out') = 3 * Len(addresses'))
  <2> DEFINE all == Printed(addresses')
  <2>1. all \in Str /\ Len(all) = 3 * Len(addresses')
    BY <1>4, PrintedIs
  <2>2. Begins(all, addresses')
    <3>1. 3 * Len(addresses') <= 3 * Len(addresses')
      BY <1>4
    <3>2. QED
      BY <2>1, <3>1 DEF Begins
  <2>3. PICK l \in 0 .. Len(all) : out' = SubSeq(all, 1, l)
    BY DEF ResolveNativeFrames, Prefixes
  <2>4. Begins(out', addresses')
    BY <1>4, <2>2, <2>3, BeginsPart
  <2>5. complete' => out' = all
    BY Zenon DEF ResolveNativeFrames
  <2>6. QED
    BY <2>1, <2>4, <2>5
<1>6. err' \in Str /\ Len(err') <= MaxNoise /\ Len(err') \in Nat /\ (~complained' => err' = <<>>)
  <2>1. PICK m \in 0 .. MaxNoise : err' \in [1 .. m -> {NL, Noise}]
    BY DEF ResolveNativeFrames, SeqOf
  <2>2. MaxNoise \in Nat
    BY SymbolicationAssumption DEF SymbolicationAssumption
  <2>3. ~complained' => err' = <<>>
    BY Zenon DEF ResolveNativeFrames
  <2>4. err' \in Str /\ Len(err') = m
    BY <2>1, <2>2 DEF Str, Character
  <2>5. QED
    BY <2>2, <2>3, <2>4
<1>7. Buffers'
  <2>1. out' \in Str /\ <<>> \in Str /\ Len(<<>>) = 0
    BY <1>5 DEF Begins, Str
  <2>2. QED
    BY <1>1, <1>2, <1>6, <2>1 DEF Buffers
<1>8. Asked'
  BY <1>1, <1>3 DEF Asked
<1>9. InOrder'
  <2>1. <<>> \o out' = out'
    BY <1>5, EmptyAppended DEF Begins, Str
  <2>2. stdoutBuffers' = <<>>
    BY <1>1, <1>2
  <2>3. QED
    BY <1>5, <2>1, <2>2 DEF InOrder
<1>10. Answer'
  BY <1>1 DEF Answer
<1>11. QED
  BY <1>7, <1>8, <1>9, <1>10 DEF AtosInv

LEMMA OnStdoutKeeps ==
    ASSUME AtosInv, outcome = "running", NEW k \in 1 .. Len(out), OnStdout(k)
    PROVE  AtosInv'
<1>1. /\ outcome' = outcome /\ profile' = profile /\ sampled' = sampled
      /\ addresses' = addresses /\ err' = err /\ complete' = complete
      /\ complained' = complained /\ stderrBuffers' = stderrBuffers
      /\ stderrLength' = stderrLength /\ stdoutLength' = stdoutLength + k
      /\ stdoutBuffers' = stdoutBuffers \o SubSeq(out, 1, k)
      /\ out' = SubSeq(out, k + 1, Len(out))
      /\ oneBuffer' \in BOOLEAN
  BY DEF OnStdout, Push
<1>2. /\ stdoutBuffers' \in Str /\ Len(stdoutBuffers') = Len(stdoutBuffers) + k
      /\ out' \in Str
      /\ stdoutBuffers' \o out' = stdoutBuffers \o out
  BY <1>1, ChunkMoves DEF AtosInv, Buffers
<1>3. Buffers'
  <2>1. k \in Nat /\ stdoutLength + k \in Nat
    BY DEF AtosInv, Buffers
  <2>2. QED
    BY <1>1, <1>2, <2>1 DEF AtosInv, Buffers
<1>4. Asked' /\ Answer'
  BY <1>1 DEF AtosInv, Asked, Answer
<1>5. InOrder'
  BY <1>1, <1>2 DEF AtosInv, InOrder
<1>6. QED
  BY <1>3, <1>4, <1>5 DEF AtosInv

LEMMA OnStderrKeeps ==
    ASSUME AtosInv, outcome = "running", NEW k \in 1 .. Len(err), OnStderr(k)
    PROVE  AtosInv'
<1>1. /\ outcome' = outcome /\ profile' = profile /\ sampled' = sampled
      /\ addresses' = addresses /\ out' = out /\ complete' = complete
      /\ complained' = complained /\ stderrBuffers' = stderrBuffers
      /\ stderrLength' = stderrLength + k /\ stdoutLength' = stdoutLength
      /\ stdoutBuffers' = stdoutBuffers \o SubSeq(err, 1, k)
      /\ err' = SubSeq(err, k + 1, Len(err))
      /\ oneBuffer' \in BOOLEAN
  BY DEF OnStderr, Push
<1>2. /\ stdoutBuffers' \in Str /\ Len(stdoutBuffers') = Len(stdoutBuffers) + k
      /\ err' \in Str /\ Len(err') = Len(err) - k
  <2>1. stdoutBuffers \in Str /\ err \in Str /\ k \in 1 .. Len(err)
    BY DEF AtosInv, Buffers
  <2>2. /\ stdoutBuffers \o SubSeq(err, 1, k) \in Str
        /\ Len(stdoutBuffers \o SubSeq(err, 1, k)) = Len(stdoutBuffers) + k
        /\ SubSeq(err, k + 1, Len(err)) \in Str
        /\ Len(SubSeq(err, k + 1, Len(err))) = Len(err) - k
    BY ONLY <2>1, ChunkMoves
  <2>3. QED
    BY <1>1, <2>2, Zenon
<1>3. complained
  <2>1. err # <<>>
    OBVIOUS
  <2>2. QED
    BY <2>1 DEF AtosInv, Buffers
<1>4. Buffers'
  <2>1. /\ k \in Nat /\ stderrLength + k \in Nat /\ Len(err) \in Nat
        /\ stderrLength + k + (Len(err) - k) = stderrLength + Len(err)
    BY DEF AtosInv, Buffers, Str
  <2>2. QED
    <3>1. /\ stdoutLength \in Nat /\ stderrLength \in Nat /\ MaxNoise \in Nat
          /\ Len(stdoutBuffers) = stdoutLength + stderrLength
          /\ stderrLength + Len(err) <= MaxNoise
          /\ out \in Str /\ stderrBuffers = <<>>
      BY SymbolicationAssumption DEF AtosInv, Buffers, SymbolicationAssumption
    <3>2. /\ Len(stdoutBuffers') = stdoutLength' + stderrLength'
          /\ stderrLength' + Len(err') <= MaxNoise
      <4>1. Len(stdoutBuffers') = (stdoutLength + stderrLength) + k
        BY <1>2, <3>1
      <4>2. (stdoutLength + stderrLength) + k = stdoutLength + (stderrLength + k)
        BY <2>1, <3>1
      <4>3. stderrLength' + Len(err') = (stderrLength + k) + (Len(err) - k)
        BY ONLY <1>1, <1>2
      <4>4. (stderrLength + k) + (Len(err) - k) <= MaxNoise
        BY <2>1, <3>1
      <4>5. QED
        BY ONLY <1>1, <4>1, <4>2, <4>3, <4>4
    <3>3. QED
      BY <1>1, <1>2, <1>3, <2>1, <3>1, <3>2 DEF Buffers
<1>5. Asked' /\ Answer'
  BY <1>1 DEF AtosInv, Asked, Answer
<1>6. InOrder'
  BY <1>1, <1>3 DEF InOrder
<1>7. QED
  BY <1>4, <1>5, <1>6 DEF AtosInv

LEMMA ReplacedNames ==
    ASSUME Asked, outcome # "pending", profile = sampled, NEW symbols,
           Len(symbols) = Len(addresses), profile' = Replaced(symbols),
           sampled' = sampled, addresses' = addresses
    PROVE  NamesPut(symbols)'
<1>1. Lists(addresses, sampled, Len(sampled)) /\ DOMAIN sampled = 1 .. Len(sampled)
  BY ProfilesAre DEF Asked
<1>2. DOMAIN addresses = 1 .. Len(addresses)
  BY <1>1 DEF Lists
<1>3. DOMAIN profile' = DOMAIN sampled
  BY DEF Replaced
<1>4. ASSUME NEW i \in DOMAIN sampled, sampled[i] \in Addresses
      PROVE  Called(symbols, i)'
  <2> DEFINE j == CHOOSE j \in DOMAIN addresses : addresses[j] = sampled[i]
  <2>1. \E l \in DOMAIN addresses : addresses[l] = sampled[i]
    BY <1>1, <1>2, <1>4 DEF Lists
  <2>2. j \in DOMAIN addresses /\ addresses[j] = sampled[i]
    BY <2>1
  <2>3. profile'[i] = [native |-> IF symbols[j] = <<>> THEN "Unknown" ELSE symbols[j]]
    BY <1>4 DEF Replaced
  <2> HIDE DEF j
  <2>4. QED
    BY <1>2, <2>2, <2>3 DEF Called
<1>5. ASSUME NEW i \in DOMAIN sampled, sampled[i] \notin Addresses
      PROVE  profile'[i] = sampled[i]
  BY <1>5 DEF Replaced
<1>6. QED
  BY <1>3, <1>4, <1>5 DEF NamesPut

LEMMA CloseKeeps ==
    ASSUME AtosInv, Close PROVE AtosInv'
<1>1. /\ outcome = "running" /\ out = <<>> /\ err = <<>>
      /\ sampled' = sampled /\ addresses' = addresses /\ out' = out /\ err' = err
      /\ complete' = complete /\ complained' = complained
      /\ stdoutBuffers' = stdoutBuffers /\ stderrBuffers' = stderrBuffers
      /\ stdoutLength' = stdoutLength /\ stderrLength' = stderrLength
      /\ oneBuffer' = oneBuffer
  BY DEF Close, bufferVars
<1>2. outcome' \in {"error", "resolved"}
  BY DEF Close, OnClose
<1>3. Buffers' /\ Asked' /\ InOrder'
  BY <1>1, <1>2 DEF AtosInv, Buffers, Asked, InOrder
<1>4. Answer'
  <2>1. CASE outcome' = "error" /\ UNCHANGED profile
    BY <1>1, <2>1 DEF AtosInv, Answer
  <2>2. CASE /\ Len(Symbols) = Len(addresses)
             /\ outcome' = "resolved" /\ profile' = Replaced(Symbols)
    <3>1. PICK symbols : symbols = Symbols
      OBVIOUS
    <3>2. Symbols' = symbols
      BY <1>1, <3>1 DEF Symbols, Concat
    <3>3. profile = sampled /\ Asked
      BY <1>1 DEF AtosInv, Answer
    <3>4. profile' = Replaced(symbols)
      BY <2>2, <3>1
    <3>5. NamesPut(symbols)'
      BY <1>1, <2>2, <3>1, <3>3, <3>4, ReplacedNames
    <3>6. NamesPut(Symbols)'
      BY <3>2, <3>5 DEF NamesPut, Called
    <3>7. QED
      BY <1>1, <2>2, <3>6 DEF Answer
  <2>3. QED
    BY <2>1, <2>2 DEF Close, OnClose
<1>5. QED
  BY <1>3, <1>4 DEF AtosInv

LEMMA AtosInvKept == AtosInv /\ [Next]_vars => AtosInv'
<1> SUFFICES ASSUME AtosInv, [Next]_vars PROVE AtosInv'
  OBVIOUS
<1>1. CASE ResolveNativeFrames
  BY <1>1, ResolveNativeFramesKeeps
<1>2. CASE Data
  BY <1>2, OnStdoutKeeps, OnStderrKeeps DEF Data
<1>3. CASE Close
  BY <1>3, CloseKeeps
<1>4. CASE UNCHANGED vars
  BY <1>4 DEF vars, bufferVars, AtosInv, Buffers, Asked, InOrder, Answer, NamesPut,
     Called, Symbols, Concat
<1>5. QED
  BY <1>1, <1>2, <1>3, <1>4 DEF Next

LEMMA AtosInvHolds == Spec => []AtosInv
BY AtosInvInit, AtosInvKept, PTL DEF Spec

-----------------------------------------------------------------------------
(* What follows *)

(* The numbers kept about the buffers are those of the buffers, whatever   *)
(* chunks the two outputs come in; no frame is asked for twice.            *)
THEOREM AtosTypes == Spec => []TypeOK
<1>1. AtosInv => TypeOK
  <2> SUFFICES ASSUME AtosInv PROVE TypeOK
    OBVIOUS
  <2>1. MaxFrames \in Nat /\ MaxNoise \in Nat
    BY SymbolicationAssumption DEF SymbolicationAssumption
  <2>2. sampled \in S!Profiles /\ outcome \in {"pending", "running", "error", "resolved"}
    BY DEF AtosInv, Asked
  <2>3. Len(sampled) \in 0 .. MaxFrames
    BY <2>2, ProfilesAre
  <2>4. addresses \in Seq(Addresses) /\ Len(addresses) \in 0 .. MaxFrames
    <3>1. CASE outcome = "pending"
      BY <2>1, <3>1 DEF AtosInv, Asked
    <3>2. CASE outcome # "pending"
      BY <2>1, <2>3, <3>2 DEF AtosInv, Asked, Lists
    <3>3. QED
      BY <3>1, <3>2
  <2>5. addresses \in SeqOf(Addresses, MaxFrames)
    <3>1. addresses \in [1 .. Len(addresses) -> Addresses]
      BY <2>4
    <3>2. QED
      BY <2>4, <3>1 DEF SeqOf
  <2>6. DOMAIN profile = DOMAIN sampled
    BY DEF AtosInv, Answer, NamesPut
  <2>7. stdoutLength \in 0 .. Len(stdoutBuffers) /\ stderrLength \in 0 .. MaxNoise
    <3>1. Len(err) \in Nat
      BY DEF AtosInv, Buffers, Str
    <3>2. QED
      BY <2>1, <3>1 DEF AtosInv, Buffers
  <2>8. oneBuffer \in BOOLEAN
    BY DEF AtosInv, Buffers
  <2>9. QED
    BY <2>2, <2>5, <2>6, <2>7, <2>8 DEF TypeOK
<1>2. QED
  BY <1>1, AtosInvHolds, PTL

(* When atos was silent, its lines are what the symbols are made of.       *)
LEMMA SilentlyResolved ==
    ASSUME AtosInv, outcome = "resolved", ~complained
    PROVE  /\ addresses \in Seq(Addresses)
           /\ Begins(stdoutBuffers, addresses)
           /\ complete => Len(stdoutBuffers) = 3 * Len(addresses)
           /\ Symbols = Split(Trim(stdoutBuffers))
           /\ Len(Symbols) = Len(addresses) /\ Len(addresses) >= 1
           /\ NamesPut(Symbols)
<1>1. addresses \in Seq(Addresses)
  BY DEF AtosInv, Asked, Lists
<1>2. stdoutBuffers \in Str /\ out = <<>> /\ stdoutLength = Len(stdoutBuffers)
  BY DEF AtosInv, Buffers, Answer
<1>3. stdoutBuffers \o out = stdoutBuffers
  BY <1>2, EmptyAppended DEF Str
<1>4. /\ Begins(stdoutBuffers, addresses)
      /\ complete => Len(stdoutBuffers) = 3 * Len(addresses)
  BY <1>3 DEF AtosInv, InOrder
<1>5. Concat = stdoutBuffers
  BY <1>2 DEF Concat, Str
<1>6. NamesPut(Symbols) /\ Len(Symbols) = Len(addresses)
  BY DEF AtosInv, Answer, NamesPut
<1>7. Len(Symbols) >= 1
  BY SymbolsType DEF AtosInv
<1>8. Symbols = Split(Trim(stdoutBuffers))
  BY <1>5 DEF Symbols
<1>9. QED
  BY <1>1, <1>4, <1>6, <1>7, <1>8

(* When atos answers in full and in silence, each native frame gets the    *)
(* name that belongs to its own address.                                   *)
THEOREM NamesAreAtos == Spec => []NamedByAtos
<1>1. AtosInv => NamedByAtos
  <2> SUFFICES ASSUME AtosInv, outcome = "resolved", complete, ~complained,
                      NEW i \in DOMAIN sampled, sampled[i] \in Addresses
               PROVE  profile[i] = [native |-> Name(sampled[i])]
    BY DEF NamedByAtos
  <2>1. /\ addresses \in Seq(Addresses) /\ Begins(stdoutBuffers, addresses)
        /\ Len(stdoutBuffers) = 3 * Len(addresses)
        /\ Symbols = Split(Trim(stdoutBuffers)) /\ Len(addresses) >= 1
        /\ NamesPut(Symbols)
    BY SilentlyResolved
  <2>2. \A j \in 1 .. Len(addresses) : Symbols[j] = Name(addresses[j])
    <3>1. addresses # <<>>
      BY <2>1
    <3>2. QED
      BY <2>1, <3>1, SymbolsOfAllLines
  <2>3. PICK j \in 1 .. Len(addresses) :
              /\ addresses[j] = sampled[i]
              /\ profile[i] = [native |-> IF Symbols[j] = <<>> THEN "Unknown" ELSE Symbols[j]]
    BY <2>1 DEF NamesPut, Called
  <2>4. Symbols[j] = Name(sampled[i]) /\ Name(sampled[i]) # <<>>
    <3>1. Symbols[j] = Name(sampled[i])
      BY <2>2, <2>3
    <3>2. Name(sampled[i]) # <<>>
      BY DEF Name
    <3>3. QED
      BY <3>1, <3>2
  <2>5. QED
    BY <2>3, <2>4
<1>2. QED
  BY <1>1, AtosInvHolds, PTL

(* When atos died in silence, before the last line, the caller is told, or *)
(* there was one address, which is called 'Unknown'.                       *)
THEOREM ShortOutputIsTold == Spec => []ShortOutputIsAnError
<1>1. AtosInv => ShortOutputIsAnError
  <2> SUFFICES ASSUME AtosInv, outcome = "resolved", ~complained,
                      ~Contains(stdoutBuffers, Last(addresses))
               PROVE  \A i \in S!Natives(sampled) : profile[i] = [native |-> "Unknown"]
    BY DEF ShortOutputIsAnError
  <2> DEFINE n == Len(addresses)
             m == Len(stdoutBuffers)
  <2>1. /\ addresses \in Seq(Addresses) /\ Begins(stdoutBuffers, addresses)
        /\ Symbols = Split(Trim(stdoutBuffers))
        /\ Len(Symbols) = n /\ n >= 1 /\ NamesPut(Symbols)
    BY SilentlyResolved
  <2>2. n \in Nat /\ m \in Nat /\ m <= 3 * n
    BY <2>1 DEF Begins, Str
  <2>3. m <= 3 * (n - 1)
    <3> SUFFICES ASSUME ~(m <= 3 * (n - 1)) PROVE FALSE
      OBVIOUS
    <3>1. 3 * n - 2 \in 1 .. m /\ n \in 1 .. n
      BY <2>1, <2>2
    <3>2. stdoutBuffers[3 * n - 2] = Printed(addresses)[3 * n - 2]
      BY <2>1, <3>1 DEF Begins
    <3>3. Printed(addresses)[3 * n - 2] = addresses[n]
      BY <2>1, <3>1, PrintedIs
    <3>4. QED
      BY <3>1, <3>2, <3>3 DEF Contains, Last
  <2>4. n = 1 /\ Symbols[1] = <<>>
    BY <2>1, <2>3, SymbolsOfFewerLines
  <2>5. ASSUME NEW i \in S!Natives(sampled) PROVE profile[i] = [native |-> "Unknown"]
    <3>1. i \in DOMAIN sampled /\ sampled[i] \in Addresses
      BY DEF S!Natives
    <3>2. PICK j \in 1 .. n :
             profile[i] = [native |-> IF Symbols[j] = <<>> THEN "Unknown" ELSE Symbols[j]]
      BY <2>1, <3>1 DEF NamesPut, Called
    <3>3. j = 1
      BY <2>4
    <3>4. QED
      BY <2>4, <3>2, <3>3
  <2>6. QED
    BY <2>5
<1>2. QED
  BY <1>1, AtosInvHolds, PTL

(* Whatever atos prints and complains, resolveNativeFrames does what the   *)
(* profiler takes for granted: Symbolizer.                                 *)
LEMMA CloseKeepsPromise ==
    ASSUME AtosInv, AtosInv', Close
    PROVE  S!Fail \/ S!Resolve
<1>1. outcome = "running" /\ profile = sampled /\ sampled' = sampled /\ addresses' = addresses
  BY DEF Close, AtosInv, Answer
<1>2. CASE outcome' = "error" /\ UNCHANGED profile
  BY <1>1, <1>2 DEF S!Fail
<1>3. CASE outcome' = "resolved" /\ Len(Symbols) = Len(addresses)
  <2>1. S!Natives(profile) # {}
    <3>1. Len(addresses) >= 1
      BY <1>3, SymbolsType DEF AtosInv
    <3>2. Lists(addresses, sampled, Len(sampled)) /\ DOMAIN sampled = 1 .. Len(sampled)
      BY <1>1, ProfilesAre DEF AtosInv, Asked
    <3>3. addresses \in Seq(Addresses) /\ 1 \in 1 .. Len(addresses)
      BY <3>1, <3>2 DEF Lists
    <3>4. \E i \in DOMAIN sampled : addresses[1] = sampled[i]
      BY <3>2, <3>3 DEF Lists
    <3>5. addresses[1] \in Addresses
      BY <3>3
    <3>6. QED
      BY <1>1, <3>4, <3>5 DEF S!Natives
  <2>2. PICK symbols : symbols = Symbols'
    OBVIOUS
  <2>3. symbols \in Seq(Str) /\ NamesPut(symbols)'
    <3>1. Symbols' \in Seq(Str)
      <4>1. Symbols \in Seq(Str)
        BY SymbolsType DEF AtosInv
      <4>2. /\ stdoutBuffers' = stdoutBuffers /\ stdoutLength' = stdoutLength
            /\ oneBuffer' = oneBuffer
        BY DEF Close, bufferVars
      <4>3. QED
        BY <4>1, <4>2 DEF Symbols, Concat
    <3>2. NamesPut(Symbols)'
      BY <1>3 DEF AtosInv, Answer
    <3>3. QED
      BY <2>2, <3>1, <3>2 DEF NamesPut, Called
  <2>4. /\ Len(symbols) = Len(addresses) /\ DOMAIN profile' = DOMAIN profile
        /\ \A i \in DOMAIN profile :
              IF profile[i] \in Addresses
              THEN \E j \in 1 .. Len(addresses) : profile'[i] =
                      [native |-> IF symbols[j] = <<>> THEN "Unknown" ELSE symbols[j]]
              ELSE profile'[i] = profile[i]
    BY <1>1, <2>3 DEF NamesPut, Called
  <2>5. \A x \in Addresses : x \notin [native : Seq(Character) \cup {"Unknown"}]
    BY SymbolicationAssumption DEF SymbolicationAssumption
  <2>6. ASSUME NEW i \in DOMAIN profile PROVE profile'[i] \notin Addresses
    <3>1. CASE profile[i] \in Addresses
      <4>1. PICK j \in 1 .. Len(addresses) : profile'[i] =
                   [native |-> IF symbols[j] = <<>> THEN "Unknown" ELSE symbols[j]]
        BY <2>4, <3>1
      <4>2. symbols[j] \in Str
        BY <2>3, <2>4
      <4>3. profile'[i] \in [native : Seq(Character) \cup {"Unknown"}]
        BY <4>1, <4>2 DEF Str
      <4>4. QED
        BY <2>5, <4>3
    <3>2. CASE profile[i] \notin Addresses
      BY <2>4, <3>2
    <3>3. QED
      BY <3>1, <3>2
  <2>7. \A i \in DOMAIN profile \ S!Natives(profile) : profile'[i] = profile[i]
    BY <2>4 DEF S!Natives
  <2>8. S!Natives(profile') = {}
    BY <2>4, <2>6 DEF S!Natives
  <2>9. QED
    BY <1>1, <1>3, <2>1, <2>4, <2>7, <2>8 DEF S!Resolve
<1>4. QED
  BY <1>2, <1>3 DEF Close, OnClose

THEOREM SymbolicationImplements == Spec => KeepsPromise
<1> DEFINE mapped == IF outcome = "running" THEN "pending" ELSE outcome
<1>1. Init => S!Init
  BY DEF Init, S!Init
<1>2. AtosInv /\ AtosInv' /\ [Next]_vars => [S!Fail \/ S!Resolve]_<<mapped, profile>>
  <2> SUFFICES ASSUME AtosInv, AtosInv', [Next]_vars
               PROVE  [S!Fail \/ S!Resolve]_<<mapped, profile>>
    OBVIOUS
  <2>1. CASE ResolveNativeFrames
    BY <2>1 DEF ResolveNativeFrames
  <2>2. CASE Data
    BY <2>2 DEF Data, OnStdout, OnStderr
  <2>3. CASE Close
    BY <2>3, CloseKeepsPromise
  <2>4. CASE UNCHANGED vars
    BY <2>4 DEF vars
  <2>5. QED
    BY <2>1, <2>2, <2>3, <2>4 DEF Next
<1>3. QED
  BY <1>1, <1>2, AtosInvHolds, PTL DEF Spec, KeepsPromise, S!Spec

=============================================================================
