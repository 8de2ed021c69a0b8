------------------------- MODULE HandlerTableProofs -------------------------
(***************************************************************************)
(* For any number of slots, filters and handlers: the table of message     *)
(* handlers holds each filter once and implements a bounded map; and a     *)
(* message goes to the handlers whose filters MQTT says match its topic,   *)
(* for filters and names of every length.                                  *)
(***************************************************************************)
EXTENDS HandlerTable, FiniteSetTheorems, WellFoundedInduction, TLAPS

(***************************************************************************)
(* isTopicMatched.  The loop is a recursive function on the places of the  *)
(* filter, MQTT's rule one on the levels; both recursions are unrolled     *)
(* once, and the comparison goes level by level, from the filter's last.   *)
(***************************************************************************)

\* A set of positions that is not empty has a least one.
LEMMA LeastNat ==
  ASSUME NEW T \in SUBSET Nat, T # {}
  PROVE  \E x \in T : \A y \in T : ~ (y < x)
<1>1. PICK x \in T : \A y \in T : ~ (<<y, x>> \in OpToRel(<, Nat))
  BY WFMin, NatLessThanWellFounded, Zenon
<1>2. ASSUME NEW y \in T, y < x
      PROVE  FALSE
  <2>1. <<y, x>> \in OpToRel(<, Nat)
    BY <1>2 DEF OpToRel
  <2>2. QED BY <1>1, <2>1
<1>3. QED BY <1>2, Zenon

\* Induction from the end of a sequence: what holds at a position when it
\* holds at all later ones holds at all of them.
LEMMA Downward ==
  ASSUME NEW top \in Nat, NEW C \in SUBSET (0 .. top), NEW P,
         \A i \in C : (\A j \in C : i < j => j \in P) => i \in P
  PROVE  \A i \in C : i \in P
<1> SUFFICES ASSUME NEW i \in C, i \notin P
             PROVE  FALSE
  BY Zenon
<1> DEFINE T == {k \in Nat : k <= top /\ top - k \in C /\ top - k \notin P}
<1>1. top - i \in T
  <2>1. top - i \in Nat /\ top - i <= top /\ top - (top - i) = i
    OBVIOUS
  <2>2. QED BY <2>1, Zenon
<1>2. T \in SUBSET Nat /\ T # {}
  BY <1>1, Zenon
<1>3. PICK x \in T : \A y \in T : ~ (y < x)
  BY <1>2, LeastNat, Zenon
<1>4. x \in Nat /\ x <= top /\ top - x \in C /\ top - x \notin P
  BY <1>3, Zenon
<1>5. ASSUME NEW j \in C, top - x < j
      PROVE  j \in P
  <2>1. top - j \in Nat /\ top - j <= top /\ top - (top - j) = j /\ top - j < x
    BY <1>4, <1>5
  <2>2. top - j \notin T
    BY <1>3, <2>1, Zenon
  <2>3. QED BY <2>1, <2>2, Zenon
<1>6. QED BY <1>4, <1>5, Zenon

\* Induction along a sequence: what holds at m and, from each position, at the
\* next holds up to top.
LEMMA Upward ==
  ASSUME NEW m \in Nat, NEW P, m \in P, NEW top \in Nat, \A i \in m .. top : i \in P /\ i < top => i + 1 \in P
  PROVE  \A i \in m .. top : i \in P
<1> SUFFICES ASSUME NEW i \in m .. top, i \notin P
             PROVE  FALSE
  BY Zenon
<1> DEFINE T == {k \in Nat : m <= k /\ k <= top /\ k \notin P}
<1>1. i \in T
  OBVIOUS
<1>2. T \in SUBSET Nat /\ T # {}
  BY <1>1, Zenon
<1>3. PICK x \in T : \A y \in T : ~ (y < x)
  BY <1>2, LeastNat, Zenon
<1>4. x \in Nat /\ m <= x /\ x <= top /\ x \notin P
  BY <1>3, Zenon
<1> HIDE DEF T
<1>5. x # m
  BY <1>4
<1>6. x - 1 \in m .. top /\ x - 1 < top /\ x - 1 + 1 = x /\ x - 1 \in Nat /\ m <= x - 1 /\ x - 1 <= top /\ x - 1 < x
  BY <1>4, <1>5
<1>7. x - 1 \notin P
  BY <1>4, <1>6, Zenon
<1>8. QED BY <1>3, <1>6, <1>7, Zenon DEF T

\* A function defined on C from a later place, as skip and from are.
IsBack(F, C, stop, b, nx, T) == F = [i \in C |-> IF i \in stop THEN b[i] ELSE T[i][F[nx[i]]]]

\* The later place of each place is in C, so the recursion ends.
Steps(C, stop, nx, top) ==
  top \in Nat /\ C \in SUBSET (0 .. top) /\ \A i \in C : i \notin stop => nx[i] \in C /\ i < nx[i]

\* The recursion stays in V.
Stays(C, stop, b, T, V) ==
  (\A i \in C : i \in stop => b[i] \in V) /\ \A i \in C : \A v \in V : i \notin stop => T[i][v] \in V

\* What such a recursion computes at each place.
Backward(F, C, stop, b, nx, T, V) ==
  /\ F = [i \in C |-> F[i]]
  /\ \A i \in C : F[i] \in V /\ F[i] = IF i \in stop THEN b[i] ELSE T[i][F[nx[i]]]

\* The recursive functions of PlusEnd, Levels and isTopicMatched exist: there is
\* one on each end of C, as the loop they stand for ends.
LEMMA BackExists ==
  ASSUME NEW top \in Nat, NEW C \in SUBSET (0 .. top), NEW stop, NEW b, NEW nx, NEW T,
         \A i \in C : i \notin stop => nx[i] \in C /\ i < nx[i]
  PROVE  \E F : IsBack(F, C, stop, b, nx, T)
<1> DEFINE B(g, i) == IF i \in stop THEN b[i] ELSE T[i][g[nx[i]]]
           D(a) == {i \in C : a <= i}
           G(a, g) == g = [i \in D(a) |-> B(g, i)]
           P == {a \in 0 .. top + 1 : \E g : G(a, g)}
<1>0. \A i \in C : i \in Nat /\ 0 <= i /\ i <= top
  <2> SUFFICES ASSUME NEW i \in C
               PROVE  i \in Nat /\ 0 <= i /\ i <= top
    BY Zenon
  <2>1. i \in 0 .. top
    BY Zenon
  <2>2. QED BY ONLY <2>1, top \in Nat
<1>1. ASSUME NEW a \in 0 .. top + 1, \A j \in 0 .. top + 1 : a < j => j \in P
      PROVE  a \in P
  <2>1. CASE a = top + 1
    <3> DEFINE g == [i \in D(a) |-> 0]
    <3>1. D(a) = {}
      <4> SUFFICES ASSUME NEW i \in C, a <= i
                   PROVE  FALSE
        BY Zenon
      <4>1. i \in Nat /\ i <= top
        BY <1>0, Zenon
      <4>2. QED BY ONLY <2>1, <4>1, a <= i, top \in Nat
    <3> HIDE DEF D
    <3>2. \A i \in D(a) : g[i] = B(g, i)
      BY <3>1, Zenon
    <3>3. g = [i \in D(a) |-> g[i]]
      BY Zenon
    <3> HIDE DEF g, B
    <3>4. G(a, g)
      BY <3>2, <3>3, Zenon
    <3>5. QED BY <3>4, Zenon
  <2>2. CASE a # top + 1
    <3>1. a + 1 \in 0 .. top + 1 /\ a < a + 1 /\ a \in Nat
      BY <2>2
    <3>2. PICK g : G(a + 1, g)
      BY <1>1, <3>1, Zenon
    <3> DEFINE f == [i \in D(a) |-> IF i = a THEN B(g, a) ELSE g[i]]
    <3>3. ASSUME NEW i \in D(a)
          PROVE  f[i] = B(f, i)
      <4>1. i \in Nat /\ a <= i /\ i \in C
        BY <1>0, Zenon
      <4>2. i \notin stop => nx[i] \in C /\ nx[i] \in Nat /\ a <= nx[i] /\ a + 1 <= nx[i] /\ nx[i] # a
        <5>1. i \notin stop => nx[i] \in C /\ i < nx[i]
          BY <4>1, Zenon
        <5>2. i \notin stop => nx[i] \in Nat
          BY <5>1, <1>0, Zenon
        <5>3. QED BY ONLY <3>1, <4>1, <5>1, <5>2
      <4>3. i \notin stop => nx[i] \in D(a) /\ nx[i] # a
        BY <4>2, Zenon
      <4>4. i # a => i \in D(a + 1)
        <5>1. i # a => a + 1 <= i
          BY <3>1, <4>1
        <5>2. QED BY <4>1, <5>1, Zenon
      <4> HIDE DEF D
      <4>5. i \notin stop => f[nx[i]] = g[nx[i]]
        BY <4>3, Zenon
      <4>6. f[i] = IF i = a THEN B(g, a) ELSE g[i]
        BY Zenon
      <4> HIDE DEF f
      <4>7. B(f, i) = B(g, i)
        BY <4>5, Zenon
      <4>8. i # a => g[i] = B(g, i)
        BY <3>2, <4>4, Zenon
      <4>9. QED BY <4>6, <4>7, <4>8, Zenon
    <3>4. f = [i \in D(a) |-> f[i]]
      BY Zenon
    <3> HIDE DEF f, B, D
    <3>5. G(a, f)
      BY <3>3, <3>4, Zenon
    <3>6. QED BY <3>5, Zenon
  <2>3. QED BY <2>1, <2>2, Zenon
<1>2. 0 .. top + 1 \in SUBSET (0 .. top + 1) /\ top + 1 \in Nat /\ 0 \in 0 .. top + 1
  OBVIOUS
<1>3. 0 \in P
  <2> HIDE DEF P
  <2>1. \A a \in 0 .. top + 1 : (\A j \in 0 .. top + 1 : a < j => j \in P) => a \in P
    BY <1>1, Zenon
  <2>2. \A a \in 0 .. top + 1 : a \in P
    <3> DEFINE N == top + 1
               Z == 0 .. N
    <3>1. N \in Nat /\ Z \in SUBSET (0 .. N)
      OBVIOUS
    <3>2. \A a \in Z : (\A j \in Z : a < j => j \in P) => a \in P
      BY <2>1, Zenon
    <3> HIDE DEF Z
    <3>3. \A a \in Z : a \in P
      <4> HIDE DEF N
      <4>1. QED BY ONLY <3>1, <3>2, Downward, Zenon
    <3>4. QED BY <3>3, Zenon DEF Z
  <2>3. QED BY <1>2, <2>2, Zenon
<1>4. D(0) = C
  BY <1>0, Zenon
<1>5. PICK g : G(0, g)
  BY <1>3, Zenon
<1>6. g = [i \in C |-> IF i \in stop THEN b[i] ELSE T[i][g[nx[i]]]]
  <2>1. g = [i \in D(0) |-> IF i \in stop THEN b[i] ELSE T[i][g[nx[i]]]]
    BY <1>5, Zenon
  <2> HIDE DEF D
  <2>2. QED BY <1>4, <2>1, Zenon
<1>7. QED BY <1>6, Zenon DEF IsBack

\* What the recursion computes stays in V.
LEMMA BackTyped ==
  ASSUME NEW top, NEW C, NEW stop, NEW b, NEW nx, NEW T, NEW V, Steps(C, stop, nx, top), Stays(C, stop, b, T, V),
         NEW F, IsBack(F, C, stop, b, nx, T)
  PROVE  Backward(F, C, stop, b, nx, T, V)
<1> USE DEF Steps, Stays
<1> DEFINE P == {i \in C : F[i] \in V}
<1>1. \A i \in C : F[i] = IF i \in stop THEN b[i] ELSE T[i][F[nx[i]]]
  BY Zenon DEF IsBack
<1>2. ASSUME NEW i \in C, \A j \in C : i < j => j \in P
      PROVE  i \in P
  <2>1. CASE i \in stop
    BY <1>1, <2>1, Zenon
  <2>2. CASE i \notin stop
    <3>1. nx[i] \in P
      BY <1>2, <2>2, Zenon
    <3>2. F[nx[i]] \in V
      BY <3>1, Zenon
    <3>3. QED BY <1>1, <2>2, <3>2, Zenon
  <2>3. QED BY <2>1, <2>2, Zenon
<1> HIDE DEF P
<1>3. \A i \in C : i \in P
  BY <1>2, Downward, Zenon
<1>4. F = [i \in C |-> F[i]]
  BY Zenon DEF IsBack
<1>5. QED BY <1>1, <1>3, <1>4, Zenon DEF P, Backward

\* The two together.
LEMMA BackFunction ==
  ASSUME NEW top, NEW C, NEW stop, NEW b, NEW nx, NEW T, NEW V, Steps(C, stop, nx, top), Stays(C, stop, b, T, V)
  PROVE  \E F : Backward(F, C, stop, b, nx, T, V)
<1>1. \E F : IsBack(F, C, stop, b, nx, T)
  BY BackExists, Zenon DEF Steps
<1>2. QED BY <1>1, BackTyped, Zenon

\* The body of skip, the loop over the name at a '+' of the filter.
SkipBody(n, g) == [p \in 1 .. Len(n) |-> IF p < Len(n) /\ n[p + 1] # "/" THEN g[p + 1] ELSE p]

\* skip, of PlusEnd, is a function.
LEMMA SkipExists ==
  ASSUME NEW S, NEW n \in Seq(S)
  PROVE  \E g : g = SkipBody(n, g)
<1> DEFINE C == 1 .. Len(n)
           stop == {p \in C : ~ (p < Len(n) /\ n[p + 1] # "/")}
           b == [p \in C |-> p]
           nx == [p \in C |-> p + 1]
           T == [p \in C |-> [v \in Nat |-> v]]
           top == Len(n)
<1>1. top \in Nat /\ C \in SUBSET (0 .. top)
  OBVIOUS
<1>2. \A i \in C : i \notin stop => nx[i] \in C /\ i < nx[i]
  OBVIOUS
<1>3. \A i \in C : i \in Nat /\ b[i] = i
  OBVIOUS
<1>4. \A i \in C : \A v \in Nat : T[i][v] = v
  BY Zenon
<1>s. \A i \in C : i \in stop <=> ~ (i < Len(n) /\ n[i + 1] # "/")
  BY Zenon
<1>n. \A i \in C : nx[i] = i + 1
  BY Zenon
<1> HIDE DEF stop, b, nx, T
<1>5. Steps(C, stop, nx, top)
  BY <1>1, <1>2, Zenon DEF Steps
<1>6. Stays(C, stop, b, T, Nat)
  BY <1>3, <1>4, Zenon DEF Stays
<1>7. \E F : Backward(F, C, stop, b, nx, T, Nat)
  <2> HIDE DEF C, top
  <2>1. QED BY <1>5, <1>6, BackFunction, Zenon
<1>8. PICK F : Backward(F, C, stop, b, nx, T, Nat)
  BY <1>7, Zenon
<1>9. \A i \in C : F[i] \in Nat /\ F[i] = IF i \in stop THEN b[i] ELSE T[i][F[nx[i]]]
  BY <1>8, Zenon DEF Backward
<1>10. ASSUME NEW i \in C
       PROVE  F[i] = IF i < Len(n) /\ n[i + 1] # "/" THEN F[i + 1] ELSE i
  <2> HIDE DEF C
  <2>1. CASE i \in stop
    BY <1>9, <1>3, <1>s, <2>1, Zenon
  <2>2. CASE i \notin stop
    <3>1. nx[i] \in C /\ nx[i] = i + 1
      BY <1>2, <1>n, <2>2, Zenon
    <3>2. F[nx[i]] \in Nat /\ F[i] = T[i][F[nx[i]]]
      BY <1>9, <2>2, <3>1, Zenon
    <3>3. F[i] = F[i + 1]
      BY <3>1, <3>2, <1>4, Zenon
    <3>4. QED BY <1>s, <2>2, <3>3, Zenon
  <2>3. QED BY <2>1, <2>2, Zenon
<1>11. F = [i \in C |-> F[i]]
  BY <1>8, Zenon DEF Backward
<1>12. F = SkipBody(n, F)
  BY <1>10, <1>11, Zenon DEF SkipBody
<1>13. QED BY <1>12, Zenon

\* At a '+' the code's inner loop goes to the last character before the next
\* separator e, or before the end of the name.
LEMMA PlusEndIs ==
  ASSUME NEW S, NEW n \in Seq(S), NEW a \in 1 .. Len(n), NEW e \in Nat, a < e, e <= Len(n) + 1,
         e = Len(n) + 1 \/ n[e] = "/", \A k \in a + 1 .. e - 1 : n[k] # "/"
  PROVE  PlusEnd(n, a) = e - 1
<1> DEFINE g == CHOOSE h : h = SkipBody(n, h)
<1>1. g = SkipBody(n, g)
  BY SkipExists, Zenon
<1>2. PlusEnd(n, a) = g[a]
  BY Zenon DEF PlusEnd, SkipBody
<1> HIDE DEF g
<1>3. \A p \in 1 .. Len(n) : g[p] = IF p < Len(n) /\ n[p + 1] # "/" THEN g[p + 1] ELSE p
  BY <1>1, Zenon DEF SkipBody
<1> DEFINE P == {p \in Nat : g[p] = e - 1}
           C == a .. e - 1
           top == e - 1
<1>4. ASSUME NEW p \in C, \A j \in C : p < j => j \in P
      PROVE  p \in P
  <2>1. p \in Nat /\ p \in 1 .. Len(n) /\ p < e /\ a <= p
    OBVIOUS
  <2>2. CASE p = e - 1
    <3>1. ~ (p < Len(n) /\ n[p + 1] # "/")
      <4>1. p + 1 = e
        BY <2>2
      <4>2. CASE e = Len(n) + 1
        BY <4>2, <2>2
      <4>3. CASE n[e] = "/"
        BY <4>1, <4>3, Zenon
      <4>4. QED BY <4>2, <4>3
    <3>2. g[p] = p
      BY <1>3, <2>1, <3>1, Zenon
    <3>3. QED BY <2>1, <2>2, <3>2, Zenon
  <2>3. CASE p # e - 1
    <3>1. p + 1 \in C /\ p < p + 1 /\ p + 1 \in a + 1 .. e - 1 /\ p < Len(n)
      BY <2>1, <2>3
    <3>2. n[p + 1] # "/" /\ p + 1 \in P
      BY <1>4, <3>1, Zenon
    <3>3. g[p + 1] = e - 1
      BY <3>2, Zenon
    <3>4. g[p] = g[p + 1]
      BY <1>3, <2>1, <3>1, <3>2, Zenon
    <3>5. QED BY <2>1, <3>3, <3>4, Zenon
  <2>4. QED BY <2>2, <2>3, Zenon
<1>5. top \in Nat /\ C \in SUBSET (0 .. top) /\ a \in C
  OBVIOUS
<1>6. a \in P
  <2> HIDE DEF P, C, top
  <2>1. \A i \in C : i \in P
    BY <1>4, <1>5, Downward, Zenon
  <2>2. QED BY <1>5, <2>1, Zenon
<1>7. QED BY <1>2, <1>6, Zenon

\* Where the levels of s begin and end.
Cut(s) == {0, Len(s) + 1} \cup {i \in DOMAIN s : s[i] = "/"}
\* The next cut.
UpTo(s, i) == CHOOSE j \in Cut(s) : j > i /\ \A k \in Cut(s) : k > i => k >= j
\* The level that begins after cut i.
Level(s, i) == SubSeq(s, i + 1, UpTo(s, i) - 1)
\* The body of from, of Levels.
FromBody(s, g) == [i \in Cut(s) |-> IF i = Len(s) + 1 THEN <<>> ELSE <<Level(s, i)>> \o g[UpTo(s, i)]]

\* The cuts are both ends and the separators.
LEMMA CutIs ==
  ASSUME NEW S, NEW s \in Seq(S)
  PROVE  /\ Len(s) \in Nat /\ 0 \in Cut(s) /\ Len(s) + 1 \in Cut(s)
         /\ \A i \in Cut(s) : i \in Nat /\ i <= Len(s) + 1
         /\ \A i \in 1 .. Len(s) : i \in Cut(s) <=> s[i] = "/"
BY DEF Cut

\* The next cut is the next separator, or the end.
LEMMA UpToIs ==
  ASSUME NEW S, NEW s \in Seq(S), NEW i \in Cut(s), i # Len(s) + 1
  PROVE  /\ UpTo(s, i) \in Cut(s) /\ UpTo(s, i) \in Nat /\ i < UpTo(s, i) /\ UpTo(s, i) <= Len(s) + 1
         /\ UpTo(s, i) = Len(s) + 1 \/ s[UpTo(s, i)] = "/"
         /\ \A k \in i + 1 .. UpTo(s, i) - 1 : s[k] # "/"
<1> DEFINE T == {j \in Cut(s) : j > i}
           Q(j) == j > i /\ \A k \in Cut(s) : k > i => k >= j
<1>1. \A k \in Cut(s) : k \in Nat /\ k <= Len(s) + 1
  BY CutIs, Zenon
<1>2. Len(s) \in Nat /\ Len(s) + 1 \in Cut(s) /\ Len(s) + 1 > i
  <2>1. Len(s) \in Nat /\ Len(s) + 1 \in Cut(s)
    BY CutIs, Zenon
  <2>2. i \in Nat /\ i <= Len(s) + 1
    BY <1>1, Zenon
  <2>3. QED BY <2>1, <2>2
<1>3. T \in SUBSET Nat /\ T # {}
  BY <1>1, <1>2, Zenon
<1>4. PICK x \in T : \A y \in T : ~ (y < x)
  BY <1>3, LeastNat, Zenon
<1>5. x \in Cut(s) /\ Q(x)
  <2>1. x \in Cut(s) /\ x > i
    BY <1>4, Zenon
  <2>2. ASSUME NEW k \in Cut(s), k > i
        PROVE  k >= x
    <3>1. ~ (k < x)
      BY <1>4, <2>2, Zenon
    <3>2. k \in Nat /\ x \in Nat
      BY <1>1, <2>1, Zenon
    <3>3. QED BY <3>1, <3>2
  <2>3. QED BY <2>1, <2>2, Zenon
<1>6. UpTo(s, i) = CHOOSE j \in Cut(s) : Q(j)
  BY Zenon DEF UpTo
<1> HIDE DEF Q
<1>7. UpTo(s, i) \in Cut(s) /\ Q(UpTo(s, i))
  BY <1>5, <1>6, Zenon
<1> DEFINE u == UpTo(s, i)
<1>8. u \in Cut(s) /\ u \in Nat /\ u <= Len(s) + 1 /\ u > i /\ i \in Nat /\ \A k \in Cut(s) : k > i => k >= u
  BY <1>1, <1>7, Zenon DEF Q
<1> HIDE DEF u
<1>9. i < u /\ (u = Len(s) + 1 \/ u \in 1 .. Len(s))
  BY <1>2, <1>8
<1>10. u = Len(s) + 1 \/ s[u] = "/"
  BY <1>8, <1>9, CutIs, Zenon
<1>11. ASSUME NEW k \in i + 1 .. u - 1
       PROVE  s[k] # "/"
  <2>1. k \in 1 .. Len(s) /\ k > i /\ ~ (k >= u)
    BY <1>2, <1>8
  <2>2. k \notin Cut(s)
    BY <1>8, <2>1, Zenon
  <2>3. QED BY <2>1, <2>2, CutIs, Zenon
<1>12. QED BY <1>8, <1>9, <1>10, <1>11, Zenon DEF u

\* The characters of a level.
LEMMA LevelIs ==
  ASSUME NEW S, NEW s \in Seq(S), NEW i \in Cut(s), i # Len(s) + 1
  PROVE  /\ Level(s, i) \in Seq(S) /\ Len(Level(s, i)) = UpTo(s, i) - 1 - i
         /\ \A k \in 1 .. UpTo(s, i) - 1 - i : Level(s, i)[k] = s[i + k]
<1> DEFINE u == UpTo(s, i)
<1>1. u \in Nat /\ i < u /\ u <= Len(s) + 1 /\ i \in Nat /\ Len(s) \in Nat
  BY UpToIs, CutIs, Zenon
<1> HIDE DEF u
<1>2. /\ SubSeq(s, i + 1, u - 1) \in Seq(S) /\ Len(SubSeq(s, i + 1, u - 1)) = u - 1 - i
      /\ \A k \in 1 .. u - 1 - i : SubSeq(s, i + 1, u - 1)[k] = s[i + k]
  BY <1>1
<1>3. QED BY <1>2, Zenon DEF u, Level

\* R gives the levels from each cut on.
IsLevels(R, s, S) ==
  \A i \in Cut(s) : /\ R[i] \in Seq(Seq(S))
                    /\ i = Len(s) + 1 => R[i] = <<>>
                    /\ i # Len(s) + 1 => R[i] = <<Level(s, i)>> \o R[UpTo(s, i)]

\* from, of Levels, is a function.
LEMMA FromExists ==
  ASSUME NEW S, NEW s \in Seq(S)
  PROVE  \E g : g = FromBody(s, g)
<1> DEFINE C == Cut(s)
           top == Len(s) + 1
           stop == {Len(s) + 1}
           b == [i \in C |-> <<>>]
           nx == [i \in C |-> UpTo(s, i)]
           V == Seq(Seq(S))
           T == [i \in C |-> [v \in V |-> <<Level(s, i)>> \o v]]
<1>1. top \in Nat /\ C \in SUBSET (0 .. top)
  <2>1. top \in Nat
    BY CutIs
  <2>2. ASSUME NEW i \in C
        PROVE  i \in 0 .. top
    <3>1. i \in Nat /\ i <= top
      BY CutIs, Zenon
    <3> HIDE DEF top, C
    <3>2. QED BY <2>1, <3>1
  <2>3. QED BY <2>1, <2>2, Zenon
<1>2. \A i \in C : b[i] = <<>> /\ nx[i] = UpTo(s, i) /\ \A v \in V : T[i][v] = <<Level(s, i)>> \o v
  BY Zenon
<1> HIDE DEF b, nx, T
<1>3. \A i \in C : i \notin stop => nx[i] \in C /\ i < nx[i]
  BY <1>2, UpToIs, Zenon
<1>4. ASSUME NEW i \in C, NEW v \in V, i \notin stop
      PROVE  T[i][v] \in V
  <2>1. Level(s, i) \in Seq(S)
    BY <1>4, LevelIs, Zenon
  <2> DEFINE x == Level(s, i)
             U == Seq(S)
  <2>2. T[i][v] = <<x>> \o v
    BY <1>2, Zenon
  <2>3. x \in U
    BY <2>1, Zenon
  <2> HIDE DEF x, U
  <2>4. v \in Seq(U)
    BY <1>4, Zenon DEF U
  <2>5. <<x>> \o v \in Seq(U)
    BY <2>3, <2>4
  <2>6. QED BY <2>2, <2>5, Zenon DEF U
<1>5. <<>> \in V
  <2> DEFINE U == Seq(S)
  <2> HIDE DEF U
  <2>1. <<>> \in Seq(U)
    OBVIOUS
  <2>2. QED BY <2>1, Zenon DEF U
<1> HIDE DEF V
<1>6. Steps(C, stop, nx, top)
  BY <1>1, <1>3, Zenon DEF Steps
<1>7. Stays(C, stop, b, T, V)
  BY <1>2, <1>4, <1>5, Zenon DEF Stays
<1>8. \E F : Backward(F, C, stop, b, nx, T, V)
  <2> HIDE DEF C, top, stop
  <2>1. QED BY <1>6, <1>7, BackFunction, Zenon
<1>9. PICK F : Backward(F, C, stop, b, nx, T, V)
  BY <1>8, Zenon
<1>10. /\ F = [i \in C |-> F[i]]
       /\ \A i \in C : F[i] \in V /\ F[i] = IF i \in stop THEN b[i] ELSE T[i][F[nx[i]]]
  BY <1>9, Zenon DEF Backward
<1>11. ASSUME NEW i \in C
       PROVE  F[i] = IF i = Len(s) + 1 THEN <<>> ELSE <<Level(s, i)>> \o F[UpTo(s, i)]
  <2>1. CASE i = Len(s) + 1
    BY <1>2, <1>10, <2>1, Zenon
  <2>2. CASE i # Len(s) + 1
    <3>1. i \notin stop /\ nx[i] \in C /\ nx[i] = UpTo(s, i)
      BY <1>2, <1>3, <2>2, Zenon
    <3>2. F[i] = T[i][F[nx[i]]] /\ F[nx[i]] \in V
      BY <1>10, <3>1, Zenon
    <3>3. F[i] = <<Level(s, i)>> \o F[UpTo(s, i)]
      BY <1>2, <3>1, <3>2, Zenon
    <3>4. QED BY <2>2, <3>3, Zenon
  <2>3. QED BY <2>1, <2>2, Zenon
<1>12. F = FromBody(s, F)
  BY <1>10, <1>11, Zenon DEF FromBody
<1>13. QED BY <1>12, Zenon

\* Levels(s) are the levels from the first cut on.
LEMMA LevelsAre ==
  ASSUME NEW S, NEW s \in Seq(S)
  PROVE  \E R : IsLevels(R, s, S) /\ R[0] = Levels(s)
<1> DEFINE g == CHOOSE h : h = FromBody(s, h)
<1>1. g = FromBody(s, g)
  BY FromExists, Zenon
<1>2. Levels(s) = g[0]
  BY Zenon DEF Levels, FromBody, Level, UpTo, Cut
<1> HIDE DEF g
<1>3. \A i \in Cut(s) : g[i] = IF i = Len(s) + 1 THEN <<>> ELSE <<Level(s, i)>> \o g[UpTo(s, i)]
  BY <1>1, Zenon DEF FromBody
<1> DEFINE U == Seq(S)
           P == {i \in Cut(s) : g[i] \in Seq(U)}
           top == Len(s) + 1
<1>4. ASSUME NEW i \in Cut(s), \A j \in Cut(s) : i < j => j \in P
      PROVE  i \in P
  <2>1. CASE i = Len(s) + 1
    <3>1. <<>> \in Seq(U)
      <4> HIDE DEF U
      <4>1. QED OBVIOUS
    <3>2. QED BY <1>3, <2>1, <3>1, Zenon
  <2>2. CASE i # Len(s) + 1
    <3>1. UpTo(s, i) \in P
      BY <1>4, <2>2, UpToIs, Zenon
    <3>2. g[UpTo(s, i)] \in Seq(U)
      BY <3>1, Zenon
    <3> DEFINE x == Level(s, i)
               v == g[UpTo(s, i)]
    <3>3. x \in U
      BY <2>2, LevelIs, Zenon
    <3> HIDE DEF U, x, v
    <3>4. v \in Seq(U)
      BY <3>2, Zenon DEF v
    <3>5. <<x>> \o v \in Seq(U)
      BY <3>3, <3>4
    <3>6. g[i] = <<x>> \o v
      BY <1>3, <2>2, Zenon DEF x, v
    <3>7. QED BY <3>5, <3>6, Zenon
  <2>3. QED BY <2>1, <2>2, Zenon
<1>5. top \in Nat /\ Cut(s) \in SUBSET (0 .. top)
  <2>1. top \in Nat
    BY CutIs
  <2>2. ASSUME NEW i \in Cut(s)
        PROVE  i \in 0 .. top
    <3>1. i \in Nat /\ i <= top
      BY CutIs, Zenon
    <3> HIDE DEF top
    <3>2. QED BY <2>1, <3>1
  <2>3. QED BY <2>1, <2>2, Zenon
<1>6. \A i \in Cut(s) : g[i] \in Seq(U)
  <2> HIDE DEF P, top
  <2>1. \A i \in Cut(s) : i \in P
    BY <1>4, <1>5, Downward, Zenon
  <2>2. QED BY <2>1, Zenon DEF P
<1>7. IsLevels(g, s, S)
  BY <1>3, <1>6, Zenon DEF IsLevels
<1>8. QED BY <1>2, <1>7, Zenon

\* After each character of the name there is a next separator, or the end.
LEMMA NextSlash ==
  ASSUME NEW S, NEW n \in Seq(S), NEW a \in 1 .. Len(n)
  PROVE  \E e \in Nat : /\ a < e /\ e <= Len(n) + 1 /\ (e = Len(n) + 1 \/ n[e] = "/")
                        /\ \A k \in a + 1 .. e - 1 : n[k] # "/"
<1> DEFINE T == {e \in Nat : a < e /\ e <= Len(n) + 1 /\ (e = Len(n) + 1 \/ n[e] = "/")}
<1>1. Len(n) + 1 \in T
  OBVIOUS
<1>2. T \in SUBSET Nat /\ T # {}
  BY <1>1, Zenon
<1>3. PICK e \in T : \A y \in T : ~ (y < e)
  BY <1>2, LeastNat, Zenon
<1>4. e \in Nat /\ a < e /\ e <= Len(n) + 1 /\ (e = Len(n) + 1 \/ n[e] = "/")
  BY <1>3, Zenon
<1>5. ASSUME NEW k \in a + 1 .. e - 1
      PROVE  n[k] # "/"
  <2>1. k \in Nat /\ a < k /\ k <= Len(n) + 1 /\ k < e
    BY <1>4
  <2>2. k \notin T
    BY <1>3, <2>1, Zenon
  <2>3. QED BY <2>1, <2>2, Zenon
<1>6. QED BY <1>4, <1>5, Zenon

\* '+' keeps curn in the name.
LEMMA PlusEndRange ==
  ASSUME NEW S, NEW n \in Seq(S), NEW a \in 1 .. Len(n)
  PROVE  PlusEnd(n, a) \in Nat /\ PlusEnd(n, a) <= Len(n)
<1>1. PICK e \in Nat : /\ a < e /\ e <= Len(n) + 1 /\ (e = Len(n) + 1 \/ n[e] = "/")
                       /\ \A k \in a + 1 .. e - 1 : n[k] # "/"
  BY NextSlash, Zenon
<1>2. PlusEnd(n, a) = e - 1
  BY <1>1, PlusEndIs, Zenon
<1>3. e - 1 \in Nat /\ e - 1 <= Len(n)
  BY <1>1
<1>4. QED BY <1>2, <1>3, Zenon

\* What ends the loop of isTopicMatched.
Ends(c, n, at) == at = 0 \/ at > Len(n) \/ (n[at] = "/" /\ c # "/") \/ c \notin {"+", "#", n[at]}

\* A round that ends the loop leaves no position.
LEMMA RoundEnds ==
  ASSUME NEW n, NEW c, NEW at, Ends(c, n, at)
  PROVE  Round(c, n, at) = 0
BY Zenon DEF Round, Ends

\* The other rounds: curn after '+', '#' and a character of its own.
LEMMA RoundGoes ==
  ASSUME NEW n, NEW c, NEW at, ~ Ends(c, n, at)
  PROVE  /\ c = "+" => Round(c, n, at) = PlusEnd(n, at) + 1
         /\ c = "#" => Round(c, n, at) = Len(n) + 1
         /\ c # "+" /\ c # "#" => Round(c, n, at) = at + 1
<1>1. Round(c, n, at) = CASE c = "+" -> PlusEnd(n, at) + 1 [] c = "#" -> Len(n) + 1 [] OTHER -> at + 1
  BY Zenon DEF Round, Ends
<1> DEFINE x == PlusEnd(n, at) + 1
           y == Len(n) + 1
           z == at + 1
           r == Round(c, n, at)
<1>2. r = CASE c = "+" -> x [] c = "#" -> y [] OTHER -> z
  BY <1>1, Zenon
<1> HIDE DEF x, y, z, r
<1>3. "+" # "#"
  OBVIOUS
<1>4. /\ c = "+" => r = x
      /\ c = "#" => r = y
      /\ c # "+" /\ c # "#" => r = z
  BY ONLY <1>2, <1>3
<1>5. QED BY <1>4, Zenon DEF x, y, z, r

\* A round gives a position, or 0.
LEMMA RoundRange ==
  ASSUME NEW S, NEW n \in Seq(S), NEW c, NEW at \in Nat
  PROVE  Round(c, n, at) \in Nat
<1>1. CASE Ends(c, n, at)
  <2>1. Round(c, n, at) = 0
    BY <1>1, RoundEnds, Zenon
  <2>2. QED BY <2>1
<1>2. CASE ~ Ends(c, n, at)
  <2>1. at \in 1 .. Len(n) /\ at + 1 \in Nat /\ Len(n) + 1 \in Nat
    <3>1. at # 0 /\ ~ (at > Len(n))
      BY <1>2, Zenon DEF Ends
    <3>2. QED BY <3>1
  <2>2. PlusEnd(n, at) \in Nat
    BY <2>1, PlusEndRange, Zenon
  <2>3. PlusEnd(n, at) + 1 \in Nat
    BY <2>2
  <2>4. /\ c = "+" => Round(c, n, at) = PlusEnd(n, at) + 1
        /\ c = "#" => Round(c, n, at) = Len(n) + 1
        /\ c # "+" /\ c # "#" => Round(c, n, at) = at + 1
    BY ONLY <1>2, RoundGoes, SMT
  <2>5. QED BY ONLY <2>1, <2>3, <2>4, Zenon
<1>3. QED BY <1>1, <1>2, Zenon

\* The body of curn, of isTopicMatched.
CurBody(f, n, g) == [i \in 1 .. Len(f) + 1 |-> IF i = 1 THEN 1 ELSE Round(f[i - 1], n, g[i - 1])]

\* curn is a function.
LEMMA CurExists ==
  ASSUME NEW S, NEW f \in Seq(S), NEW n \in Seq(S)
  PROVE  \E g : g = CurBody(f, n, g)
<1> DEFINE top == Len(f)
           C == 0 .. top
           stop == {top}
           b == [i \in C |-> 1]
           nx == [i \in C |-> i + 1]
           T == [i \in C |-> [v \in Nat |-> Round(f[top - i], n, v)]]
<1>1. top \in Nat /\ C \in SUBSET (0 .. top)
  OBVIOUS
<1>2. \A i \in C : b[i] = 1 /\ nx[i] = i + 1 /\ \A v \in Nat : T[i][v] = Round(f[top - i], n, v)
  BY Zenon
<1> HIDE DEF b, nx, T
<1>3. ASSUME NEW i \in C, i \notin stop
      PROVE  nx[i] \in C /\ i < nx[i]
  <2>1. i + 1 \in C /\ i < i + 1
    BY <1>1, <1>3
  <2>2. QED BY <1>2, <2>1, Zenon
<1>4. ASSUME NEW i \in C, NEW v \in Nat
      PROVE  T[i][v] \in Nat
  <2>1. T[i][v] = Round(f[top - i], n, v)
    BY <1>2, Zenon
  <2> DEFINE c == f[top - i]
  <2> HIDE DEF c
  <2>2. Round(c, n, v) \in Nat
    BY RoundRange, Zenon
  <2>3. QED BY <2>1, <2>2, Zenon DEF c
<1>5. 1 \in Nat
  OBVIOUS
<1>6. Steps(C, stop, nx, top)
  BY <1>1, <1>3, Zenon DEF Steps
<1>7. Stays(C, stop, b, T, Nat)
  BY <1>2, <1>4, <1>5, Zenon DEF Stays
<1>8. \E F : Backward(F, C, stop, b, nx, T, Nat)
  <2> HIDE DEF C, top, stop
  <2>1. QED BY <1>6, <1>7, BackFunction, Zenon
<1>9. PICK F : Backward(F, C, stop, b, nx, T, Nat)
  BY <1>8, Zenon
<1>10. \A i \in C : F[i] \in Nat /\ F[i] = IF i \in stop THEN b[i] ELSE T[i][F[nx[i]]]
  BY <1>9, Zenon DEF Backward
<1> DEFINE g == [i \in 1 .. Len(f) + 1 |-> F[Len(f) + 1 - i]]
<1>11. ASSUME NEW i \in 1 .. Len(f) + 1
       PROVE  g[i] = IF i = 1 THEN 1 ELSE Round(f[i - 1], n, g[i - 1])
  <2> DEFINE j == Len(f) + 1 - i
  <2>1. j \in C /\ (i = 1 <=> j = top) /\ i \in Nat
    BY <1>1
  <2>2. g[i] = F[j]
    BY Zenon
  <2>3. CASE i = 1
    BY <1>2, <1>10, <2>1, <2>2, <2>3, Zenon
  <2>4. CASE i # 1
    <3>1. j \notin stop
      BY <2>1, <2>4, Zenon
    <3>2. j + 1 \in C /\ top - j = i - 1 /\ i - 1 \in 1 .. Len(f) + 1 /\ Len(f) + 1 - (i - 1) = j + 1
      BY <1>1, <2>1, <2>4
    <3>3. g[i - 1] = F[j + 1]
      BY <3>2, Zenon
    <3> HIDE DEF g, j
    <3>4. F[j] = T[j][F[j + 1]] /\ F[j + 1] \in Nat
      BY <1>2, <1>10, <2>1, <3>1, <3>2, Zenon
    <3>5. F[j] = Round(f[top - j], n, F[j + 1])
      BY <1>2, <2>1, <3>4, Zenon
    <3>6. F[j] = Round(f[i - 1], n, g[i - 1])
      BY <3>2, <3>3, <3>5, Zenon
    <3>7. QED BY <2>2, <2>4, <3>6, Zenon
  <2>5. QED BY <2>3, <2>4, Zenon
<1>12. g = [i \in 1 .. Len(f) + 1 |-> g[i]]
  BY Zenon
<1> HIDE DEF g
<1>13. g = CurBody(f, n, g)
  BY <1>11, <1>12, Zenon DEF CurBody
<1>14. QED BY <1>13, Zenon

\* g is curn: where the loop is in the name at each character of the filter.
IsCur(g, f, n) ==
  /\ g[1] = 1 /\ \A i \in 1 .. Len(f) + 1 : g[i] \in Nat
  /\ \A i \in 1 .. Len(f) : g[i + 1] = Round(f[i], n, g[i])

\* isTopicMatched asks for the end of the name at the end of the filter.
LEMMA CurIs ==
  ASSUME NEW S, NEW f \in Seq(S), NEW n \in Seq(S)
  PROVE  \E g : IsCur(g, f, n) /\ (isTopicMatched(f, n) <=> g[Len(f) + 1] = Len(n) + 1)
<1> DEFINE g == CHOOSE h : h = CurBody(f, n, h)
<1>1. g = CurBody(f, n, g)
  BY CurExists, Zenon
<1>2. isTopicMatched(f, n) <=> g[Len(f) + 1] = Len(n) + 1
  BY Zenon DEF isTopicMatched, CurBody
<1> HIDE DEF g
<1>3. \A i \in 1 .. Len(f) + 1 : g[i] = IF i = 1 THEN 1 ELSE Round(f[i - 1], n, g[i - 1])
  BY <1>1, Zenon DEF CurBody
<1>4. 1 \in 1 .. Len(f) + 1 /\ 1 \in Nat
  OBVIOUS
<1>5. g[1] = 1
  BY <1>3, <1>4, Zenon
<1>6. ASSUME NEW i \in 1 .. Len(f)
      PROVE  g[i + 1] = Round(f[i], n, g[i])
  <2>1. i + 1 \in 1 .. Len(f) + 1 /\ i + 1 # 1 /\ i + 1 - 1 = i
    OBVIOUS
  <2> DEFINE k == i + 1
  <2> HIDE DEF k
  <2>k. k \in 1 .. Len(f) + 1 /\ k # 1
    BY <2>1, Zenon DEF k
  <2>2. g[k] = Round(f[k - 1], n, g[k - 1])
    BY <1>3, <2>k, Zenon
  <2>3. k - 1 = i /\ k = i + 1
    BY SMT DEF k
  <2>4. QED BY <2>2, <2>3, Zenon
<1> DEFINE P == {k \in Nat : g[k] \in Nat}
           top == Len(f) + 1
<1>7. 1 \in P /\ top \in Nat
  BY <1>4, <1>5
<1>8. ASSUME NEW i \in 1 .. top, i \in P, i < top
      PROVE  i + 1 \in P
  <2>1. i \in 1 .. Len(f) /\ i + 1 \in Nat /\ g[i] \in Nat
    BY <1>8
  <2> DEFINE c == f[i]
             at == g[i]
  <2>2. g[i + 1] = Round(c, n, at) /\ at \in Nat
    BY <1>6, <2>1, Zenon
  <2> HIDE DEF c, at
  <2>3. Round(c, n, at) \in Nat
    BY <2>2, RoundRange, Zenon
  <2>4. QED BY <2>1, <2>2, <2>3, Zenon
<1>9. \A i \in 1 .. top : i \in P
  <2> HIDE DEF P, top
  <2>1. QED BY <1>4, <1>7, <1>8, Upward, Zenon
<1>10. IsCur(g, f, n)
  BY <1>5, <1>6, <1>9, Zenon DEF IsCur
<1>11. QED BY <1>2, <1>10, Zenon

\* Once the loop has ended it has no position.
LEMMA EndedStays ==
  ASSUME NEW S, NEW f \in Seq(S), NEW n, NEW g, IsCur(g, f, n), NEW i \in 1 .. Len(f) + 1, g[i] = 0
  PROVE  g[Len(f) + 1] = 0
<1> DEFINE P == {k \in Nat : g[k] = 0}
           top == Len(f) + 1
<1>1. i \in Nat /\ i \in P /\ top \in Nat /\ top \in i .. top
  OBVIOUS
<1>2. ASSUME NEW k \in i .. top, k \in P, k < top
      PROVE  k + 1 \in P
  <2>1. k \in 1 .. Len(f) /\ k + 1 \in Nat /\ g[k] = 0
    BY <1>2
  <2>2. g[k + 1] = Round(f[k], n, g[k])
    BY <2>1, Zenon DEF IsCur
  <2>3. Ends(f[k], n, g[k])
    BY <2>1, Zenon DEF Ends
  <2>4. QED BY <2>1, <2>2, <2>3, RoundEnds, Zenon
<1>3. \A k \in i .. top : k \in P
  <2> HIDE DEF P, top
  <2>1. QED BY <1>1, <1>2, Upward, Zenon
<1>4. QED BY <1>1, <1>3, Zenon

\* A loop that ends before the filter does gives 0.
LEMMA Broken ==
  ASSUME NEW S, NEW f \in Seq(S), NEW n \in Seq(S), NEW g, IsCur(g, f, n), NEW i \in 1 .. Len(f), NEW at, g[i] = at,
         Ends(f[i], n, at)
  PROVE  g[Len(f) + 1] # Len(n) + 1
<1>1. g[i + 1] = 0
  <2>1. g[i + 1] = Round(f[i], n, at)
    BY Zenon DEF IsCur
  <2>2. Round(f[i], n, at) = 0
    BY RoundEnds, Zenon
  <2>3. QED BY <2>1, <2>2, Zenon
<1>2. i + 1 \in 1 .. Len(f) + 1 /\ 0 # Len(n) + 1
  OBVIOUS
<1>3. g[Len(f) + 1] = 0
  BY <1>1, <1>2, EndedStays, Zenon
<1>4. QED BY <1>2, <1>3, Zenon

\* The next m characters of the filter are those of the name, no wildcard among
\* them.
Same(g, f, n, i, j, m) ==
  /\ i \in Nat /\ j \in Nat /\ m \in Nat /\ i + m <= Len(f) /\ j + m <= Len(n) /\ g[i + 1] = j + 1
  /\ \A k \in 1 .. m : f[i + k] = n[j + k] /\ f[i + k] \notin {"+", "#"}

\* The premises of Copies.
Copied(g, f, n, i, j, m, u, w, S) ==
  /\ f \in Seq(S) /\ n \in Seq(S) /\ IsCur(g, f, n) /\ Same(g, f, n, i, j, m)
  /\ u = i + m + 1 /\ w = j + m + 1

\* The loop takes m equal characters in m rounds.
LEMMA Copies ==
  ASSUME NEW S, NEW f, NEW n, NEW g, NEW i, NEW j, NEW m, NEW u, NEW w, Copied(g, f, n, i, j, m, u, w, S)
  PROVE  g[u] = w
<1> USE DEF Same, Copied
<1> DEFINE P == {k \in Nat : g[i + k + 1] = j + k + 1}
<1>1. 0 \in Nat /\ m \in Nat /\ m \in 0 .. m
  OBVIOUS
<1>2. 0 \in P
  <2>1. i + 0 + 1 = i + 1 /\ j + 0 + 1 = j + 1
    OBVIOUS
  <2>2. QED BY <1>1, <2>1, Zenon
<1>3. ASSUME NEW k \in 0 .. m, k \in P, k < m
      PROVE  k + 1 \in P
  <2> DEFINE p == i + k + 1
             q == j + k + 1
  <2>1. /\ p \in 1 .. Len(f) /\ q \in Nat /\ k + 1 \in 1 .. m /\ k + 1 \in Nat /\ p = i + (k + 1) /\ q = j + (k + 1)
        /\ i + (k + 1) + 1 = p + 1 /\ j + (k + 1) + 1 = q + 1 /\ q # 0 /\ ~ (q > Len(n))
    BY <1>3
  <2>2. f[p] = n[q] /\ f[p] \notin {"+", "#"}
    BY <2>1, Zenon
  <2>3. g[p] = q
    BY <1>3, Zenon
  <2> HIDE DEF p, q
  <2>4. g[p + 1] = Round(f[p], n, q)
    BY <2>1, <2>3, Zenon DEF IsCur
  <2>5. ~ Ends(f[p], n, q)
    BY <2>1, <2>2, Zenon DEF Ends
  <2>6. f[p] # "+" /\ f[p] # "#"
    BY <2>2, Zenon
  <2> DEFINE c == f[p]
  <2> HIDE DEF c
  <2>7. Round(c, n, q) = q + 1
    <3>1. ~ Ends(c, n, q) /\ c # "+" /\ c # "#"
      BY <2>5, <2>6, Zenon DEF c
    <3>2. QED BY ONLY <3>1, RoundGoes, SMT
  <2>8. g[p + 1] = q + 1
    BY <2>4, <2>7, Zenon DEF c
  <2>9. QED BY <2>1, <2>8, Zenon
<1>4. \A k \in 0 .. m : k \in P
  <2> HIDE DEF P
  <2>1. QED BY <1>1, <1>2, <1>3, Upward, Zenon
<1>5. QED BY <1>1, <1>4, Zenon

\* A level without wildcards.
Literal(x) == \A k \in 1 .. Len(x) : x[k] \notin {"+", "#"}

\* x is the level of s after cut i, and u is the next cut.
Spans(s, i, u, x, S) ==
  /\ s \in Seq(S) /\ x \in Seq(S) /\ i \in Nat /\ u \in Nat /\ i < u /\ u <= Len(s) + 1 /\ Len(s) \in Nat
  /\ Len(x) \in Nat /\ u = i + Len(x) + 1 /\ i + Len(x) <= Len(s)
  /\ u = Len(s) + 1 \/ (u \in 1 .. Len(s) /\ s[u] = "/")
  /\ \A k \in 1 .. Len(x) : x[k] = s[i + k] /\ i + k \in 1 .. Len(s) /\ s[i + k] # "/"

\* Each cut but the last begins a level.
LEMMA SpansOf ==
  ASSUME NEW S, NEW s \in Seq(S), NEW i \in Cut(s), i # Len(s) + 1
  PROVE  Spans(s, i, UpTo(s, i), Level(s, i), S)
<1> DEFINE u == UpTo(s, i)
           x == Level(s, i)
           l == Len(x)
<1>1. /\ u \in Nat /\ i < u /\ u <= Len(s) + 1 /\ i \in Nat /\ Len(s) \in Nat
      /\ u = Len(s) + 1 \/ s[u] = "/"
      /\ \A k \in i + 1 .. u - 1 : s[k] # "/"
  BY UpToIs, CutIs, Zenon
<1>2. x \in Seq(S) /\ l = u - 1 - i /\ \A k \in 1 .. u - 1 - i : x[k] = s[i + k]
  BY LevelIs, Zenon
<1> HIDE DEF u, x
<1>3. l \in Nat /\ u = i + l + 1 /\ i + l <= Len(s) /\ (u # Len(s) + 1 => u \in 1 .. Len(s))
  <2>1. l = u - 1 - i
    BY <1>2, Zenon
  <2> HIDE DEF l
  <2>2. QED BY <1>1, <2>1
<1>4. ASSUME NEW k \in 1 .. l
      PROVE  x[k] = s[i + k] /\ i + k \in 1 .. Len(s) /\ s[i + k] # "/"
  <2>1. l = u - 1 - i
    BY <1>2, Zenon
  <2>2. k \in 1 .. u - 1 - i
    BY <2>1, Zenon
  <2> HIDE DEF l
  <2>3. i + k \in i + 1 .. u - 1 /\ i + k \in 1 .. Len(s)
    BY <1>1, <2>2
  <2>4. QED BY <1>1, <1>2, <2>2, <2>3, Zenon
<1>5. QED BY <1>1, <1>2, <1>3, <1>4, Zenon DEF Spans, u, x

\* The loop is at the beginning of level x of the filter and y of the name.
Meet(g, f, n, i, j, u, w, x, y, S) ==
  IsCur(g, f, n) /\ Spans(f, i, u, x, S) /\ Spans(n, j, w, y, S) /\ g[i + 1] = j + 1

\* The loop takes two equal levels together.
LEMMA LiteralSame ==
  ASSUME NEW S, NEW f, NEW n, NEW g, NEW i, NEW j, NEW u, NEW w, NEW x, NEW y,
         Meet(g, f, n, i, j, u, w, x, y, S), Literal(x), x = y
  PROVE  g[u] = w
<1> DEFINE m == Len(x)
<1>1. f \in Seq(S) /\ n \in Seq(S) /\ i \in Nat /\ j \in Nat /\ m \in Nat /\ i + m <= Len(f) /\ j + m <= Len(n)
  BY Zenon DEF Meet, Spans
<1>2. u = i + m + 1 /\ w = j + m + 1
  BY Zenon DEF Meet, Spans
<1>3. \A k \in 1 .. m : f[i + k] = n[j + k] /\ f[i + k] \notin {"+", "#"}
  BY Zenon DEF Meet, Spans, Literal
<1>4. Same(g, f, n, i, j, m)
  BY <1>1, <1>3, Zenon DEF Meet, Same
<1>c. IsCur(g, f, n)
  BY Zenon DEF Meet
<1> HIDE DEF m
<1>5. Copied(g, f, n, i, j, m, u, w, S)
  BY ONLY <1>1, <1>2, <1>4, <1>c, Zenon DEF Copied
<1>6. QED BY ONLY <1>5, Copies, Zenon

\* Two levels of the same length and characters are equal.
LEMMA EqualSeqs ==
  ASSUME NEW S, NEW x \in Seq(S), NEW y \in Seq(S), Len(x) = Len(y), \A k \in 1 .. Len(x) : x[k] = y[k]
  PROVE  x = y
OBVIOUS

\* k is the first place of x that y does not have as well.
FirstOff(x, y, k) ==
  /\ k \in 1 .. Len(x) /\ \A l \in 1 .. k - 1 : l \in 1 .. Len(y) /\ x[l] = y[l]
  /\ ~ (k \in 1 .. Len(y) /\ x[k] = y[k])

\* A character of the filter's level that the name's does not have ends the
\* loop: the characters differ, or the name is at a separator or its end.
LEMMA LiteralStops ==
  ASSUME NEW S, NEW f, NEW n, NEW g, NEW i, NEW j, NEW u, NEW w, NEW x, NEW y,
         Meet(g, f, n, i, j, u, w, x, y, S), Literal(x), NEW k, FirstOff(x, y, k)
  PROVE  g[Len(f) + 1] # Len(n) + 1
<1> USE DEF FirstOff
<1>1. /\ f \in Seq(S) /\ n \in Seq(S) /\ i \in Nat /\ j \in Nat /\ Len(x) \in Nat /\ Len(y) \in Nat /\ Len(n) \in Nat
      /\ i + Len(x) <= Len(f) /\ j + Len(y) <= Len(n) /\ w = j + Len(y) + 1
      /\ w = Len(n) + 1 \/ (w \in 1 .. Len(n) /\ n[w] = "/")
  BY Zenon DEF Meet, Spans
<1>2. \A l \in 1 .. Len(x) : x[l] = f[i + l] /\ f[i + l] # "/" /\ x[l] \notin {"+", "#"}
  BY Zenon DEF Meet, Spans, Literal
<1>3. \A l \in 1 .. Len(y) : y[l] = n[j + l]
  BY Zenon DEF Meet, Spans
<1> DEFINE m == k - 1
           p == i + k
           q == j + k
<1>4. m \in Nat /\ \A l \in 1 .. m : l \in 1 .. Len(x)
  BY <1>1
<1>5. m <= Len(y)
  <2>1. CASE m = 0
    BY <1>1, <2>1
  <2>2. CASE m # 0
    <3>1. m \in 1 .. k - 1
      BY <1>1, <2>2
    <3>2. m \in 1 .. Len(y)
      BY <3>1, Zenon
    <3>3. QED BY <1>1, <3>2
  <2>3. QED BY <2>1, <2>2
<1>6. i + m <= Len(f) /\ j + m <= Len(n) /\ i + m + 1 = p /\ j + m + 1 = q /\ p \in 1 .. Len(f) /\ q \in Nat /\ q # 0
  BY <1>1, <1>5
<1>7. \A l \in 1 .. m : f[i + l] = n[j + l] /\ f[i + l] \notin {"+", "#"}
  BY <1>2, <1>3, <1>4, Zenon
<1>8. g[p] = q
  <2>1. Same(g, f, n, i, j, m)
    BY <1>1, <1>4, <1>6, <1>7, Zenon DEF Meet, Same
  <2>c. IsCur(g, f, n)
    BY Zenon DEF Meet
  <2>2. p = i + m + 1 /\ q = j + m + 1
    BY <1>6, Zenon
  <2> HIDE DEF m, p, q
  <2>3. Copied(g, f, n, i, j, m, p, q, S)
    BY ONLY <1>1, <2>1, <2>2, <2>c, Zenon DEF Copied
  <2>4. QED BY ONLY <2>3, Copies, Zenon
<1>9. f[p] # "/" /\ f[p] \notin {"+", "#"} /\ f[p] = x[k]
  BY <1>2, Zenon
<1>10. Ends(f[p], n, q)
  <2>1. CASE k \in 1 .. Len(y)
    <3>1. y[k] = n[q] /\ x[k] # y[k]
      BY <1>3, <2>1, Zenon
    <3>2. QED BY <1>9, <3>1, Zenon DEF Ends
  <2>2. CASE k \notin 1 .. Len(y)
    <3>0. k \in 1 .. Len(x)
      OBVIOUS
    <3>1. q = w /\ (w = Len(n) + 1 => q > Len(n))
      <4>1. j \in Nat /\ Len(x) \in Nat /\ Len(y) \in Nat /\ Len(n) \in Nat /\ w = j + Len(y) + 1
        BY <1>1, Zenon
      <4> DEFINE a == Len(x)
                 b == Len(y)
                 c == Len(n)
      <4> HIDE DEF a, b, c
      <4>2. j \in Nat /\ a \in Nat /\ b \in Nat /\ c \in Nat /\ w = j + b + 1 /\ k \in 1 .. a /\ k \notin 1 .. b /\ m <= b
        BY <1>5, <2>2, <3>0, <4>1, Zenon DEF a, b, c
      <4>3. q = w /\ (w = c + 1 => q > c)
        BY ONLY <4>2, SMT
      <4>4. QED BY <4>3, Zenon DEF c
    <3>2. QED BY <1>1, <1>9, <3>1, Zenon DEF Ends
  <2>3. QED BY <2>1, <2>2, Zenon
<1> HIDE DEF p, q
<1>11. QED BY <1>1, <1>6, <1>8, <1>10, Broken, Zenon DEF Meet

\* A level without wildcards that is not the name's ends the loop: at the first
\* character off, or at the filter's separator when the name's level is longer.
LEMMA LiteralDiffers ==
  ASSUME NEW S, NEW f, NEW n, NEW g, NEW i, NEW j, NEW u, NEW w, NEW x, NEW y,
         Meet(g, f, n, i, j, u, w, x, y, S), Literal(x), x # y
  PROVE  g[Len(f) + 1] # Len(n) + 1
<1> DEFINE T == {k \in 1 .. Len(x) : ~ (k \in 1 .. Len(y) /\ x[k] = y[k])}
<1>1. CASE T # {}
  <2>1. T \in SUBSET Nat
    OBVIOUS
  <2>2. PICK k \in T : \A l \in T : ~ (l < k)
    BY <1>1, <2>1, LeastNat, Zenon
  <2>3. k \in 1 .. Len(x) /\ ~ (k \in 1 .. Len(y) /\ x[k] = y[k])
    BY <2>2, Zenon
  <2>4. ASSUME NEW l \in 1 .. k - 1
        PROVE  l \in 1 .. Len(y) /\ x[l] = y[l]
    <3>0. Len(x) \in Nat
      BY Zenon DEF Meet, Spans
    <3>1. l \in 1 .. Len(x) /\ l < k
      BY <2>3, <3>0
    <3>2. l \notin T
      BY <2>2, <3>1, Zenon
    <3>3. QED BY <3>1, <3>2, Zenon
  <2> HIDE DEF T
  <2>5. FirstOff(x, y, k)
    BY <2>3, <2>4, Zenon DEF FirstOff
  <2>6. QED BY ONLY <2>5, LiteralStops, Zenon, Meet(g, f, n, i, j, u, w, x, y, S), Literal(x)
<1>2. CASE T = {}
  <2>1. \A k \in 1 .. Len(x) : k \in 1 .. Len(y) /\ x[k] = y[k]
    BY <1>2, Zenon
  <2> HIDE DEF T
  <2>2. /\ f \in Seq(S) /\ n \in Seq(S) /\ x \in Seq(S) /\ y \in Seq(S) /\ i \in Nat /\ j \in Nat
        /\ Len(x) \in Nat /\ Len(y) \in Nat /\ Len(n) \in Nat /\ Len(f) \in Nat
        /\ i + Len(x) <= Len(f) /\ j + Len(y) <= Len(n) /\ u = i + Len(x) + 1
        /\ u = Len(f) + 1 \/ (u \in 1 .. Len(f) /\ f[u] = "/")
    BY Zenon DEF Meet, Spans
  <2>3. Len(x) # Len(y)
    BY <2>1, <2>2, EqualSeqs, Zenon
  <2>4. Len(x) < Len(y)
    <3>1. CASE Len(x) = 0
      BY <2>2, <2>3, <3>1
    <3>2. CASE Len(x) # 0
      <4>1. Len(x) \in 1 .. Len(x)
        BY <2>2, <3>2
      <4>2. Len(x) \in 1 .. Len(y)
        BY <2>1, <4>1, Zenon
      <4>3. QED BY <2>2, <2>3, <4>2
    <3>3. QED BY <3>1, <3>2, Zenon
  <2> DEFINE m == Len(x)
             q == j + m + 1
  <2>5. /\ m \in Nat /\ i + m <= Len(f) /\ j + m <= Len(n) /\ u = i + m + 1 /\ q = j + m + 1
        /\ m + 1 \in 1 .. Len(y) /\ q = j + (m + 1) /\ q \in Nat /\ q # Len(n) + 1
    BY <2>2, <2>4
  <2>6. \A k \in 1 .. m : f[i + k] = n[j + k] /\ f[i + k] \notin {"+", "#"}
    BY <2>1, Zenon DEF Meet, Spans, Literal
  <2>7. n[q] # "/"
    <3>1. \A k \in 1 .. Len(y) : n[j + k] # "/"
      BY Zenon DEF Meet, Spans
    <3>2. n[j + (m + 1)] # "/"
      BY <2>5, <3>1, Zenon
    <3>3. QED BY <2>5, <3>2, Zenon
  <2>c. IsCur(g, f, n) /\ g[i + 1] = j + 1
    BY Zenon DEF Meet
  <2> HIDE DEF m, q
  <2>8. Same(g, f, n, i, j, m)
    BY <2>2, <2>5, <2>6, <2>c, Zenon DEF Same
  <2>9. Copied(g, f, n, i, j, m, u, q, S)
    BY ONLY <2>2, <2>5, <2>8, <2>c, Zenon DEF Copied
  <2>10. g[u] = q
    BY ONLY <2>9, Copies, Zenon
  <2>11. CASE u = Len(f) + 1
    BY <2>5, <2>10, <2>11, Zenon
  <2>12. CASE u # Len(f) + 1
    <3>1. u \in 1 .. Len(f) /\ f[u] = "/"
      BY <2>2, <2>12, Zenon
    <3>2. Ends(f[u], n, q)
      <4>1. "/" # "+" /\ "/" # "#"
        OBVIOUS
      <4>2. QED BY <2>7, <3>1, <4>1, Zenon DEF Ends
    <3>3. QED BY ONLY <2>2, <2>10, <2>c, <3>1, <3>2, Broken, Zenon
  <2>13. QED BY <2>11, <2>12, Zenon
<1>3. QED BY <1>1, <1>2, Zenon

\* Neither wildcard takes an empty level: the loop looks at the name's separator
\* or end before it looks at the wildcard.
LEMMA WildcardStops ==
  ASSUME NEW S, NEW f, NEW n, NEW g, NEW i, NEW j, NEW u, NEW w, NEW x, NEW y,
         Meet(g, f, n, i, j, u, w, x, y, S), x \in {<<"+">>, <<"#">>}, y = <<>>
  PROVE  g[Len(f) + 1] # Len(n) + 1
<1>1. Len(x) = 1 /\ x[1] \in {"+", "#"} /\ Len(y) = 0 /\ 1 \in 1 .. Len(x)
  OBVIOUS
<1>2. /\ f \in Seq(S) /\ n \in Seq(S) /\ i \in Nat /\ j \in Nat /\ Len(n) \in Nat /\ w = j + Len(y) + 1
      /\ w = Len(n) + 1 \/ (w \in 1 .. Len(n) /\ n[w] = "/")
      /\ i + 1 \in 1 .. Len(f) /\ x[1] = f[i + 1]
  BY <1>1, Zenon DEF Meet, Spans
<1>3. w = j + 1 /\ (w = Len(n) + 1 => w > Len(n)) /\ "/" # "+" /\ "/" # "#"
  BY <1>1, <1>2
<1> DEFINE p == i + 1
<1>4. IsCur(g, f, n) /\ g[p] = w /\ p \in 1 .. Len(f) /\ f[p] \in {"+", "#"}
  BY <1>1, <1>2, <1>3, Zenon DEF Meet
<1> HIDE DEF p
<1>5. Ends(f[p], n, w)
  BY <1>2, <1>3, <1>4, Zenon DEF Ends
<1>6. QED BY ONLY <1>2, <1>4, <1>5, Broken, Zenon

\* '+' takes a level that is not empty, and no more.
LEMMA PlusTakes ==
  ASSUME NEW S, NEW f, NEW n, NEW g, NEW i, NEW j, NEW u, NEW w, NEW x, NEW y,
         Meet(g, f, n, i, j, u, w, x, y, S), x = <<"+">>, y # <<>>
  PROVE  g[u] = w
<1>1. Len(x) = 1 /\ x[1] = "+" /\ 1 \in 1 .. Len(x) /\ "/" # "+" /\ "+" # "#"
  OBVIOUS
<1>2. /\ f \in Seq(S) /\ n \in Seq(S) /\ y \in Seq(S) /\ i \in Nat /\ j \in Nat /\ w \in Nat
      /\ Len(n) \in Nat /\ Len(y) \in Nat /\ w = j + Len(y) + 1 /\ j + Len(y) <= Len(n) /\ u = i + Len(x) + 1
      /\ w = Len(n) + 1 \/ n[w] = "/"
      /\ i + 1 \in 1 .. Len(f) /\ f[i + 1] = "+"
  BY <1>1, Zenon DEF Meet, Spans
<1>3. \A k \in 1 .. Len(y) : n[j + k] # "/"
  BY Zenon DEF Meet, Spans
<1>4. Len(y) # 0
  <2>1. y \in Seq(S) /\ y # <<>>
    BY <1>2, Zenon
  <2>2. QED BY ONLY <2>1
<1> DEFINE q == j + 1
           p == i + 1
<1>5. q \in 1 .. Len(n) /\ q < w /\ w <= Len(n) + 1 /\ 1 \in 1 .. Len(y) /\ u = p + 1 /\ q \in Nat /\ q # 0 /\ ~ (q > Len(n))
  <2>1. i \in Nat /\ j \in Nat /\ Len(n) \in Nat /\ Len(y) \in Nat /\ w = j + Len(y) + 1 /\ j + Len(y) <= Len(n) /\ u = i + Len(x) + 1
    BY <1>2, Zenon
  <2>2. QED BY ONLY <1>1, <1>4, <2>1, SMT
<1>6. n[q] # "/"
  BY <1>3, <1>5, Zenon
<1>7. ASSUME NEW k \in q + 1 .. w - 1
      PROVE  n[k] # "/"
  <2>1. k - j \in 1 .. Len(y) /\ j + (k - j) = k
    <3>1. j \in Nat /\ Len(y) \in Nat /\ w = j + Len(y) + 1
      BY <1>2, Zenon
    <3>2. QED BY ONLY <3>1, k \in q + 1 .. w - 1, SMT
  <2>2. n[j + (k - j)] # "/"
    BY <1>3, <2>1, Zenon
  <2>3. QED BY <2>1, <2>2, Zenon
<1>8. IsCur(g, f, n) /\ g[p] = q /\ p \in 1 .. Len(f) /\ f[p] = "+"
  BY <1>2, Zenon DEF Meet
<1> HIDE DEF p, q
<1>9. PlusEnd(n, q) = w - 1
  BY ONLY <1>2, <1>5, <1>7, PlusEndIs, Zenon
<1>10. g[u] = Round("+", n, q)
  BY <1>5, <1>8, Zenon DEF IsCur
<1>11. ~ Ends("+", n, q)
  BY <1>1, <1>5, <1>6, Zenon DEF Ends
<1>12. Round("+", n, q) = PlusEnd(n, q) + 1
  BY ONLY <1>11, RoundGoes, SMT
<1>13. PlusEnd(n, q) + 1 = w
  <2>1. w \in Nat
    BY <1>2, Zenon
  <2>2. QED BY ONLY <1>9, <2>1, SMT
<1>14. QED BY <1>10, <1>12, <1>13, Zenon

\* '#' takes all that is left of the name when there is a character left in
\* the level.
LEMMA HashTakes ==
  ASSUME NEW S, NEW f, NEW n, NEW g, NEW i, NEW j, NEW u, NEW w, NEW x, NEW y,
         Meet(g, f, n, i, j, u, w, x, y, S), x = <<"#">>, y # <<>>
  PROVE  g[u] = Len(n) + 1
<1>1. Len(x) = 1 /\ x[1] = "#" /\ 1 \in 1 .. Len(x) /\ "/" # "#" /\ "+" # "#"
  OBVIOUS
<1>2. /\ f \in Seq(S) /\ n \in Seq(S) /\ y \in Seq(S) /\ i \in Nat /\ j \in Nat
      /\ Len(n) \in Nat /\ Len(y) \in Nat /\ j + Len(y) <= Len(n) /\ u = i + Len(x) + 1
      /\ i + 1 \in 1 .. Len(f) /\ f[i + 1] = "#"
  BY <1>1, Zenon DEF Meet, Spans
<1>3. \A k \in 1 .. Len(y) : n[j + k] # "/"
  BY Zenon DEF Meet, Spans
<1>4. Len(y) # 0
  <2>1. y \in Seq(S) /\ y # <<>>
    BY <1>2, Zenon
  <2>2. QED BY ONLY <2>1
<1> DEFINE q == j + 1
           p == i + 1
<1>5. 1 \in 1 .. Len(y) /\ u = p + 1 /\ q # 0 /\ ~ (q > Len(n))
  <2>1. i \in Nat /\ j \in Nat /\ Len(n) \in Nat /\ Len(y) \in Nat /\ j + Len(y) <= Len(n) /\ u = i + Len(x) + 1
    BY <1>2, Zenon
  <2>2. QED BY ONLY <1>1, <1>4, <2>1, SMT
<1>6. n[q] # "/"
  BY <1>3, <1>5, Zenon
<1>7. IsCur(g, f, n) /\ g[p] = q /\ p \in 1 .. Len(f) /\ f[p] = "#"
  BY <1>2, Zenon DEF Meet
<1> HIDE DEF p, q
<1>8. g[u] = Round("#", n, q)
  BY <1>5, <1>7, Zenon DEF IsCur
<1>9. ~ Ends("#", n, q)
  BY <1>1, <1>5, <1>6, Zenon DEF Ends
<1>10. Round("#", n, q) = Len(n) + 1
  BY ONLY <1>9, RoundGoes, SMT
<1>11. QED BY <1>8, <1>10, Zenon

\* From the end of a level: a name that is at its end is too short, and two
\* separators are taken together.
Crosses(g, f, n, u, w) ==
  /\ w = Len(n) + 1 => g[Len(f) + 1] # Len(n) + 1
  /\ w # Len(n) + 1 => g[u + 1] = w + 1

\* The loop goes from a level to the next as Crosses says.
LEMMA Boundary ==
  ASSUME NEW S, NEW f, NEW n, NEW g, NEW i, NEW j, NEW u, NEW w, NEW x, NEW y,
         Meet(g, f, n, i, j, u, w, x, y, S), g[u] = w, u # Len(f) + 1
  PROVE  Crosses(g, f, n, u, w)
<1> USE DEF Crosses
<1>1. /\ f \in Seq(S) /\ n \in Seq(S) /\ IsCur(g, f, n) /\ u \in 1 .. Len(f) /\ f[u] = "/" /\ Len(n) \in Nat
      /\ w # Len(n) + 1 => w \in 1 .. Len(n) /\ n[w] = "/"
  BY Zenon DEF Meet, Spans
<1>2. CASE w = Len(n) + 1
  <2>1. w > Len(n)
    BY <1>1, <1>2
  <2>2. Ends(f[u], n, w)
    BY <2>1, Zenon DEF Ends
  <2>3. g[Len(f) + 1] # Len(n) + 1
    BY ONLY <1>1, <2>2, Broken, Zenon, g[u] = w
  <2>4. QED BY <1>2, <2>3, Zenon
<1>3. CASE w # Len(n) + 1
  <2>1. w \in 1 .. Len(n) /\ n[w] = "/"
    BY <1>1, <1>3, Zenon
  <2>2. w # 0 /\ ~ (w > Len(n)) /\ "/" # "+" /\ "/" # "#"
    BY <1>1, <2>1
  <2>3. ~ Ends("/", n, w)
    BY <2>1, <2>2, Zenon DEF Ends
  <2> DEFINE c == "/"
  <2>4. ~ Ends(c, n, w) /\ c # "+" /\ c # "#"
    BY <2>2, <2>3, Zenon
  <2> HIDE DEF c
  <2>5. Round(c, n, w) = w + 1
    BY ONLY <2>4, RoundGoes, SMT
  <2>6. g[u + 1] = Round(c, n, w)
    BY <1>1, Zenon DEF IsCur, c
  <2>7. QED BY <1>3, <2>5, <2>6, Zenon
<1>4. QED BY <1>2, <1>3, Zenon

\* What the loop asks of a level of the filter and one of the name.
OK(x, y) == LevelMatches(x, y) /\ (x \in {<<"+">>, <<"#">>} => y # <<>>)

\* What it asks of all of them.
Agrees(F, N) ==
  IF F[Len(F)] = <<"#">>
    THEN Len(N) >= Len(F) /\ (\A i \in 1 .. Len(F) - 1 : OK(F[i], N[i])) /\ N[Len(F)] # <<>>
    ELSE Len(N) = Len(F) /\ \A i \in 1 .. Len(F) : OK(F[i], N[i])

\* "in correct format": a wildcard is a whole level, and '#' is the last.
Good(F) ==
  \A i \in 1 .. Len(F) : /\ F[i] = <<"+">> \/ F[i] = <<"#">> \/ Literal(F[i])
                         /\ F[i] = <<"#">> => i = Len(F)

\* A level without wildcards is none of the two.
LEMMA LiteralPlain ==
  ASSUME NEW x, Literal(x)
  PROVE  x # <<"+">> /\ x # <<"#">>
<1>1. 1 \in 1 .. Len(<<"+">>) /\ <<"+">>[1] = "+" /\ 1 \in 1 .. Len(<<"#">>) /\ <<"#">>[1] = "#"
  OBVIOUS
<1>2. QED BY <1>1, Zenon DEF Literal

\* The loop takes a level other than '#' just when OK says so, and otherwise
\* isTopicMatched gives 0.
LEMMA LevelStep ==
  ASSUME NEW S, NEW f, NEW n, NEW g, NEW i, NEW j, NEW u, NEW w, NEW x, NEW y,
         Meet(g, f, n, i, j, u, w, x, y, S), x = <<"+">> \/ Literal(x)
  PROVE  /\ OK(x, y) => g[u] = w
         /\ ~ OK(x, y) => g[Len(f) + 1] # Len(n) + 1
<1>0. <<"+">> # <<"#">>
  OBVIOUS
<1>1. CASE x = <<"+">> /\ y = <<>>
  <2>1. ~ OK(x, y)
    BY <1>1, Zenon DEF OK
  <2>2. x \in {<<"+">>, <<"#">>}
    BY <1>1, Zenon
  <2>3. g[Len(f) + 1] # Len(n) + 1
    BY ONLY <1>1, <2>2, WildcardStops, Zenon, Meet(g, f, n, i, j, u, w, x, y, S)
  <2>4. QED BY <2>1, <2>3, Zenon
<1>2. CASE x = <<"+">> /\ y # <<>>
  <2>1. OK(x, y)
    BY <1>2, Zenon DEF OK, LevelMatches
  <2>2. g[u] = w
    BY ONLY <1>2, PlusTakes, Zenon, Meet(g, f, n, i, j, u, w, x, y, S)
  <2>3. QED BY <2>1, <2>2, Zenon
<1>3. CASE Literal(x) /\ x = y
  <2>1. x # <<"+">> /\ x # <<"#">>
    BY <1>3, LiteralPlain, Zenon
  <2>2. OK(x, y)
    BY <1>3, <2>1, Zenon DEF OK, LevelMatches
  <2>3. g[u] = w
    BY ONLY <1>3, LiteralSame, Zenon, Meet(g, f, n, i, j, u, w, x, y, S)
  <2>4. QED BY <2>2, <2>3, Zenon
<1>4. CASE Literal(x) /\ x # y
  <2>1. x # <<"+">> /\ x # <<"#">>
    BY <1>4, LiteralPlain, Zenon
  <2>2. ~ OK(x, y)
    BY <1>4, <2>1, Zenon DEF OK, LevelMatches
  <2>3. g[Len(f) + 1] # Len(n) + 1
    BY ONLY <1>4, LiteralDiffers, Zenon, Meet(g, f, n, i, j, u, w, x, y, S)
  <2>4. QED BY <2>2, <2>3, Zenon
<1>5. QED BY <1>1, <1>2, <1>3, <1>4, Zenon

\* N is x followed by M.
Leads(x, M, N, U) == x \in U /\ M \in Seq(U) /\ N = <<x>> \o M

\* The length and the members of such a sequence.
LEMMA Begins ==
  ASSUME NEW U, NEW x, NEW M, NEW N, Leads(x, M, N, U)
  PROVE  /\ N \in Seq(U) /\ Len(M) \in Nat /\ Len(N) = Len(M) + 1 /\ N[1] = x /\ N # <<>>
         /\ \A i \in 1 .. Len(M) : N[i + 1] = M[i]
BY DEF Leads

\* Agrees for a filter of one level.
LEMMA AgreesLast ==
  ASSUME NEW U, NEW x, NEW y, NEW F, F = <<x>> \o <<>>, NEW M, NEW N, Leads(y, M, N, U)
  PROVE  /\ x = <<"#">> => (Agrees(F, N) <=> y # <<>>)
         /\ x # <<"#">> => (Agrees(F, N) <=> OK(x, y) /\ M = <<>>)
<1>1. Len(F) = 1 /\ F[1] = x /\ (\A i \in 1 .. Len(F) - 1 : FALSE) /\ \A i \in 1 .. 1 : i = 1
  OBVIOUS
<1>2. Len(M) \in Nat /\ Len(N) = Len(M) + 1 /\ N[1] = y
  BY Begins, SMT
<1>3. Len(N) >= Len(F) /\ (Len(N) = Len(F) <=> Len(M) = 0) /\ 1 \in 1 .. 1
  BY <1>1, <1>2
<1>4. Len(M) = 0 <=> M = <<>>
  BY DEF Leads
<1>5. x = <<"#">> => (Agrees(F, N) <=> y # <<>>)
  BY <1>1, <1>2, <1>3, Zenon DEF Agrees
<1>6. x # <<"#">> => (Agrees(F, N) <=> OK(x, y) /\ M = <<>>)
  BY <1>1, <1>2, <1>3, <1>4, Zenon DEF Agrees
<1>7. QED BY <1>5, <1>6, Zenon

\* Agrees for a filter of more levels: its first level and the others.
LEMMA AgreesMore ==
  ASSUME NEW U, NEW x, NEW y, NEW G, NEW F, Leads(x, G, F, U), G # <<>>, NEW M, NEW N, Leads(y, M, N, U)
  PROVE  Agrees(F, N) <=> OK(x, y) /\ Agrees(G, M)
<1> DEFINE a == Len(G)
           b == Len(M)
<1>1. a \in Nat /\ Len(F) = a + 1 /\ F[1] = x /\ \A i \in 1 .. a : F[i + 1] = G[i]
  BY Begins, SMT
<1>2. b \in Nat /\ Len(N) = b + 1 /\ N[1] = y /\ \A i \in 1 .. b : N[i + 1] = M[i]
  BY Begins, SMT
<1>3. a # 0
  BY DEF Leads
<1> HIDE DEF a, b
<1>4. a \in 1 .. a /\ F[a + 1] = G[a]
  <2>1. a \in 1 .. a
    BY <1>1, <1>3
  <2>2. QED BY <1>1, <2>1, Zenon
<1>5. ASSUME NEW m \in Nat, m <= a, m <= b
      PROVE  (\A i \in 1 .. m + 1 : OK(F[i], N[i])) <=> OK(x, y) /\ \A i \in 1 .. m : OK(G[i], M[i])
  <2>1. ASSUME \A i \in 1 .. m + 1 : OK(F[i], N[i])
        PROVE  OK(x, y) /\ \A i \in 1 .. m : OK(G[i], M[i])
    <3>1. 1 \in 1 .. m + 1
      OBVIOUS
    <3>2. OK(x, y)
      BY <1>1, <1>2, <2>1, <3>1, Zenon
    <3>3. ASSUME NEW i \in 1 .. m
          PROVE  OK(G[i], M[i])
      <4>1. i \in 1 .. a /\ i \in 1 .. b /\ i + 1 \in 1 .. m + 1
        BY <1>1, <1>2, <1>5
      <4>2. QED BY <1>1, <1>2, <2>1, <4>1, Zenon
    <3>4. QED BY <3>2, <3>3, Zenon
  <2>2. ASSUME OK(x, y), \A i \in 1 .. m : OK(G[i], M[i]), NEW i \in 1 .. m + 1
        PROVE  OK(F[i], N[i])
    <3>1. CASE i = 1
      BY <1>1, <1>2, <2>2, <3>1, Zenon
    <3>2. CASE i # 1
      <4> DEFINE k == i - 1
      <4>1. k \in 1 .. m /\ k \in 1 .. a /\ k \in 1 .. b /\ i = k + 1
        BY <1>1, <1>2, <1>5, <3>2
      <4> HIDE DEF k
      <4>2. QED BY <1>1, <1>2, <2>2, <4>1, Zenon
    <3>3. QED BY <3>1, <3>2, Zenon
  <2>3. QED BY <2>1, <2>2, Zenon
<1>6. CASE G[a] = <<"#">>
  <2>1. Agrees(G, M) <=> b >= a /\ (\A i \in 1 .. a - 1 : OK(G[i], M[i])) /\ M[a] # <<>>
    BY <1>6, Zenon DEF Agrees, a, b
  <2>2. Agrees(F, N) <=> b + 1 >= a + 1 /\ (\A i \in 1 .. a : OK(F[i], N[i])) /\ N[a + 1] # <<>>
    <3>1. F[Len(F)] = <<"#">>
      BY <1>1, <1>4, <1>6, Zenon
    <3> DEFINE h == Len(F)
               l == Len(N)
    <3>2. Agrees(F, N) <=> l >= h /\ (\A i \in 1 .. h - 1 : OK(F[i], N[i])) /\ N[h] # <<>>
      BY <3>1, Zenon DEF Agrees
    <3>3. h = a + 1 /\ l = b + 1
      BY <1>1, <1>2, Zenon
    <3> HIDE DEF h, l
    <3>4. h - 1 = a
      BY <1>1, <3>3
    <3>5. QED BY ONLY <3>2, <3>3, <3>4, Zenon
  <2>3. CASE b >= a
    <3> DEFINE m == a - 1
    <3>1. m \in Nat /\ m <= a /\ m <= b /\ a = m + 1 /\ b + 1 >= a + 1 /\ a \in 1 .. b
      BY <1>1, <1>2, <1>3, <2>3
    <3>2. N[a + 1] = M[a]
      BY <1>2, <3>1, Zenon
    <3>3. Agrees(F, N) <=> (\A i \in 1 .. m + 1 : OK(F[i], N[i])) /\ M[a] # <<>>
      <4>1. Agrees(F, N) <=> (\A i \in 1 .. a : OK(F[i], N[i])) /\ M[a] # <<>>
        BY <2>2, <3>1, <3>2, Zenon
      <4> HIDE DEF m
      <4>2. QED BY <3>1, <4>1, Zenon
    <3>4. Agrees(G, M) <=> (\A i \in 1 .. m : OK(G[i], M[i])) /\ M[a] # <<>>
      BY <2>1, <2>3, Zenon
    <3> HIDE DEF m
    <3>5. (\A i \in 1 .. m + 1 : OK(F[i], N[i])) <=> OK(x, y) /\ \A i \in 1 .. m : OK(G[i], M[i])
      BY <1>5, <3>1, Zenon
    <3>6. QED BY <3>3, <3>4, <3>5, Zenon
  <2>4. CASE ~ (b >= a)
    <3>1. ~ (b + 1 >= a + 1)
      BY <1>1, <1>2, <2>4
    <3>2. QED BY <2>1, <2>2, <2>4, <3>1, Zenon
  <2>5. QED BY <2>3, <2>4, Zenon
<1>7. CASE G[a] # <<"#">>
  <2>1. Agrees(G, M) <=> b = a /\ (\A i \in 1 .. a : OK(G[i], M[i]))
    BY <1>7, Zenon DEF Agrees, a, b
  <2>2. Agrees(F, N) <=> b + 1 = a + 1 /\ \A i \in 1 .. a + 1 : OK(F[i], N[i])
    <3>1. F[Len(F)] # <<"#">>
      BY <1>1, <1>4, <1>7, Zenon
    <3>2. Agrees(F, N) <=> Len(N) = Len(F) /\ \A i \in 1 .. Len(F) : OK(F[i], N[i])
      BY <3>1, Zenon DEF Agrees
    <3>3. QED BY <1>1, <1>2, <3>2, Zenon
  <2>3. CASE b = a
    <3>1. a <= a /\ a <= b /\ b + 1 = a + 1
      BY <1>1, <2>3
    <3>2. (\A i \in 1 .. a + 1 : OK(F[i], N[i])) <=> OK(x, y) /\ \A i \in 1 .. a : OK(G[i], M[i])
      BY <1>1, <1>5, <3>1, Zenon
    <3>3. QED BY <2>1, <2>2, <2>3, <3>1, <3>2, Zenon
  <2>4. CASE b # a
    <3>1. b + 1 # a + 1
      BY <1>1, <1>2, <2>4
    <3>2. QED BY <2>1, <2>2, <2>4, <3>1, Zenon
  <2>5. QED BY <2>3, <2>4, Zenon
<1>8. QED BY <1>6, <1>7, Zenon

\* What Good says of the first level, and that it is left for the others.
LEMMA GoodMore ==
  ASSUME NEW U, NEW x, NEW G, NEW F, Leads(x, G, F, U), Good(F)
  PROVE  /\ x = <<"+">> \/ x = <<"#">> \/ Literal(x)
         /\ G # <<>> => x # <<"#">> /\ Good(G)
<1> DEFINE a == Len(G)
<1>1. a \in Nat /\ Len(F) = a + 1 /\ F[1] = x /\ \A i \in 1 .. a : F[i + 1] = G[i]
  BY Begins, SMT
<1>2. G # <<>> => a # 0
  BY DEF Leads
<1> HIDE DEF a
<1>3. 1 \in 1 .. Len(F) /\ (a # 0 => 1 # Len(F))
  BY <1>1
<1>4. x = <<"+">> \/ x = <<"#">> \/ Literal(x)
  BY <1>1, <1>3, Zenon DEF Good
<1>5. G # <<>> => x # <<"#">>
  BY <1>1, <1>2, <1>3, Zenon DEF Good
<1>6. ASSUME NEW i \in 1 .. a
      PROVE  /\ G[i] = <<"+">> \/ G[i] = <<"#">> \/ Literal(G[i])
             /\ G[i] = <<"#">> => i = a
  <2> DEFINE k == i + 1
  <2>1. k \in 1 .. Len(F) /\ (k = Len(F) => i = a)
    BY <1>1
  <2>2. F[k] = G[i]
    BY <1>1, Zenon
  <2> HIDE DEF k
  <2>3. /\ F[k] = <<"+">> \/ F[k] = <<"#">> \/ Literal(F[k])
        /\ F[k] = <<"#">> => k = Len(F)
    BY <2>1, Zenon DEF Good
  <2>4. QED BY <2>1, <2>2, <2>3, Zenon
<1>7. QED BY <1>4, <1>5, <1>6, Zenon DEF Good, a

\* R gives the levels of s.
Cutting(R, s, S) == s \in Seq(S) /\ IsLevels(R, s, S)

\* The levels from a cut on are its level and those from the next cut on.
LEMMA CutLeads ==
  ASSUME NEW S, NEW s, NEW R, Cutting(R, s, S), NEW i \in Cut(s), i # Len(s) + 1
  PROVE  /\ Leads(Level(s, i), R[UpTo(s, i)], R[i], Seq(S))
         /\ UpTo(s, i) \in Cut(s) /\ i < UpTo(s, i)
         /\ Spans(s, i, UpTo(s, i), Level(s, i), S)
<1>1. s \in Seq(S)
  BY Zenon DEF Cutting
<1>2. Level(s, i) \in Seq(S)
  BY <1>1, LevelIs, Zenon
<1>3. UpTo(s, i) \in Cut(s) /\ i < UpTo(s, i)
  BY <1>1, UpToIs, Zenon
<1>4. R[UpTo(s, i)] \in Seq(Seq(S)) /\ R[i] = <<Level(s, i)>> \o R[UpTo(s, i)]
  BY <1>3, Zenon DEF Cutting, IsLevels
<1>5. Spans(s, i, UpTo(s, i), Level(s, i), S)
  BY <1>1, SpansOf, Zenon
<1>6. QED BY <1>2, <1>3, <1>4, <1>5, Zenon DEF Leads

\* Only the last cut has no level.
EmptyAtEnd(R, s) == \A i \in Cut(s) : R[i] = <<>> <=> i = Len(s) + 1

\* IsLevels gives EmptyAtEnd.
LEMMA CutEmpty ==
  ASSUME NEW S, NEW s, NEW R, Cutting(R, s, S)
  PROVE  EmptyAtEnd(R, s)
<1> SUFFICES ASSUME NEW i \in Cut(s)
             PROVE  R[i] = <<>> <=> i = Len(s) + 1
  BY Zenon DEF EmptyAtEnd
<1>1. CASE i = Len(s) + 1
  BY <1>1, Zenon DEF Cutting, IsLevels
<1>2. CASE i # Len(s) + 1
  <2>1. Leads(Level(s, i), R[UpTo(s, i)], R[i], Seq(S))
    BY <1>2, CutLeads, Zenon
  <2>2. R[i] # <<>>
    BY ONLY <2>1, Begins, SMT
  <2>3. QED BY <1>2, <2>2, Zenon
<1>3. QED BY <1>1, <1>2, Zenon

\* No filter agrees with a name that has no level left.
LEMMA AgreesNone ==
  ASSUME NEW U, NEW F \in Seq(U), F # <<>>
  PROVE  ~ Agrees(F, <<>>)
<1>1. ~ (Len(<<>>) >= Len(F)) /\ Len(<<>>) # Len(F)
  OBVIOUS
<1>2. QED BY <1>1, Zenon DEF Agrees

\* x is the last level of the filter F; the name has y and then M.
LastLevel(f, n, u, w, x, y, F, M, N, S) ==
  /\ u = Len(f) + 1 /\ (x = <<"+">> \/ x = <<"#">> \/ Literal(x))
  /\ F = <<x>> \o <<>> /\ Leads(y, M, N, Seq(S)) /\ (M = <<>> <=> w = Len(n) + 1)

\* isTopicMatched's answer is what Agrees says of the levels left.
Matched(g, f, n, F, N) == g[Len(f) + 1] = Len(n) + 1 <=> Agrees(F, N)

\* The last level of the filter decides.
LEMMA MatchLast ==
  ASSUME NEW S, NEW f, NEW n, NEW g, NEW i, NEW j, NEW u, NEW w, NEW x, NEW y, NEW F, NEW M, NEW N,
         Meet(g, f, n, i, j, u, w, x, y, S), LastLevel(f, n, u, w, x, y, F, M, N, S)
  PROVE  Matched(g, f, n, F, N)
<1> USE DEF LastLevel, Matched
<1>0. F = <<x>> \o <<>> /\ Leads(y, M, N, Seq(S))
  BY Zenon
<1>1. /\ x = <<"#">> => (Agrees(F, N) <=> y # <<>>)
      /\ x # <<"#">> => (Agrees(F, N) <=> OK(x, y) /\ M = <<>>)
  BY ONLY <1>0, AgreesLast, Zenon
<1>2. CASE x = <<"#">> /\ y = <<>>
  <2>1. x \in {<<"+">>, <<"#">>}
    BY <1>2, Zenon
  <2>2. g[Len(f) + 1] # Len(n) + 1
    BY ONLY <1>2, <2>1, WildcardStops, Zenon, Meet(g, f, n, i, j, u, w, x, y, S)
  <2>3. QED BY <1>1, <1>2, <2>2, Zenon
<1>3. CASE x = <<"#">> /\ y # <<>>
  <2>1. g[u] = Len(n) + 1
    BY ONLY <1>3, HashTakes, SMT, Meet(g, f, n, i, j, u, w, x, y, S)
  <2>2. QED BY <1>1, <1>3, <2>1, Zenon
<1>4. CASE x # <<"#">>
  <2>1. x = <<"+">> \/ Literal(x)
    BY <1>4, Zenon
  <2>2. /\ OK(x, y) => g[u] = w
        /\ ~ OK(x, y) => g[Len(f) + 1] # Len(n) + 1
    BY ONLY <2>1, LevelStep, Zenon, Meet(g, f, n, i, j, u, w, x, y, S)
  <2>3. QED BY <1>1, <1>4, <2>2, Zenon
<1>5. QED BY <1>2, <1>3, <1>4, Zenon

\* x is not the last level of the filter; the loop does with the levels after it
\* what Agrees says.
InnerLevel(g, f, n, u, w, x, y, G, F, M, N, S) ==
  /\ u # Len(f) + 1 /\ (x = <<"+">> \/ Literal(x))
  /\ Leads(x, G, F, Seq(S)) /\ G # <<>> /\ Leads(y, M, N, Seq(S)) /\ (M = <<>> <=> w = Len(n) + 1)
  /\ w # Len(n) + 1 /\ g[u + 1] = w + 1 => Matched(g, f, n, G, M)

\* A level before the last: the loop ends in it, or goes on with the next ones.
LEMMA MatchMore ==
  ASSUME NEW S, NEW f, NEW n, NEW g, NEW i, NEW j, NEW u, NEW w, NEW x, NEW y, NEW G, NEW F, NEW M, NEW N,
         Meet(g, f, n, i, j, u, w, x, y, S), InnerLevel(g, f, n, u, w, x, y, G, F, M, N, S)
  PROVE  Matched(g, f, n, F, N)
<1> USE DEF InnerLevel, Matched
<1>0. Leads(x, G, F, Seq(S)) /\ G # <<>> /\ Leads(y, M, N, Seq(S)) /\ (x = <<"+">> \/ Literal(x)) /\ u # Len(f) + 1
  BY Zenon
<1>1. Agrees(F, N) <=> OK(x, y) /\ Agrees(G, M)
  BY ONLY <1>0, AgreesMore, Zenon
<1>2. /\ OK(x, y) => g[u] = w
      /\ ~ OK(x, y) => g[Len(f) + 1] # Len(n) + 1
  BY ONLY <1>0, LevelStep, Zenon, Meet(g, f, n, i, j, u, w, x, y, S)
<1>3. CASE ~ OK(x, y)
  BY <1>1, <1>2, <1>3, Zenon
<1>4. CASE OK(x, y)
  <2>1. g[u] = w
    BY <1>2, <1>4, Zenon
  <2>2. /\ w = Len(n) + 1 => g[Len(f) + 1] # Len(n) + 1
        /\ w # Len(n) + 1 => g[u + 1] = w + 1
    <3>1. Crosses(g, f, n, u, w)
      BY ONLY <2>1, Boundary, Zenon, Meet(g, f, n, i, j, u, w, x, y, S), <1>0
    <3>2. QED BY <3>1, Zenon DEF Crosses
  <2>3. CASE w = Len(n) + 1
    <3>1. M = <<>> /\ G \in Seq(Seq(S))
      BY <2>3, Zenon DEF Leads
    <3>2. ~ Agrees(G, M)
      BY <3>1, AgreesNone, Zenon
    <3>3. QED BY <1>1, <2>2, <2>3, <3>2, Zenon
  <2>4. CASE w # Len(n) + 1
    BY <1>1, <1>4, <2>2, <2>4, Zenon
  <2>5. QED BY <2>3, <2>4, Zenon
<1>5. QED BY <1>3, <1>4, Zenon

\* g is curn, and RF and RN give the levels of the filter and the name.
Setting(g, f, n, RF, RN, S) == IsCur(g, f, n) /\ Cutting(RF, f, S) /\ Cutting(RN, n, S)

\* From two levels on, when it holds from later levels of the filter on.
LEMMA MatchFrom ==
  ASSUME NEW S, NEW f, NEW n, NEW g, NEW RF, NEW RN, Setting(g, f, n, RF, RN, S),
         NEW i \in Cut(f), i # Len(f) + 1, NEW j \in Cut(n), j # Len(n) + 1, g[i + 1] = j + 1, Good(RF[i]),
         \A k \in Cut(f) : i < k /\ k # Len(f) + 1 /\ Good(RF[k])
             => \A l \in Cut(n) : l # Len(n) + 1 /\ g[k + 1] = l + 1 => Matched(g, f, n, RF[k], RN[l])
  PROVE  Matched(g, f, n, RF[i], RN[j])
<1> DEFINE u == UpTo(f, i)
           w == UpTo(n, j)
           x == Level(f, i)
           y == Level(n, j)
           F == RF[i]
           G == RF[u]
           N == RN[j]
           M == RN[w]
<1>1. Leads(x, G, F, Seq(S)) /\ u \in Cut(f) /\ i < u /\ Spans(f, i, u, x, S)
  BY CutLeads, Zenon DEF Setting
<1>2. Leads(y, M, N, Seq(S)) /\ w \in Cut(n) /\ Spans(n, j, w, y, S)
  BY CutLeads, Zenon DEF Setting
<1>3. G = <<>> <=> u = Len(f) + 1
  <2>1. EmptyAtEnd(RF, f)
    BY CutEmpty, Zenon DEF Setting
  <2>2. QED BY <1>1, <2>1, Zenon DEF EmptyAtEnd
<1>4. M = <<>> <=> w = Len(n) + 1
  <2>1. EmptyAtEnd(RN, n)
    BY CutEmpty, Zenon DEF Setting
  <2>2. QED BY <1>2, <2>1, Zenon DEF EmptyAtEnd
<1>5. Meet(g, f, n, i, j, u, w, x, y, S)
  BY <1>1, <1>2, Zenon DEF Meet, Setting
<1>6. /\ x = <<"+">> \/ x = <<"#">> \/ Literal(x)
      /\ G # <<>> => x # <<"#">> /\ Good(G)
  <2> HIDE DEF u, x
  <2>1. QED BY ONLY <1>1, GoodMore, Zenon, Good(RF[i])
<1>7. u # Len(f) + 1 /\ w # Len(n) + 1 /\ g[u + 1] = w + 1
        => Matched(g, f, n, G, M)
  <2> HIDE DEF u, w
  <2>1. QED BY <1>1, <1>2, <1>3, <1>6, Zenon
<1> HIDE DEF u, w, x, y, F, G, N, M
<1>8. Matched(g, f, n, F, N)
  <2>1. CASE u = Len(f) + 1
    <3>1. F = <<x>> \o <<>>
      BY <1>1, <1>3, <2>1, Zenon DEF Leads
    <3>2. LastLevel(f, n, u, w, x, y, F, M, N, S)
      BY <1>2, <1>4, <1>6, <2>1, <3>1, Zenon DEF LastLevel
    <3>3. QED BY ONLY <1>5, <3>2, MatchLast, Zenon
  <2>2. CASE u # Len(f) + 1
    <3>1. G # <<>> /\ (x = <<"+">> \/ Literal(x))
      BY <1>3, <1>6, <2>2, Zenon
    <3>2. w # Len(n) + 1 /\ g[u + 1] = w + 1 => Matched(g, f, n, G, M)
      BY <1>7, <2>2, Zenon
    <3>3. InnerLevel(g, f, n, u, w, x, y, G, F, M, N, S)
      BY <1>1, <1>2, <1>4, <2>2, <3>1, <3>2, Zenon DEF InnerLevel
    <3>4. QED BY ONLY <1>5, <3>3, MatchMore, Zenon
  <2>3. QED BY <2>1, <2>2, Zenon
<1>9. QED BY <1>8, Zenon DEF F, N

\* By induction from the filter's last level: the answer is what Agrees says.
LEMMA MatchAll ==
  ASSUME NEW S, NEW f, NEW n, NEW g, NEW RF, NEW RN, Setting(g, f, n, RF, RN, S), Good(RF[0])
  PROVE  Matched(g, f, n, RF[0], RN[0])
<1> DEFINE top == Len(f) + 1
           C == Cut(f)
           P == {i \in C : i # Len(f) + 1 /\ Good(RF[i])
                     => \A j \in Cut(n) : j # Len(n) + 1 /\ g[i + 1] = j + 1 => Matched(g, f, n, RF[i], RN[j])}
<1>1. f \in Seq(S) /\ n \in Seq(S) /\ g[1] = 1
  BY Zenon DEF Setting, Cutting, IsCur
<1>2. Len(f) \in Nat /\ Len(n) \in Nat /\ 0 \in Cut(f) /\ 0 \in Cut(n) /\ \A i \in Cut(f) : i \in Nat /\ i <= Len(f) + 1
  BY <1>1, CutIs, Zenon
<1>3. top \in Nat /\ 0 # Len(f) + 1 /\ 0 # Len(n) + 1 /\ 0 + 1 = 1
  BY <1>2
<1>4. C \in SUBSET (0 .. top)
  <2> SUFFICES ASSUME NEW i \in C
               PROVE  i \in 0 .. top
    BY Zenon
  <2>1. i \in Nat /\ i <= Len(f) + 1
    BY <1>2, Zenon
  <2>2. QED BY <1>3, <2>1
<1>5. ASSUME NEW i \in C, \A k \in C : i < k => k \in P
      PROVE  i \in P
  <2> SUFFICES ASSUME i # Len(f) + 1, Good(RF[i]), NEW j \in Cut(n), j # Len(n) + 1, g[i + 1] = j + 1
               PROVE  Matched(g, f, n, RF[i], RN[j])
    BY Zenon
  <2>1. \A k \in Cut(f) : i < k /\ k # Len(f) + 1 /\ Good(RF[k])
             => \A l \in Cut(n) : l # Len(n) + 1 /\ g[k + 1] = l + 1 => Matched(g, f, n, RF[k], RN[l])
    BY <1>5, Zenon
  <2>2. QED BY <2>1, MatchFrom, Zenon
<1>6. \A i \in C : i \in P
  <2> HIDE DEF C, P, top
  <2>1. QED BY <1>3, <1>4, <1>5, Downward, Zenon
<1>7. 0 \in P
  BY <1>2, <1>6, Zenon
<1>8. g[0 + 1] = 0 + 1
  BY <1>1, <1>3, Zenon
<1>9. QED BY <1>2, <1>3, <1>7, <1>8, Zenon

\* There is at least one level.
LEMMA LevelsNotEmpty ==
  ASSUME NEW S, NEW s \in Seq(S)
  PROVE  Levels(s) \in Seq(Seq(S)) /\ Len(Levels(s)) \in Nat /\ Len(Levels(s)) # 0
<1>1. PICK R : IsLevels(R, s, S) /\ R[0] = Levels(s)
  BY LevelsAre, Zenon
<1>2. 0 \in Cut(s) /\ Len(s) \in Nat
  BY CutIs, Zenon
<1>3. 0 # Len(s) + 1
  BY <1>2
<1>4. Cutting(R, s, S)
  BY <1>1, Zenon DEF Cutting
<1>5. R[0] # <<>>
  BY <1>2, <1>3, <1>4, CutEmpty, Zenon DEF EmptyAtEnd
<1>6. R[0] \in Seq(Seq(S))
  BY <1>1, <1>2, Zenon DEF IsLevels
<1> DEFINE L == Levels(s)
           U == Seq(S)
<1>7. L \in Seq(U) /\ L # <<>>
  BY <1>1, <1>5, <1>6, Zenon
<1> HIDE DEF L, U
<1>8. Len(L) \in Nat /\ Len(L) # 0
  BY ONLY <1>7
<1>9. QED BY <1>7, <1>8, Zenon DEF L, U

\* A level of one character.
LEMMA SingleIs ==
  ASSUME NEW S, NEW x \in Seq(S), Len(x) = 1, NEW c, x[1] = c
  PROVE  x = <<c>>
OBVIOUS

\* A filter in correct format has levels the loop can compare one by one.
LEMMA CorrectIsGood ==
  ASSUME NEW S, NEW f \in Seq(S), CorrectFilter(f)
  PROVE  Good(Levels(f))
<1> DEFINE L == Levels(f)
           U == Seq(S)
<1>1. L \in Seq(U)
  BY LevelsNotEmpty, Zenon
<1>2. \A i \in DOMAIN L : \A j \in DOMAIN L[i] : /\ L[i][j] \in {"+", "#"} => Len(L[i]) = 1
                                                 /\ L[i][j] = "#" => i = Len(L)
  BY Zenon DEF CorrectFilter
<1> HIDE DEF L
<1>3. DOMAIN L = 1 .. Len(L) /\ \A i \in 1 .. Len(L) : L[i] \in U
  <2> HIDE DEF U
  <2>1. QED BY <1>1
<1>4. ASSUME NEW i \in 1 .. Len(L)
      PROVE  /\ L[i] = <<"+">> \/ L[i] = <<"#">> \/ Literal(L[i])
             /\ L[i] = <<"#">> => i = Len(L)
  <2> DEFINE x == L[i]
  <2>1. x \in Seq(S)
    BY <1>3, Zenon
  <2>2. \A j \in DOMAIN x : /\ x[j] \in {"+", "#"} => Len(x) = 1
                            /\ x[j] = "#" => i = Len(L)
    BY <1>2, <1>3, Zenon
  <2> HIDE DEF x
  <2>3. DOMAIN x = 1 .. Len(x)
    BY <2>1
  <2>4. CASE Literal(x)
    <3>1. x # <<"#">>
      BY <2>4, LiteralPlain, Zenon
    <3>2. QED BY <2>4, <3>1, Zenon DEF x
  <2>5. CASE ~ Literal(x)
    <3>1. PICK j \in 1 .. Len(x) : x[j] \in {"+", "#"}
      BY <2>5, Zenon DEF Literal
    <3>2. Len(x) = 1
      BY <2>2, <2>3, <3>1, Zenon
    <3>3. j = 1
      BY <3>1, <3>2
    <3>4. x[1] = "+" \/ x[1] = "#"
      BY <3>1, <3>3, Zenon
    <3>5. x[1] = "+" => x = <<"+">>
      BY <2>1, <3>2, SingleIs, Zenon
    <3>6. x[1] = "#" => x = <<"#">> /\ i = Len(L)
      BY <2>1, <2>2, <2>3, <3>1, <3>2, <3>3, SingleIs, Zenon
    <3>7. <<"+">> # <<"#">>
      OBVIOUS
    <3>8. QED BY <3>4, <3>5, <3>6, <3>7, Zenon DEF x
  <2>6. QED BY <2>4, <2>5, Zenon
<1>5. QED BY <1>4, Zenon DEF Good, L

\* Agrees asks what MQTT asks, without the cases of Stricter.
LEMMA AgreesIsMqtt ==
  ASSUME NEW S, NEW f \in Seq(S), NEW n \in Seq(S)
  PROVE  Agrees(Levels(f), Levels(n)) <=> MqttMatches(f, n) /\ ~ Stricter(f, n)
<1> DEFINE F == Levels(f)
           N == Levels(n)
           k == Len(F)
           m == Len(N)
           U == Seq(S)
<1> SUFFICES Agrees(F, N) <=> MqttMatches(f, n) /\ ~ Stricter(f, n)
  BY Zenon
<1>1. F \in Seq(U) /\ N \in Seq(U) /\ k \in Nat /\ k # 0 /\ m \in Nat
  BY LevelsNotEmpty, Zenon
<1>2. MqttMatches(f, n) <=> IF F[k] = <<"#">> THEN m >= k - 1 /\ \A i \in 1 .. k - 1 : LevelMatches(F[i], N[i])
                                              ELSE m = k /\ \A i \in 1 .. k : LevelMatches(F[i], N[i])
  BY Zenon DEF MqttMatches
<1>3. Stricter(f, n) <=> \/ F[k] = <<"#">> /\ m < k
                         \/ \E i \in DOMAIN F \cap DOMAIN N : F[i] \in {<<"+">>, <<"#">>} /\ N[i] = <<>>
  BY Zenon DEF Stricter
<1>4. Agrees(F, N) <=> IF F[k] = <<"#">> THEN m >= k /\ (\A i \in 1 .. k - 1 : OK(F[i], N[i])) /\ N[k] # <<>>
                                         ELSE m = k /\ \A i \in 1 .. k : OK(F[i], N[i])
  BY Zenon DEF Agrees
<1>5. DOMAIN F = 1 .. k /\ DOMAIN N = 1 .. m
  <2> HIDE DEF F, N
  <2>1. QED BY <1>1
<1> HIDE DEF F, N, k, m
<1> DEFINE A == Agrees(F, N)
           Q == MqttMatches(f, n)
           R == Stricter(f, n)
<1>6. CASE F[k] = <<"#">> /\ m >= k
  <2>1. m >= k - 1 /\ ~ (m < k) /\ k \in 1 .. k /\ k \in 1 .. m /\ (\A i \in 1 .. k - 1 : i \in 1 .. k /\ i \in 1 .. m)
        /\ \A i \in 1 .. k : i = k \/ i \in 1 .. k - 1
    BY <1>1, <1>6
  <2>2. A <=> (\A i \in 1 .. k - 1 : OK(F[i], N[i])) /\ N[k] # <<>>
    BY <1>4, <1>6, Zenon
  <2>3. Q <=> \A i \in 1 .. k - 1 : LevelMatches(F[i], N[i])
    BY <1>2, <1>6, <2>1, Zenon
  <2>4. R <=> \E i \in DOMAIN F \cap DOMAIN N : F[i] \in {<<"+">>, <<"#">>} /\ N[i] = <<>>
    BY <1>3, <1>6, <2>1, Zenon
  <2>5. R <=> \E i \in 1 .. k : F[i] \in {<<"+">>, <<"#">>} /\ N[i] = <<>>
    BY <1>5, <2>1, <2>4, Zenon
  <2> HIDE DEF A, Q, R
  <2>6. A => Q /\ ~ R
    BY <2>1, <2>2, <2>3, <2>5, Zenon DEF OK
  <2>7. Q /\ ~ R => A
    BY <1>6, <2>1, <2>2, <2>3, <2>5, Zenon DEF OK
  <2>8. A <=> Q /\ ~ R
    BY <2>6, <2>7, Zenon
  <2>9. QED BY <2>8, Zenon DEF A, Q, R
<1>7. CASE F[k] = <<"#">> /\ ~ (m >= k)
  <2>1. m < k
    BY <1>1, <1>7
  <2>2. ~ A
    BY <1>4, <1>7, Zenon
  <2>3. R
    BY <1>3, <1>7, <2>1, Zenon
  <2>4. QED BY <2>2, <2>3, Zenon
<1>8. CASE F[k] # <<"#">>
  <2>1. A <=> m = k /\ \A i \in 1 .. k : OK(F[i], N[i])
    BY <1>4, <1>8, Zenon
  <2>2. Q <=> m = k /\ \A i \in 1 .. k : LevelMatches(F[i], N[i])
    BY <1>2, <1>8, Zenon
  <2>3. m = k => (R <=> \E i \in 1 .. k : F[i] \in {<<"+">>, <<"#">>} /\ N[i] = <<>>)
    BY <1>3, <1>5, <1>8, Zenon
  <2> HIDE DEF A, Q, R
  <2>4. A => Q /\ ~ R
    BY <2>1, <2>2, <2>3, Zenon DEF OK
  <2>5. Q /\ ~ R => A
    BY <2>1, <2>2, <2>3, Zenon DEF OK
  <2>6. A <=> Q /\ ~ R
    BY <2>4, <2>5, Zenon
  <2>7. QED BY <2>6, Zenon DEF A, Q, R
<1>9. QED BY <1>6, <1>7, <1>8, Zenon

\* isTopicMatched is MQTT's comparison of a filter in correct format with a name,
\* except that '#' does not take the parent level alone and no wildcard takes an
\* empty level: MatchAgrees for filters and names of every length over every
\* alphabet.
THEOREM FiltersMatch ==
  ASSUME NEW S, NEW f \in Seq(S), NEW n \in Seq(S), CorrectFilter(f)
  PROVE  isTopicMatched(f, n) <=> MqttMatches(f, n) /\ ~ Stricter(f, n)
<1>1. PICK g : IsCur(g, f, n) /\ (isTopicMatched(f, n) <=> g[Len(f) + 1] = Len(n) + 1)
  BY CurIs, Zenon
<1>2. PICK RF : IsLevels(RF, f, S) /\ RF[0] = Levels(f)
  BY LevelsAre, Zenon
<1>3. PICK RN : IsLevels(RN, n, S) /\ RN[0] = Levels(n)
  BY LevelsAre, Zenon
<1>4. Good(Levels(f))
  BY CorrectIsGood, Zenon
<1>5. Setting(g, f, n, RF, RN, S)
  BY <1>1, <1>2, <1>3, Zenon DEF Setting, Cutting
<1>6. Good(RF[0])
  BY <1>2, <1>4, Zenon
<1>7. Matched(g, f, n, RF[0], RN[0])
  BY ONLY <1>5, <1>6, MatchAll, Zenon
<1>8. isTopicMatched(f, n) <=> Agrees(Levels(f), Levels(n))
  BY <1>1, <1>2, <1>3, <1>7, Zenon DEF Matched
<1>9. QED BY <1>8, AgreesIsMqtt, Zenon

\* isTopicMatched takes a name without wildcards as its own filter.
LEMMA NameMatchesItself ==
  ASSUME NEW S, NEW n \in Seq(S), CorrectName(n)
  PROVE  isTopicMatched(n, n)
<1>1. PICK g : IsCur(g, n, n) /\ (isTopicMatched(n, n) <=> g[Len(n) + 1] = Len(n) + 1)
  BY CurIs, Zenon
<1> DEFINE m == Len(n)
           z == 0
           u == m + 1
<1>2. /\ m \in Nat /\ z \in Nat /\ z + m <= m /\ z + 1 = 1 /\ u = z + m + 1
      /\ \A k \in 1 .. m : z + k = k /\ k \in DOMAIN n
  OBVIOUS
<1>3. \A k \in 1 .. m : n[z + k] \notin {"+", "#"}
  BY <1>2, Zenon DEF CorrectName
<1>4. g[z + 1] = z + 1
  BY <1>1, <1>2, Zenon DEF IsCur
<1> HIDE DEF z, u
<1>5. Same(g, n, n, z, z, m)
  BY <1>2, <1>3, <1>4, Zenon DEF Same
<1>6. Copied(g, n, n, z, z, m, u, u, S)
  BY <1>1, <1>2, <1>5, Zenon DEF Copied
<1>7. g[u] = u
  BY ONLY <1>6, Copies, Zenon
<1>8. QED BY <1>1, <1>7, Zenon DEF u

\* deliverMessage's test, MQTTPacket_equals or isTopicMatched, is that comparison
\* as well: the equality adds nothing for names in correct format.
THEOREM WantedIsMqtt ==
  ASSUME NEW S, NEW f \in Seq(S), NEW n \in Seq(S), CorrectFilter(f), CorrectName(n)
  PROVE  Wanted(f, n) <=> MqttMatches(f, n) /\ ~ Stricter(f, n)
<1>1. isTopicMatched(f, n) <=> MqttMatches(f, n) /\ ~ Stricter(f, n)
  BY FiltersMatch, Zenon
<1>2. f = n => isTopicMatched(f, n)
  BY NameMatchesItself, Zenon
<1>3. QED BY <1>1, <1>2, Zenon DEF Wanted

-----------------------------------------------------------------------------
(***************************************************************************)
(* The table.                                                              *)
(***************************************************************************)

USE HandlersAssumption

\* The inductive invariant: no conjunct is inductive alone, as a slot's
\* filter and fp are set together and read together.
TableInv == TypeOK /\ OneSlotPerFilter /\ UsedHasHandler

\* MQTTClientInit empties the table.
LEMMA InitTableInv == Init => TableInv
BY DEF Init, TableInv, TypeOK, OneSlotPerFilter, UsedHasHandler, Slot

\* Storing a filter in its own slot, or in any slot when no slot has it,
\* leaves the other filters where they are.
LEMMA StoreTableInv ==
  ASSUME TableInv,
         NEW i \in Slot, NEW f \in Filter, NEW h \in Handler,
         SlotsOf(f) = {} \/ i \in SlotsOf(f),
         Store(i, f, h)
  PROVE  /\ messageHandlers' \in [Slot -> [topicFilter : Filter \cup {NULL}, fp : Handler \cup {NULL}]]
         /\ OneSlotPerFilter' /\ UsedHasHandler'
<1>1. messageHandlers' \in [Slot -> [topicFilter : Filter \cup {NULL}, fp : Handler \cup {NULL}]]
  BY DEF TableInv, TypeOK, Store
<1>2. OneSlotPerFilter'
  BY <1>1 DEF TableInv, TypeOK, Store, OneSlotPerFilter, SlotsOf, Slot
<1>3. UsedHasHandler'
  BY <1>1 DEF TableInv, TypeOK, Store, UsedHasHandler, Slot
<1> QED
  BY <1>1, <1>2, <1>3

\* Each call keeps the invariant.
LEMMA NextTableInv == TableInv /\ [Next]_vars => TableInv'
<1> SUFFICES ASSUME TableInv, [Next]_vars PROVE TableInv'
  OBVIOUS
<1> USE DEF TableInv
<1>1. CASE ClientInit
  BY <1>1 DEF ClientInit, NoFilters, TypeOK, OneSlotPerFilter, UsedHasHandler
<1>2. ASSUME NEW clean \in 0 .. 1, OpenSession(clean) PROVE TableInv'
  BY <1>2 DEF OpenSession, TypeOK, OneSlotPerFilter, UsedHasHandler
<1>3. CASE CloseSession
  BY <1>3 DEF CloseSession, NoFilters, TypeOK, OneSlotPerFilter, UsedHasHandler
<1>4. ASSUME NEW f \in Filter, RemoveMessageHandler(f) PROVE TableInv'
  <2>1. CASE SlotsOf(f) = {} /\ rc' = "FAILURE" /\ UNCHANGED messageHandlers
    BY <1>4, <2>1 DEF RemoveMessageHandler, TypeOK, OneSlotPerFilter, UsedHasHandler
  <2>2. ASSUME NEW i \in Slot, Store(i, NULL, NULL), rc' = "SUCCESS" PROVE TableInv'
    BY <1>4, <2>2 DEF RemoveMessageHandler, Store, TypeOK, OneSlotPerFilter, UsedHasHandler
  <2> QED
    BY <1>4, <2>1, <2>2 DEF RemoveMessageHandler
<1>5. ASSUME NEW f \in Filter, NEW h \in Handler, SetMessageHandler(f, h) PROVE TableInv'
  <2>1. CASE SlotFor(f) = {} /\ rc' = "FAILURE" /\ UNCHANGED messageHandlers
    BY <1>5, <2>1 DEF SetMessageHandler, TypeOK, OneSlotPerFilter, UsedHasHandler
  <2>2. ASSUME NEW i \in Slot, First(i, SlotFor(f)), Store(i, f, h), rc' = "SUCCESS" PROVE TableInv'
    <3>1. SlotsOf(f) = {} \/ i \in SlotsOf(f)
      BY <2>2 DEF First, SlotFor
    <3> QED
      BY <1>5, <2>2, <3>1, StoreTableInv DEF SetMessageHandler, TypeOK
  <2> QED
    BY <1>5, <2>1, <2>2 DEF SetMessageHandler
<1>6. ASSUME NEW n \in Topic, deliverMessage(n) PROVE TableInv'
  <2>1. calls' \subseteq Filter \X Handler
    BY <1>6 DEF deliverMessage, Entries, Called, TypeOK
  <2> QED
    BY <1>6, <2>1 DEF deliverMessage, TypeOK, OneSlotPerFilter, UsedHasHandler
<1>7. CASE UNCHANGED vars
  BY <1>7 DEF vars, TypeOK, OneSlotPerFilter, UsedHasHandler
<1> QED
  BY <1>1, <1>2, <1>3, <1>4, <1>5, <1>6, <1>7 DEF Next

\* The slots hold filters and handlers, or NULL.
THEOREM TableTypeCorrect == Spec => []TypeOK
<1>1. TableInv => TypeOK
  BY DEF TableInv
<1> QED
  BY <1>1, InitTableInv, NextTableInv, PTL DEF Spec

\* No filter has two slots, whatever the calls and their order.
THEOREM EachFilterOnce == Spec => []OneSlotPerFilter
<1>1. TableInv => OneSlotPerFilter
  BY DEF TableInv
<1> QED
  BY <1>1, InitTableInv, NextTableInv, PTL DEF Spec

\* A slot in use has a handler.
THEOREM UsedSlotsHaveHandlers == Spec => []UsedHasHandler
<1>1. TableInv => UsedHasHandler
  BY DEF TableInv
<1> QED
  BY <1>1, InitTableInv, NextTableInv, PTL DEF Spec

-----------------------------------------------------------------------------
Used == Slot \ SlotsOf(NULL)

\* Filters being in one slot each, there is room in the map when a slot is free.
LEMMA RoomIsAFreeSlot ==
  ASSUME TableInv
  PROVE  Cardinality(Entries(Used)) < MAX_MESSAGE_HANDLERS <=> SlotsOf(NULL) # {}
<1> DEFINE entry == [i \in Used |-> <<messageHandlers[i].topicFilter, messageHandlers[i].fp>>]
<1>1. IsFiniteSet(Slot) /\ Cardinality(Slot) = MAX_MESSAGE_HANDLERS
  BY FS_Interval DEF Slot
<1>2. Used \in SUBSET Slot
  BY DEF Used
<1>3. IsFiniteSet(Used) /\ Cardinality(Used) \in Nat
  BY <1>1, <1>2, FS_Subset, FS_CardinalityType
<1>4. Cardinality(Used) < MAX_MESSAGE_HANDLERS <=> Used # Slot
  <2>1. Cardinality(Used) <= Cardinality(Slot)
    BY <1>1, <1>2, FS_Subset
  <2>2. Cardinality(Slot) = Cardinality(Used) => Slot = Used
    BY <1>1, <1>2, FS_Subset
  <2> QED
    BY <1>1, <1>3, <2>1, <2>2
<1>5. entry \in Bijection(Used, Entries(Used))
  <2>1. entry \in [Used -> Entries(Used)]
    BY DEF Entries
  <2>2. \A i, j \in Used : entry[i] = entry[j] => i = j
    BY DEF TableInv, OneSlotPerFilter, Used, SlotsOf
  <2>3. \A e \in Entries(Used) : \E i \in Used : entry[i] = e
    BY DEF Entries
  <2> QED
    BY <2>1, <2>2, <2>3 DEF Bijection, Injection, Surjection, IsInjective
<1>6. Cardinality(Entries(Used)) = Cardinality(Used)
  <2>1. ExistsBijection(Used, Entries(Used))
    BY <1>5 DEF ExistsBijection
  <2> QED
    BY <1>3, <2>1, FS_Bijection
<1>7. Used # Slot <=> SlotsOf(NULL) # {}
  BY DEF Used, SlotsOf
<1> QED
  BY <1>4, <1>6, <1>7

\* The entries of the table after a store in slot i.
LEMMA EntriesAfterStore ==
  ASSUME TableInv,
         NEW i \in Slot, NEW f \in Filter, NEW h \in Handler,
         \/ i \in SlotsOf(f)
         \/ SlotsOf(f) = {} /\ i \in SlotsOf(NULL),
         Store(i, f, h)
  PROVE  Entries(Used)' = {s \in Entries(Used) : s[1] # f} \cup {<<f, h>>}
<1> USE DEF TableInv, TypeOK, Store, Slot
<1>1. messageHandlers'[i].topicFilter = f /\ messageHandlers'[i].fp = h
  OBVIOUS
<1>2. \A j \in Slot : j # i => messageHandlers'[j] = messageHandlers[j]
  OBVIOUS
<1>3. \A j \in Slot : j # i => messageHandlers[j].topicFilter # f
  BY DEF OneSlotPerFilter, SlotsOf
<1>4. messageHandlers[i].topicFilter \in {f, NULL}
  BY DEF SlotsOf
<1>5. Used' = Used \cup {i}
  BY <1>1, <1>2 DEF Used, SlotsOf
<1>6. Entries(Used)' = {<<messageHandlers'[j].topicFilter, messageHandlers'[j].fp>> : j \in Used \cup {i}}
  BY <1>5 DEF Entries
<1>7. {s \in Entries(Used) : s[1] # f} = {<<messageHandlers[j].topicFilter, messageHandlers[j].fp>> : j \in Used \ {i}}
  BY <1>3, <1>4 DEF Entries, Used, SlotsOf
<1>8. {<<messageHandlers'[j].topicFilter, messageHandlers'[j].fp>> : j \in Used \cup {i}}
       = {<<messageHandlers'[j].topicFilter, messageHandlers'[j].fp>> : j \in Used \ {i}} \cup {<<f, h>>}
  BY <1>1, Zenon
<1>9. {<<messageHandlers'[j].topicFilter, messageHandlers'[j].fp>> : j \in Used \ {i}}
       = {<<messageHandlers[j].topicFilter, messageHandlers[j].fp>> : j \in Used \ {i}}
  BY <1>2 DEF Used
<1> QED
  BY <1>6, <1>7, <1>8, <1>9, Zenon

\* The entries of the table after slot i, which held f, is cleared.
LEMMA EntriesAfterRemove ==
  ASSUME TableInv,
         NEW i \in Slot, NEW f \in Filter, i \in SlotsOf(f),
         Store(i, NULL, NULL)
  PROVE  Entries(Used)' = {s \in Entries(Used) : s[1] # f}
<1> USE DEF TableInv, TypeOK, Store, Slot
<1>1. messageHandlers'[i].topicFilter = NULL
  OBVIOUS
<1>2. \A j \in Slot : j # i => messageHandlers'[j] = messageHandlers[j]
  OBVIOUS
<1>3. \A j \in Slot : j # i <=> messageHandlers[j].topicFilter # f
  BY DEF OneSlotPerFilter, SlotsOf
<1>5. Used' = Used \ {i}
  BY <1>1, <1>2 DEF Used, SlotsOf
<1>6. Entries(Used)' = {<<messageHandlers'[j].topicFilter, messageHandlers'[j].fp>> : j \in Used \ {i}}
  BY <1>5 DEF Entries
<1>7. {s \in Entries(Used) : s[1] # f} = {<<messageHandlers[j].topicFilter, messageHandlers[j].fp>> : j \in Used \ {i}}
  BY <1>3 DEF Entries, Used, SlotsOf
<1>8. \A j \in Used \ {i} : messageHandlers'[j] = messageHandlers[j]
  BY <1>2 DEF Used, SlotsOf
<1> HIDE DEF TableInv, TypeOK, Store, Slot
<1> QED
  BY <1>6, <1>7, <1>8

\* With no filter left, the map is empty.
LEMMA EntriesAfterClear ==
  ASSUME TableInv, messageHandlers' = NoFilters(messageHandlers)
  PROVE  Entries(Used)' = {}
<1>1. \A i \in Slot : messageHandlers'[i].topicFilter = NULL
  BY DEF NoFilters, TableInv, TypeOK
<1> QED
  BY <1>1 DEF Entries, Used, SlotsOf, Slot

-----------------------------------------------------------------------------
\* The initial table is the empty map.
LEMMA InitIsEmptyMap == Init => Subs!Init
<1> SUFFICES ASSUME Init PROVE Subs!Init
  OBVIOUS
<1>1. Entries(Slot \ SlotsOf(NULL)) = {}
  BY DEF Init, Entries, SlotsOf
<1> QED
  BY <1>1 DEF Init, Subs!Init

\* The map's module has the library's cardinality under a name of its own.
LEMMA SameCardinality == ASSUME NEW S PROVE Subs!Cardinality(S) = Cardinality(S)
BY Zenon DEF Cardinality, Subs!Cardinality, IsFiniteSet, Subs!IsFiniteSet

\* Every call is a call of the map, or changes nothing in it.
LEMMA NextIsMapStep == TableInv /\ [Next]_vars => [Subs!Next]_(Subs!vars)
<1> SUFFICES ASSUME TableInv, [Next]_vars PROVE [Subs!Next]_(Subs!vars)
  OBVIOUS
<1> USE DEF Subs!Answer, Subs!Without
<1>0. Slot \ SlotsOf(NULL) = Used /\ (Slot \ SlotsOf(NULL))' = Used'
  BY DEF Used
<1>1. CASE ClientInit
  BY <1>1, <1>0, EntriesAfterClear DEF ClientInit, Subs!Clear, Subs!Next
<1>2. ASSUME NEW clean \in 0 .. 1, OpenSession(clean) PROVE Subs!Next
  <2>1. Subs!Other
    BY <1>2 DEF OpenSession, Subs!Other, Entries, SlotsOf
  <2> QED
    BY <2>1 DEF Subs!Next
<1>3. CASE CloseSession
  <2>1. CASE cleansession = 1
    <3>1. Subs!Clear
      BY <1>3, <2>1, <1>0, EntriesAfterClear DEF CloseSession, Subs!Clear
    <3> QED
      BY <3>1 DEF Subs!Next
  <2>2. CASE cleansession # 1
    <3>1. Subs!Other
      BY <1>3, <2>2 DEF CloseSession, Subs!Other, Entries, SlotsOf
    <3> QED
      BY <3>1 DEF Subs!Next
  <2> QED
    BY <2>1, <2>2
<1>4. ASSUME NEW f \in Filter, RemoveMessageHandler(f) PROVE Subs!Next
  <2>1. CASE SlotsOf(f) = {} /\ rc' = "FAILURE" /\ UNCHANGED messageHandlers
    <3>1. Entries(Used)' = Entries(Used)
      BY <2>1 DEF Entries, Used, SlotsOf
    <3>2. {s \in Entries(Used) : s[1] # f} = Entries(Used)
      BY <2>1 DEF Entries, Used, SlotsOf
    <3>3. Subs!Remove(f)
      BY <1>4, <2>1, <1>0, <3>1, <3>2 DEF RemoveMessageHandler, Subs!Remove
    <3> QED
      BY <3>3 DEF Subs!Next
  <2>2. ASSUME NEW i \in Slot, First(i, SlotsOf(f)), Store(i, NULL, NULL), rc' = "SUCCESS" PROVE Subs!Next
    <3>1. i \in SlotsOf(f)
      BY <2>2 DEF First
    <3>2. Entries(Used)' = {s \in Entries(Used) : s[1] # f}
      BY <2>2, <3>1, EntriesAfterRemove
    <3>3. <<f, messageHandlers[i].fp>> \in Entries(Used)
      BY <3>1 DEF Entries, Used, SlotsOf
    <3>4. {s \in Entries(Used) : s[1] # f} # Entries(Used)
      BY <3>3
    <3>5. Subs!Remove(f)
      BY <1>4, <2>2, <1>0, <3>2, <3>4 DEF RemoveMessageHandler, Subs!Remove
    <3> QED
      BY <3>5 DEF Subs!Next
  <2> QED
    BY <1>4, <2>1, <2>2 DEF RemoveMessageHandler
<1>5. ASSUME NEW f \in Filter, NEW h \in Handler, SetMessageHandler(f, h) PROVE Subs!Next
  <2>1. CASE SlotFor(f) = {} /\ rc' = "FAILURE" /\ UNCHANGED messageHandlers
    <3>1. SlotsOf(f) = {} /\ SlotsOf(NULL) = {}
      BY <2>1 DEF SlotFor
    <3>2. {s \in Entries(Used) : s[1] # f} = Entries(Used)
      BY <3>1 DEF Entries, Used, SlotsOf
    <3>3. ~ (Cardinality(Entries(Used)) < MAX_MESSAGE_HANDLERS)
      BY <3>1, RoomIsAFreeSlot
    <3>4. Entries(Used)' = Entries(Used)
      BY <2>1 DEF Entries, Used, SlotsOf
    <3>5. ~ Subs!Fits(f)
      BY <1>0, <3>2, <3>3, SameCardinality DEF Subs!Fits
    <3>6. Subs!Set(f, h)
      BY <1>5, <2>1, <1>0, <3>4, <3>5 DEF SetMessageHandler, Subs!Set
    <3> QED
      BY <3>6 DEF Subs!Next
  <2>2. ASSUME NEW i \in Slot, First(i, SlotFor(f)), Store(i, f, h), rc' = "SUCCESS" PROVE Subs!Next
    <3>1. i \in SlotsOf(f) \/ (SlotsOf(f) = {} /\ i \in SlotsOf(NULL))
      BY <2>2 DEF First, SlotFor
    <3>2. Entries(Used)' = {s \in Entries(Used) : s[1] # f} \cup {<<f, h>>}
      BY <2>2, <3>1, EntriesAfterStore
    <3>3. Subs!Fits(f)
      <4>1. CASE i \in SlotsOf(f)
        <5>1. <<f, messageHandlers[i].fp>> \in Entries(Used)
          BY <4>1 DEF Entries, Used, SlotsOf
        <5>2. {s \in Entries(Used) : s[1] # f} # Entries(Used)
          BY <5>1
        <5> QED
          BY <1>0, <5>2 DEF Subs!Fits
      <4>2. CASE i \in SlotsOf(NULL)
        <5>1. Cardinality(Entries(Used)) < MAX_MESSAGE_HANDLERS
          BY <4>2, RoomIsAFreeSlot
        <5> QED
          BY <1>0, <5>1, SameCardinality DEF Subs!Fits
      <4> QED
        BY <3>1, <4>1, <4>2
    <3>4. Subs!Set(f, h)
      BY <1>5, <2>2, <1>0, <3>2, <3>3 DEF SetMessageHandler, Subs!Set
    <3> QED
      BY <3>4 DEF Subs!Next
  <2> QED
    BY <1>5, <2>1, <2>2 DEF SetMessageHandler
<1>6. ASSUME NEW n \in Topic, deliverMessage(n) PROVE Subs!Next
  <2>1. Entries(Called(n)) = {s \in Entries(Used) : Wanted(s[1], n)}
    BY DEF Entries, Called, Used, SlotsOf, TableInv, UsedHasHandler
  <2>2. Called(n) # {} <=> Entries(Called(n)) # {}
    BY DEF Entries
  <2>3. Entries(Used)' = Entries(Used)
    BY <1>6 DEF deliverMessage, Entries, Used, SlotsOf
  <2>4. Subs!Deliver(n)
    BY <1>6, <1>0, <2>1, <2>2, <2>3 DEF deliverMessage, Subs!Deliver
  <2> QED
    BY <2>4 DEF Subs!Next
<1>7. CASE UNCHANGED vars
  BY <1>7 DEF vars, Subs!vars, Entries, SlotsOf
<1> QED
  BY <1>1, <1>2, <1>3, <1>4, <1>5, <1>6, <1>7 DEF Next

\* The table of handlers is a bounded map, for any number of slots: setting a
\* handler is refused only when other filters have all of them, and a message
\* goes to the current handler of each filter that matches and to no other.
THEOREM TableIsBoundedMap == Spec => IsBoundedMap
BY InitTableInv, NextTableInv, InitIsEmptyMap, NextIsMapStep, PTL DEF Spec, IsBoundedMap, Subs!Spec

\* The entries whose filters MQTT says match n, without the cases of Stricter.
Matching(n) == {e \in Entries(Slot) : e[1] # NULL /\ MqttMatches(e[1], n) /\ ~ Stricter(e[1], n)}

\* deliverMessage calls no handler but those with a matching filter, and all
\* of these: no slot with a filter is without fp.
DeliversToMatching == [][\A n \in Topic : deliverMessage(n) => calls' = Matching(n)]_vars

\* What deliverMessage does in one step.
LEMMA CalledAreMatching ==
  ASSUME TableInv, NEW S, NEW n \in Seq(S), CorrectName(n), Filter \in SUBSET Seq(S),
         \A f \in Filter : CorrectFilter(f), deliverMessage(n)
  PROVE  calls' = Matching(n)
<1>1. calls' = Entries(Called(n))
  BY Zenon DEF deliverMessage
<1>2. ASSUME NEW i \in Slot
      PROVE  i \in Called(n) <=> /\ messageHandlers[i].topicFilter # NULL
                                 /\ MqttMatches(messageHandlers[i].topicFilter, n)
                                 /\ ~ Stricter(messageHandlers[i].topicFilter, n)
  <2> DEFINE f == messageHandlers[i].topicFilter
  <2>1. f \in Filter \cup {NULL}
    BY DEF TableInv, TypeOK
  <2>2. f # NULL => messageHandlers[i].fp # NULL
    BY DEF TableInv, UsedHasHandler
  <2>3. f # NULL => f \in Seq(S) /\ CorrectFilter(f)
    BY <2>1, Zenon
  <2>4. i \in Called(n) <=> f # NULL /\ Wanted(f, n) /\ messageHandlers[i].fp # NULL
    BY Zenon DEF Called
  <2> HIDE DEF f
  <2>5. f # NULL => (Wanted(f, n) <=> MqttMatches(f, n) /\ ~ Stricter(f, n))
    BY <2>3, WantedIsMqtt, Zenon
  <2>6. i \in Called(n) <=> f # NULL /\ MqttMatches(f, n) /\ ~ Stricter(f, n)
    BY <2>2, <2>4, <2>5, Zenon
  <2>7. QED BY <2>6, Zenon DEF f
<1>3. Called(n) \subseteq Slot
  BY Zenon DEF Called
<1>4. \A i \in Slot : <<messageHandlers[i].topicFilter, messageHandlers[i].fp>>[1] = messageHandlers[i].topicFilter
  OBVIOUS
<1>5. Entries(Called(n)) = Matching(n)
  <2>1. ASSUME NEW e \in Entries(Called(n))
        PROVE  e \in Matching(n)
    <3>1. PICK i \in Called(n) : e = <<messageHandlers[i].topicFilter, messageHandlers[i].fp>>
      BY Zenon DEF Entries
    <3>2. i \in Slot /\ e[1] = messageHandlers[i].topicFilter
      BY <1>3, <1>4, <3>1, Zenon
    <3>3. e \in Entries(Slot)
      BY <3>1, <3>2, Zenon DEF Entries
    <3>4. QED BY <1>2, <3>1, <3>2, <3>3, Zenon DEF Matching
  <2>2. ASSUME NEW e \in Matching(n)
        PROVE  e \in Entries(Called(n))
    <3>1. e \in Entries(Slot) /\ e[1] # NULL /\ MqttMatches(e[1], n) /\ ~ Stricter(e[1], n)
      BY Zenon DEF Matching
    <3>2. PICK i \in Slot : e = <<messageHandlers[i].topicFilter, messageHandlers[i].fp>>
      BY <3>1, Zenon DEF Entries
    <3>3. e[1] = messageHandlers[i].topicFilter
      BY <1>4, <3>2, Zenon
    <3>4. i \in Called(n)
      BY <1>2, <3>1, <3>3, Zenon
    <3>5. QED BY <3>2, <3>4, Zenon DEF Entries
  <2>3. QED BY <2>1, <2>2, Zenon
<1>6. QED BY <1>1, <1>5, Zenon

\* For filters and topics "in correct format", as isTopicMatched's comment
\* assumes: in every session each message reaches the handlers of the filters
\* that match its topic, and no others.
THEOREM MessagesReachMatching ==
  ASSUME NEW S, Filter \in SUBSET Seq(S), \A f \in Filter : CorrectFilter(f),
         Topic \in SUBSET Seq(S), \A n \in Topic : CorrectName(n)
  PROVE  Spec => DeliversToMatching
<1>1. TableInv => \A n \in Topic : deliverMessage(n) => calls' = Matching(n)
  <2> SUFFICES ASSUME TableInv, NEW n \in Topic, deliverMessage(n)
               PROVE  calls' = Matching(n)
    BY Zenon
  <2>1. n \in Seq(S) /\ CorrectName(n)
    BY Zenon
  <2>2. QED BY <2>1, CalledAreMatching, Zenon
<1>2. QED BY <1>1, InitTableInv, NextTableInv, PTL DEF Spec, DeliversToMatching
=============================================================================
