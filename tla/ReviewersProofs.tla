--------------------------- MODULE ReviewersProofs ---------------------------
(***************************************************************************)
(* Proofs about the reviewers that are tried one after the other, and the  *)
(* parts of a diff they are given, for any diff of characters that fit the *)
(* budget, any list of reviewers and any answers: a saved review is one    *)
(* family's reading of the whole diff, and a saved approval was one.       *)
(*                                                                         *)
(* split_diff and its helpers are recursive functions over the prefixes of *)
(* a sequence.  Such a function is determined by its equations, so that to *)
(* show what it computes one exhibits a function that satisfies them       *)
(* (PrefixRecursion) and does what is claimed for every prefix             *)
(* (PrefixInduction, from the least element of a set of naturals).         *)
(***************************************************************************)
EXTENDS Reviewers, SequenceTheorems, WellFoundedInduction, TLAPS

-----------------------------------------------------------------------------
\* Induction over a set of prefixes: one without a least missing prefix has all.
LEMMA PrefixInduction ==
    ASSUME NEW n \in Nat, NEW S, 0 \in S, \A i \in 1..n : i - 1 \in S => i \in S
    PROVE  \A i \in 0..n : i \in S
<1> DEFINE T == {i \in 0..n : i \notin S}
<1> SUFFICES ASSUME T # {} PROVE FALSE
  OBVIOUS
<1>1. \E x \in T : \A y \in T : ~(<<y, x>> \in OpToRel(<, Nat))
  <2>1. T \subseteq Nat /\ T # {}
    OBVIOUS
  <2> HIDE DEF T
  <2>2. QED BY <2>1, NatLessThanWellFounded, WFMin
<1>2. PICK x \in T : \A y \in T : ~(<<y, x>> \in OpToRel(<, Nat))
  BY <1>1
<1>3. x \in 1..n /\ x - 1 \in 0..n
  OBVIOUS
<1>4. x - 1 \in T
  BY <1>3
<1>5. <<x - 1, x>> \in OpToRel(<, Nat)
  BY <1>3 DEF OpToRel
<1>6. QED BY <1>2, <1>4, <1>5

\* f is the result of the first i steps, for every i up to n.
Computes(f, V, n, base, step) ==
    /\ f \in [0..n -> V] /\ f[0] = base
    /\ \A i \in 1..n : f[i] = step[i][f[i - 1]]

\* Steps within V, taken in turn, have such results within V.
LEMMA PrefixRecursion ==
    ASSUME NEW V, NEW base \in V, NEW n \in Nat, NEW step \in [1..n -> [V -> V]]
    PROVE  \E f : Computes(f, V, n, base, step)
<1> DEFINE Upto(k, f) == f[0] = base /\ \A i \in 1..k : f[i] = step[i][f[i - 1]]
           S == {k \in 0..n : \E f \in [0..k -> V] : Upto(k, f)}
<1>1. 0 \in S
  <2>1. [i \in 0..0 |-> base] \in [0..0 -> V] /\ Upto(0, [i \in 0..0 |-> base])
    OBVIOUS
  <2> HIDE DEF Upto
  <2>2. QED BY <2>1
<1>2. ASSUME NEW k \in 1..n, k - 1 \in S PROVE k \in S
  <2>1. PICK f \in [0..(k - 1) -> V] : Upto(k - 1, f)
    BY <1>2
  <2>2. PICK v \in V : v = step[k][f[k - 1]]
    OBVIOUS
  <2> DEFINE g == [i \in 0..k |-> IF i = k THEN v ELSE f[i]]
  <2>3. g \in [0..k -> V]
    OBVIOUS
  <2>4. g[0] = base
    BY <2>1
  <2>5. ASSUME NEW i \in 1..k PROVE g[i] = step[i][g[i - 1]]
    <3>1. CASE i = k
      BY <3>1, <2>2
    <3>2. CASE i # k
      <4>1. i \in 1..(k - 1) /\ g[i] = f[i] /\ g[i - 1] = f[i - 1]
        BY <3>2
      <4>2. QED BY <2>1, <4>1
    <3>3. QED BY <3>1, <3>2
  <2>6. Upto(k, g)
    BY <2>4, <2>5
  <2> HIDE DEF Upto, g
  <2>7. \E h \in [0..k -> V] : Upto(k, h)
    BY <2>3, <2>6
  <2>8. k \in 0..n
    OBVIOUS
  <2>9. QED BY <2>7, <2>8, Zenon
<1> HIDE DEF S
<1>3. \A k \in 0..n : k \in S
  BY <1>1, <1>2, PrefixInduction
<1>4. n \in S
  BY <1>3
<1>5. PICK f \in [0..n -> V] : Upto(n, f)
  BY <1>4 DEF S
<1>6. Computes(f, V, n, base, step)
  BY <1>5 DEF Computes
<1>7. QED BY <1>6

\* The prefixes of a flattened sequence.
Flattens(f, ss) ==
    /\ f[0] = <<>>
    /\ \A i \in 1..Len(ss) : f[i] = f[i - 1] \o ss[i]

\* A sequence of sequences has them.
LEMMA FlattenSteps ==
    ASSUME NEW X, NEW ss \in Seq(Seq(X))
    PROVE  \E f \in [0..Len(ss) -> Seq(X)] : Flattens(f, ss)
<1>1. PICK n \in Nat : n = Len(ss)
  OBVIOUS
<1>2. \A i \in 1..n : ss[i] \in Seq(X)
  BY <1>1
<1> DEFINE step == [i \in 1..n |-> [v \in Seq(X) |-> v \o ss[i]]]
<1>3. ASSUME NEW i \in 1..n PROVE step[i] \in [Seq(X) -> Seq(X)]
  <2>1. \A v \in Seq(X) : v \o ss[i] \in Seq(X)
    BY <1>2, ConcatProperties
  <2>2. QED BY <2>1
<1>4. step \in [1..n -> [Seq(X) -> Seq(X)]]
  BY <1>3
<1>5. \A i \in 1..n, v \in Seq(X) : step[i][v] = v \o ss[i]
  OBVIOUS
<1>6. <<>> \in Seq(X)
  OBVIOUS
<1> HIDE DEF step
<1>7. PICK f \in [0..n -> Seq(X)] :
        f[0] = <<>> /\ \A i \in 1..n : f[i] = step[i][f[i - 1]]
  <2>1. \E f : Computes(f, Seq(X), n, <<>>, step)
    BY <1>4, <1>6, PrefixRecursion
  <2>2. QED BY <2>1 DEF Computes
<1>8. ASSUME NEW i \in 1..n PROVE f[i] = f[i - 1] \o ss[i]
  <2>1. i - 1 \in 0..n
    OBVIOUS
  <2>2. f[i - 1] \in Seq(X)
    BY <2>1
  <2>3. QED BY <1>5, <1>7, <2>2
<1>9. QED BY <1>1, <1>7, <1>8 DEF Flattens

\* FlattenSeq is the last of them.
LEMMA FlattenIs ==
    ASSUME NEW X, NEW ss \in Seq(Seq(X)), NEW f, Flattens(f, ss)
    PROVE  FlattenSeq(ss) = f[Len(ss)]
<1>1. PICK n \in Nat : n = Len(ss)
  OBVIOUS
<1>2. CASE n = 0
  <2>1. ss = <<>>
    BY <1>1, <1>2, EmptySeq
  <2>2. QED BY <1>1, <1>2, <2>1 DEF FlattenSeq, Flattens
<1>3. CASE n # 0
  <2> DEFINE Eq(g) == g = [i \in 1..n |-> IF i = 1 THEN ss[i] ELSE g[i - 1] \o ss[i]]
             F == CHOOSE g : Eq(g)
             h == [i \in 1..n |-> f[i]]
  <2>1. f[0] = <<>> /\ \A i \in 1..n : f[i] = f[i - 1] \o ss[i]
    BY <1>1 DEF Flattens
  <2>2. Eq(h)
    <3>1. f[1] = ss[1]
      <4>1. 1 \in 1..n
        BY <1>3
      <4>2. ss[1] \in Seq(X)
        BY <1>1, <4>1
      <4>3. f[1] = f[1 - 1] \o ss[1]
        BY <2>1, <4>1
      <4>4. f[1] = <<>> \o ss[1]
        <5>1. 1 - 1 = 0
          OBVIOUS
        <5>2. QED BY <2>1, <4>3, <5>1, Zenon
      <4>5. QED BY <4>2, <4>4
    <3>2. ASSUME NEW i \in 1..n
          PROVE  h[i] = IF i = 1 THEN ss[i] ELSE h[i - 1] \o ss[i]
      <4>1. i # 1 => i - 1 \in 1..n
        OBVIOUS
      <4>2. QED BY <2>1, <3>1, <4>1
    <3>3. QED BY <3>2
  <2>3. Eq(F)
    <3> HIDE DEF Eq
    <3>1. QED BY <2>2
  <2>4. FlattenSeq(ss) = F[n]
    BY <1>1, <1>3, Zenon DEF FlattenSeq
  <2> HIDE DEF F, h
  <2>5. \A i \in 1..n : F[i] = IF i = 1 THEN ss[i] ELSE F[i - 1] \o ss[i]
    BY <2>3
  <2> DEFINE S == {i \in 0..n : i # 0 => F[i] = f[i]}
  <2>6. ASSUME NEW i \in 1..n, i - 1 \in S PROVE i \in S
    <3>1. F[i] = IF i = 1 THEN ss[i] ELSE F[i - 1] \o ss[i]
      BY <2>5
    <3>2. f[i] = IF i = 1 THEN ss[i] ELSE f[i - 1] \o ss[i]
      BY <2>1, <2>2 DEF h
    <3>3. i # 1 => F[i - 1] = f[i - 1]
      BY <2>6
    <3>4. F[i] = f[i]
      BY <3>1, <3>2, <3>3
    <3>5. QED BY <3>4
  <2>7. 0 \in S
    BY <1>1
  <2>8. \A i \in 0..n : i \in S
    <3> HIDE DEF S
    <3>1. QED BY <1>1, <2>6, <2>7, PrefixInduction
  <2>9. QED BY <1>1, <1>3, <2>4, <2>8
<1>4. QED BY <1>2, <1>3

\* What is flattened has the members of the parts.
LEMMA FlattenType ==
    ASSUME NEW X, NEW ss \in Seq(Seq(X))
    PROVE  FlattenSeq(ss) \in Seq(X)
<1>1. PICK n \in Nat : n = Len(ss)
  OBVIOUS
<1>2. PICK f \in [0..n -> Seq(X)] : Flattens(f, ss)
  BY <1>1, FlattenSteps
<1>3. FlattenSeq(ss) = f[n] /\ n \in 0..n
  BY <1>1, <1>2, FlattenIs
<1>4. QED BY <1>3

\* Flattening distributes over concatenation.
LEMMA FlattenConcat ==
    ASSUME NEW X, NEW ss \in Seq(Seq(X)), NEW tt \in Seq(Seq(X))
    PROVE  FlattenSeq(ss \o tt) = FlattenSeq(ss) \o FlattenSeq(tt)
<1>0. \A s \in Seq(X), t \in Seq(X), u \in Seq(X) : s \o (t \o u) = (s \o t) \o u
  BY ConcatAssociative
<1>1. PICK n \in Nat, m \in Nat : n = Len(ss) /\ m = Len(tt)
  OBVIOUS
<1>2. PICK f \in [0..n -> Seq(X)] : Flattens(f, ss)
  BY <1>1, FlattenSteps
<1>3. PICK h \in [0..m -> Seq(X)] : Flattens(h, tt)
  BY <1>1, FlattenSteps
<1>4. FlattenSeq(ss) = f[n] /\ FlattenSeq(tt) = h[m]
  BY <1>1, <1>2, <1>3, FlattenIs
<1>5. PICK st : st = ss \o tt
  OBVIOUS
<1>6. /\ st \in Seq(Seq(X)) /\ Len(st) = n + m
      /\ \A i \in 1..n : st[i] = ss[i]
      /\ \A k \in 1..m : st[n + k] = tt[k]
  <2>1. PICK V : V = Seq(X)
    OBVIOUS
  <2>2. /\ st \in Seq(V) /\ Len(st) = n + m
        /\ \A i \in 1..(n + m) : st[i] = IF i <= n THEN ss[i] ELSE tt[i - n]
    BY <1>1, <1>5, <2>1, ConcatProperties
  <2>3. ASSUME NEW k \in 1..m PROVE st[n + k] = tt[k]
    <3>1. PICK j \in 1..(n + m) : j = n + k /\ ~(j <= n) /\ j - n = k
      OBVIOUS
    <3>2. st[j] = tt[k]
      BY <2>2, <3>1
    <3>3. QED BY <3>1, <3>2
  <2>4. ASSUME NEW i \in 1..n PROVE st[i] = ss[i]
    BY <2>2
  <2>5. st \in Seq(Seq(X)) /\ Len(st) = n + m
    BY <2>1, <2>2
  <2>6. QED BY <2>3, <2>4, <2>5
<1>7. /\ f[0] = <<>> /\ \A i \in 1..n : f[i] = f[i - 1] \o ss[i]
      /\ h[0] = <<>> /\ \A i \in 1..m : h[i] = h[i - 1] \o tt[i]
  BY <1>1, <1>2, <1>3 DEF Flattens
<1>8. PICK whole : whole = f[n] /\ whole \in Seq(X) /\ whole \o <<>> = whole
  <2>1. n \in 0..n
    OBVIOUS
  <2>2. f[n] \in Seq(X)
    BY <2>1
  <2>3. QED BY <2>2, ConcatEmptySeq
<1>9. PICK g : g = [i \in 0..(n + m) |-> IF i <= n THEN f[i] ELSE whole \o h[i - n]]
  OBVIOUS
<1>10. /\ \A i \in 0..n : g[i] = f[i]
       /\ \A k \in 0..m : g[n + k] = whole \o h[k]
  <2>1. \A i \in 0..n : i \in 0..(n + m) /\ i <= n
    OBVIOUS
  <2>3. \A i \in 0..n : g[i] = f[i]
    BY <1>9, <2>1
  <2>4. ASSUME NEW k \in 1..m PROVE g[n + k] = whole \o h[k]
    <3>1. PICK j \in 0..(n + m) : j = n + k /\ ~(j <= n) /\ j - n = k
      OBVIOUS
    <3>2. g[j] = whole \o h[j - n]
      BY <1>9, <3>1
    <3>3. QED BY <3>1, <3>2
  <2>5. g[n + 0] = whole \o h[0]
    <3>1. n + 0 = n /\ n \in 0..n
      OBVIOUS
    <3>2. QED BY <1>7, <1>8, <2>3, <3>1
  <2>6. \A k \in 0..m : k = 0 \/ k \in 1..m
    OBVIOUS
  <2>7. QED BY <2>3, <2>4, <2>5, <2>6
<1>11. \A i \in 1..n : g[i] = g[i - 1] \o st[i]
  <2>1. \A i \in 1..n : i \in 0..n /\ i - 1 \in 0..n
    OBVIOUS
  <2>2. QED BY <1>6, <1>7, <1>10, <2>1
<1>12. ASSUME NEW i \in 1..(n + m), NEW k \in 1..m, i = n + k
       PROVE  g[i] = g[i - 1] \o st[i]
  <2>1. k - 1 \in 0..m /\ k \in 0..m /\ i - 1 = n + (k - 1)
    BY <1>12
  <2>2. h[k] = h[k - 1] \o tt[k]
    BY <1>7
  <2>3. h[k - 1] \in Seq(X) /\ tt[k] \in Seq(X)
    <3>1. tt[k] \in Seq(X)
      BY <1>1
    <3>2. PICK V : V = Seq(X)
      OBVIOUS
    <3>3. h \in [0..m -> V]
      BY <3>2
    <3>4. h[k - 1] \in V
      BY <2>1, <3>3
    <3>5. QED BY <3>1, <3>2, <3>4
  <2>4. whole \o (h[k - 1] \o tt[k]) = (whole \o h[k - 1]) \o tt[k]
    BY <1>0, <1>8, <2>3, Zenon
  <2>5. g[i] = whole \o h[k] /\ g[i - 1] = whole \o h[k - 1] /\ st[i] = tt[k]
    BY <1>6, <1>10, <1>12, <2>1
  <2>6. QED BY <2>2, <2>4, <2>5
<1>13. Flattens(g, st)
  <2>1. \A i \in 1..(n + m) : i \in 1..n \/ \E k \in 1..m : i = n + k
    <3> SUFFICES ASSUME NEW i \in 1..(n + m), i \notin 1..n PROVE \E k \in 1..m : i = n + k
      OBVIOUS
    <3>1. i - n \in 1..m /\ i = n + (i - n)
      OBVIOUS
    <3>2. QED BY <3>1
  <2>2. ASSUME NEW i \in 1..(n + m) PROVE g[i] = g[i - 1] \o st[i]
    <3>1. CASE i \in 1..n
      BY <1>11, <3>1
    <3>2. CASE i \notin 1..n
      <4>1. PICK k \in 1..m : i = n + k
        BY <2>1, <3>2
      <4>2. QED BY <1>12, <4>1
    <3>3. QED BY <3>1, <3>2
  <2>3. g[0] = <<>>
    <3>1. 0 \in 0..n
      OBVIOUS
    <3>2. QED BY <1>7, <1>10, <3>1
  <2>4. QED BY <1>6, <2>2, <2>3 DEF Flattens
<1>14. FlattenSeq(st) = g[n + m] /\ g[n + m] = whole \o h[m]
  <2>1. n + m \in Nat /\ m \in 0..m
    OBVIOUS
  <2>2. FlattenSeq(st) = g[Len(st)]
    BY <1>6, <1>13, FlattenIs
  <2>3. g[n + m] = whole \o h[m]
    BY <1>10, <2>1
  <2>4. QED BY <1>6, <2>2, <2>3
<1>15. QED BY <1>4, <1>5, <1>8, <1>14

\* A function on 1..n is a sequence of length n.
LEMMA AsSeq ==
    ASSUME NEW V, NEW n \in Nat, NEW f \in [1..n -> V]
    PROVE  f \in Seq(V) /\ Len(f) = n /\ DOMAIN f = 1..n
OBVIOUS

\* One part flattens to itself.
LEMMA FlattenOne ==
    ASSUME NEW X, NEW s \in Seq(X)
    PROVE  FlattenSeq(<<s>>) = s
<1>1. PICK ss \in Seq(Seq(X)) : ss = <<s>> /\ Len(ss) = 1 /\ ss[1] = s
  <2>1. PICK V : V = Seq(X)
    OBVIOUS
  <2>2. <<s>> \in Seq(V) /\ Len(<<s>>) = 1 /\ <<s>>[1] = s
    BY <2>1
  <2>3. QED BY <2>1, <2>2
<1>2. PICK f : f = [i \in 0..1 |-> IF i = 0 THEN <<>> ELSE s]
  OBVIOUS
<1>3. f[0] = <<>> /\ f[1] = s /\ s = <<>> \o s
  BY <1>2, ConcatEmptySeq
<1>4. Flattens(f, ss)
  <2>1. ASSUME NEW i \in 1..1 PROVE f[i] = f[i - 1] \o ss[i]
    <3>1. i = 1 /\ i - 1 = 0
      OBVIOUS
    <3>2. QED BY <1>1, <1>3, <3>1
  <2>2. QED BY <1>1, <1>3, <2>1 DEF Flattens
<1>5. QED BY <1>1, <1>3, <1>4, FlattenIs

\* No part flattens to nothing.
LEMMA FlattenNone == FlattenSeq(<<>>) = <<>>
  BY DEF FlattenSeq

\* One more part is appended to what the others flatten to.
LEMMA FlattenAppend ==
    ASSUME NEW X, NEW ss \in Seq(Seq(X)), NEW s \in Seq(X)
    PROVE  FlattenSeq(Append(ss, s)) = FlattenSeq(ss) \o s
<1>1. Append(ss, s) = ss \o <<s>> /\ <<s>> \in Seq(Seq(X))
  <2>1. PICK V : V = Seq(X)
    OBVIOUS
  <2>2. Append(ss, s) = ss \o <<s>> /\ <<s>> \in Seq(V)
    BY <2>1, AppendIsConcat
  <2>3. QED BY <2>1, <2>2
<1>2. PICK one : one = <<s>> /\ one \in Seq(Seq(X)) /\ FlattenSeq(one) = s
  BY <1>1, FlattenOne
<1>3. FlattenSeq(ss \o one) = FlattenSeq(ss) \o FlattenSeq(one)
  BY <1>2, FlattenConcat
<1>4. QED BY <1>1, <1>2, <1>3

\* A sequence cut into its members flattens to itself.
LEMMA FlattenSingles ==
    ASSUME NEW X, NEW s \in Seq(X)
    PROVE  FlattenSeq([i \in DOMAIN s |-> <<s[i]>>]) = s
<1>1. PICK n \in Nat : n = Len(s)
  OBVIOUS
<1>2. PICK ss : ss = [i \in DOMAIN s |-> <<s[i]>>]
  OBVIOUS
<1>3. ss \in Seq(Seq(X)) /\ Len(ss) = n /\ \A i \in 1..n : ss[i] = <<s[i]>>
  <2>1. \A i \in 1..n : <<s[i]>> \in Seq(X)
    BY <1>1
  <2>2. QED BY <1>1, <1>2, <2>1
<1>4. PICK f : f = [i \in 0..n |-> [j \in 1..i |-> s[j]]]
  OBVIOUS
<1>5. f[0] = <<>> /\ f[n] = s
  <2>1. f[0] = [j \in 1..0 |-> s[j]]
    BY <1>4
  <2>2. [j \in 1..0 |-> s[j]] = <<>>
    OBVIOUS
  <2>3. f[n] = [j \in 1..n |-> s[j]]
    BY <1>4
  <2>4. QED BY <1>1, <2>1, <2>2, <2>3
<1>6. ASSUME NEW i \in 1..n PROVE f[i] = f[i - 1] \o ss[i]
  <2>1. PICK a, b : a = f[i - 1] /\ b = <<s[i]>>
    OBVIOUS
  <2>2. a = [j \in 1..(i - 1) |-> s[j]] /\ a \in Seq(X) /\ Len(a) = i - 1
    <3>1. i - 1 \in 0..n /\ i - 1 \in Nat
      OBVIOUS
    <3>2. a = [j \in 1..(i - 1) |-> s[j]]
      BY <1>4, <2>1, <3>1
    <3>3. \A j \in 1..(i - 1) : s[j] \in X
      BY <1>1
    <3>4. a \in [1..(i - 1) -> X]
      BY <3>2, <3>3
    <3>5. QED BY <3>1, <3>2, <3>4, AsSeq
  <2>3. b \in Seq(X) /\ Len(b) = 1 /\ b[1] = s[i]
    BY <1>1, <2>1
  <2>4. PICK c : c = a \o b
    OBVIOUS
  <2>5. /\ c \in Seq(X) /\ Len(c) = i
        /\ \A j \in 1..i : c[j] = IF j <= i - 1 THEN a[j] ELSE b[j - (i - 1)]
    <3>1. (i - 1) + 1 = i
      OBVIOUS
    <3>2. /\ c \in Seq(X) /\ Len(c) = Len(a) + Len(b)
          /\ \A j \in 1..(Len(a) + Len(b)) : c[j] = IF j <= Len(a) THEN a[j] ELSE b[j - Len(a)]
      BY <2>2, <2>3, <2>4, ConcatProperties
    <3>3. QED BY <2>2, <2>3, <3>1, <3>2
  <2>6. \A j \in 1..i : c[j] = s[j]
    BY <2>2, <2>3, <2>5
  <2>7. c = [j \in 1..i |-> s[j]]
    BY <2>5, <2>6
  <2>8. f[i] = [j \in 1..i |-> s[j]]
    BY <1>4
  <2>9. QED BY <1>3, <2>1, <2>4, <2>7, <2>8
<1>7. Flattens(f, ss)
  BY <1>3, <1>5, <1>6 DEF Flattens
<1>8. QED BY <1>2, <1>3, <1>5, <1>7, FlattenIs

\* Two levels may be flattened from outside or from inside.
LEMMA FlattenFlatten ==
    ASSUME NEW X, NEW sss \in Seq(Seq(Seq(X)))
    PROVE  FlattenSeq(FlattenSeq(sss)) = FlattenSeq([i \in DOMAIN sss |-> FlattenSeq(sss[i])])
<1>1. PICK n \in Nat : n = Len(sss)
  OBVIOUS
<1>2. PICK f \in [0..n -> Seq(Seq(X))] : Flattens(f, sss)
  BY <1>1, FlattenSteps
<1>3. FlattenSeq(sss) = f[n]
  BY <1>1, <1>2, FlattenIs
<1>4. PICK tt : tt = [i \in DOMAIN sss |-> FlattenSeq(sss[i])]
  OBVIOUS
<1>5. \A i \in 1..n : sss[i] \in Seq(Seq(X)) /\ FlattenSeq(sss[i]) \in Seq(X)
  BY <1>1, FlattenType
<1>6. tt \in Seq(Seq(X)) /\ Len(tt) = n /\ \A i \in 1..n : tt[i] = FlattenSeq(sss[i])
  <2>1. PICK V : V = Seq(X)
    OBVIOUS
  <2>2. tt = [i \in 1..n |-> FlattenSeq(sss[i])]
    BY <1>1, <1>4
  <2>3. tt \in [1..n -> V]
    BY <1>5, <2>1, <2>2
  <2>4. tt \in Seq(V) /\ Len(tt) = n
    BY <2>3, AsSeq
  <2>5. QED BY <2>1, <2>2, <2>4
<1>7. PICK g : g = [i \in 0..n |-> FlattenSeq(f[i])]
  OBVIOUS
<1>8. f[0] = <<>> /\ \A i \in 1..n : f[i] = f[i - 1] \o sss[i]
  BY <1>1, <1>2 DEF Flattens
<1>9. ASSUME NEW i \in 1..n PROVE g[i] = g[i - 1] \o tt[i]
  <2>1. i - 1 \in 0..n /\ i \in 0..n
    OBVIOUS
  <2>2. f[i - 1] \in Seq(Seq(X)) /\ sss[i] \in Seq(Seq(X))
    BY <2>1, <1>5
  <2>3. FlattenSeq(f[i - 1] \o sss[i]) = FlattenSeq(f[i - 1]) \o FlattenSeq(sss[i])
    BY <2>2, FlattenConcat
  <2>4. QED BY <1>6, <1>7, <1>8, <2>1, <2>3
<1>10. Flattens(g, tt)
  <2>1. g[0] = <<>>
    BY <1>7, <1>8, FlattenNone
  <2>2. QED BY <1>6, <1>9, <2>1 DEF Flattens
<1>11. FlattenSeq(tt) = g[n] /\ g[n] = FlattenSeq(f[n])
  BY <1>6, <1>7, <1>10, FlattenIs
<1>12. QED BY <1>3, <1>4, <1>11

-----------------------------------------------------------------------------

\* Nothing has no bytes.
LEMMA NoBytes == Bytes(<<>>) = 0
<1> DEFINE Eq(g) == g = [i \in 0..Len(<<>>) |-> IF i = 0 THEN 0 ELSE g[i - 1] + <<>>[i]]
           F == CHOOSE g : Eq(g)
           h == [i \in 0..0 |-> 0]
<1>1. Len(<<>>) = 0
  OBVIOUS
<1>2. \A i \in 0..0 : h[i] = IF i = 0 THEN 0 ELSE h[i - 1] + <<>>[i]
  OBVIOUS
<1>3. Eq(h)
  BY <1>1, <1>2
<1>4. Eq(F)
  <2> HIDE DEF Eq
  <2>1. QED BY <1>3
<1>5. F[0] = 0
  BY <1>1, <1>4
<1>6. Bytes(<<>>) = F[Len(<<>>)]
  BY Zenon DEF Bytes
<1>7. QED BY <1>1, <1>5, <1>6

\* One character has its own number of bytes.
LEMMA CharBytes == ASSUME NEW c \in Char PROVE Bytes(<<c>>) = c
<1>1. PICK s : s = <<c>> /\ Len(s) = 1 /\ s[1] = c
  <2>1. Len(<<c>>) = 1 /\ <<c>>[1] = c
    OBVIOUS
  <2>2. QED BY <2>1
<1> DEFINE Eq(g) == g = [i \in 0..Len(s) |-> IF i = 0 THEN 0 ELSE g[i - 1] + s[i]]
           F == CHOOSE g : Eq(g)
           h == [i \in 0..1 |-> IF i = 0 THEN 0 ELSE c]
<1>2. \A i \in 0..1 : h[i] = IF i = 0 THEN 0 ELSE h[i - 1] + s[i]
  BY <1>1 DEF Char
<1>3. Eq(h)
  BY <1>1, <1>2
<1>4. Eq(F)
  <2> HIDE DEF Eq
  <2>1. QED BY <1>3
<1>5. F[0] = 0 /\ F[1] = F[0] + s[1]
  <2>1. \A i \in 0..1 : F[i] = IF i = 0 THEN 0 ELSE F[i - 1] + s[i]
    <3> HIDE DEF F
    <3>1. F = [i \in 0..1 |-> IF i = 0 THEN 0 ELSE F[i - 1] + s[i]]
      BY <1>1, <1>4
    <3>2. QED BY <3>1, Zenon
  <2> HIDE DEF F
  <2>2. 0 \in 0..1 /\ 1 \in 0..1 /\ 1 - 1 = 0 /\ 1 # 0
    OBVIOUS
  <2>3. QED BY <2>1, <2>2, Zenon
<1>6. Bytes(s) = F[Len(s)]
  BY Zenon DEF Bytes
<1> HIDE DEF F
<1>7. F[1] = c
  BY <1>1, <1>5 DEF Char
<1>8. QED BY <1>1, <1>6, <1>7

-----------------------------------------------------------------------------
\* Texts within the budget; a packing in progress; what it holds in order.
Piece(budget) == {text \in Seq(Char) : Bytes(text) <= budget}
Packing(budget) == [closed : Seq(Piece(budget)), open : Piece(budget)]
Content(pack) == FlattenSeq(pack.closed) \o pack.open

\* A piece is a text.
LEMMA Pieces ==
    ASSUME NEW budget \in Nat
    PROVE  /\ Piece(budget) \subseteq Seq(Char)
           /\ Seq(Piece(budget)) \subseteq Seq(Seq(Char))
           /\ <<>> \in Piece(budget)
<1>1. Piece(budget) \subseteq Seq(Char)
  BY DEF Piece
<1>2. Seq(Piece(budget)) \subseteq Seq(Seq(Char))
  <2>1. PICK P, T : P = Piece(budget) /\ T = Seq(Char) /\ P \subseteq T
    BY <1>1
  <2>2. Seq(P) \subseteq Seq(T)
    BY <2>1, SeqMonotonic
  <2>3. QED BY <2>1, <2>2
<1>3. <<>> \in Seq(Char)
  OBVIOUS
<1>4. QED BY <1>1, <1>2, <1>3, NoBytes DEF Piece

\* Closing the piece being filled loses nothing.
LEMMA Closed ==
    ASSUME NEW budget \in Nat, NEW pack \in Packing(budget)
    PROVE  /\ Close(pack) \in Packing(budget)
           /\ Close(pack).open = <<>>
           /\ FlattenSeq(Close(pack).closed) = Content(pack)
           /\ Content(Close(pack)) = Content(pack)
<1>1. PICK done, rest : done = pack.closed /\ rest = pack.open
  OBVIOUS
<1>2. done \in Seq(Piece(budget)) /\ rest \in Piece(budget)
  BY <1>1 DEF Packing
<1>3. done \in Seq(Seq(Char)) /\ rest \in Seq(Char)
  BY <1>2, Pieces
<1>4. FlattenSeq(done) \in Seq(Char)
  BY <1>3, FlattenType
<1>5. FlattenSeq(done) \o <<>> = FlattenSeq(done)
  BY <1>4, ConcatEmptySeq
<1>6. CASE rest = <<>>
  BY <1>1, <1>5, <1>6 DEF Close, Content
<1>7. CASE rest # <<>>
  <2>1. Close(pack) = [closed |-> Append(done, rest), open |-> <<>>]
    BY <1>1, <1>7 DEF Close
  <2>2. Append(done, rest) \in Seq(Piece(budget)) /\ Append(done, rest) \in Seq(Seq(Char))
    <3>1. Append(done, rest) \in Seq(Piece(budget))
      BY <1>2, AppendProperties
    <3>2. QED BY <3>1, Pieces
  <2>3. FlattenSeq(Append(done, rest)) = FlattenSeq(done) \o rest
    BY <1>3, FlattenAppend
  <2>4. FlattenSeq(Append(done, rest)) \o <<>> = FlattenSeq(Append(done, rest))
    <3>1. FlattenSeq(Append(done, rest)) \in Seq(Char)
      BY <2>2, FlattenType
    <3>2. QED BY <3>1, ConcatEmptySeq
  <2>5. Close(pack).closed = Append(done, rest) /\ Close(pack).open = <<>>
    BY <2>1
  <2>6. Close(pack) \in Packing(budget)
    BY <2>1, <2>2, Pieces DEF Packing
  <2>7. QED BY <1>1, <2>3, <2>4, <2>5, <2>6 DEF Content
<1>8. QED BY <1>6, <1>7

\* Adding a unit that fits keeps every piece within the budget and the order.
LEMMA Added ==
    ASSUME NEW budget \in Nat, NEW pack \in Packing(budget), NEW unit \in Piece(budget)
    PROVE  /\ Add(budget, pack, unit) \in Packing(budget)
           /\ Content(Add(budget, pack, unit)) = Content(pack) \o unit
<1>0. \A s \in Seq(Char), t \in Seq(Char), u \in Seq(Char) : s \o (t \o u) = (s \o t) \o u
  BY ConcatAssociative
<1>1. PICK into \in Packing(budget) :
        /\ Content(into) = Content(pack)
        /\ Add(budget, pack, unit) = [into EXCEPT !.open = @ \o unit]
        /\ into.open = <<>> \/ Bytes(into.open \o unit) <= budget
  <2>1. CASE pack.open = <<>> \/ Bytes(pack.open \o unit) <= budget
    BY <2>1 DEF Add
  <2>2. CASE ~(pack.open = <<>> \/ Bytes(pack.open \o unit) <= budget)
    BY <2>2, Closed DEF Add
  <2>3. QED BY <2>1, <2>2
<1>2. PICK done, rest : done = into.closed /\ rest = into.open
  OBVIOUS
<1>3. done \in Seq(Piece(budget)) /\ rest \in Piece(budget)
  BY <1>2 DEF Packing
<1>4. done \in Seq(Seq(Char)) /\ rest \in Seq(Char) /\ unit \in Seq(Char)
  BY <1>3, Pieces
<1>5. FlattenSeq(done) \in Seq(Char)
  BY <1>4, FlattenType
<1>6. PICK joined : joined = rest \o unit
  OBVIOUS
<1>7. joined \in Piece(budget)
  <2>1. joined \in Seq(Char)
    BY <1>4, <1>6, ConcatProperties
  <2>2. CASE rest = <<>>
    <3>1. <<>> \o unit = unit
      BY <1>4, ConcatEmptySeq
    <3>2. QED BY <2>2, <3>1, <1>6
  <2>3. CASE Bytes(joined) <= budget
    BY <2>1, <2>3 DEF Piece
  <2>4. QED BY <1>1, <1>2, <1>6, <2>2, <2>3
<1>8. Add(budget, pack, unit) = [closed |-> done, open |-> joined]
  <2>1. into = [closed |-> done, open |-> rest]
    BY <1>2 DEF Packing
  <2>2. QED BY <1>1, <1>6, <2>1
<1>9. FlattenSeq(done) \o (rest \o unit) = (FlattenSeq(done) \o rest) \o unit
  BY <1>0, <1>4, <1>5, Zenon
<1>10. QED BY <1>1, <1>2, <1>3, <1>6, <1>7, <1>8, <1>9 DEF Packing, Content

\* The packing starts with nothing.
LEMMA Emptied ==
    ASSUME NEW budget \in Nat
    PROVE  Empty \in Packing(budget) /\ Content(Empty) = <<>>
<1>1. <<>> \in Seq(Piece(budget)) /\ <<>> \in Seq(Char)
  OBVIOUS
<1>2. <<>> \o <<>> = <<>>
  BY <1>1, ConcatEmptySeq
<1>3. QED BY <1>1, <1>2, Pieces, FlattenNone DEF Empty, Packing, Content

\* Packing units that fit gives pieces that fit and hold the units in order.
LEMMA Packed ==
    ASSUME NEW budget \in Nat, NEW units \in Seq(Piece(budget))
    PROVE  /\ Pack(units, budget) \in Seq(Piece(budget))
           /\ FlattenSeq(Pack(units, budget)) = FlattenSeq(units)
<1>1. PICK n \in Nat : n = Len(units) /\ units \in Seq(Seq(Char))
  BY Pieces
<1>2. \A i \in 1..n : units[i] \in Piece(budget)
  BY <1>1
<1>0. PICK V : V = Packing(budget)
  OBVIOUS
<1> DEFINE step == [i \in 1..n |-> [v \in V |-> Add(budget, v, units[i])]]
<1>3. \A i \in 1..n, v \in V : Add(budget, v, units[i]) \in V
  BY <1>0, <1>2, Added
<1>4. step \in [1..n -> [V -> V]]
  BY <1>3
<1>5. \A i \in 1..n, v \in V : step[i][v] = Add(budget, v, units[i])
  OBVIOUS
<1>6. Empty \in V
  BY <1>0, Emptied
<1>7. PICK f \in [0..n -> V] : f[0] = Empty /\ \A i \in 1..n : f[i] = step[i][f[i - 1]]
  <2> HIDE DEF step
  <2>1. \E f : Computes(f, V, n, Empty, step)
    BY <1>4, <1>6, PrefixRecursion
  <2>2. QED BY <2>1 DEF Computes
<1> DEFINE Eq(g) == g = [i \in 0..n |-> IF i = 0 THEN Empty ELSE Add(budget, g[i - 1], units[i])]
           F == CHOOSE g : Eq(g)
<1>8. Eq(F)
  <2>1. PICK h : h = [i \in 0..n |-> f[i]]
    OBVIOUS
  <2>2. ASSUME NEW i \in 0..n
        PROVE  f[i] = IF i = 0 THEN Empty ELSE Add(budget, f[i - 1], units[i])
    <3> HIDE DEF step
    <3>1. i # 0 => i \in 1..n /\ i - 1 \in 0..n
      OBVIOUS
    <3>2. i # 0 => f[i - 1] \in V
      BY <3>1
    <3>3. QED BY <1>5, <1>7, <3>1, <3>2
  <2>3. Eq(f)
    <3>1. f = [i \in 0..n |-> f[i]]
      OBVIOUS
    <3>2. QED BY <2>2, <3>1
  <2> HIDE DEF Eq
  <2>4. QED BY <2>3
<1> HIDE DEF F, step
<1>9. F[0] = Empty /\ \A i \in 1..n : F[i] = Add(budget, F[i - 1], units[i])
  <2>1. F = [i \in 0..n |-> IF i = 0 THEN Empty ELSE Add(budget, F[i - 1], units[i])]
    BY <1>8
  <2>2. QED BY <2>1
<1>10. PICK g \in [0..n -> Seq(Char)] : Flattens(g, units)
  BY <1>1, FlattenSteps
<1>11. g[0] = <<>> /\ \A i \in 1..n : g[i] = g[i - 1] \o units[i]
  BY <1>1, <1>10 DEF Flattens
<1> DEFINE S == {i \in 0..n : F[i] \in V /\ Content(F[i]) = g[i]}
<1>12. 0 \in S
  BY <1>0, <1>9, <1>11, Emptied
<1>13. ASSUME NEW i \in 1..n, i - 1 \in S PROVE i \in S
  <2>1. F[i - 1] \in V /\ Content(F[i - 1]) = g[i - 1]
    BY <1>13
  <2>2. F[i] \in V /\ Content(F[i]) = Content(F[i - 1]) \o units[i]
    <3>1. PICK pack, unit : pack = F[i - 1] /\ unit = units[i]
      OBVIOUS
    <3>2. pack \in Packing(budget) /\ unit \in Piece(budget)
      BY <1>0, <1>2, <2>1, <3>1
    <3>3. /\ Add(budget, pack, unit) \in Packing(budget)
          /\ Content(Add(budget, pack, unit)) = Content(pack) \o unit
      BY <3>2, Added
    <3>4. F[i] = Add(budget, pack, unit)
      BY <1>9, <3>1
    <3>5. QED BY <1>0, <3>1, <3>3, <3>4, Zenon
  <2>3. g[i] = g[i - 1] \o units[i]
    BY <1>11
  <2>4. i \in 0..n
    OBVIOUS
  <2>5. QED BY <2>1, <2>2, <2>3, <2>4, Zenon
<1>14. \A i \in 0..n : i \in S
  <2> HIDE DEF S
  <2>1. QED BY <1>12, <1>13, PrefixInduction
<1>15. F[n] \in Packing(budget) /\ Content(F[n]) = FlattenSeq(units)
  <2>1. n \in S
    BY <1>14
  <2>2. FlattenSeq(units) = g[n]
    BY <1>1, <1>10, FlattenIs
  <2>3. QED BY <1>0, <2>1, <2>2
<1>16. Pack(units, budget) = Close(F[n]).closed
  BY <1>1, Zenon DEF Pack, F
<1>17. QED BY <1>15, <1>16, Closed DEF Packing

\* A line cut between its characters keeps them, in pieces within the budget.
LEMMA LineCut ==
    ASSUME NEW budget \in Nat, 4 <= budget, NEW line \in Seq(Char)
    PROVE  /\ CutLine(line, budget) \in Seq(Piece(budget))
           /\ FlattenSeq(CutLine(line, budget)) = line
<1>1. PICK n \in Nat : n = Len(line)
  OBVIOUS
<1>2. PICK units : units = [i \in DOMAIN line |-> <<line[i]>>]
  OBVIOUS
<1>3. ASSUME NEW i \in 1..n PROVE <<line[i]>> \in Piece(budget)
  <2>1. line[i] \in Char
    BY <1>1
  <2>2. Bytes(<<line[i]>>) <= budget
    BY <2>1, CharBytes DEF Char
  <2>3. QED BY <2>1, <2>2 DEF Piece
<1>4. units \in Seq(Piece(budget))
  <2>1. PICK P : P = Piece(budget)
    OBVIOUS
  <2>2. units \in [1..n -> P]
    BY <1>1, <1>2, <1>3, <2>1
  <2>3. QED BY <2>1, <2>2, AsSeq
<1>5. CutLine(line, budget) = Pack(units, budget)
  BY <1>2 DEF CutLine
<1>6. FlattenSeq(units) = line
  BY <1>2, FlattenSingles
<1>7. QED BY <1>4, <1>5, <1>6, Packed

\* So does a block when one more line is added, cut or whole.
LEMMA LineAdded ==
    ASSUME NEW budget \in Nat, 4 <= budget, NEW pack \in Packing(budget), NEW line \in Seq(Char)
    PROVE  /\ AddLine(budget, pack, line) \in Packing(budget)
           /\ Content(AddLine(budget, pack, line)) = Content(pack) \o line
<1>1. CASE Bytes(line) <= budget
  <2>1. line \in Piece(budget)
    BY <1>1 DEF Piece
  <2>2. AddLine(budget, pack, line) = Add(budget, pack, line)
    BY <1>1 DEF AddLine
  <2>3. QED BY <2>1, <2>2, Added
<1>2. CASE ~(Bytes(line) <= budget)
  <2>1. PICK flushed \in Packing(budget) :
          /\ flushed = Close(pack) /\ flushed.open = <<>>
          /\ FlattenSeq(flushed.closed) = Content(pack)
    BY Closed
  <2>2. PICK done, cut : done = flushed.closed /\ cut = CutLine(line, budget)
    OBVIOUS
  <2>3. /\ done \in Seq(Piece(budget)) /\ done \in Seq(Seq(Char))
        /\ cut \in Seq(Piece(budget)) /\ cut \in Seq(Seq(Char))
    <3>1. done \in Seq(Piece(budget)) /\ cut \in Seq(Piece(budget))
      BY <2>2, LineCut DEF Packing
    <3>2. QED BY <3>1, Pieces
  <2>4. PICK both : both = done \o cut
    OBVIOUS
  <2>5. both \in Seq(Piece(budget)) /\ both \in Seq(Seq(Char))
    <3>1. both \in Seq(Piece(budget))
      BY <2>3, <2>4, ConcatProperties
    <3>2. QED BY <3>1, Pieces
  <2>6. AddLine(budget, pack, line) = [closed |-> both, open |-> <<>>]
    <3>1. flushed = [closed |-> done, open |-> <<>>]
      BY <2>1, <2>2 DEF Packing
    <3>2. AddLine(budget, pack, line) = [flushed EXCEPT !.closed = @ \o cut]
      BY <1>2, <2>1, <2>2 DEF AddLine
    <3>3. QED BY <2>4, <3>1, <3>2
  <2>7. FlattenSeq(both) = Content(pack) \o line
    <3>1. FlattenSeq(done \o cut) = FlattenSeq(done) \o FlattenSeq(cut)
      BY <2>3, FlattenConcat
    <3>2. QED BY <2>1, <2>2, <2>4, <3>1, LineCut
  <2>8. FlattenSeq(both) \o <<>> = FlattenSeq(both)
    <3>1. FlattenSeq(both) \in Seq(Char)
      BY <2>5, FlattenType
    <3>2. QED BY <3>1, ConcatEmptySeq
  <2>9. PICK made : made = [closed |-> both, open |-> <<>>]
    OBVIOUS
  <2>10. made \in Packing(budget)
    BY <2>5, <2>9, Pieces DEF Packing
  <2>11. made.closed = both /\ made.open = <<>>
    BY <2>9
  <2>12. QED BY <2>6, <2>7, <2>8, <2>9, <2>10, <2>11 DEF Content
<1>3. QED BY <1>1, <1>2

\* _split_bytes gives pieces within the budget that hold the block in order.
LEMMA SplitBytesCovers ==
    ASSUME NEW budget \in Nat, 4 <= budget, NEW block, block.lines \in Seq(Seq(Char))
    PROVE  /\ SplitBytes(block, budget) \in Seq(Piece(budget))
           /\ FlattenSeq(SplitBytes(block, budget)) = Text(block)
<1>1. PICK n \in Nat, units \in Seq(Seq(Char)) : units = block.lines /\ n = Len(units)
  <2>1. Len(block.lines) \in Nat
    OBVIOUS
  <2>2. QED BY <2>1
<1>2. \A i \in 1..n : units[i] \in Seq(Char)
  BY <1>1
<1>0. PICK V : V = Packing(budget)
  OBVIOUS
<1> DEFINE step == [i \in 1..n |-> [v \in V |-> AddLine(budget, v, units[i])]]
<1>3. \A i \in 1..n, v \in V : AddLine(budget, v, units[i]) \in V
  BY <1>0, <1>2, LineAdded
<1>4. step \in [1..n -> [V -> V]]
  BY <1>3
<1>5. \A i \in 1..n, v \in V : step[i][v] = AddLine(budget, v, units[i])
  OBVIOUS
<1>6. Empty \in V
  BY <1>0, Emptied
<1>7. PICK f \in [0..n -> V] : f[0] = Empty /\ \A i \in 1..n : f[i] = step[i][f[i - 1]]
  <2> HIDE DEF step
  <2>1. \E f : Computes(f, V, n, Empty, step)
    BY <1>4, <1>6, PrefixRecursion
  <2>2. QED BY <2>1 DEF Computes
<1> DEFINE Eq(g) == g = [i \in 0..n |-> IF i = 0 THEN Empty ELSE AddLine(budget, g[i - 1], units[i])]
           F == CHOOSE g : Eq(g)
<1>8. Eq(F)
  <2>1. PICK h : h = [i \in 0..n |-> f[i]]
    OBVIOUS
  <2>2. ASSUME NEW i \in 0..n
        PROVE  f[i] = IF i = 0 THEN Empty ELSE AddLine(budget, f[i - 1], units[i])
    <3> HIDE DEF step
    <3>1. i # 0 => i \in 1..n /\ i - 1 \in 0..n
      OBVIOUS
    <3>2. i # 0 => f[i - 1] \in V
      BY <3>1
    <3>3. QED BY <1>5, <1>7, <3>1, <3>2
  <2>3. Eq(f)
    <3>1. f = [i \in 0..n |-> f[i]]
      OBVIOUS
    <3>2. QED BY <2>2, <3>1
  <2> HIDE DEF Eq
  <2>4. QED BY <2>3
<1> HIDE DEF F, step
<1>9. F[0] = Empty /\ \A i \in 1..n : F[i] = AddLine(budget, F[i - 1], units[i])
  <2>1. F = [i \in 0..n |-> IF i = 0 THEN Empty ELSE AddLine(budget, F[i - 1], units[i])]
    BY <1>8
  <2>2. QED BY <2>1
<1>10. PICK g \in [0..n -> Seq(Char)] : Flattens(g, units)
  BY <1>1, FlattenSteps
<1>11. g[0] = <<>> /\ \A i \in 1..n : g[i] = g[i - 1] \o units[i]
  BY <1>1, <1>10 DEF Flattens
<1> DEFINE S == {i \in 0..n : F[i] \in V /\ Content(F[i]) = g[i]}
<1>12. 0 \in S
  BY <1>0, <1>9, <1>11, Emptied
<1>13. ASSUME NEW i \in 1..n, i - 1 \in S PROVE i \in S
  <2>1. F[i - 1] \in V /\ Content(F[i - 1]) = g[i - 1]
    BY <1>13
  <2>2. F[i] \in V /\ Content(F[i]) = Content(F[i - 1]) \o units[i]
    <3>1. PICK pack, unit : pack = F[i - 1] /\ unit = units[i]
      OBVIOUS
    <3>2. pack \in Packing(budget) /\ unit \in Seq(Char)
      BY <1>0, <1>2, <2>1, <3>1
    <3>3. /\ AddLine(budget, pack, unit) \in Packing(budget)
          /\ Content(AddLine(budget, pack, unit)) = Content(pack) \o unit
      BY <3>2, LineAdded
    <3>4. F[i] = AddLine(budget, pack, unit)
      BY <1>9, <3>1
    <3>5. QED BY <1>0, <3>1, <3>3, <3>4, Zenon
  <2>3. g[i] = g[i - 1] \o units[i]
    BY <1>11
  <2>4. i \in 0..n
    OBVIOUS
  <2>5. QED BY <2>1, <2>2, <2>3, <2>4, Zenon
<1>14. \A i \in 0..n : i \in S
  <2> HIDE DEF S
  <2>1. QED BY <1>12, <1>13, PrefixInduction
<1>15. F[n] \in Packing(budget) /\ Content(F[n]) = FlattenSeq(units)
  <2>1. n \in S
    BY <1>14
  <2>2. FlattenSeq(units) = g[n]
    BY <1>1, <1>10, FlattenIs
  <2>3. QED BY <1>0, <2>1, <2>2
<1>16. CASE Bytes(Text(block)) <= budget
  <2>1. Text(block) \in Seq(Char)
    BY <1>1, FlattenType DEF Text
  <2>2. Text(block) \in Piece(budget)
    BY <1>16, <2>1 DEF Piece
  <2>3. SplitBytes(block, budget) = <<Text(block)>>
    BY <1>16 DEF SplitBytes
  <2>4. <<Text(block)>> \in Seq(Piece(budget))
    <3>1. PICK P, text : P = Piece(budget) /\ text = Text(block)
      OBVIOUS
    <3>2. text \in P => <<text>> \in Seq(P)
      OBVIOUS
    <3>3. QED BY <2>2, <3>1, <3>2
  <2>5. QED BY <2>1, <2>3, <2>4, FlattenOne
<1>17. CASE ~(Bytes(Text(block)) <= budget)
  <2>1. SplitBytes(block, budget) = Close(F[n]).closed
    BY <1>1, <1>17, Zenon DEF SplitBytes, F
  <2>2. Text(block) = FlattenSeq(units)
    BY <1>1 DEF Text
  <2>3. QED BY <1>15, <2>1, <2>2, Closed DEF Packing
<1>18. QED BY <1>16, <1>17

\* A diff whose marked blocks are summarised is a diff.
LEMMA SummarizedType ==
    ASSUME NEW budget \in Nat, NEW diff \in Seq(Block)
    PROVE  Summarized(diff, budget) \in Seq(Block)
<1>1. PICK n \in Nat : n = Len(diff)
  OBVIOUS
<1>2. ASSUME NEW i \in 1..n
      PROVE  (IF diff[i].marked THEN [diff[i] EXCEPT !.lines = Summary] ELSE diff[i]) \in Block
  <2>1. diff[i] \in Block
    BY <1>1
  <2>2. [diff[i] EXCEPT !.lines = Summary] \in Block
    BY <2>1, SummaryAssumption DEF Block
  <2>3. QED BY <2>1, <2>2
<1>3. [i \in DOMAIN diff |-> IF diff[i].marked THEN [diff[i] EXCEPT !.lines = Summary] ELSE diff[i]]
        \in Seq(Block)
  <2>1. PICK kept : kept = [i \in 1..n |-> IF diff[i].marked THEN [diff[i] EXCEPT !.lines = Summary] ELSE diff[i]]
    OBVIOUS
  <2>2. kept \in [1..n -> Block]
    BY <1>2, <2>1
  <2>3. kept \in Seq(Block)
    BY <2>2, AsSeq
  <2>4. QED BY <1>1, <2>1, <2>3
<1>4. QED BY <1>3 DEF Summarized

\* The parts split_diff makes of a diff hold all of it in order, with marked
\* blocks summarised at most when it is over the budget, and none of them is over
\* the budget: no text between two parts, or at a cut inside a line, is lost.
THEOREM PartsCoverDiff ==
    ASSUME NEW budget \in Nat, 4 <= budget, NEW diff \in Seq(Block)
    PROVE  /\ Parts(diff, budget) \in Seq(Piece(budget))
           /\ FlattenSeq(Parts(diff, budget)) = WholeDiff(Summarized(diff, budget))
<1>1. PICK kept \in Seq(Block), n \in Nat : kept = Summarized(diff, budget) /\ n = Len(kept)
  <2>1. PICK kept \in Seq(Block) : kept = Summarized(diff, budget)
    BY SummarizedType
  <2>2. Len(kept) \in Nat
    OBVIOUS
  <2>3. QED BY <2>1, <2>2
<1>2. PICK split : split = [i \in DOMAIN kept |-> SplitBytes(kept[i], budget)]
  OBVIOUS
<1>3. ASSUME NEW i \in 1..n
      PROVE  /\ SplitBytes(kept[i], budget) \in Seq(Piece(budget))
             /\ FlattenSeq(SplitBytes(kept[i], budget)) = Text(kept[i])
  <2>1. PICK block \in Block : block = kept[i]
    BY <1>1
  <2>2. block.lines \in Seq(Seq(Char))
    BY DEF Block
  <2>3. QED BY <2>1, <2>2, SplitBytesCovers
<1>4. PICK V : V = Seq(Piece(budget)) /\ V \subseteq Seq(Seq(Char))
  BY Pieces
<1>5. split = [i \in 1..n |-> SplitBytes(kept[i], budget)]
  BY <1>1, <1>2
<1>6. split \in Seq(V) /\ DOMAIN split = 1..n /\ \A i \in 1..n : split[i] = SplitBytes(kept[i], budget)
  <2>1. split \in [1..n -> V]
    BY <1>3, <1>4, <1>5
  <2>2. split \in Seq(V) /\ DOMAIN split = 1..n
    BY <2>1, AsSeq
  <2>3. QED BY <1>5, <2>2
<1>7. split \in Seq(Seq(Piece(budget))) /\ split \in Seq(Seq(Seq(Char)))
  <2>1. Seq(V) \subseteq Seq(Seq(Seq(Char)))
    <3>1. PICK W : W = Seq(Seq(Char))
      OBVIOUS
    <3>2. Seq(V) \subseteq Seq(W)
      BY <1>4, <3>1, SeqMonotonic
    <3>3. QED BY <3>1, <3>2
  <2>2. QED BY <1>4, <1>6, <2>1
<1>8. PICK pieces : pieces = FlattenSeq(split)
  OBVIOUS
<1>9. pieces \in Seq(Piece(budget))
  BY <1>7, <1>8, FlattenType
<1>10. FlattenSeq(pieces) = WholeDiff(kept)
  <2>1. FlattenSeq(pieces) = FlattenSeq([i \in DOMAIN split |-> FlattenSeq(split[i])])
    BY <1>7, <1>8, FlattenFlatten
  <2>2. [i \in DOMAIN split |-> FlattenSeq(split[i])] = [i \in 1..n |-> Text(kept[i])]
    BY <1>3, <1>6
  <2>3. WholeDiff(kept) = FlattenSeq([i \in 1..n |-> Text(kept[i])])
    BY <1>1 DEF WholeDiff
  <2>4. QED BY <2>1, <2>2, <2>3
<1>11. PICK packed : packed = Pack(pieces, budget)
  OBVIOUS
<1>12. packed \in Seq(Piece(budget)) /\ FlattenSeq(packed) = WholeDiff(kept)
  BY <1>9, <1>10, <1>11, Packed
<1>13. Parts(diff, budget) = IF packed = <<>> THEN <<<<>>>> ELSE packed
  BY <1>1, <1>2, <1>8, <1>11 DEF Parts
<1>14. CASE packed # <<>>
  BY <1>1, <1>12, <1>13, <1>14
<1>15. CASE packed = <<>>
  <2>1. FlattenSeq(packed) = <<>>
    BY <1>15, FlattenNone
  <2>2. <<<<>>>> \in Seq(Piece(budget))
    <3>1. PICK P, text : P = Piece(budget) /\ text = <<>>
      OBVIOUS
    <3>2. text \in P => <<text>> \in Seq(P)
      OBVIOUS
    <3>3. QED BY <3>1, <3>2, Pieces
  <2>3. FlattenSeq(<<<<>>>>) = <<>>
    <3>1. <<>> \in Seq(Char)
      OBVIOUS
    <3>2. QED BY <3>1, FlattenOne
  <2>4. QED BY <1>1, <1>12, <1>13, <1>15, <2>1, <2>2, <2>3
<1>16. QED BY <1>14, <1>15

-----------------------------------------------------------------------------

\* The reviews of a clone, alone.
ReviewsSpec == ReviewersInit /\ [][ReviewersNext]_revars

\* What the calls of a review are given: the whole diff, or its parts.
Prompts(w, split) == IF split THEN Parts(w.diff, w.budget) ELSE <<WholeDiff(w.diff)>>

Entry == [family : Family, text : Seq(Char), answer : Answer]

\* The last calls were answered by `family`, each for its own prompt.
Held(reads, family, prompts, answers) ==
    /\ Len(answers) <= Len(reads)
    /\ \A k \in 1..Len(answers) :
         reads[Len(reads) - Len(answers) + k] =
           [family |-> family, text |-> prompts[k], answer |-> answers[k]]

\* A family that wrote none of the commits.
Reader == Family \ Authors

ReviewState(readers) ==
    [pc : {"select", "full", "chunk", "save"} \cup Done, todo : Seq(readers),
     parts : Seq(Seq(Char)), answers : Seq(Answer), result : ReviewResult \cup {None}]

\* A result is what the first family left made of all its prompts.
Reviewed(r) ==
    /\ rv.todo # <<>>
    /\ r = ResultOf(Head(rv.todo), rv.answers, r.listed, r.sound)
    /\ r.listed \in BOOLEAN /\ r.sound \in BOOLEAN
    /\ Len(rv.answers) = Len(Prompts(work, r.listed))
    /\ Held(read, Head(rv.todo), Prompts(work, r.listed), rv.answers)

\* The answers kept are those of the family that is running, for the prompts it
\* got so far; a result that is to be saved, or was, stands for all of them.
ReviewsInv ==
    /\ work \in Works
    /\ rv \in ReviewState(Reader) /\ saved \in ReviewResult \cup {None} /\ read \in Seq(Entry)
    /\ Len(rv.answers) <= Len(rv.parts) + 1
    /\ rv.pc \in {"select", "full"} => rv.answers = <<>>
    /\ rv.pc \in {"full", "chunk", "save"} => rv.todo # <<>>
    /\ rv.pc = "chunk" =>
         /\ rv.parts = Prompts(work, TRUE) /\ Len(rv.answers) <= Len(rv.parts)
         /\ Held(read, Head(rv.todo), rv.parts, rv.answers)
    /\ rv.pc = "save" => Reviewed(rv.result)
    /\ saved # None => rv.pc \in Done /\ Reviewed(saved)

\* What the calls are given are texts.
LEMMA WorkTypes ==
    ASSUME NEW w \in Works
    PROVE  /\ WholeDiff(w.diff) \in Seq(Char)
           /\ Parts(w.diff, w.budget) \in Seq(Piece(w.budget))
           /\ \A split \in BOOLEAN : Prompts(w, split) \in Seq(Seq(Char))
<1>1. PICK diff \in Seq(Block), budget \in Nat : diff = w.diff /\ budget = w.budget /\ 4 <= budget
  BY WorksAssumption
<1>2. PICK n \in Nat : n = Len(diff)
  OBVIOUS
<1>3. \A i \in 1..n : Text(diff[i]) \in Seq(Char)
  <2> SUFFICES ASSUME NEW i \in 1..n PROVE Text(diff[i]) \in Seq(Char)
    OBVIOUS
  <2>1. diff[i] \in Block
    BY <1>2
  <2>2. PICK lines \in Seq(Seq(Char)) : lines = diff[i].lines
    BY <2>1 DEF Block
  <2>3. QED BY <2>2, FlattenType DEF Text
<1>4. WholeDiff(diff) \in Seq(Char)
  <2>1. PICK V, texts : V = Seq(Char) /\ texts = [i \in 1..n |-> Text(diff[i])]
    OBVIOUS
  <2>2. texts \in [1..n -> V]
    BY <1>3, <2>1
  <2>3. texts \in Seq(Seq(Char))
    BY <2>1, <2>2, AsSeq
  <2>4. WholeDiff(diff) = FlattenSeq(texts)
    BY <1>2, <2>1 DEF WholeDiff
  <2>5. QED BY <2>3, <2>4, FlattenType
<1>5. Parts(diff, budget) \in Seq(Piece(budget))
  BY <1>1, PartsCoverDiff
<1>6. Parts(diff, budget) \in Seq(Seq(Char))
  BY <1>5, Pieces
<1>7. <<WholeDiff(diff)>> \in Seq(Seq(Char))
  <2>1. PICK V, text : V = Seq(Char) /\ text = WholeDiff(diff)
    OBVIOUS
  <2>2. text \in V => <<text>> \in Seq(V)
    OBVIOUS
  <2>3. QED BY <1>4, <2>1, <2>2
<1>8. QED BY <1>1, <1>4, <1>5, <1>6, <1>7 DEF Prompts

\* One more call by the same family.
LEMMA HeldMore ==
    ASSUME NEW reads \in Seq(Entry), NEW family, NEW prompts, NEW answers \in Seq(Answer),
           NEW answer \in Answer, NEW entry \in Entry,
           entry = [family |-> family, text |-> prompts[Len(answers) + 1], answer |-> answer],
           Held(reads, family, prompts, answers)
    PROVE  Held(Append(reads, entry), family, prompts, Append(answers, answer))
<1>1. PICK n \in Nat, m \in Nat : n = Len(reads) /\ m = Len(answers) /\ m <= n
  BY DEF Held
<1>2. \A k \in 1..m : reads[n - m + k] = [family |-> family, text |-> prompts[k], answer |-> answers[k]]
  BY <1>1 DEF Held
<1>3. PICK rs, as : rs = Append(reads, entry) /\ as = Append(answers, answer)
  OBVIOUS
<1>4. Len(rs) = n + 1 /\ rs[n + 1] = entry /\ \A i \in 1..n : rs[i] = reads[i]
  BY <1>1, <1>3, AppendProperties
<1>5. Len(as) = m + 1 /\ as[m + 1] = answer /\ \A i \in 1..m : as[i] = answers[i]
  BY <1>1, <1>3, AppendProperties
<1>6. ASSUME NEW k \in 1..(m + 1)
      PROVE  rs[(n + 1) - (m + 1) + k] = [family |-> family, text |-> prompts[k], answer |-> as[k]]
  <2>1. CASE k = m + 1
    <3>1. (n + 1) - (m + 1) + k = n + 1
      BY <1>1, <2>1
    <3>2. QED BY <1>1, <1>4, <1>5, <2>1, <3>1
  <2>2. CASE k # m + 1
    <3>1. k \in 1..m /\ (n + 1) - (m + 1) + k = n - m + k /\ n - m + k \in 1..n
      BY <1>1, <2>2
    <3>2. QED BY <1>2, <1>4, <1>5, <3>1
  <2>3. QED BY <2>1, <2>2
<1>7. Held(rs, family, prompts, as)
  <2>1. Len(as) <= Len(rs)
    BY <1>1, <1>4, <1>5
  <2>2. \A k \in 1..Len(as) :
          rs[Len(rs) - Len(as) + k] = [family |-> family, text |-> prompts[k], answer |-> as[k]]
    BY <1>4, <1>5, <1>6
  <2>3. QED BY <2>1, <2>2 DEF Held
<1>8. QED BY <1>3, <1>7

\* The candidates wrote none of the commits.
LEMMA CandidatesType == work \in Works => Candidates \in Seq(Reader)
<1> SUFFICES ASSUME work \in Works PROVE Candidates \in Seq(Reader)
  OBVIOUS
<1>1. PICK asked \in Seq(Family), n \in Nat : asked = work.reviewers /\ n = Len(asked)
  <2>1. PICK asked \in Seq(Family) : asked = work.reviewers
    BY WorksAssumption
  <2>2. Len(asked) \in Nat
    OBVIOUS
  <2>3. QED BY <2>1, <2>2
<1>2. PICK V, kept : V = Seq(Reader) /\ kept = [i \in 1..n |-> IF asked[i] \in Authors THEN <<>> ELSE <<asked[i]>>]
  OBVIOUS
<1>3. ASSUME NEW i \in 1..n
      PROVE  (IF asked[i] \in Authors THEN <<>> ELSE <<asked[i]>>) \in V
  <2>1. asked[i] \in Family
    BY <1>1
  <2>2. asked[i] \notin Authors => <<asked[i]>> \in Seq(Reader)
    BY <2>1 DEF Reader
  <2>3. <<>> \in Seq(Reader)
    OBVIOUS
  <2>4. QED BY <1>2, <2>2, <2>3
<1>4. kept \in [1..n -> V]
  BY <1>2, <1>3
<1>5. kept \in Seq(Seq(Reader))
  BY <1>2, <1>4, AsSeq
<1>6. Candidates = FlattenSeq(kept)
  BY <1>1, <1>2 DEF Candidates
<1>7. QED BY <1>5, <1>6, FlattenType

\* A family that has just been launched has answered nothing.
LEMMA NoneHeld ==
    ASSUME NEW reads \in Seq(Entry), NEW family, NEW prompts
    PROVE  Held(reads, family, prompts, <<>>)
<1>1. Len(<<>>) = 0 /\ Len(reads) \in Nat
  OBVIOUS
<1>2. QED BY <1>1 DEF Held

LEMMA ResultType ==
    ASSUME NEW family \in Family, NEW calls \in Seq(Answer), NEW split \in BOOLEAN,
           NEW sound \in BOOLEAN
    PROVE  /\ ResultOf(family, calls, split, sound) \in ReviewResult
           /\ ResultOf(family, calls, split, sound).listed = split
           /\ ResultOf(family, calls, split, sound).sound = sound
  BY DEF ResultOf, ReviewResult, AnyRequest, AnyBlocking

LEMMA ReviewsInitial == ReviewersInit => ReviewsInv
<1> SUFFICES ASSUME ReviewersInit PROVE ReviewsInv
  OBVIOUS
<1>1. /\ <<>> \in Seq(Reader) /\ <<>> \in Seq(Seq(Char)) /\ <<>> \in Seq(Answer) /\ <<>> \in Seq(Entry)
      /\ Len(<<>>) = 0
  OBVIOUS
<1>2. rv \in ReviewState(Reader)
  BY <1>1 DEF ReviewersInit, ReviewState
<1>3. QED BY <1>1, <1>2 DEF ReviewersInit, ReviewsInv

\* A failed call drops the answers of its family with it (CallFails); a result is
\* made only when every part has been answered (MergeReviews).
LEMMA ReviewsStep == ReviewsInv /\ [ReviewersNext]_revars => ReviewsInv'
<1> SUFFICES ASSUME ReviewsInv, [ReviewersNext]_revars PROVE ReviewsInv'
  OBVIOUS
<1>1. work' = work
  BY DEF ReviewersNext, Select, TooLong, MergeReviews, CallFails, Save, Repost, CallFull, CallChunk, revars
<1>2. Reader' = Reader /\ Prompts(work, TRUE)' = Prompts(work, TRUE)
      /\ Prompts(work, FALSE)' = Prompts(work, FALSE)
  BY <1>1 DEF Reader, Authors, Prompts
<1>3. PICK R : R = Reader /\ R \subseteq Family
  BY DEF Reader
<1>4. /\ rv \in ReviewState(R) /\ saved \in ReviewResult \cup {None} /\ read \in Seq(Entry)
      /\ Len(rv.answers) <= Len(rv.parts) + 1
  BY <1>3 DEF ReviewsInv
<1>5. /\ <<>> \in Seq(R) /\ <<>> \in Seq(Seq(Char)) /\ <<>> \in Seq(Answer)
      /\ Len(<<>>) = 0 /\ Len(rv.parts) \in Nat
  BY <1>4 DEF ReviewState
<1>6. CASE Select
  <2>1. PICK pc \in {"refused", "unavailable", "full"} :
          /\ rv' = [rv EXCEPT !.todo = Candidates, !.pc = pc]
          /\ pc = "full" => Candidates # <<>>
    BY <1>6 DEF Select
  <2>2. Candidates \in Seq(R)
    BY <1>3, CandidatesType DEF ReviewsInv
  <2>3. rv' \in ReviewState(R) /\ rv'.pc = pc /\ rv'.todo = Candidates /\ rv'.answers = rv.answers
        /\ rv'.parts = rv.parts
    BY <1>4, <2>1, <2>2 DEF ReviewState, Done
  <2>4. UNCHANGED <<work, saved, read>> /\ rv.pc = "select" /\ rv.answers = <<>>
    BY <1>6 DEF Select, ReviewsInv
  <2>5. saved = None
    BY <2>4 DEF ReviewsInv, Done
  <2>6. QED BY <1>2, <1>3, <1>4, <1>5, <2>1, <2>3, <2>4, <2>5 DEF ReviewsInv
<1>7. CASE TooLong
  <2>1. PICK parts \in Seq(Seq(Char)) : parts = Prompts(work, TRUE) /\ parts = Parts(work.diff, work.budget)
    BY WorkTypes DEF ReviewsInv, Prompts
  <2>2. rv' = [rv EXCEPT !.pc = "chunk", !.parts = parts] /\ rv.pc = "full"
        /\ UNCHANGED <<work, saved, read>>
    BY <1>7, <2>1 DEF TooLong
  <2>3. rv' \in ReviewState(R) /\ rv'.pc = "chunk" /\ rv'.todo = rv.todo /\ rv'.answers = rv.answers
        /\ rv'.parts = parts
    BY <1>4, <2>1, <2>2 DEF ReviewState
  <2>0. Len(parts) \in Nat
    OBVIOUS
  <2>4. rv.answers = <<>> /\ rv.todo # <<>> /\ saved = None
    BY <2>2 DEF ReviewsInv, Done
  <2>5. Held(read', Head(rv'.todo), rv'.parts, rv'.answers)
    BY <1>4, <2>2, <2>3, <2>4, NoneHeld
  <2>6. rv'.parts = Prompts(work, TRUE)'
    BY <1>2, <2>1, <2>3
  <2>7. Len(rv'.answers) = 0 /\ Len(rv'.parts) \in Nat
    BY <1>5, <2>3, <2>4, <2>0
  <2>8. Len(rv'.answers) <= Len(rv'.parts) /\ Len(rv'.answers) <= Len(rv'.parts) + 1
    BY <2>7
  <2>9. rv' \in ReviewState(Reader')
    BY <1>2, <1>3, <2>3
  <2>10. QED BY <1>1, <1>4, <2>2, <2>3, <2>4, <2>5, <2>6, <2>8, <2>9 DEF ReviewsInv
<1>8. CASE CallFails
  <2>1. rv.pc \in {"full", "chunk"} /\ rv.todo # <<>> /\ saved = None /\ UNCHANGED <<work, saved, read>>
    BY <1>8 DEF CallFails, ReviewsInv, Done
  <2>2. CASE Len(rv.todo) = 1
    <3>1. rv' = [rv EXCEPT !.pc = "unavailable"]
      BY <1>8, <2>2 DEF CallFails
    <3>2. rv' \in ReviewState(R) /\ rv'.pc = "unavailable" /\ rv'.answers = rv.answers /\ rv'.parts = rv.parts
      BY <1>4, <3>1 DEF ReviewState, Done
    <3>3. QED BY <1>2, <1>3, <1>4, <2>1, <3>2 DEF ReviewsInv
  <2>3. CASE Len(rv.todo) # 1
    <3>1. PICK rest : rest = Tail(rv.todo)
      OBVIOUS
    <3>2. rest \in Seq(R) /\ rest # <<>>
      <4>1. PICK todo \in Seq(R), n \in Nat : todo = rv.todo /\ n = Len(todo) /\ n # 1 /\ todo # <<>>
        <5>1. PICK todo \in Seq(R) : todo = rv.todo
          BY <1>4 DEF ReviewState
        <5>2. Len(todo) \in Nat
          OBVIOUS
        <5>3. QED BY <2>1, <2>3, <5>1, <5>2
      <4>2. n # 0
        BY <4>1, EmptySeq
      <4>3. Tail(todo) \in Seq(R) /\ Len(Tail(todo)) = n - 1
        BY <4>1, HeadTailProperties
      <4>4. Tail(todo) # <<>>
        <5>1. n - 1 # 0
          BY <4>1
        <5>2. QED BY <1>5, <4>3, <5>1
      <4>5. QED BY <3>1, <4>1, <4>3, <4>4
    <3>3. rv' = [rv EXCEPT !.pc = "full", !.todo = rest, !.parts = <<>>, !.answers = <<>>]
      BY <1>8, <2>3, <3>1 DEF CallFails
    <3>4. rv' \in ReviewState(R) /\ rv'.pc = "full" /\ rv'.todo = rest /\ rv'.answers = <<>> /\ rv'.parts = <<>>
      BY <1>4, <1>5, <3>2, <3>3 DEF ReviewState
    <3>5. QED BY <1>2, <1>3, <1>4, <1>5, <2>1, <3>2, <3>4 DEF ReviewsInv
  <2>4. QED BY <2>2, <2>3
<1>9. ASSUME NEW text, NEW answer \in Answer, Answered(text, answer), text \in Seq(Char),
             rv.todo # <<>>, NEW prompts, prompts[Len(rv.answers) + 1] = text,
             Held(read, Head(rv.todo), prompts, rv.answers)
      PROVE  /\ read' \in Seq(Entry)
             /\ Held(read', Head(rv.todo), prompts, Append(rv.answers, answer))
  <2>1. PICK todo \in Seq(R) : todo = rv.todo /\ todo # <<>>
    BY <1>4, <1>9 DEF ReviewState
  <2>2. Head(todo) \in Family
    BY <1>3, <2>1, HeadTailProperties
  <2>3. PICK entry \in Entry : entry = [family |-> Head(todo), text |-> text, answer |-> answer]
    BY <1>9, <2>2 DEF Entry
  <2>4. read' = Append(read, entry)
    BY <1>9, <2>1, <2>3 DEF Answered
  <2>5. rv.answers \in Seq(Answer)
    BY <1>4 DEF ReviewState
  <2>6. Held(Append(read, entry), Head(todo), prompts, Append(rv.answers, answer))
    BY <1>4, <1>9, <2>1, <2>3, <2>5, HeldMore
  <2>7. Append(read, entry) \in Seq(Entry)
    BY <1>4, AppendProperties
  <2>8. QED BY <2>1, <2>4, <2>6, <2>7
<1>10. ASSUME NEW answer \in Answer, NEW sound \in BOOLEAN, CallFull(answer, sound) PROVE ReviewsInv'
  <2>1. PICK text \in Seq(Char), prompts \in Seq(Seq(Char)) :
          text = WholeDiff(work.diff) /\ prompts = Prompts(work, FALSE) /\ prompts = <<text>>
    BY WorkTypes DEF ReviewsInv, Prompts
  <2>2. Len(prompts) = 1 /\ prompts[1] = text
    <3>1. Len(<<text>>) = 1 /\ <<text>>[1] = text
      OBVIOUS
    <3>2. QED BY <2>1, <3>1
  <2>3. rv.pc = "full" /\ rv.answers = <<>> /\ rv.todo # <<>> /\ saved = None /\ saved' = saved
    BY <1>10 DEF CallFull, ReviewsInv, Done
  <2>4. Answered(text, answer)
    BY <1>10, <2>1 DEF CallFull
  <2>5. Held(read, Head(rv.todo), prompts, rv.answers)
    BY <1>4, <2>3, NoneHeld
  <2>6. Append(rv.answers, answer) = <<answer>> /\ prompts[Len(rv.answers) + 1] = text
    BY <1>5, <2>2, <2>3
  <2>7. read' \in Seq(Entry) /\ Held(read', Head(rv.todo), prompts, <<answer>>)
    BY <1>9, <2>3, <2>4, <2>5, <2>6
  <2>8. PICK calls, family :
          calls \in Seq(Answer) /\ calls = <<answer>> /\ Len(calls) = 1 /\ family = Head(rv.todo)
    <3>1. <<answer>> \in Seq(Answer) /\ Len(<<answer>>) = 1
      OBVIOUS
    <3>2. QED BY <3>1
  <2>9. family \in Family
    BY <1>3, <1>4, <2>3, <2>8, HeadTailProperties DEF ReviewState
  <2>10. PICK result \in ReviewResult :
           /\ result = ResultOf(family, calls, FALSE, sound)
           /\ result.listed = FALSE /\ result.sound = sound
    BY <2>8, <2>9, ResultType
  <2>11. rv' = [rv EXCEPT !.pc = "save", !.answers = calls, !.result = result]
    BY <1>10, <2>8, <2>10 DEF CallFull, Got
  <2>12. /\ rv' \in ReviewState(R) /\ rv'.pc = "save" /\ rv'.todo = rv.todo /\ rv'.answers = calls
         /\ rv'.parts = rv.parts /\ rv'.result = result
    BY <1>4, <2>8, <2>11 DEF ReviewState
  <2>13. Reviewed(rv.result)'
    BY <1>2, <2>1, <2>2, <2>3, <2>7, <2>8, <2>10, <2>12 DEF Reviewed
  <2>14. QED BY <1>1, <1>2, <1>3, <1>4, <1>5, <2>3, <2>7, <2>8, <2>12, <2>13 DEF ReviewsInv
<1>11. ASSUME NEW answer \in Answer, CallChunk(answer) PROVE ReviewsInv'
  <2>1. /\ rv.pc = "chunk" /\ rv.todo # <<>> /\ saved = None /\ saved' = saved
        /\ rv.parts = Prompts(work, TRUE) /\ Held(read, Head(rv.todo), rv.parts, rv.answers)
    BY <1>11 DEF CallChunk, ReviewsInv, Done
  <2>2. PICK answers \in Seq(Answer), parts \in Seq(Seq(Char)), m \in Nat, n \in Nat :
          answers = rv.answers /\ parts = rv.parts /\ m = Len(answers) /\ n = Len(parts) /\ m < n
    <3>1. PICK answers \in Seq(Answer), parts \in Seq(Seq(Char)) : answers = rv.answers /\ parts = rv.parts
      BY <1>4 DEF ReviewState
    <3>2. Len(answers) \in Nat /\ Len(parts) \in Nat
      OBVIOUS
    <3>3. QED BY <1>11, <3>1, <3>2 DEF CallChunk
  <2>3. PICK text \in Seq(Char) : text = parts[m + 1]
    BY <2>2
  <2>4. Answered(text, answer) /\ rv' = [rv EXCEPT !.answers = Append(answers, answer)]
    BY <1>11, <2>2, <2>3 DEF CallChunk
  <2>5. PICK more \in Seq(Answer) : more = Append(answers, answer) /\ Len(more) = m + 1
    BY <2>2, AppendProperties
  <2>6. read' \in Seq(Entry) /\ Held(read', Head(rv.todo), parts, more)
    BY <1>9, <2>1, <2>2, <2>3, <2>4, <2>5
  <2>7. /\ rv' \in ReviewState(R) /\ rv'.pc = "chunk" /\ rv'.todo = rv.todo /\ rv'.answers = more
        /\ rv'.parts = rv.parts
    BY <1>4, <2>1, <2>4, <2>5 DEF ReviewState
  <2>8. Len(rv'.answers) <= Len(rv'.parts)
    BY <2>2, <2>5, <2>7
  <2>9. Len(rv'.answers) <= Len(rv'.parts) + 1
    BY <2>2, <2>5, <2>7
  <2>10. QED BY <1>1, <1>2, <1>3, <1>4, <2>1, <2>2, <2>6, <2>7, <2>8, <2>9 DEF ReviewsInv
<1>12. ASSUME NEW sound \in BOOLEAN, MergeReviews(sound) PROVE ReviewsInv'
  <2>1. /\ rv.pc = "chunk" /\ rv.todo # <<>> /\ saved = None /\ UNCHANGED <<work, saved, read>>
        /\ rv.parts = Prompts(work, TRUE) /\ Held(read, Head(rv.todo), rv.parts, rv.answers)
        /\ Len(rv.answers) = Len(rv.parts)
    BY <1>12 DEF MergeReviews, ReviewsInv, Done
  <2>2. PICK calls, family : calls \in Seq(Answer) /\ calls = rv.answers /\ family = Head(rv.todo)
    BY <1>4 DEF ReviewState
  <2>3. family \in Family
    BY <1>3, <1>4, <2>1, <2>2, HeadTailProperties DEF ReviewState
  <2>4. PICK result \in ReviewResult :
          /\ result = ResultOf(family, calls, TRUE, sound)
          /\ result.listed = TRUE /\ result.sound = sound
    BY <2>2, <2>3, ResultType
  <2>5. CASE rv' = [rv EXCEPT !.pc = "refused"]
    <3>1. /\ rv' \in ReviewState(R) /\ rv'.pc = "refused" /\ rv'.answers = rv.answers
          /\ rv'.parts = rv.parts
      BY <1>4, <2>5 DEF ReviewState, Done
    <3>2. QED BY <1>1, <1>2, <1>3, <1>4, <2>1, <3>1 DEF ReviewsInv
  <2>6. CASE Got(rv.answers, TRUE, sound)
    <3>1. rv' = [rv EXCEPT !.pc = "save", !.answers = calls, !.result = result]
      BY <2>2, <2>4, <2>6 DEF Got
    <3>2. /\ rv' \in ReviewState(R) /\ rv'.pc = "save" /\ rv'.todo = rv.todo
          /\ rv'.answers = rv.answers /\ rv'.parts = rv.parts /\ rv'.result = result
      BY <1>4, <2>2, <3>1 DEF ReviewState
    <3>3. Reviewed(rv.result)'
      BY <1>2, <2>1, <2>2, <2>4, <3>2 DEF Reviewed
    <3>4. QED BY <1>1, <1>2, <1>3, <1>4, <1>5, <2>1, <3>2, <3>3 DEF ReviewsInv
  <2>7. QED BY <1>12, <2>5, <2>6 DEF MergeReviews
<1>13. CASE Save
  <2>1. /\ rv.pc = "save" /\ Reviewed(rv.result) /\ UNCHANGED <<work, read>> /\ saved' = rv.result
    BY <1>13 DEF Save, ReviewsInv
  <2>2. PICK pc \in Done : rv' = [rv EXCEPT !.pc = pc]
    BY <1>13 DEF Save, Done
  <2>3. /\ rv' \in ReviewState(R) /\ rv'.pc = pc /\ rv'.todo = rv.todo /\ rv'.answers = rv.answers
        /\ rv'.parts = rv.parts
    BY <1>4, <2>2 DEF ReviewState
  <2>4. Reviewed(saved)'
    BY <1>1, <1>2, <2>1, <2>3 DEF Reviewed
  <2>5. saved' \in ReviewResult \cup {None}
    BY <1>4, <2>1 DEF ReviewState
  <2>6. pc \notin {"select", "full", "chunk", "save"}
    BY DEF Done
  <2>7. QED BY <1>1, <1>2, <1>3, <1>4, <2>1, <2>3, <2>4, <2>5, <2>6 DEF ReviewsInv
<1>14. CASE Repost
  <2>1. rv.pc \in Done /\ saved # None /\ Reviewed(saved) /\ UNCHANGED <<work, saved, read>>
    BY <1>14 DEF Repost, ReviewsInv
  <2>2. PICK pc \in {"published", "refused"} : rv' = [rv EXCEPT !.pc = pc]
    BY <1>14 DEF Repost
  <2>3. /\ rv' \in ReviewState(R) /\ rv'.pc = pc /\ rv'.todo = rv.todo /\ rv'.answers = rv.answers
        /\ rv'.parts = rv.parts
    BY <1>4, <2>2 DEF ReviewState, Done
  <2>4. Reviewed(saved)'
    BY <1>1, <1>2, <2>1, <2>3 DEF Reviewed
  <2>5. QED BY <1>1, <1>2, <1>3, <1>4, <2>1, <2>3, <2>4 DEF ReviewsInv, Done
<1>15. CASE UNCHANGED revars
  BY <1>15, <1>2 DEF revars, ReviewsInv, Reviewed
<1>16. QED BY <1>6, <1>7, <1>8, <1>10, <1>11, <1>12, <1>13, <1>14, <1>15 DEF ReviewersNext

LEMMA ReviewsAlways == ReviewsSpec => []ReviewsInv
  BY ReviewsInitial, ReviewsStep, PTL DEF ReviewsSpec

\* Every state of a review has its type: a reviewer that is tried is a configured
\* family, and there is never an answer too many (_run_review).
THEOREM ReviewsTypeCorrect == ReviewsSpec => []ReviewersTypeOK
<1>1. ReviewsInv => ReviewersTypeOK
  <2> SUFFICES ASSUME ReviewsInv PROVE ReviewersTypeOK
    OBVIOUS
  <2>1. PICK todo \in Seq(Reader) : todo = rv.todo
    BY DEF ReviewsInv, ReviewState
  <2>2. \A i \in DOMAIN todo : todo[i] \in Family
    BY DEF Reader
  <2>3. QED BY <2>1, <2>2 DEF ReviewsInv, ReviewState, ReviewersTypeOK
<1>2. QED BY <1>1, ReviewsAlways, PTL

\* What a saved result stands for, as the history recorded it.
LEMMA SavedCalls ==
    ASSUME ReviewsInv, saved # None
    PROVE  \E n \in Nat, m \in Nat :
             /\ n = Len(read) /\ m = Len(saved.calls) /\ m <= n
             /\ saved.calls \in Seq(Answer) /\ saved.verdict = AnyRequest(saved.calls)
             /\ saved.family \in Reader /\ saved.listed \in BOOLEAN
             /\ m = Len(Prompts(work, saved.listed))
             /\ \A k \in 1..m :
                  read[n - m + k] = [family |-> saved.family, text |-> Prompts(work, saved.listed)[k],
                                     answer |-> saved.calls[k]]
<1>1. Reviewed(saved)
  BY DEF ReviewsInv
<1>2. PICK calls \in Seq(Answer), n \in Nat, m \in Nat :
        calls = rv.answers /\ n = Len(read) /\ m = Len(calls)
  <2>1. PICK calls \in Seq(Answer) : calls = rv.answers
    BY DEF ReviewsInv, ReviewState
  <2>2. Len(calls) \in Nat /\ Len(read) \in Nat
    BY DEF ReviewsInv
  <2>3. QED BY <2>1, <2>2
<1>3. PICK family \in Reader : family = Head(rv.todo)
  <2>1. PICK todo \in Seq(Reader) : todo = rv.todo /\ todo # <<>>
    BY <1>1 DEF ReviewsInv, ReviewState, Reviewed
  <2>2. Head(todo) \in Reader
    BY <2>1, HeadTailProperties
  <2>3. QED BY <2>1, <2>2
<1>4. saved.calls = calls /\ saved.family = family /\ saved.verdict = AnyRequest(calls)
  <2>1. saved = ResultOf(family, calls, saved.listed, saved.sound)
    BY <1>1, <1>2, <1>3 DEF Reviewed
  <2>2. QED BY <2>1 DEF ResultOf
<1>5. /\ saved.listed \in BOOLEAN /\ m = Len(Prompts(work, saved.listed)) /\ m <= n
      /\ \A k \in 1..m :
           read[n - m + k] = [family |-> family, text |-> Prompts(work, saved.listed)[k], answer |-> calls[k]]
  BY <1>1, <1>2, <1>3 DEF Reviewed, Held
<1>6. /\ n = Len(read) /\ m = Len(saved.calls)
      /\ saved.calls \in Seq(Answer) /\ saved.verdict = AnyRequest(saved.calls)
      /\ saved.family \in Reader
      /\ \A k \in 1..m :
           read[n - m + k] = [family |-> saved.family, text |-> Prompts(work, saved.listed)[k],
                              answer |-> saved.calls[k]]
  BY <1>2, <1>3, <1>4, <1>5
<1>7. QED BY <1>5, <1>6, Zenon

\* A saved review was read by one family that wrote none of the commits, and its
\* calls were given the whole diff, whichever families failed before, in the middle
\* of a split too, and however the diff was split (_run_review, split_diff).
THEOREM ReviewsWhole == ReviewsSpec => []WholeReviewed
<1>1. ReviewsInv => WholeReviewed
  <2> SUFFICES ASSUME ReviewsInv, saved # None PROVE WholeReviewed
    BY DEF WholeReviewed
  <2>1. PICK n \in Nat, m \in Nat :
          /\ n = Len(read) /\ m = Len(saved.calls) /\ m <= n
          /\ saved.family \in Reader /\ saved.listed \in BOOLEAN
          /\ m = Len(Prompts(work, saved.listed))
          /\ \A k \in 1..m :
               read[n - m + k] = [family |-> saved.family, text |-> Prompts(work, saved.listed)[k],
                                  answer |-> saved.calls[k]]
    BY SavedCalls
  <2>0. m <= n /\ n = Len(read) /\ m = Len(saved.calls)
    BY <2>1
  <2>2. PICK prompts \in Seq(Seq(Char)) : prompts = Prompts(work, saved.listed) /\ m = Len(prompts)
    BY <2>1, WorkTypes DEF ReviewsInv
  <2>3. PICK last : last = SubSeq(read, n - m + 1, n)
    OBVIOUS
  <2>4. /\ last \in Seq(Entry) /\ Len(last) = m /\ DOMAIN last = 1..m
        /\ \A k \in 1..m : last[k] = read[n - m + k]
    <3>1. read \in Seq(Entry)
      BY DEF ReviewsInv
    <3>2. n - m + 1 \in Int /\ n \in Int /\ n - (n - m + 1) + 1 = m
          /\ (n - m + 1)..n \subseteq 1..n /\ m = IF n - m + 1 <= n THEN m ELSE 0
      <4>1. n - m + 1 \in Int /\ n \in Int /\ n - (n - m + 1) + 1 = m
        OBVIOUS
      <4>2. (n - m + 1)..n \subseteq 1..n
        <5>1. m <= n
          BY <2>0
        <5>2. \A i \in (n - m + 1)..n : i \in 1..n
          BY <5>1
        <5>3. QED BY <5>2
      <4>3. ~(n - m + 1 <= n) => m = 0
        OBVIOUS
      <4>4. QED BY <4>1, <4>2, <4>3
    <3>3. \A i \in (n - m + 1)..n : read[i] \in Entry
      BY <2>0, <3>1, <3>2
    <3>4. PICK i \in Int, j \in Int : i = n - m + 1 /\ j = n
      BY <3>2
    <3>5. /\ SubSeq(read, i, j) \in Seq(Entry)
          /\ Len(SubSeq(read, i, j)) = IF i <= j THEN j - i + 1 ELSE 0
          /\ \A k \in 1..(j - i + 1) : SubSeq(read, i, j)[k] = read[i + k - 1]
      BY <3>3, <3>4, SubSeqProperties
    <3>6. last \in Seq(Entry) /\ Len(last) = m
      BY <2>3, <3>2, <3>4, <3>5
    <3>7. ASSUME NEW k \in 1..m PROVE last[k] = read[n - m + k]
      <4>1. i + k - 1 = n - m + k /\ j - i + 1 = m
        BY <3>2, <3>4
      <4>2. QED BY <2>3, <3>4, <3>5, <4>1
    <3>8. QED BY <3>6, <3>7
  <2>5. ASSUME NEW k \in 1..m PROVE last[k].family = saved.family /\ last[k].text = prompts[k]
    <3>1. last[k] = [family |-> saved.family, text |-> Prompts(work, saved.listed)[k],
                     answer |-> saved.calls[k]]
      BY <2>1, <2>4, Zenon
    <3>2. QED BY <2>2, <3>1
  <2>6. [i \in DOMAIN last |-> last[i].text] = prompts
    <3>1. prompts = [k \in 1..m |-> prompts[k]]
      BY <2>2
    <3>2. QED BY <2>4, <2>5, <3>1
  <2>7. \A i \in DOMAIN work.commits : work.commits[i].by # saved.family
    BY <2>1 DEF Reader, Authors
  <2>8. CASE ~saved.listed
    <3>1. prompts = <<WholeDiff(work.diff)>> /\ WholeDiff(work.diff) \in Seq(Char)
      BY <2>2, <2>8, WorkTypes DEF Prompts, ReviewsInv
    <3>2. FlattenSeq(prompts) = WholeDiff(work.diff)
      BY <3>1, FlattenOne
    <3>3. QED BY <2>1, <2>3, <2>4, <2>5, <2>6, <2>7, <2>8, <3>2 DEF WholeReviewed
  <2>9. CASE saved.listed
    <3>1. prompts = Parts(work.diff, work.budget)
      BY <2>2, <2>9 DEF Prompts
    <3>2. /\ work.diff \in Seq(Block) /\ work.budget \in Nat /\ 4 <= work.budget
      BY WorksAssumption DEF ReviewsInv
    <3>3. /\ prompts \in Seq(Piece(work.budget))
          /\ FlattenSeq(prompts) = WholeDiff(Summarized(work.diff, work.budget))
      BY <3>1, <3>2, PartsCoverDiff
    <3>4. \A k \in 1..m : Bytes(prompts[k]) <= work.budget
      BY <2>1, <2>2, <3>3 DEF Piece
    <3>5. QED BY <2>1, <2>3, <2>4, <2>5, <2>6, <2>7, <2>9, <3>3, <3>4 DEF WholeReviewed
  <2>10. QED BY <2>8, <2>9
<1>2. QED BY <1>1, ReviewsAlways, PTL

\* A saved approval has no part that was answered with a request for changes or
\* a blocking finding, whichever families failed before and however the diff was
\* split (parse_review, merge_reviews, _run_review).
THEOREM ReviewsVerdictHonest == ReviewsSpec => []VerdictHonest
<1>1. ReviewsInv => VerdictHonest
  <2> SUFFICES ASSUME ReviewsInv, saved # None, saved.verdict = "approve",
                      NEW i \in (Len(read) - Len(saved.calls) + 1)..Len(read)
               PROVE  read[i].answer.verdict = "approve" /\ ~read[i].answer.blocking
    BY DEF VerdictHonest
  <2>1. PICK n \in Nat, m \in Nat :
          /\ n = Len(read) /\ m = Len(saved.calls) /\ m <= n
          /\ saved.calls \in Seq(Answer) /\ saved.verdict = AnyRequest(saved.calls)
          /\ \A k \in 1..m :
               read[n - m + k] = [family |-> saved.family, text |-> Prompts(work, saved.listed)[k],
                                  answer |-> saved.calls[k]]
    BY SavedCalls
  <2>2. i \in (n - m + 1)..n /\ m <= n
    BY <2>1
  <2>3. PICK k \in 1..m : i = n - m + k
    <3>1. i - (n - m) \in 1..m /\ i = n - m + (i - (n - m))
      BY <2>2
    <3>2. QED BY <3>1
  <2>4. read[i].answer = saved.calls[k] /\ saved.calls[k] \in Answer /\ k \in DOMAIN saved.calls
    <3>1. PICK calls \in Seq(Answer) : calls = saved.calls /\ m = Len(calls)
      BY <2>1
    <3>2. calls[k] \in Answer /\ k \in DOMAIN calls
      BY <3>1
    <3>3. read[i] = [family |-> saved.family, text |-> Prompts(work, saved.listed)[k],
                     answer |-> saved.calls[k]]
      BY <2>1, <2>3, Zenon
    <3>4. QED BY <3>1, <3>2, <3>3
  <2>5. VerdictOf(saved.calls[k]) # "request_changes"
    BY <2>1, <2>4 DEF AnyRequest
  <2>6. QED BY <2>4, <2>5 DEF VerdictOf, Answer
<1>2. QED BY <1>1, ReviewsAlways, PTL

\* What --repost loads: of what the runner saves, it refuses the envelopes that
\* pass the adapters' checks and not its own, and the split review of a single
\* part (merge_reviews lists its one usage, validate_runner_result expects none),
\* and nothing else, whatever was answered and however the diff was split.
THEOREM ReviewsLoad ==
    ReviewsSpec =>
        [](saved # None =>
             (Validates(saved) <=>
                saved.sound /\ (saved.listed => Len(Parts(work.diff, work.budget)) # 1)))
<1>1. ASSUME ReviewsInv, saved # None
      PROVE  Validates(saved) <=>
               saved.sound /\ (saved.listed => Len(Parts(work.diff, work.budget)) # 1)
  <2>1. Reviewed(saved)
    BY <1>1 DEF ReviewsInv
  <2>2. /\ saved = ResultOf(Head(rv.todo), rv.answers, saved.listed, saved.sound)
        /\ saved.listed \in BOOLEAN /\ saved.sound \in BOOLEAN
        /\ Len(rv.answers) = Len(Prompts(work, saved.listed))
    BY <2>1 DEF Reviewed
  <2>3. saved.calls = rv.answers /\ saved.verdict = AnyRequest(rv.answers)
        /\ saved.blocking = AnyBlocking(rv.answers)
    BY <2>2 DEF ResultOf
  <2>4. saved.listed => Len(rv.answers) = Len(Parts(work.diff, work.budget))
    BY <2>2 DEF Prompts
  <2>5. ~saved.listed => Len(rv.answers) = 1
    <3>1. Len(<<WholeDiff(work.diff)>>) = 1
      OBVIOUS
    <3>2. QED BY <2>2, <3>1 DEF Prompts
  <2>6. QED BY <2>2, <2>3, <2>4, <2>5 DEF Validates
<1>2. QED BY <1>1, ReviewsAlways, PTL

=============================================================================
