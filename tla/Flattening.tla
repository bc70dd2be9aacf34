----------------------------- MODULE Flattening ------------------------------
(***************************************************************************)
(* What FlattenSeq of the community modules computes, for sequences of any *)
(* length.  It is defined by a recursive function, so that its value is a  *)
(* CHOOSE: that there is such a function and that it is determined are     *)
(* shown by looking at the least place where they would fail.              *)
(***************************************************************************)
EXTENDS Integers, SequencesExt, WellFoundedInduction, TLAPS

\* A set of naturals has a least element, and a bounded one a greatest.
LEMMA LeastElement ==
  ASSUME NEW S, S \subseteq Nat, S # {}
  PROVE  \E x \in S : \A y \in S : x <= y
<1> DEFINE R == {p \in Nat \X Nat : p[1] < p[2]}
<1>1. IsWellFoundedOn(R, Nat)
  BY NatLessThanWellFounded DEF OpToRel
<1> HIDE DEF R
<1>2. PICK x \in S : \A y \in S : ~(<<y, x>> \in R)
  BY <1>1, WFMin
<1>3. ASSUME NEW y \in S PROVE ~(y < x)
  BY <1>2, <<y, x>> \notin R DEF R
<1> QED BY <1>2, <1>3

LEMMA GreatestElement ==
  ASSUME NEW n \in Nat, NEW S, S \subseteq 1 .. n, S # {}
  PROVE  \E x \in S : \A y \in S : y <= x
<1> DEFINE T == {m \in Nat : \E x \in S : m = n - x}
<1>0. \A x \in S : n - x \in T
  OBVIOUS
<1>1. T \subseteq Nat /\ T # {}
  BY <1>0
<1>2. PICK t \in T : \A u \in T : t <= u
  BY <1>1, LeastElement
<1>3. PICK x \in S : t = n - x
  BY <1>2
<1>4. ASSUME NEW y \in S PROVE y <= x
  <2>1. n - x <= n - y
    BY <1>0, <1>2, <1>3
  <2> QED
    BY <1>3, <2>1
<1> QED
  BY <1>4

\* f lists what the first n of the sequences of s join to.
Joins(f, s, n) == f = [i \in 1 .. n |-> IF i = 1 THEN s[i] ELSE f[i - 1] \o s[i]]

LEMMA JoinsExists ==
  ASSUME NEW s, NEW n \in Nat
  PROVE  \E f : Joins(f, s, n)
<1> DEFINE Bad == {m \in Nat : ~\E f : Joins(f, s, m)}
<1> SUFFICES ASSUME Bad # {} PROVE FALSE
  OBVIOUS
<1>1. PICK m \in Bad : \A k \in Bad : m <= k
  BY LeastElement
<1>2. m # 0
  <2>1. Joins([i \in {} |-> <<>>], s, 0)
    BY DEF Joins
  <2> QED BY <1>1, <2>1
<1>3. m - 1 \in Nat /\ m - 1 \notin Bad
  BY <1>1, <1>2
<1>4. PICK f : Joins(f, s, m - 1)
  BY <1>3
<1> DEFINE last == IF m = 1 THEN s[m] ELSE f[m - 1] \o s[m]
           g == [i \in 1 .. m |-> IF i = m THEN last ELSE f[i]]
<1>5. ASSUME NEW i \in 1 .. m PROVE g[i] = IF i = 1 THEN s[i] ELSE g[i - 1] \o s[i]
  <2>1. CASE i = m
    <3>1. m # 1 => m - 1 \in 1 .. m /\ m - 1 # m
      BY <1>2
    <3> QED BY <2>1, <3>1
  <2>2. CASE i # m
    <3>1. i \in 1 .. m - 1 /\ (i # 1 => i - 1 \in 1 .. m /\ i - 1 # m)
      BY <1>2, <2>2
    <3>2. f[i] = IF i = 1 THEN s[i] ELSE f[i - 1] \o s[i]
      BY <1>4, <3>1 DEF Joins
    <3> QED BY <2>2, <3>1, <3>2
  <2> QED BY <2>1, <2>2
<1>6. Joins(g, s, m)
  <2> HIDE DEF last
  <2>1. g = [i \in 1 .. m |-> g[i]]
    OBVIOUS
  <2> HIDE DEF g
  <2> QED BY <1>5, <2>1 DEF Joins
<1> QED BY <1>1, <1>6

\* Whoever joins more of a sequence joins the beginning of it alike.
LEMMA JoinsAgree ==
  ASSUME NEW f, NEW g, NEW s, NEW t, NEW m \in Nat, NEW n \in Nat, m <= n,
         Joins(f, s, m), Joins(g, t, n), \A i \in 1 .. m : s[i] = t[i]
  PROVE  \A i \in 1 .. m : f[i] = g[i]
<1> DEFINE Bad == {i \in 1 .. m : f[i] # g[i]}
<1> SUFFICES ASSUME Bad # {} PROVE FALSE
  OBVIOUS
<1>0. Bad \subseteq Nat
  OBVIOUS
<1>1. PICK i \in Bad : \A k \in Bad : i <= k
  BY <1>0, LeastElement
<1>2. i \in 1 .. m /\ i \in 1 .. n /\ s[i] = t[i]
  BY <1>1
<1>3. /\ f[i] = IF i = 1 THEN s[i] ELSE f[i - 1] \o s[i]
      /\ g[i] = IF i = 1 THEN t[i] ELSE g[i - 1] \o t[i]
  BY <1>2 DEF Joins
<1>4. i # 1 => i - 1 \in 1 .. m /\ i - 1 \notin Bad
  BY <1>1, <1>2
<1>5. f[i] = g[i]
  BY <1>2, <1>3, <1>4
<1> QED BY <1>1, <1>5

\* The value of FlattenSeq is the last one.
LEMMA FlattenIs ==
  ASSUME NEW s, Len(s) \in Nat \ {0}, NEW f, Joins(f, s, Len(s))
  PROVE  FlattenSeq(s) = f[Len(s)]
<1> DEFINE n == Len(s)
           c == CHOOSE h : h = [i \in 1 .. n |-> IF i = 1 THEN s[i] ELSE h[i - 1] \o s[i]]
<1>1. FlattenSeq(s) = c[n]
  BY DEF FlattenSeq
<1>2. Joins(c, s, n)
  BY DEF Joins
<1> HIDE DEF c
<1>3. n \in 1 .. n
  OBVIOUS
<1>4. \A i \in 1 .. n : c[i] = f[i]
  BY <1>2, JoinsAgree
<1> QED BY <1>1, <1>3, <1>4

\* Flattening a sequence of sequences gives a sequence ...
LEMMA FlattenType ==
  ASSUME NEW S, NEW s \in Seq(Seq(S))
  PROVE  FlattenSeq(s) \in Seq(S)
<1>1. CASE s = <<>>
  BY <1>1 DEF FlattenSeq
<1>2. CASE s # <<>>
  <2> DEFINE n == Len(s)
  <2>1. n \in Nat \ {0} /\ \A i \in 1 .. n : s[i] \in Seq(S)
    BY <1>2
  <2>2. PICK f : Joins(f, s, n)
    BY <2>1, JoinsExists
  <2> DEFINE Bad == {i \in 1 .. n : f[i] \notin Seq(S)}
  <2>3. Bad = {}
    <3> SUFFICES ASSUME Bad # {} PROVE FALSE
      OBVIOUS
    <3>0. Bad \subseteq Nat
      BY <2>1
    <3>1. PICK i \in Bad : \A k \in Bad : i <= k
      BY <3>0, LeastElement
    <3>2. i # 1 => i - 1 \in 1 .. n /\ i - 1 \notin Bad
      BY <2>1, <3>1
    <3>3. f[i] = IF i = 1 THEN s[i] ELSE f[i - 1] \o s[i]
      BY <2>2, <3>1 DEF Joins
    <3>4. f[i] \in Seq(S)
      <4>1. s[i] \in Seq(S)
        BY <2>1, <3>1
      <4> QED BY <3>2, <3>3, <4>1
    <3> QED BY <3>1, <3>4
  <2>4. n \in 1 .. n
    BY <2>1
  <2>5. FlattenSeq(s) = f[n]
    BY <2>1, <2>2, FlattenIs
  <2> QED BY <2>3, <2>4, <2>5
<1> QED BY <1>1, <1>2

\* ... of nothing if there is none ...
LEMMA FlattenEmpty == FlattenSeq(<<>>) = <<>>
BY DEF FlattenSeq

\* ... and one sequence more goes to the end.
LEMMA FlattenAppend ==
  ASSUME NEW S, NEW s \in Seq(Seq(S)), NEW e \in Seq(S)
  PROVE  FlattenSeq(Append(s, e)) = FlattenSeq(s) \o e
<1> DEFINE n == Len(s)
           t == Append(s, e)
<1>1. n \in Nat /\ Len(t) = n + 1 /\ t[n + 1] = e /\ \A i \in 1 .. n : t[i] = s[i]
  OBVIOUS
<1> HIDE DEF t
<1>2. PICK g : Joins(g, t, n + 1)
  <2>1. n + 1 \in Nat
    BY <1>1
  <2> QED BY <2>1, JoinsExists
<1>3. FlattenSeq(t) = g[n + 1]
  BY <1>1, <1>2, FlattenIs
<1>4. g[n + 1] = IF n + 1 = 1 THEN e ELSE g[n] \o e
  <2>1. n + 1 \in 1 .. n + 1 /\ (n + 1) - 1 = n
    BY <1>1
  <2> QED BY <1>1, <1>2, <2>1 DEF Joins
<1>5. CASE n = 0
  <2>1. s = <<>> /\ FlattenSeq(s) = <<>> /\ <<>> \o e = e
    BY <1>5, FlattenEmpty
  <2> QED BY <1>3, <1>4, <1>5, <2>1 DEF t
<1>6. CASE n # 0
  <2>1. PICK f : Joins(f, s, n)
    BY <1>1, JoinsExists
  <2>2. FlattenSeq(s) = f[n]
    BY <1>1, <1>6, <2>1, FlattenIs
  <2>3. n <= n + 1 /\ n \in 1 .. n /\ n + 1 \in Nat
    BY <1>1, <1>6
  <2>4. f[n] = g[n]
    <3>1. \A i \in 1 .. n : s[i] = t[i]
      BY <1>1
    <3> HIDE DEF n
    <3>2. \A i \in 1 .. n : f[i] = g[i]
      BY <1>1, <1>2, <2>1, <2>3, <3>1, JoinsAgree
    <3> QED BY <2>3, <3>2
  <2> QED BY <1>3, <1>4, <1>6, <2>2, <2>3, <2>4, n + 1 # 1 DEF t
<1> QED BY <1>5, <1>6
=============================================================================
