---------------------------- MODULE SerialArmProofs ----------------------------
(***************************************************************************)
(* SerialArm's types, its three safety invariants and its action property, *)
(* for every arm, every number of refreshes, faults, sessions and tokens   *)
(* on the wire.                                                            *)
(*                                                                         *)
(* A script is data as long as the arm has joints, and is built by         *)
(* FlattenSeq().  The proof never looks at a place in it: it speaks of the *)
(* calls that are left (ToSet) and of one order among them (Mends), which  *)
(* a step takes from the front.                                            *)
(*                                                                         *)
(* Order: numbers and sequences; the parser; the scripts; the invariant;   *)
(* its parts, over the steps of the session, between the calls of a        *)
(* thread, within a call, and under the faults; the theorems.              *)
(***************************************************************************)
EXTENDS SerialArm, SequenceTheorems, FiniteSetTheorems, TLAPS

(* Numbers and sequences.                                                   *)

(* A set of numbers has a least element: the prefixes 0..k are well-founded
   under inclusion.                                                         *)
LEMMA LeastNumber ==
    ASSUME NEW T \in SUBSET Nat, T # {}
    PROVE  \E n \in T : \A m \in T : n <= m
<1> DEFINE F == {0..k : k \in T}
<1> DEFINE R == StrictSubsetOrdering(Nat)
<1> DEFINE S == FiniteSubsetsOf(Nat)
<1>1. F \subseteq S
  <2>1. \A k \in Nat : IsFiniteSet(0..k)
      BY FS_Interval
  <2>2. \A k \in Nat : (0..k) \in SUBSET Nat
      OBVIOUS
  <2> QED BY <2>1, <2>2 DEF FiniteSubsetsOf
<1>2. F # {}
    OBVIOUS
<1>3. IsWellFoundedOn(R, S)
    BY FS_StrictSubsetOrderingWellFounded
<1>4. \E x \in F : \A y \in F : ~(<<y, x>> \in R)
  <2> HIDE DEF F, R, S
  <2> QED BY <1>1, <1>2, <1>3, WFMin
<1>5. PICK n \in T : \A m \in T : ~(<<0..m, 0..n>> \in R)
    BY <1>4
<1>6. ASSUME NEW m \in T, m < n PROVE FALSE
  <2>1. (0..m) \subseteq Nat /\ (0..n) \subseteq Nat /\ (0..m) \subseteq (0..n)
      BY <1>6
  <2>2. n \in 0..n /\ n \notin 0..m
      BY <1>6
  <2>3. <<0..m, 0..n>> \in R
      BY <2>1, <2>2 DEF StrictSubsetOrdering
  <2> QED BY <2>3, <1>5
<1> QED BY <1>6

(* The largest number of a finite set, which CHOOSE picks, is there.        *)
LEMMA MaxProperties ==
    ASSUME NEW n \in Nat, NEW S \in SUBSET (0..n), S # {}
    PROVE  Max(S) \in S /\ \A k \in S : k <= Max(S)
<1> DEFINE T == {n - k : k \in S}
<1>1. PICK d \in T : \A e \in T : d <= e
  <2>1. \A k \in S : n - k \in Nat
      OBVIOUS
  <2>2. T \in SUBSET Nat
      BY <2>1
  <2>3. T # {}
      OBVIOUS
  <2> HIDE DEF T
  <2> QED BY <2>2, <2>3, LeastNumber
<1>2. PICK x \in S : d = n - x
    OBVIOUS
<1>3. \A y \in S : x >= y
  <2> TAKE y \in S
  <2>1. n - y \in T
      OBVIOUS
  <2> QED BY <2>1, <1>1, <1>2
<1> QED BY <1>3 DEF Max

(* u has the elements of s and those of t.                                  *)
Joins(u, s, t) ==
    /\ \A p \in 1..Len(u) : \/ \E j \in 1..Len(s) : u[p] = s[j]
                            \/ \E j \in 1..Len(t) : u[p] = t[j]
    /\ \A j \in 1..Len(s) : \E p \in 1..Len(u) : u[p] = s[j]
    /\ \A j \in 1..Len(t) : \E p \in 1..Len(u) : u[p] = t[j]

(* A concatenation has the elements of its two parts.                       *)
LEMMA ConcatRange ==
    ASSUME NEW X, NEW s \in Seq(X), NEW t \in Seq(X)
    PROVE  s \o t \in Seq(X) /\ Joins(s \o t, s, t)
<1> DEFINE u == s \o t
<1>1. /\ u \in Seq(X) /\ Len(u) = Len(s) + Len(t) /\ Len(s) \in Nat /\ Len(t) \in Nat
      /\ \A i \in 1..(Len(s) + Len(t)) : u[i] = IF i <= Len(s) THEN s[i] ELSE t[i - Len(s)]
    BY ConcatProperties
<1> HIDE DEF u
<1>2. ASSUME NEW p \in 1..Len(u)
      PROVE  \/ \E j \in 1..Len(s) : u[p] = s[j]
             \/ \E j \in 1..Len(t) : u[p] = t[j]
  <2>1. CASE p <= Len(s)
      BY <2>1, <1>1
  <2>2. CASE p > Len(s)
    <3>1. p - Len(s) \in 1..Len(t) /\ u[p] = t[p - Len(s)]
        BY <2>2, <1>1
    <3> QED BY <3>1
  <2> QED BY <2>1, <2>2, <1>1
<1>3. ASSUME NEW j \in 1..Len(s) PROVE \E p \in 1..Len(u) : u[p] = s[j]
  <2>1. j \in 1..Len(u) /\ u[j] = s[j]
      BY <1>1
  <2> QED BY <2>1
<1>4. ASSUME NEW j \in 1..Len(t) PROVE \E p \in 1..Len(u) : u[p] = t[j]
  <2>1. Len(s) + j \in 1..Len(u) /\ u[Len(s) + j] = t[j]
      BY <1>1
  <2> QED BY <2>1
<1>5. u \in Seq(X) /\ Joins(u, s, t)
    BY <1>1, <1>2, <1>3, <1>4 DEF Joins
<1> QED BY <1>5 DEF u

(* FlattenSeq() is defined by recursion over its argument: by induction, for
   there would be a shortest sequence for which this is wrong.              *)
LEMMA FlattenSeqRange ==
    ASSUME NEW X, NEW seqs \in Seq(Seq(X))
    PROVE  /\ FlattenSeq(seqs) \in Seq(X)
           /\ \A k \in 1..Len(FlattenSeq(seqs)) :
                \E i \in 1..Len(seqs) : \E j \in 1..Len(seqs[i]) : FlattenSeq(seqs)[k] = seqs[i][j]
           /\ \A i \in 1..Len(seqs) : \A j \in 1..Len(seqs[i]) :
                \E k \in 1..Len(FlattenSeq(seqs)) : FlattenSeq(seqs)[k] = seqs[i][j]
<1> DEFINE N == Len(seqs)
           Is(g, k) == g = [i \in 1..k |-> IF i = 1 THEN seqs[i] ELSE g[i-1] \o seqs[i]]
<1>0. N \in Nat /\ \A i \in 1..N : seqs[i] \in Seq(X)
    OBVIOUS
<1>1. \A k \in Nat : \E g : Is(g, k)
  <2> DEFINE T == {k \in Nat : ~ \E g : Is(g, k)}
  <2> SUFFICES ASSUME T # {} PROVE FALSE
      OBVIOUS
  <2>1. PICK n \in T : \A m \in T : n <= m
    <3>1. T \in SUBSET Nat
        OBVIOUS
    <3> HIDE DEF T
    <3> QED BY <3>1, LeastNumber
  <2>2. n # 0
    <3>1. Is([i \in {} |-> 0], 0)
        OBVIOUS
    <3> QED BY <3>1
  <2>3. n - 1 \in Nat /\ n - 1 \notin T
    <3>1. n \in Nat
        OBVIOUS
    <3> HIDE DEF T
    <3> QED BY <3>1, <2>1, <2>2
  <2>4. PICK g : Is(g, n - 1)
      BY <2>3
  <2> DEFINE v == IF n = 1 THEN seqs[n] ELSE g[n-1] \o seqs[n]
             h == [i \in 1..n |-> IF i = n THEN v ELSE g[i]]
  <2>5. Is(h, n)
    <3>1. ASSUME NEW i \in 1..n
          PROVE  h[i] = IF i = 1 THEN seqs[i] ELSE h[i-1] \o seqs[i]
      <4>1. CASE i = n
          BY <4>1, <2>2
      <4>2. CASE i # n
        <5>1. i \in 1..(n-1) /\ h[i] = g[i] /\ (i # 1 => h[i-1] = g[i-1])
            BY <4>2
        <5>2. g[i] = IF i = 1 THEN seqs[i] ELSE g[i-1] \o seqs[i]
            BY <2>4, <5>1
        <5> QED BY <5>1, <5>2
      <4> QED BY <4>1, <4>2
    <3> HIDE DEF v
    <3> QED BY <3>1
  <2> QED BY <2>5
<1>2. CASE N = 0
  <2>1. FlattenSeq(seqs) = seqs /\ seqs = <<>>
      BY <1>2 DEF FlattenSeq
  <2> QED BY <2>1, <1>2
<1>3. CASE N # 0
  <2> DEFINE f == CHOOSE g : Is(g, N)
  <2>1. FlattenSeq(seqs) = f[N]
      BY <1>3 DEF FlattenSeq
  <2>2. Is(f, N)
    <3> HIDE DEF Is
    <3> QED BY <1>1, <1>0
  <2>3. \A i \in 1..N : f[i] = IF i = 1 THEN seqs[i] ELSE f[i-1] \o seqs[i]
    <3> HIDE DEF f
    <3> QED BY <2>2
  <2> HIDE DEF f, N
  <2> DEFINE Good(k) ==
        /\ f[k] \in Seq(X)
        /\ \A p \in 1..Len(f[k]) : \E i \in 1..k : \E j \in 1..Len(seqs[i]) : f[k][p] = seqs[i][j]
        /\ \A i \in 1..k : \A j \in 1..Len(seqs[i]) : \E p \in 1..Len(f[k]) : f[k][p] = seqs[i][j]
  <2>4. \A k \in 1..N : Good(k)
    <3> DEFINE T == {k \in 1..N : ~Good(k)}
    <3> SUFFICES ASSUME T # {} PROVE FALSE
        OBVIOUS
    <3>1. PICK n \in T : \A m \in T : n <= m
      <4>1. T \in SUBSET Nat
          BY <1>0
      <4> HIDE DEF T
      <4> QED BY <4>1, LeastNumber
    <3>2. n \in 1..N /\ ~Good(n)
        OBVIOUS
    <3>3. n # 1
      <4>1. ASSUME n = 1 PROVE Good(n)
        <5>1. f[1] = seqs[1] /\ seqs[1] \in Seq(X)
            BY <3>2, <4>1, <2>3, <1>0
        <5> QED BY <5>1, <4>1
      <4> QED BY <4>1, <3>2
    <3>4. n - 1 \in 1..N /\ Good(n - 1)
      <4>1. n - 1 \in 1..N
          BY <3>2, <3>3, <1>0
      <4>2. n - 1 \notin T
        <5>1. n \in Nat /\ ~(n <= n - 1)
            BY <3>2
        <5> HIDE DEF T
        <5> QED BY <5>1, <3>1
      <4> HIDE DEF Good
      <4> QED BY <4>1, <4>2
    <3>5. f[n] = f[n-1] \o seqs[n] /\ seqs[n] \in Seq(X)
        BY <3>2, <3>3, <2>3, <1>0
    <3>6. f[n-1] \in Seq(X)
        BY <3>4
    <3> DEFINE a == f[n-1]
               b == seqs[n]
               c == f[n]
    <3>7. /\ c \in Seq(X)
          /\ \A p \in 1..Len(c) : \/ \E j \in 1..Len(a) : c[p] = a[j]
                                  \/ \E j \in 1..Len(b) : c[p] = b[j]
          /\ \A j \in 1..Len(a) : \E p \in 1..Len(c) : c[p] = a[j]
          /\ \A j \in 1..Len(b) : \E p \in 1..Len(c) : c[p] = b[j]
      <4>1. a \in Seq(X) /\ b \in Seq(X) /\ c = a \o b
          BY <3>5, <3>6
      <4> HIDE DEF a, b, c
      <4>2. c \in Seq(X) /\ Joins(c, a, b)
          BY <4>1, ConcatRange
      <4> QED BY <4>1, <4>2 DEF Joins
    <3>8. ASSUME NEW p \in 1..Len(f[n])
          PROVE  \E i \in 1..n : \E j \in 1..Len(seqs[i]) : f[n][p] = seqs[i][j]
      <4>1. CASE \E j \in 1..Len(a) : c[p] = a[j]
        <5>1. \E i \in 1..(n-1) : \E j \in 1..Len(seqs[i]) : f[n][p] = seqs[i][j]
          <6>1. PICK j \in 1..Len(a) : c[p] = a[j]
              BY <4>1
          <6>2. \E i \in 1..(n-1) : \E q \in 1..Len(seqs[i]) : f[n-1][j] = seqs[i][q]
              BY <3>4
          <6> QED BY <6>1, <6>2
        <5>2. \A i \in 1..(n-1) : i \in 1..n
            BY <3>2
        <5> QED BY <5>1, <5>2
      <4>2. CASE \E j \in 1..Len(b) : c[p] = b[j]
        <5>1. n \in 1..n
            BY <3>2
        <5> QED BY <4>2, <5>1
      <4> QED BY <4>1, <4>2, <3>7
    <3>9. ASSUME NEW i \in 1..n, NEW j \in 1..Len(seqs[i])
          PROVE  \E p \in 1..Len(f[n]) : f[n][p] = seqs[i][j]
      <4>1. CASE i = n
          BY <4>1, <3>7
      <4>2. CASE i # n
        <5>1. i \in 1..(n-1)
            BY <4>2, <3>2
        <5>2. \E q \in 1..Len(a) : a[q] = seqs[i][j]
            BY <5>1, <3>4
        <5> QED BY <5>2, <3>7
      <4> QED BY <4>1, <4>2
    <3>10. Good(n)
        BY <3>7, <3>8, <3>9
    <3> QED BY <3>10, <3>2
  <2>5. N \in 1..N
      BY <1>0, <1>3
  <2>6. Good(N)
      BY <2>4, <2>5
  <2>7. FlattenSeq(seqs) = f[N] /\ N = Len(seqs)
      BY <2>1 DEF N
  <2> DEFINE u == FlattenSeq(seqs)
  <2>8. u = f[Len(seqs)] /\ Good(Len(seqs))
      BY <2>6, <2>7
  <2> HIDE DEF u, f, N, Good
  <2>9. f[Len(seqs)] \in Seq(X)
      BY <2>8 DEF Good
  <2>10. \A k \in 1..Len(f[Len(seqs)]) :
            \E i \in 1..Len(seqs) : \E j \in 1..Len(seqs[i]) : f[Len(seqs)][k] = seqs[i][j]
      BY <2>8 DEF Good
  <2>11. \A i \in 1..Len(seqs) : \A j \in 1..Len(seqs[i]) :
            \E k \in 1..Len(f[Len(seqs)]) : f[Len(seqs)][k] = seqs[i][j]
      BY <2>8 DEF Good
  <2>12. FlattenSeq(seqs) = f[Len(seqs)]
      BY <2>8 DEF u
  <2> QED BY <2>9, <2>10, <2>11, <2>12
<1> QED BY <1>2, <1>3

(* The same facts in terms of the set of elements.                          *)
LEMMA ToSetConcat ==
    ASSUME NEW X, NEW s \in Seq(X), NEW t \in Seq(X)
    PROVE  s \o t \in Seq(X) /\ ToSet(s \o t) = ToSet(s) \cup ToSet(t)
<1> DEFINE u == s \o t
<1>1. u \in Seq(X) /\ Joins(u, s, t)
    BY ConcatRange
<1> HIDE DEF u
<1>2. DOMAIN s = 1..Len(s) /\ DOMAIN t = 1..Len(t) /\ DOMAIN u = 1..Len(u)
    BY <1>1
<1>3. ToSet(u) = ToSet(s) \cup ToSet(t)
  <2>1. ToSet(u) = {u[p] : p \in 1..Len(u)} /\ ToSet(s) = {s[p] : p \in 1..Len(s)}
        /\ ToSet(t) = {t[p] : p \in 1..Len(t)}
      BY <1>2 DEF ToSet
  <2> QED BY <2>1, <1>1, Zenon DEF Joins
<1> QED BY <1>1, <1>3 DEF u

(* ToSet of a flattened sequence.                                           *)
LEMMA ToSetFlatten ==
    ASSUME NEW X, NEW seqs \in Seq(Seq(X))
    PROVE  /\ FlattenSeq(seqs) \in Seq(X)
           /\ ToSet(FlattenSeq(seqs)) = UNION {ToSet(seqs[i]) : i \in 1..Len(seqs)}
<1> DEFINE u == FlattenSeq(seqs)
<1>1. /\ u \in Seq(X)
      /\ \A k \in 1..Len(u) : \E i \in 1..Len(seqs) : \E j \in 1..Len(seqs[i]) : u[k] = seqs[i][j]
      /\ \A i \in 1..Len(seqs) : \A j \in 1..Len(seqs[i]) : \E k \in 1..Len(u) : u[k] = seqs[i][j]
    BY FlattenSeqRange
<1> HIDE DEF u
<1>2. DOMAIN u = 1..Len(u) /\ \A i \in 1..Len(seqs) : DOMAIN seqs[i] = 1..Len(seqs[i])
    BY <1>1
<1>3. ToSet(u) = {u[p] : p \in 1..Len(u)}
      /\ \A i \in 1..Len(seqs) : ToSet(seqs[i]) = {seqs[i][j] : j \in 1..Len(seqs[i])}
    BY <1>2 DEF ToSet
<1>4. ASSUME NEW x \in ToSet(u) PROVE \E i \in 1..Len(seqs) : x \in ToSet(seqs[i])
  <2>1. PICK p \in 1..Len(u) : x = u[p]
      BY <1>3
  <2>2. PICK i \in 1..Len(seqs) : \E j \in 1..Len(seqs[i]) : u[p] = seqs[i][j]
      BY <1>1
  <2> QED BY <2>1, <2>2, <1>3
<1>5. ASSUME NEW i \in 1..Len(seqs), NEW x \in ToSet(seqs[i]) PROVE x \in ToSet(u)
  <2>1. PICK j \in 1..Len(seqs[i]) : x = seqs[i][j]
      BY <1>3
  <2>2. PICK p \in 1..Len(u) : u[p] = seqs[i][j]
      BY <1>1
  <2> QED BY <2>1, <2>2, <1>3
<1>6. ToSet(u) = UNION {ToSet(seqs[i]) : i \in 1..Len(seqs)}
    BY <1>4, <1>5, Zenon
<1> QED BY <1>1, <1>6 DEF u

(* A sequence is its head and its tail.                                     *)
LEMMA HeadTail ==
    ASSUME NEW X, NEW s \in Seq(X), s # <<>>
    PROVE  /\ Head(s) \in X /\ Tail(s) \in Seq(X)
           /\ ToSet(s) = {Head(s)} \cup ToSet(Tail(s))
<1>1. /\ Head(s) \in X /\ Tail(s) \in Seq(X) /\ Head(s) = s[1] /\ Len(s) \in Nat \ {0}
      /\ Len(Tail(s)) = Len(s) - 1
      /\ \A i \in 1..Len(Tail(s)) : Tail(s)[i] = s[i + 1]
    BY HeadTailProperties, EmptySeq
<1>2. DOMAIN s = 1..Len(s) /\ DOMAIN Tail(s) = 1..Len(Tail(s))
    BY <1>1
<1>3. ASSUME NEW x \in ToSet(s) PROVE x = Head(s) \/ x \in ToSet(Tail(s))
  <2>1. PICK p \in 1..Len(s) : x = s[p]
      BY <1>2 DEF ToSet
  <2>2. CASE p = 1
      BY <2>1, <2>2, <1>1
  <2>3. CASE p # 1
    <3>1. p - 1 \in DOMAIN Tail(s) /\ Tail(s)[p - 1] = x
        BY <2>1, <2>3, <1>1, <1>2
    <3> QED BY <3>1 DEF ToSet
  <2> QED BY <2>2, <2>3
<1>4. ASSUME NEW x \in ToSet(Tail(s)) PROVE x \in ToSet(s)
  <2>1. PICK p \in 1..Len(Tail(s)) : x = Tail(s)[p]
      BY <1>2 DEF ToSet
  <2>2. p + 1 \in DOMAIN s /\ s[p + 1] = x
      BY <2>1, <1>1, <1>2
  <2> QED BY <2>2 DEF ToSet
<1>5. Head(s) \in ToSet(s)
    BY <1>1, <1>2 DEF ToSet
<1> QED BY <1>1, <1>3, <1>4, <1>5

(* In s, a call of bad is always followed by the call good.                 *)
Mends(s, bad, good) ==
    \A i \in DOMAIN s : s[i] \in bad => \E j \in DOMAIN s : j > i /\ s[j] = good

(* What mends, does so without its first call; if that was a bad one, the
   good one is still to come.                                               *)
LEMMA MendsTail ==
    ASSUME NEW X, NEW s \in Seq(X), s # <<>>, NEW bad, NEW good, Mends(s, bad, good)
    PROVE  /\ Mends(Tail(s), bad, good)
           /\ Head(s) \in bad => good \in ToSet(Tail(s))
<1>1. /\ Tail(s) \in Seq(X) /\ Head(s) = s[1] /\ Len(s) \in Nat \ {0}
      /\ Len(Tail(s)) = Len(s) - 1
      /\ \A i \in 1..Len(Tail(s)) : Tail(s)[i] = s[i + 1]
    BY HeadTailProperties, EmptySeq
<1>2. DOMAIN s = 1..Len(s) /\ DOMAIN Tail(s) = 1..Len(Tail(s))
    BY <1>1
<1>3. ASSUME NEW i \in DOMAIN s, s[i] \in bad
      PROVE  \E j \in DOMAIN Tail(s) : j > i - 1 /\ Tail(s)[j] = good
  <2>1. PICK j \in DOMAIN s : j > i /\ s[j] = good
      BY <1>3 DEF Mends
  <2>2. j - 1 \in DOMAIN Tail(s) /\ j - 1 > i - 1 /\ Tail(s)[j - 1] = good
      BY <2>1, <1>1, <1>2
  <2> QED BY <2>2
<1>4. Mends(Tail(s), bad, good)
  <2> SUFFICES ASSUME NEW i \in DOMAIN Tail(s), Tail(s)[i] \in bad
               PROVE  \E j \in DOMAIN Tail(s) : j > i /\ Tail(s)[j] = good
      BY DEF Mends
  <2>1. i + 1 \in DOMAIN s /\ s[i + 1] \in bad /\ (i + 1) - 1 = i
      BY <1>1, <1>2
  <2> QED BY <2>1, <1>3
<1>5. ASSUME Head(s) \in bad PROVE good \in ToSet(Tail(s))
  <2>1. 1 \in DOMAIN s /\ s[1] \in bad
      BY <1>5, <1>1, <1>2
  <2> QED BY <2>1, <1>3 DEF ToSet
<1> QED BY <1>4, <1>5

(* Calls in front of a sequence are mended by it, or by themselves.         *)
LEMMA MendsConcat ==
    ASSUME NEW X, NEW s \in Seq(X), NEW t \in Seq(X), NEW bad, NEW good,
           Mends(t, bad, good), good \in ToSet(t) \/ Mends(s, bad, good)
    PROVE  Mends(s \o t, bad, good)
<1> DEFINE u == s \o t
<1>1. /\ Len(u) = Len(s) + Len(t) /\ Len(s) \in Nat /\ Len(t) \in Nat
      /\ \A i \in 1..(Len(s) + Len(t)) : u[i] = IF i <= Len(s) THEN s[i] ELSE t[i - Len(s)]
      /\ u \in Seq(X)
    BY ConcatProperties
<1> HIDE DEF u
<1>2. DOMAIN s = 1..Len(s) /\ DOMAIN t = 1..Len(t) /\ DOMAIN u = 1..Len(u)
    BY <1>1
<1>3. ASSUME NEW j \in DOMAIN t PROVE Len(s) + j \in DOMAIN u /\ u[Len(s) + j] = t[j]
    BY <1>1, <1>2
<1> SUFFICES ASSUME NEW i \in DOMAIN u, u[i] \in bad
             PROVE  \E j \in DOMAIN u : j > i /\ u[j] = good
    BY DEF Mends, u
<1>4. CASE i <= Len(s)
  <2>1. i \in DOMAIN s /\ s[i] \in bad
      BY <1>4, <1>1, <1>2
  <2>2. CASE good \in ToSet(t)
    <3>1. PICK j \in DOMAIN t : t[j] = good
        BY <2>2 DEF ToSet
    <3>2. Len(s) + j > i
        BY <1>4, <1>2, <1>1
    <3> QED BY <3>1, <3>2, <1>3
  <2>3. CASE Mends(s, bad, good)
    <3>1. PICK j \in DOMAIN s : j > i /\ s[j] = good
        BY <2>1, <2>3 DEF Mends
    <3>2. j \in DOMAIN u /\ u[j] = s[j]
        BY <1>1, <1>2
    <3> QED BY <3>1, <3>2
  <2> QED BY <2>2, <2>3
<1>5. CASE i > Len(s)
  <2>1. i - Len(s) \in DOMAIN t /\ t[i - Len(s)] \in bad
      BY <1>5, <1>1, <1>2
  <2>2. PICK j \in DOMAIN t : j > i - Len(s) /\ t[j] = good
      BY <2>1 DEF Mends
  <2>3. Len(s) + j > i
      BY <2>2, <1>2, <1>1
  <2> QED BY <2>2, <2>3, <1>3
<1> QED BY <1>4, <1>5, <1>1, <1>2

(* Nothing bad, nothing to mend.                                            *)
LEMMA MendsNothing ==
    ASSUME NEW s, NEW bad, NEW good, \A c \in ToSet(s) : c \notin bad
    PROVE  Mends(s, bad, good)
BY DEF Mends, ToSet

-----------------------------------------------------------------------------
(* The parser and the streams it works on.                                  *)

(* First and last parts of replies alternate, whatever was read of them.    *)
Alternates(s) ==
    /\ \A i \in 1..(Len(s) - 1) : s[i].last # s[i + 1].last
    /\ s # <<>> => s[Len(s)].last

(* The tokens behind the first e.                                           *)
LEMMA SuffixProperties ==
    ASSUME NEW X, NEW s \in Seq(X), NEW e \in 0..Len(s)
    PROVE  /\ SubSeq(s, e + 1, Len(s)) \in Seq(X)
           /\ Len(SubSeq(s, e + 1, Len(s))) = Len(s) - e
           /\ \A i \in 1..(Len(s) - e) : SubSeq(s, e + 1, Len(s))[i] = s[e + i]
<1> DEFINE k == SubSeq(s, e + 1, Len(s))
<1>1. Len(s) \in Nat /\ e \in Nat /\ e <= Len(s) /\ \A i \in (e + 1)..Len(s) : s[i] \in X
    OBVIOUS
<1>2. /\ k \in Seq(X)
      /\ Len(k) = IF e + 1 <= Len(s) THEN Len(s) - (e + 1) + 1 ELSE 0
      /\ \A i \in 1..(Len(s) - (e + 1) + 1) : k[i] = s[(e + 1) + i - 1]
    BY <1>1, SubSeqProperties
<1>3. \A i \in 1..(Len(s) - e) : i \in 1..(Len(s) - (e + 1) + 1) /\ (e + 1) + i - 1 = e + i
    BY <1>1
<1> HIDE DEF k
<1>4. /\ k \in Seq(X) /\ Len(k) = Len(s) - e /\ \A i \in 1..(Len(s) - e) : k[i] = s[e + i]
    BY <1>1, <1>2, <1>3
<1> QED BY <1>4 DEF k

(* The fields of a token.                                                   *)
LEMMA TokenFields == \A x \in Tokens : x.last \in BOOLEAN /\ x.r \in Replies
BY DEF Tokens

(* Two tokens at most are left unparsed, however many were read.            *)
LEMMA RemainderIsShort ==
    ASSUME NEW s \in Seq(Tokens), \A i \in 1..(Len(s) - 1) : s[i].last # s[i + 1].last
    PROVE  \E e \in 0..Len(s) : Remainder(s) = SubSeq(s, e + 1, Len(s)) /\ Len(s) - e <= 2
<1> DEFINE N == Len(s)
           E == PacketEnds(s) \cup {0}
           e == Max(E)
<1>1. N \in Nat /\ \A i \in 1..N : s[i].last \in BOOLEAN
  <2>1. \A i \in 1..N : s[i] \in Tokens
      OBVIOUS
  <2> QED BY <2>1, TokenFields
<1>2. E \in SUBSET (0..N) /\ E # {} /\ PacketEnds(s) \subseteq E
    BY <1>1 DEF PacketEnds
<1>3. e \in E /\ \A k \in E : k <= e
  <2> HIDE DEF E, N
  <2> QED BY <1>1, <1>2, MaxProperties
<1>4. Remainder(s) = SubSeq(s, 1 + e, N)
    BY DEF Remainder
<1> HIDE DEF e
<1>5. e \in 0..N
    BY <1>2, <1>3
<1>6. ASSUME N - e >= 3 PROVE FALSE
  <2>1. e + 1 \in 1..N /\ e + 2 \in 2..N /\ e + 3 \in 2..N /\ (e + 3) - 1 = e + 2 /\ (e + 2) - 1 = e + 1
      BY <1>6, <1>5, <1>1
  <2>2. s[e + 1].last # s[e + 2].last /\ s[e + 2].last # s[e + 3].last
    <3>1. e + 1 \in 1..(N - 1) /\ e + 2 \in 1..(N - 1) /\ (e + 1) + 1 = e + 2 /\ (e + 2) + 1 = e + 3
        BY <1>6, <1>5, <1>1
    <3> QED BY <3>1
  <2>3. e + 2 \notin PacketEnds(s) /\ e + 3 \notin PacketEnds(s)
      BY <1>2, <1>3, <1>5, <1>1
  <2>4. ~(s[e + 2].last /\ ~s[e + 1].last) /\ ~(s[e + 3].last /\ ~s[e + 2].last)
      BY <2>1, <2>3 DEF PacketEnds
  <2>5. s[e + 1].last \in BOOLEAN /\ s[e + 2].last \in BOOLEAN /\ s[e + 3].last \in BOOLEAN
      BY <2>1, <1>1
  <2> QED BY <2>2, <2>4, <2>5
<1>7. 1 + e = e + 1 /\ N - e <= 2
    BY <1>5, <1>6, <1>1
<1> QED BY <1>4, <1>5, <1>7

(* The end of an alternating stream alternates.                             *)
LEMMA AlternatesShift ==
    ASSUME NEW z \in Seq(Tokens), NEW u \in Seq(Tokens), NEW e \in Nat,
           Len(z) = Len(u) + e, \A i \in 1..Len(u) : u[i] = z[e + i], Alternates(z)
    PROVE  Alternates(u)
<1>1. Len(u) \in Nat /\ Len(z) \in Nat
    OBVIOUS
<1>2. ASSUME NEW i \in 1..(Len(u) - 1) PROVE u[i].last # u[i + 1].last
  <2>1. e + i \in 1..(Len(z) - 1) /\ (e + i) + 1 = e + (i + 1) /\ i \in 1..Len(u) /\ i + 1 \in 1..Len(u)
      BY <1>1
  <2> QED BY <2>1 DEF Alternates
<1>3. ASSUME u # <<>> PROVE u[Len(u)].last
  <2>1. Len(u) \in 1..Len(u)
      BY <1>3, <1>1, EmptySeq
  <2>2. z # <<>>
      BY <2>1, <1>1
  <2>3. u[Len(u)] = z[e + Len(u)] /\ e + Len(u) = Len(z)
      BY <2>1, <1>1
  <2> QED BY <2>2, <2>3 DEF Alternates
<1> QED BY <1>2, <1>3 DEF Alternates

(* recv_set_param_data() forgets what was kept: the wire alone alternates.  *)
LEMMA AlternatesSuffix ==
    ASSUME NEW a \in Seq(Tokens), NEW w \in Seq(Tokens), Alternates(a \o w)
    PROVE  Alternates(<<>> \o w)
<1>1. <<>> \o w = w
    OBVIOUS
<1> DEFINE z == a \o w
<1>2. z \in Seq(Tokens) /\ Len(z) = Len(w) + Len(a) /\ Len(a) \in Nat
      /\ \A i \in 1..Len(w) : w[i] = z[Len(a) + i]
  <2>1. z \in Seq(Tokens) /\ Len(z) = Len(a) + Len(w) /\ Len(a) \in Nat /\ Len(w) \in Nat
        /\ \A i \in 1..(Len(a) + Len(w)) : z[i] = IF i <= Len(a) THEN a[i] ELSE w[i - Len(a)]
      BY ConcatProperties
  <2> HIDE DEF z
  <2>2. ASSUME NEW i \in 1..Len(w) PROVE w[i] = z[Len(a) + i]
    <3>1. Len(a) + i \in 1..(Len(a) + Len(w)) /\ ~(Len(a) + i <= Len(a)) /\ (Len(a) + i) - Len(a) = i
        BY <2>1
    <3> QED BY <3>1, <2>1
  <2> QED BY <2>1, <2>2
<1>3. Alternates(z)
    OBVIOUS
<1> HIDE DEF z
<1> QED BY <1>1, <1>2, <1>3, AlternatesShift

(* A read takes the first tokens off the wire w, behind what it kept in a.  *)
Reads(a, w, s, rest) ==
    \E n \in 0..Len(w) : s = a \o SubSeq(w, 1, n) /\ rest = SubSeq(w, n + 1, Len(w))

(* A read, whatever it takes: where its tokens come from, what is left.     *)
LEMMA Reading ==
    ASSUME NEW a \in Seq(Tokens), NEW w \in Seq(Tokens), Alternates(a \o w),
           NEW s, NEW rest, Reads(a, w, s, rest)
    PROVE  /\ s \in Seq(Tokens) /\ ToSet(s) \subseteq ToSet(a) \cup ToSet(w)
           /\ rest \in Seq(Tokens) /\ Len(rest) <= Len(w) /\ ToSet(rest) \subseteq ToSet(w)
           /\ Remainder(s) \in Seq(Tokens) /\ Len(Remainder(s)) <= 2
           /\ ToSet(Remainder(s)) \subseteq ToSet(s)
           /\ Alternates(Remainder(s) \o rest)
<1>0. PICK n \in 0..Len(w) : s = a \o SubSeq(w, 1, n) /\ rest = SubSeq(w, n + 1, Len(w))
    BY DEF Reads
<1> DEFINE z == a \o w
           p == SubSeq(w, 1, n)
<1>1. /\ z \in Seq(Tokens) /\ Len(z) = Len(a) + Len(w) /\ Len(a) \in Nat /\ Len(w) \in Nat
      /\ \A i \in 1..(Len(a) + Len(w)) : z[i] = IF i <= Len(a) THEN a[i] ELSE w[i - Len(a)]
    BY ConcatProperties
<1>2. p \in Seq(Tokens) /\ Len(p) = n /\ \A i \in 1..n : p[i] = w[i]
  <2>1. \A i \in 1..n : w[i] \in Tokens
      BY <1>1
  <2>2. /\ p \in Seq(Tokens)
        /\ Len(p) = IF 1 <= n THEN n - 1 + 1 ELSE 0
        /\ \A i \in 1..(n - 1 + 1) : p[i] = w[1 + i - 1]
      BY <2>1, SubSeqProperties
  <2> HIDE DEF p
  <2>3. n \in Nat
      BY <1>1
  <2>4. \A i \in 1..n : i \in 1..(n - 1 + 1) /\ 1 + i - 1 = i
      BY <2>3
  <2> QED BY <2>2, <2>3, <2>4
<1>3. rest \in Seq(Tokens) /\ Len(rest) = Len(w) - n /\ \A i \in 1..(Len(w) - n) : rest[i] = w[n + i]
  <2>1. n \in 0..Len(w) /\ rest = SubSeq(w, n + 1, Len(w))
      BY <1>0
  <2> QED BY <2>1, SuffixProperties
<1>4. /\ s \in Seq(Tokens) /\ Len(s) = Len(a) + n
      /\ \A i \in 1..(Len(a) + n) : s[i] = z[i]
  <2> HIDE DEF p
  <2>1. /\ s \in Seq(Tokens) /\ Len(s) = Len(a) + Len(p)
        /\ \A i \in 1..(Len(a) + Len(p)) : s[i] = IF i <= Len(a) THEN a[i] ELSE p[i - Len(a)]
    <3>1. s = a \o p
        BY <1>0 DEF p
    <3> QED BY <3>1, <1>2, ConcatProperties
  <2> HIDE DEF z
  <2>2. ASSUME NEW i \in 1..(Len(a) + n) PROVE s[i] = z[i]
    <3>1. n \in Nat /\ i \in 1..(Len(a) + Len(w)) /\ (i > Len(a) => i - Len(a) \in 1..n)
        BY <1>1
    <3>2. CASE i <= Len(a)
        BY <3>1, <3>2, <2>1, <1>1, <1>2
    <3>3. CASE i > Len(a)
      <4>1. s[i] = p[i - Len(a)] /\ z[i] = w[i - Len(a)]
          BY <3>1, <3>3, <2>1, <1>1, <1>2
      <4> QED BY <4>1, <3>1, <3>3, <1>2
    <3> QED BY <3>1, <3>2, <3>3, <1>1
  <2> QED BY <2>1, <2>2, <1>2
<1>5. Alternates(z)
    OBVIOUS
<1> HIDE DEF z, p
<1>6. \A i \in 1..(Len(s) - 1) : s[i].last # s[i + 1].last
  <2> SUFFICES ASSUME NEW i \in 1..(Len(s) - 1) PROVE s[i].last # s[i + 1].last
      OBVIOUS
  <2>1. n \in Nat /\ n <= Len(w)
      BY <1>1
  <2>2. i \in 1..(Len(z) - 1) /\ i \in 1..(Len(a) + n) /\ i + 1 \in 1..(Len(a) + n)
      BY <2>1, <1>1, <1>4
  <2> QED BY <2>2, <1>4, <1>5 DEF Alternates
<1>7. PICK e \in 0..Len(s) : Remainder(s) = SubSeq(s, e + 1, Len(s)) /\ Len(s) - e <= 2
    BY <1>4, <1>6, RemainderIsShort
<1> DEFINE k == Remainder(s)
<1>8. k \in Seq(Tokens) /\ Len(k) = Len(s) - e /\ \A i \in 1..(Len(s) - e) : k[i] = s[e + i]
  <2> DEFINE q == SubSeq(s, e + 1, Len(s))
  <2>1. q \in Seq(Tokens) /\ Len(q) = Len(s) - e /\ \A i \in 1..(Len(s) - e) : q[i] = s[e + i]
      BY <1>4, SuffixProperties
  <2>2. k = q
      BY <1>7
  <2> HIDE DEF k, q
  <2> QED BY <2>1, <2>2
<1> HIDE DEF k
<1> DEFINE u == k \o rest
<1>9. /\ u \in Seq(Tokens) /\ Len(u) = Len(k) + Len(rest)
      /\ \A i \in 1..(Len(k) + Len(rest)) : u[i] = IF i <= Len(k) THEN k[i] ELSE rest[i - Len(k)]
    BY <1>3, <1>8, ConcatProperties
<1> HIDE DEF u
<1>10. Len(z) = Len(u) + e /\ e \in Nat /\ \A i \in 1..Len(u) : u[i] = z[e + i]
  <2>1. n \in Nat /\ n <= Len(w) /\ e \in Nat /\ e <= Len(a) + n
      BY <1>1, <1>4
  <2>2. Len(u) = (Len(a) + n - e) + (Len(w) - n) /\ Len(k) = Len(a) + n - e
    <3>1. Len(s) - e = Len(a) + n - e
        BY <1>4
    <3>2. Len(k) = Len(a) + n - e
        BY <3>1, <1>8
    <3> QED BY <3>2, <1>9, <1>3
  <2>3. Len(z) = Len(u) + e
      BY <2>1, <2>2, <1>1
  <2>4. ASSUME NEW i \in 1..Len(u) PROVE u[i] = z[e + i]
    <3>1. i \in 1..(Len(k) + Len(rest))
        BY <1>9
    <3>2. CASE i <= Len(k)
      <4>1. i \in 1..(Len(s) - e) /\ e + i \in 1..(Len(a) + n)
          BY <3>1, <3>2, <2>1, <2>2, <1>1, <1>4
      <4>2. u[i] = k[i] /\ k[i] = s[e + i] /\ s[e + i] = z[e + i]
          BY <3>1, <3>2, <4>1, <1>9, <1>8, <1>4
      <4> QED BY <4>2
    <3>3. CASE i > Len(k)
      <4>1. i - Len(k) \in 1..(Len(w) - n) /\ e + i \in 1..(Len(a) + Len(w)) /\ e + i > Len(a)
            /\ n + (i - Len(k)) = (e + i) - Len(a)
          BY <3>1, <3>3, <2>1, <2>2, <1>1, <1>3
      <4>2. u[i] = rest[i - Len(k)]
        <5>1. Len(k) \in Nat
            BY <1>8
        <5>2. ~(i <= Len(k))
            BY <5>1, <3>3
        <5> QED BY <3>1, <5>2, <1>9
      <4>3. rest[i - Len(k)] = w[n + (i - Len(k))]
          BY <4>1, <1>3
      <4>4. z[e + i] = w[(e + i) - Len(a)]
          BY <4>1, <1>1
      <4> QED BY <4>1, <4>2, <4>3, <4>4
    <3> QED BY <3>2, <3>3, <2>1, <2>2, <1>1
  <2> QED BY <2>1, <2>3, <2>4
<1>11. Alternates(u)
    BY <1>1, <1>5, <1>9, <1>10, AlternatesShift
<1>12. ToSet(s) \subseteq ToSet(a) \cup ToSet(w)
  <2>1. ToSet(s) = ToSet(a) \cup ToSet(p)
    <3>1. s = a \o p
        BY <1>0 DEF p
    <3> QED BY <3>1, <1>2, ToSetConcat
  <2>2. ToSet(p) \subseteq ToSet(w)
    <3>1. DOMAIN p = 1..n /\ DOMAIN w = 1..Len(w) /\ n \in Nat /\ n <= Len(w)
        BY <1>1, <1>2
    <3> QED BY <3>1, <1>2 DEF ToSet
  <2> QED BY <2>1, <2>2
<1>13. ToSet(rest) \subseteq ToSet(w)
  <2>1. DOMAIN rest = 1..(Len(w) - n) /\ DOMAIN w = 1..Len(w) /\ n \in Nat
      BY <1>1, <1>3
  <2>2. \A i \in 1..(Len(w) - n) : n + i \in 1..Len(w)
      BY <2>1, <1>1
  <2> QED BY <2>1, <2>2, <1>3 DEF ToSet
<1>14. ToSet(k) \subseteq ToSet(s)
  <2>1. DOMAIN k = 1..(Len(s) - e) /\ DOMAIN s = 1..Len(s) /\ e \in Nat /\ Len(s) \in Nat
      BY <1>4, <1>8
  <2>2. \A i \in 1..(Len(s) - e) : e + i \in 1..Len(s)
      BY <2>1
  <2> QED BY <2>1, <2>2, <1>8 DEF ToSet
<1>15. Len(rest) <= Len(w) /\ Len(k) <= 2
    BY <1>1, <1>3, <1>7, <1>8
<1> QED BY <1>3, <1>4, <1>8, <1>11, <1>12, <1>13, <1>14, <1>15 DEF k, u

(* What a read makes of its packets.                                        *)
LEMMA PacketEndsIn ==
    ASSUME NEW s \in Seq(Tokens), NEW E \in SUBSET PacketEnds(s), E # {}
    PROVE  s[Max(E)] \in ToSet(s) /\ s[Max(E)] \in Tokens /\ Max(E) \in E
<1>1. Len(s) \in Nat /\ E \in SUBSET (0..Len(s)) /\ E \subseteq DOMAIN s
  <2>1. Len(s) \in Nat /\ DOMAIN s = 1..Len(s)
      OBVIOUS
  <2> QED BY <2>1 DEF PacketEnds
<1>2. Max(E) \in E
    BY <1>1, MaxProperties
<1> QED BY <1>1, <1>2 DEF ToSet

(* recv() leaves one of the two torques.                                    *)
LEMMA ProcessPacketsType ==
    ASSUME NEW s \in Seq(Tokens), torque \in {"low", "high"}
    PROVE  ProcessPackets(s) \in {"low", "high"}
<1> DEFINE E == {i \in PacketEnds(s) : s[i].r.m = gripper /\ gripper \in known}
<1>1. ASSUME E # {} PROVE s[Max(E)].r \in Replies
  <2>1. E \in SUBSET PacketEnds(s)
      OBVIOUS
  <2> HIDE DEF E
  <2> QED BY <2>1, <1>1, PacketEndsIn, TokenFields
<1> HIDE DEF E
<1>2. \A r \in Replies : r.about = "status" => r.val \in {"low", "high"}
    BY DEF Replies
<1>3. CASE E = {}
    BY <1>3 DEF ProcessPackets, E
<1>4. CASE E # {}
  <2>1. ProcessPackets(s) = IF s[Max(E)].r.about = "status" THEN s[Max(E)].r.val ELSE "low"
      BY <1>4 DEF ProcessPackets, E
  <2> QED BY <2>1, <1>1, <1>2, <1>4
<1> QED BY <1>3, <1>4

(* A parameter that changed was in a packet of its motor that is no status. *)
LEMMA ProcessParamsType ==
    ASSUME NEW s \in Seq(Tokens), param \in [Motors -> Modes \cup {"none"}]
    PROVE  /\ ProcessParams(s) \in [Motors -> Modes \cup {"none"}]
           /\ \A m \in Motors : \/ ProcessParams(s)[m] = param[m]
                                \/ \E x \in ToSet(s) : x.r.m = m /\ x.r.about # "status"
<1>1. ASSUME NEW m \in Motors
      PROVE  LET v == IF ModePackets(s, m) = {} THEN param[m] ELSE s[Max(ModePackets(s, m))].r.val
             IN /\ v \in Modes \cup {"none"}
                /\ v = param[m] \/ \E x \in ToSet(s) : x.r.m = m /\ x.r.about # "status"
  <2> DEFINE E == ModePackets(s, m)
  <2>1. CASE E = {}
      BY <2>1
  <2>2. CASE E # {}
    <3>1. E \in SUBSET PacketEnds(s)
        BY DEF ModePackets
    <3>2. s[Max(E)] \in ToSet(s) /\ s[Max(E)] \in Tokens /\ Max(E) \in E
      <4> HIDE DEF E
      <4> QED BY <3>1, <2>2, PacketEndsIn
    <3>3. s[Max(E)].r.m = m /\ s[Max(E)].r.about = "mode"
        BY <3>2 DEF ModePackets
    <3>4. \A r \in Replies : r.about = "mode" => r.val \in Modes
        BY DEF Replies
    <3>5. s[Max(E)].r.val \in Modes
        BY <3>2, <3>3, <3>4, TokenFields
    <3> HIDE DEF E
    <3>6. \E x \in ToSet(s) : x.r.m = m /\ x.r.about # "status"
        BY <3>2, <3>3
    <3> QED BY <2>2, <3>5, <3>6 DEF E
  <2> QED BY <2>1, <2>2
<1> QED BY <1>1 DEF ProcessParams

-----------------------------------------------------------------------------
(* The scripts of the methods.                                              *)

ScriptCalls == DriverCalls \cup Adds
(* The joints and the gripper are the motors.                               *)
LEMMA MotorFacts ==
    /\ Motors = ToSet(Arm) \cup {gripper} /\ gripper \notin ToSet(Arm) /\ NoMotor \notin Motors
    /\ Arm \in Seq(Motors) /\ Order \in Seq(Motors) /\ ToSet(Order) = Motors
<1>1. Arm \in Seq(Motors) /\ gripper \notin ToSet(Arm) /\ NoMotor \notin Motors
    BY DriverAssumption
<1> DEFINE X == Motors \cup {gripper}
<1>2. Arm \in Seq(X) /\ gripper \in X
  <2>1. Motors \subseteq X
      OBVIOUS
  <2> HIDE DEF X
  <2>2. Arm \in Seq(X)
      BY <1>1, <2>1, SeqMonotonic
  <2> QED BY <2>2 DEF X
<1>3. /\ Order \in Seq(X) /\ Len(Order) = Len(Arm) + 1 /\ Len(Arm) \in Nat
      /\ \A i \in 1..Len(Arm) : Order[i] = Arm[i]
      /\ Order[Len(Arm) + 1] = gripper
  <2> HIDE DEF X
  <2> QED BY <1>2, AppendProperties DEF Order
<1>4. DOMAIN Arm = 1..Len(Arm) /\ DOMAIN Order = 1..(Len(Arm) + 1)
    BY <1>1, <1>3
<1>5. ToSet(Order) = ToSet(Arm) \cup {gripper}
  <2>1. ASSUME NEW x \in ToSet(Order) PROVE x \in ToSet(Arm) \cup {gripper}
    <3>1. PICK i \in 1..(Len(Arm) + 1) : x = Order[i]
        BY <1>4 DEF ToSet
    <3>2. CASE i = Len(Arm) + 1
        BY <3>1, <3>2, <1>3
    <3>3. CASE i # Len(Arm) + 1
      <4>1. i \in DOMAIN Arm /\ x = Arm[i]
          BY <3>1, <3>3, <1>3, <1>4
      <4> QED BY <4>1 DEF ToSet
    <3> QED BY <3>2, <3>3
  <2>2. ASSUME NEW x \in ToSet(Arm) PROVE x \in ToSet(Order)
    <3>1. PICK i \in DOMAIN Arm : x = Arm[i]
        BY DEF ToSet
    <3>2. i \in DOMAIN Order /\ x = Order[i]
        BY <3>1, <1>3, <1>4
    <3> QED BY <3>2 DEF ToSet
  <2>3. gripper \in ToSet(Order)
    <3>1. Len(Arm) + 1 \in DOMAIN Order
        BY <1>3, <1>4
    <3> QED BY <3>1, <1>3 DEF ToSet
  <2> QED BY <2>1, <2>2, <2>3
<1>6. X = Motors
    BY <1>5 DEF Motors
<1> QED BY <1>1, <1>3, <1>5, <1>6 DEF Motors

(* The names of the calls and of the modes.                                 *)
LEMMA Alphabet ==
    /\ SetPoints = {"mit", "posvel", "vel", "emit"}
    /\ Modes = {"MIT", "POS_VEL", "VEL", "Torque_Pos"}
    /\ Ops = {"mit", "posvel", "vel", "emit", "enable", "disable", "zero",
              "read", "switch", "change", "refresh", "home"}
BY DEF SetPoints, ModeOf, Modes, Ops, Commands, ParamCalls, StatusCalls

(* Calls about motors are calls of a script.                                *)
LEMMA DoType ==
    /\ \A m \in Motors : \A op \in Ops \ {"switch"} : Do(op, m) \in ScriptCalls
    /\ \A m \in Motors : \A md \in Modes : Switch(m, md) \in ScriptCalls
    /\ \A m \in Motors : Do("add", m) \in ScriptCalls
BY Alphabet DEF Do, Switch, Call, ScriptCalls, DriverCalls, Adds

(* A loop over motors that makes the calls F[m] for each of them.           *)
LEMMA ForEachFacts ==
    ASSUME NEW ms \in Seq(Motors), NEW F \in [Motors -> Seq(ScriptCalls)]
    PROVE  /\ FlattenSeq([i \in DOMAIN ms |-> F[ms[i]]]) \in Seq(ScriptCalls)
           /\ ToSet(FlattenSeq([i \in DOMAIN ms |-> F[ms[i]]])) = UNION {ToSet(F[m]) : m \in ToSet(ms)}
<1> DEFINE q == [i \in DOMAIN ms |-> F[ms[i]]]
<1>1. DOMAIN ms = 1..Len(ms) /\ Len(ms) \in Nat /\ \A i \in 1..Len(ms) : ms[i] \in Motors
    OBVIOUS
<1>2. q \in Seq(Seq(ScriptCalls)) /\ Len(q) = Len(ms) /\ \A i \in 1..Len(ms) : q[i] = F[ms[i]]
    BY <1>1
<1> HIDE DEF q
<1>3. FlattenSeq(q) \in Seq(ScriptCalls)
      /\ ToSet(FlattenSeq(q)) = UNION {ToSet(q[i]) : i \in 1..Len(q)}
    BY <1>2, ToSetFlatten
<1>4. {ToSet(q[i]) : i \in 1..Len(q)} = {ToSet(F[m]) : m \in ToSet(ms)}
  <2>1. ToSet(ms) = {ms[i] : i \in 1..Len(ms)}
      BY <1>1 DEF ToSet
  <2>2. ASSUME NEW x \in {ToSet(q[i]) : i \in 1..Len(q)}
        PROVE  x \in {ToSet(F[m]) : m \in ToSet(ms)}
      BY <1>2, <2>1
  <2>3. ASSUME NEW x \in {ToSet(F[m]) : m \in ToSet(ms)}
        PROVE  x \in {ToSet(q[i]) : i \in 1..Len(q)}
      BY <1>2, <2>1
  <2> QED BY <2>2, <2>3
<1> QED BY <1>3, <1>4 DEF q

(* Short sequences.                                                         *)
LEMMA ToSetOfTuples ==
    /\ \A a : ToSet(<<a>>) = {a}
    /\ \A a, b : ToSet(<<a, b>>) = {a, b}
BY DEF ToSet

(* A loop over motors that makes one call for each of them.                 *)
LEMMA OneEach ==
    ASSUME NEW ms \in Seq(Motors), NEW op \in Ops \ {"switch"}
    PROVE  /\ FlattenSeq([i \in DOMAIN ms |-> <<Do(op, ms[i])>>]) \in Seq(ScriptCalls)
           /\ ToSet(FlattenSeq([i \in DOMAIN ms |-> <<Do(op, ms[i])>>])) = {Do(op, m) : m \in ToSet(ms)}
<1> DEFINE F == [m \in Motors |-> <<Do(op, m)>>]
<1>1. F \in [Motors -> Seq(ScriptCalls)] /\ \A m \in Motors : ToSet(F[m]) = {Do(op, m)}
    BY DoType, ToSetOfTuples
<1>2. [i \in DOMAIN ms |-> <<Do(op, ms[i])>>] = [i \in DOMAIN ms |-> F[ms[i]]]
    OBVIOUS
<1>3. ToSet(ms) \subseteq Motors
    BY DEF ToSet
<1> HIDE DEF F
<1>4. /\ FlattenSeq([i \in DOMAIN ms |-> F[ms[i]]]) \in Seq(ScriptCalls)
      /\ ToSet(FlattenSeq([i \in DOMAIN ms |-> F[ms[i]]])) = UNION {ToSet(F[m]) : m \in ToSet(ms)}
    BY <1>1, ForEachFacts
<1>5. UNION {ToSet(F[m]) : m \in ToSet(ms)} = {Do(op, m) : m \in ToSet(ms)}
    BY <1>1, <1>3
<1> QED BY <1>2, <1>4, <1>5

(* The scripts of the running arm and of its shutdown.                      *)
LEMMA RunningScripts ==
    /\ MotorCycle \in Seq(ScriptCalls) /\ \A c \in ToSet(MotorCycle) : c.op \in SetPoints
    /\ SendAction \in Seq(ScriptCalls)
    /\ \A c \in ToSet(SendAction) : c.op \in SetPoints \cup StatusCalls
    /\ ReadMotors \in Seq(ScriptCalls) /\ \A c \in ToSet(ReadMotors) : c.op = "refresh"
    /\ \A c \in ToSet(ReadMotors) : c.op \in SetPoints \cup StatusCalls
<1>1. /\ Do("emit", gripper) \in ScriptCalls /\ Do("refresh", gripper) \in ScriptCalls
      /\ <<Do("emit", gripper)>> \in Seq(ScriptCalls)
      /\ <<Do("refresh", gripper), Do("emit", gripper)>> \in Seq(ScriptCalls)
  <2>1. gripper \in Motors /\ "emit" \in Ops \ {"switch"} /\ "refresh" \in Ops \ {"switch"}
      BY MotorFacts, Alphabet
  <2>2. Do("emit", gripper) \in ScriptCalls /\ Do("refresh", gripper) \in ScriptCalls
      BY <2>1, DoType
  <2> QED BY <2>2
<1>2. \A op, m : Do(op, m).op = op
    BY DEF Do, Call
<1>3. "mit" \in SetPoints /\ "emit" \in SetPoints /\ "posvel" \in SetPoints /\ "refresh" \in StatusCalls
    BY Alphabet DEF StatusCalls
<1>4. "mit" \in Ops \ {"switch"} /\ "posvel" \in Ops \ {"switch"} /\ "refresh" \in Ops \ {"switch"}
    BY Alphabet
<1>5. Arm \in Seq(Motors) /\ Order \in Seq(Motors)
    BY MotorFacts
<1>6. MotorCycle \in Seq(ScriptCalls) /\ \A c \in ToSet(MotorCycle) : c.op \in SetPoints
  <2> DEFINE a == FlattenSeq([i \in DOMAIN Arm |-> <<Do("mit", Arm[i])>>])
             b == <<Do("emit", gripper)>>
  <2>1. a \in Seq(ScriptCalls) /\ ToSet(a) = {Do("mit", m) : m \in ToSet(Arm)}
      BY <1>4, <1>5, OneEach
  <2>2. b \in Seq(ScriptCalls) /\ ToSet(b) = {Do("emit", gripper)}
      BY <1>1, ToSetOfTuples
  <2>3. MotorCycle = a \o b
      BY DEF MotorCycle, ForEach
  <2> HIDE DEF a, b
  <2>4. MotorCycle \in Seq(ScriptCalls) /\ ToSet(MotorCycle) = ToSet(a) \cup ToSet(b)
      BY <2>1, <2>2, <2>3, ToSetConcat
  <2> QED BY <2>1, <2>2, <2>4, <1>2, <1>3
<1>7. /\ SendAction \in Seq(ScriptCalls)
      /\ \A c \in ToSet(SendAction) : c.op \in SetPoints \cup StatusCalls
  <2> DEFINE a == FlattenSeq([i \in DOMAIN Arm |-> <<Do("posvel", Arm[i])>>])
             b == <<Do("refresh", gripper), Do("emit", gripper)>>
  <2>1. a \in Seq(ScriptCalls) /\ ToSet(a) = {Do("posvel", m) : m \in ToSet(Arm)}
      BY <1>4, <1>5, OneEach
  <2>2. b \in Seq(ScriptCalls) /\ ToSet(b) = {Do("refresh", gripper), Do("emit", gripper)}
      BY <1>1, ToSetOfTuples
  <2>3. SendAction = a \o b
      BY DEF SendAction, ForEach
  <2> HIDE DEF a, b
  <2>4. SendAction \in Seq(ScriptCalls) /\ ToSet(SendAction) = ToSet(a) \cup ToSet(b)
      BY <2>1, <2>2, <2>3, ToSetConcat
  <2> QED BY <2>1, <2>2, <2>4, <1>2, <1>3
<1>8. /\ ReadMotors \in Seq(ScriptCalls) /\ \A c \in ToSet(ReadMotors) : c.op = "refresh"
      /\ \A c \in ToSet(ReadMotors) : c.op \in SetPoints \cup StatusCalls
  <2>1. ReadMotors \in Seq(ScriptCalls) /\ ToSet(ReadMotors) = {Do("refresh", m) : m \in ToSet(Order)}
      BY <1>4, <1>5, OneEach DEF ReadMotors, ForEach
  <2> QED BY <2>1, <1>2, <1>3
<1> QED BY <1>6, <1>7, <1>8

(* disable_all() speaks to every motor.                                     *)
LEMMA ShutdownScript ==
    /\ DisableAll \in Seq(ScriptCalls)
    /\ ToSet(DisableAll) = {Do("disable", m) : m \in Motors}
<1>1. "disable" \in Ops \ {"switch"}
    BY Alphabet
<1> QED BY <1>1, MotorFacts, OneEach DEF DisableAll, ForEach

(* A motor is detected by a parameter read.                                 *)
LEMMA DetectFacts ==
    ASSUME NEW m \in Motors
    PROVE  /\ Detect(m) \in Seq(ScriptCalls)
           /\ Do("read", m) \in ToSet(Detect(m))
           /\ ToSet(Detect(m)) \subseteq {Do("add", m), Do("refresh", m), Do("read", m)}
<1> DEFINE a == <<Do("add", m)>>
           b == [i \in 1..Refreshes |-> Do("refresh", m)]
           c == <<Do("read", m)>>
<1>1. /\ Do("add", m) \in ScriptCalls /\ Do("refresh", m) \in ScriptCalls
      /\ Do("read", m) \in ScriptCalls
    BY DoType, Alphabet
<1>2. a \in Seq(ScriptCalls) /\ ToSet(a) = {Do("add", m)}
    BY <1>1, ToSetOfTuples
<1>3. b \in Seq(ScriptCalls) /\ ToSet(b) \subseteq {Do("refresh", m)}
    BY <1>1, OwnerAssumption DEF ToSet
<1>4. c \in Seq(ScriptCalls) /\ ToSet(c) = {Do("read", m)}
    BY <1>1, ToSetOfTuples
<1>5. Detect(m) = (a \o b) \o c
    BY DEF Detect
<1> HIDE DEF a, b, c
<1>6. a \o b \in Seq(ScriptCalls) /\ ToSet(a \o b) = ToSet(a) \cup ToSet(b)
    BY <1>2, <1>3, ToSetConcat
<1> DEFINE d == a \o b
<1>7. d \in Seq(ScriptCalls) /\ ToSet(d) = ToSet(a) \cup ToSet(b) /\ Detect(m) = d \o c
    BY <1>5, <1>6
<1> HIDE DEF d
<1>8. Detect(m) \in Seq(ScriptCalls) /\ ToSet(Detect(m)) = ToSet(d) \cup ToSet(c)
    BY <1>4, <1>7, ToSetConcat
<1> QED BY <1>2, <1>3, <1>4, <1>7, <1>8

HomingCalls == {Do("vel", gripper), Do("home", gripper), Do("disable", gripper),
                Do("zero", gripper), Do("enable", gripper), Switch(gripper, "Torque_Pos")}

(* The homing enables the gripper again after it disabled it.               *)
LEMMA HomingFacts ==
    /\ Homing \in Seq(ScriptCalls) /\ ToSet(Homing) = HomingCalls
    /\ Mends(Homing, {Do("disable", gripper)}, Do("enable", gripper))
<1> DEFINE v == Do("vel", gripper)
           h == Do("home", gripper)
           d == Do("disable", gripper)
           z == Do("zero", gripper)
           e == Do("enable", gripper)
           w == Switch(gripper, "Torque_Pos")
<1>1. /\ v \in ScriptCalls /\ h \in ScriptCalls /\ d \in ScriptCalls /\ z \in ScriptCalls
      /\ e \in ScriptCalls /\ w \in ScriptCalls
    BY MotorFacts, DoType, Alphabet
<1>2. d # v /\ d # h /\ d # z /\ d # e /\ d # w
    BY DEF Do, Switch, Call
<1>3. Homing = <<v, h, v, d, z, e, w>> /\ HomingCalls = {v, h, d, z, e, w}
    BY DEF Homing, HomingCalls
<1> HIDE DEF v, h, d, z, e, w
<1> DEFINE s == <<v, h, v, d, z, e, w>>
<1>4. s \in Seq(ScriptCalls)
    BY <1>1
<1>5. /\ DOMAIN s = 1..7 /\ s[1] = v /\ s[2] = h /\ s[3] = v /\ s[4] = d
      /\ s[5] = z /\ s[6] = e /\ s[7] = w
    OBVIOUS
<1> HIDE DEF s
<1>6. 1..7 = {1, 2, 3, 4, 5, 6, 7}
    OBVIOUS
<1>7. ToSet(s) = {v, h, d, z, e, w}
    BY <1>5, <1>6 DEF ToSet
<1>8. Mends(s, {d}, e)
  <2> SUFFICES ASSUME NEW i \in DOMAIN s, s[i] = d
               PROVE  \E j \in DOMAIN s : j > i /\ s[j] = e
      BY DEF Mends
  <2>1. i = 4
      BY <1>2, <1>5, <1>6
  <2>2. 6 \in DOMAIN s /\ 6 > i /\ s[6] = e
      BY <2>1, <1>5
  <2> QED BY <2>2
<1> QED BY <1>3, <1>4, <1>7, <1>8 DEF s, d, e

(* s leaves m on and in mode md, whatever it was in before.                 *)
Others(m, md) == {Switch(m, x) : x \in Modes \ {md}}
Readies(s, m, md) ==
    /\ Mends(s, {Do("disable", m)}, Do("enable", m)) /\ Do("enable", m) \in ToSet(s)
    /\ Mends(s, Others(m, md), Switch(m, md)) /\ Switch(m, md) \in ToSet(s)

(* Both set-ups come down to this: calls that do not disable and that put
   every joint into its mode, then the homing.                              *)
LEMMA HomingReadies ==
    ASSUME NEW p \in Seq(ScriptCalls), NEW t \in Seq(ScriptCalls), NEW md \in Modes,
           \A c \in ToSet(p) : c.op # "disable" /\ (c.op = "switch" /\ c.m # gripper => c.arg = md),
           \A m \in ToSet(Arm) : Do("enable", m) \in ToSet(p) /\ Switch(m, md) \in ToSet(p),
           \A c \in ToSet(t) : c.op = "refresh"
    PROVE  /\ (p \o Homing) \o t \in Seq(ScriptCalls)
           /\ ToSet(p) \subseteq ToSet((p \o Homing) \o t)
           /\ \A m \in Motors : Readies((p \o Homing) \o t, m, IF m = gripper THEN "Torque_Pos" ELSE md)
<1> DEFINE q == p \o Homing
           s == q \o t
<1>1. q \in Seq(ScriptCalls) /\ ToSet(q) = ToSet(p) \cup HomingCalls
    BY HomingFacts, ToSetConcat
<1>2. s \in Seq(ScriptCalls) /\ ToSet(s) = ToSet(q) \cup ToSet(t)
  <2> HIDE DEF q
  <2> QED BY <1>1, ToSetConcat
<1>3. ASSUME NEW bad, NEW good, Mends(p, bad, good) \/ good \in HomingCalls,
             Mends(Homing, bad, good), Mends(t, bad, good)
      PROVE  Mends(s, bad, good)
  <2>1. Mends(q, bad, good)
      BY <1>3, HomingFacts, MendsConcat
  <2> HIDE DEF q
  <2> QED BY <2>1, <1>1, <1>3, MendsConcat
<1> HIDE DEF q, s
<1>4. \A m : Do("disable", m).op = "disable" /\ Do("enable", m).op = "enable"
    BY DEF Do, Call
<1>5. \A m, x : Switch(m, x).op = "switch" /\ Switch(m, x).m = m /\ Switch(m, x).arg = x
    BY DEF Switch, Call
<1>6. \A m : Do("disable", m).m = m
    BY DEF Do, Call
<1>7. \A c \in HomingCalls : /\ c.m = gripper
                             /\ c.op = "switch" => c = Switch(gripper, "Torque_Pos")
    BY DEF HomingCalls, Do, Switch, Call
<1>8. "Torque_Pos" \in Modes
    BY Alphabet
<1>9. ASSUME NEW m \in ToSet(Arm) PROVE Readies(s, m, md)
  <2>1. m # gripper
      BY MotorFacts
  <2>2. Mends(p, {Do("disable", m)}, Do("enable", m)) /\ Mends(t, {Do("disable", m)}, Do("enable", m))
        /\ Mends(Homing, {Do("disable", m)}, Do("enable", m))
    <3>1. \A c \in ToSet(p) : c \notin {Do("disable", m)}
        BY <1>4
    <3>2. \A c \in ToSet(t) : c \notin {Do("disable", m)}
        BY <1>4
    <3>3. \A c \in ToSet(Homing) : c \notin {Do("disable", m)}
        BY <1>6, <1>7, <2>1, HomingFacts
    <3> QED BY <3>1, <3>2, <3>3, MendsNothing
  <2>3. Mends(p, Others(m, md), Switch(m, md)) /\ Mends(t, Others(m, md), Switch(m, md))
        /\ Mends(Homing, Others(m, md), Switch(m, md))
    <3>1. \A c \in Others(m, md) : c.op = "switch" /\ c.m = m /\ c.arg # md
        BY <1>5 DEF Others
    <3>2. \A c \in ToSet(p) : c \notin Others(m, md)
        BY <3>1, <2>1
    <3>3. \A c \in ToSet(t) : c \notin Others(m, md)
        BY <3>1
    <3>4. \A c \in ToSet(Homing) : c \notin Others(m, md)
        BY <3>1, <1>7, <2>1, HomingFacts
    <3> QED BY <3>2, <3>3, <3>4, MendsNothing
  <2>4. Mends(s, {Do("disable", m)}, Do("enable", m))
      BY <2>2, <1>3
  <2>5. Mends(s, Others(m, md), Switch(m, md))
      BY <2>3, <1>3
  <2> QED BY <2>4, <2>5, <1>1, <1>2 DEF Readies
<1>10. Readies(s, gripper, "Torque_Pos")
  <2> DEFINE g == gripper
             w == "Torque_Pos"
  <2>1. Do("enable", g) \in HomingCalls /\ Switch(g, w) \in HomingCalls
      BY DEF HomingCalls
  <2>2. Mends(Homing, {Do("disable", g)}, Do("enable", g)) /\ Mends(t, {Do("disable", g)}, Do("enable", g))
    <3>1. \A c \in ToSet(t) : c \notin {Do("disable", g)}
        BY <1>4
    <3> QED BY <3>1, MendsNothing, HomingFacts
  <2>3. Mends(Homing, Others(g, w), Switch(g, w)) /\ Mends(t, Others(g, w), Switch(g, w))
    <3>1. \A c \in Others(g, w) : c.op = "switch" /\ c.arg # w
        BY <1>5 DEF Others
    <3>2. \A c \in ToSet(t) : c \notin Others(g, w)
        BY <3>1
    <3>3. \A c \in ToSet(Homing) : c \notin Others(g, w)
        BY <3>1, <1>5, <1>7, HomingFacts
    <3> QED BY <3>2, <3>3, MendsNothing
  <2>4. Mends(s, {Do("disable", g)}, Do("enable", g))
      BY <2>1, <2>2, <1>3
  <2>5. Mends(s, Others(g, w), Switch(g, w))
      BY <2>1, <2>3, <1>3
  <2> QED BY <2>1, <2>4, <2>5, <1>1, <1>2 DEF Readies
<1>11. \A m \in Motors : Readies(s, m, IF m = gripper THEN "Torque_Pos" ELSE md)
    BY <1>9, <1>10, MotorFacts
<1>12. ToSet(p) \subseteq ToSet(s)
    BY <1>1, <1>2
<1> QED BY <1>2, <1>11, <1>12 DEF s, q

(* DK1MotorChain.start() reads every motor and makes it ready.              *)
LEMMA ChainScript ==
    /\ ChainConfigure \in Seq(ScriptCalls)
    /\ \A m \in Motors : Do("read", m) \in ToSet(ChainConfigure)
    /\ \A m \in Motors :
         Readies(ChainConfigure, m, IF m = gripper THEN "Torque_Pos" ELSE "MIT")
<1> DEFINE FB == [m \in Motors |-> <<Switch(m, "MIT"), Do("enable", m)>>]
           FA == [m \in Motors |-> Detect(m)]
           a == FlattenSeq([i \in DOMAIN Order |-> FA[Order[i]]])
           b == FlattenSeq([i \in DOMAIN Arm |-> FB[Arm[i]]])
           c == FlattenSeq([i \in DOMAIN Arm |-> <<Do("refresh", Arm[i])>>])
           d == <<Switch(gripper, "VEL"), Do("enable", gripper)>>
           t == <<Do("refresh", gripper)>>
<1>1. ChainConfigure = ((((a \o b) \o c) \o d) \o Homing) \o t
  <2>1. [i \in DOMAIN Order |-> FA[Order[i]]] = [i \in DOMAIN Order |-> Detect(Order[i])]
      BY MotorFacts
  <2>2. [i \in DOMAIN Arm |-> FB[Arm[i]]] = [i \in DOMAIN Arm |-> <<Switch(Arm[i], "MIT"), Do("enable", Arm[i])>>]
      BY MotorFacts
  <2> QED BY <2>1, <2>2 DEF ChainConfigure, ForEach
<1>2. a \in Seq(ScriptCalls) /\ ToSet(a) = UNION {ToSet(Detect(m)) : m \in Motors}
  <2>1. FA \in [Motors -> Seq(ScriptCalls)] /\ \A m \in Motors : FA[m] = Detect(m)
      BY DetectFacts
  <2> HIDE DEF FA
  <2>2. a \in Seq(ScriptCalls) /\ ToSet(a) = UNION {ToSet(FA[m]) : m \in ToSet(Order)}
      BY <2>1, MotorFacts, ForEachFacts
  <2> QED BY <2>1, <2>2, MotorFacts
<1>3. /\ b \in Seq(ScriptCalls)
      /\ \A x \in ToSet(b) : \E m \in ToSet(Arm) : x \in {Switch(m, "MIT"), Do("enable", m)}
      /\ \A m \in ToSet(Arm) : Switch(m, "MIT") \in ToSet(b) /\ Do("enable", m) \in ToSet(b)
  <2>1. FB \in [Motors -> Seq(ScriptCalls)]
        /\ \A m \in Motors : ToSet(FB[m]) = {Switch(m, "MIT"), Do("enable", m)}
      BY DoType, Alphabet, ToSetOfTuples
  <2> HIDE DEF FB
  <2>2. b \in Seq(ScriptCalls) /\ ToSet(b) = UNION {ToSet(FB[m]) : m \in ToSet(Arm)}
      BY <2>1, MotorFacts, ForEachFacts
  <2>3. \A m \in ToSet(Arm) : m \in Motors
      BY MotorFacts
  <2> HIDE DEF b
  <2>4. ASSUME NEW x \in ToSet(b) PROVE \E m \in ToSet(Arm) : x \in {Switch(m, "MIT"), Do("enable", m)}
      BY <2>1, <2>2, <2>3
  <2>5. ASSUME NEW m \in ToSet(Arm) PROVE Switch(m, "MIT") \in ToSet(b) /\ Do("enable", m) \in ToSet(b)
      BY <2>1, <2>2, <2>3
  <2> QED BY <2>2, <2>4, <2>5
<1>4. c \in Seq(ScriptCalls) /\ ToSet(c) = {Do("refresh", m) : m \in ToSet(Arm)}
    BY Alphabet, MotorFacts, OneEach
<1>5. d \in Seq(ScriptCalls) /\ ToSet(d) = {Switch(gripper, "VEL"), Do("enable", gripper)}
    BY MotorFacts, DoType, Alphabet, ToSetOfTuples
<1>6. t \in Seq(ScriptCalls) /\ ToSet(t) = {Do("refresh", gripper)}
    BY MotorFacts, DoType, Alphabet, ToSetOfTuples
<1> HIDE DEF a, b, c, d, t
<1> DEFINE ab == a \o b
           abc == ab \o c
           p == abc \o d
<1>7. ab \in Seq(ScriptCalls) /\ ToSet(ab) = ToSet(a) \cup ToSet(b)
    BY <1>2, <1>3, ToSetConcat
<1> HIDE DEF ab
<1>8. abc \in Seq(ScriptCalls) /\ ToSet(abc) = ToSet(ab) \cup ToSet(c)
    BY <1>7, <1>4, ToSetConcat
<1> HIDE DEF abc
<1>9. p \in Seq(ScriptCalls) /\ ToSet(p) = ToSet(abc) \cup ToSet(d)
    BY <1>8, <1>5, ToSetConcat
<1> HIDE DEF p
<1>10. ChainConfigure = (p \o Homing) \o t
    BY <1>1 DEF p, abc, ab
<1>11. \A op, m : Do(op, m).op = op
    BY DEF Do, Call
<1>12. \A m, x : Switch(m, x).op = "switch" /\ Switch(m, x).m = m /\ Switch(m, x).arg = x
    BY DEF Switch, Call
<1>13. \A x \in ToSet(p) : x.op # "disable" /\ (x.op = "switch" /\ x.m # gripper => x.arg = "MIT")
  <2> SUFFICES ASSUME NEW x \in ToSet(p)
               PROVE  x.op # "disable" /\ (x.op = "switch" /\ x.m # gripper => x.arg = "MIT")
      OBVIOUS
  <2>1. CASE x \in ToSet(a)
    <3>1. PICK m \in Motors : x \in ToSet(Detect(m))
        BY <2>1, <1>2
    <3>2. x \in {Do("add", m), Do("refresh", m), Do("read", m)}
        BY <3>1, DetectFacts
    <3> QED BY <3>2, <1>11
  <2>2. CASE x \in ToSet(b)
    <3>1. PICK m \in ToSet(Arm) : x \in {Switch(m, "MIT"), Do("enable", m)}
        BY <2>2, <1>3
    <3> QED BY <3>1, <1>11, <1>12
  <2>3. CASE x \in ToSet(c)
      BY <2>3, <1>4, <1>11
  <2>4. CASE x \in ToSet(d)
      BY <2>4, <1>5, <1>11, <1>12
  <2> QED BY <2>1, <2>2, <2>3, <2>4, <1>7, <1>8, <1>9
<1>14. \A m \in ToSet(Arm) : Do("enable", m) \in ToSet(p) /\ Switch(m, "MIT") \in ToSet(p)
  <2>1. ASSUME NEW m \in ToSet(Arm) PROVE Do("enable", m) \in ToSet(b) /\ Switch(m, "MIT") \in ToSet(b)
      BY <1>3
  <2> QED BY <2>1, <1>7, <1>8, <1>9
<1>15. \A x \in ToSet(t) : x.op = "refresh"
    BY <1>6, <1>11
<1>16. "MIT" \in Modes
    BY Alphabet
<1>17. \A m \in Motors : Do("read", m) \in ToSet(p)
  <2>1. \A m \in Motors : Do("read", m) \in ToSet(a)
      BY <1>2, DetectFacts
  <2> QED BY <2>1, <1>7, <1>8, <1>9
<1>18. /\ ChainConfigure \in Seq(ScriptCalls) /\ ToSet(p) \subseteq ToSet(ChainConfigure)
       /\ \A m \in Motors : Readies(ChainConfigure, m, IF m = gripper THEN "Torque_Pos" ELSE "MIT")
    BY <1>9, <1>6, <1>16, <1>13, <1>14, <1>15, <1>10, HomingReadies
<1> QED BY <1>17, <1>18

(* configure() makes every motor ready.                                     *)
LEMMA FollowerScript ==
    /\ FollowerConfigure \in Seq(ScriptCalls)
    /\ \A m \in Motors :
         Readies(FollowerConfigure, m, IF m = gripper THEN "Torque_Pos" ELSE "POS_VEL")
<1> DEFINE FA == [m \in Motors |-> Detect(m) \o <<Switch(m, "POS_VEL"), Do("enable", m)>>]
           a == FlattenSeq([i \in DOMAIN Order |-> FA[Order[i]]])
           b == FlattenSeq([i \in DOMAIN Order |-> <<Do("change", Order[i])>>])
           d == <<Switch(gripper, "VEL")>>
<1>1. FollowerConfigure = ((a \o b) \o d) \o Homing
  <2>1. [i \in DOMAIN Order |-> FA[Order[i]]]
        = [i \in DOMAIN Order |-> Detect(Order[i]) \o <<Switch(Order[i], "POS_VEL"), Do("enable", Order[i])>>]
      BY MotorFacts
  <2> QED BY <2>1 DEF FollowerConfigure, ForEach
<1>2. /\ a \in Seq(ScriptCalls)
      /\ \A x \in ToSet(a) : \E m \in Motors :
            x \in {Do("add", m), Do("refresh", m), Do("read", m), Switch(m, "POS_VEL"), Do("enable", m)}
      /\ \A m \in Motors : {Switch(m, "POS_VEL"), Do("enable", m)} \subseteq ToSet(a)
  <2>1. ASSUME NEW m \in Motors
        PROVE  /\ FA[m] \in Seq(ScriptCalls)
               /\ ToSet(FA[m]) = ToSet(Detect(m)) \cup {Switch(m, "POS_VEL"), Do("enable", m)}
    <3> DEFINE x == Detect(m)
               y == <<Switch(m, "POS_VEL"), Do("enable", m)>>
    <3>1. x \in Seq(ScriptCalls)
        BY DetectFacts
    <3>2. y \in Seq(ScriptCalls) /\ ToSet(y) = {Switch(m, "POS_VEL"), Do("enable", m)}
        BY DoType, Alphabet, ToSetOfTuples
    <3>3. FA[m] = x \o y
        OBVIOUS
    <3> HIDE DEF x, y, FA
    <3>4. FA[m] \in Seq(ScriptCalls) /\ ToSet(FA[m]) = ToSet(x) \cup ToSet(y)
        BY <3>1, <3>2, <3>3, ToSetConcat
    <3> QED BY <3>2, <3>4 DEF x
  <2>2. FA \in [Motors -> Seq(ScriptCalls)]
      BY <2>1
  <2> HIDE DEF FA
  <2>3. a \in Seq(ScriptCalls) /\ ToSet(a) = UNION {ToSet(FA[m]) : m \in ToSet(Order)}
      BY <2>2, MotorFacts, ForEachFacts
  <2>4. ToSet(Order) = Motors
      BY MotorFacts
  <2> HIDE DEF a
  <2>5. ASSUME NEW x \in ToSet(a)
        PROVE  \E m \in Motors :
            x \in {Do("add", m), Do("refresh", m), Do("read", m), Switch(m, "POS_VEL"), Do("enable", m)}
    <3>1. PICK m \in Motors : x \in ToSet(FA[m])
        BY <2>3, <2>4
    <3>2. ToSet(Detect(m)) \subseteq {Do("add", m), Do("refresh", m), Do("read", m)}
        BY DetectFacts
    <3> QED BY <3>1, <3>2, <2>1
  <2>6. ASSUME NEW m \in Motors PROVE {Switch(m, "POS_VEL"), Do("enable", m)} \subseteq ToSet(a)
      BY <2>1, <2>3, <2>4
  <2> QED BY <2>3, <2>5, <2>6
<1>3. b \in Seq(ScriptCalls) /\ ToSet(b) = {Do("change", m) : m \in Motors}
  <2>1. "change" \in Ops \ {"switch"} /\ Order \in Seq(Motors) /\ ToSet(Order) = Motors
      BY Alphabet, MotorFacts
  <2> QED BY <2>1, OneEach
<1>4. d \in Seq(ScriptCalls) /\ ToSet(d) = {Switch(gripper, "VEL")}
    BY MotorFacts, DoType, Alphabet, ToSetOfTuples
<1> HIDE DEF a, b, d
<1> DEFINE ab == a \o b
           p == ab \o d
           t == << >>
<1>5. ab \in Seq(ScriptCalls) /\ ToSet(ab) = ToSet(a) \cup ToSet(b)
    BY <1>2, <1>3, ToSetConcat
<1> HIDE DEF ab
<1>6. p \in Seq(ScriptCalls) /\ ToSet(p) = ToSet(ab) \cup ToSet(d)
    BY <1>5, <1>4, ToSetConcat
<1>7. t \in Seq(ScriptCalls) /\ \A x \in ToSet(t) : x.op = "refresh"
    BY DEF ToSet
<1>8. FollowerConfigure = p \o Homing
    BY <1>1 DEF ab
<1> HIDE DEF p, t
<1>9. FollowerConfigure = (p \o Homing) \o t
  <2> DEFINE q == p \o Homing
  <2>1. q \in Seq(ScriptCalls)
      BY <1>6, HomingFacts, ToSetConcat
  <2> HIDE DEF q
  <2>2. q \o << >> = q
      BY <2>1, ConcatEmptySeq
  <2> QED BY <2>2, <1>8 DEF q, t
<1>10. \A op, m : Do(op, m).op = op
    BY DEF Do, Call
<1>11. \A m, x : Switch(m, x).op = "switch" /\ Switch(m, x).m = m /\ Switch(m, x).arg = x
    BY DEF Switch, Call
<1>12. \A x \in ToSet(p) : x.op # "disable" /\ (x.op = "switch" /\ x.m # gripper => x.arg = "POS_VEL")
  <2> SUFFICES ASSUME NEW x \in ToSet(p)
               PROVE  x.op # "disable" /\ (x.op = "switch" /\ x.m # gripper => x.arg = "POS_VEL")
      OBVIOUS
  <2>1. CASE x \in ToSet(a)
    <3>1. PICK m \in Motors :
            x \in {Do("add", m), Do("refresh", m), Do("read", m), Switch(m, "POS_VEL"), Do("enable", m)}
        BY <2>1, <1>2
    <3> QED BY <3>1, <1>10, <1>11
  <2>2. CASE x \in ToSet(b)
      BY <2>2, <1>3, <1>10
  <2>3. CASE x \in ToSet(d)
      BY <2>3, <1>4, <1>10, <1>11
  <2> QED BY <2>1, <2>2, <2>3, <1>5, <1>6
<1>13. \A m \in ToSet(Arm) : Do("enable", m) \in ToSet(p) /\ Switch(m, "POS_VEL") \in ToSet(p)
  <2>1. \A m \in ToSet(Arm) : m \in Motors
      BY MotorFacts
  <2> QED BY <2>1, <1>2, <1>5, <1>6
<1>14. "POS_VEL" \in Modes
    BY Alphabet
<1>15. \A m \in Motors :
         Readies((p \o Homing) \o t, m, IF m = gripper THEN "Torque_Pos" ELSE "POS_VEL")
    BY <1>6, <1>7, <1>12, <1>13, <1>14, HomingReadies
<1>16. (p \o Homing) \o t \in Seq(ScriptCalls)
    BY <1>6, <1>7, <1>12, <1>13, <1>14, HomingReadies
<1> QED BY <1>9, <1>15, <1>16

-----------------------------------------------------------------------------
(* The invariant.                                                           *)

(* What of a thread's script has not reached the bus yet.                   *)
Pending(t) == IF at[t] \in {"reply", "done"} THEN Tail(script[t]) ELSE script[t]

(* A call under way is the head of its thread's script.                     *)
InScript == \A t \in Threads : at[t] # "idle" =>
                script[t] # <<>> /\ call[t] = Head(script[t]) /\ call[t] \in DriverCalls

(* Who is on the driver: the session inside a method; the motor thread only
   between start() and the join, unless stop() gave it up; the publisher at
   any time.                                                                *)
Protocol ==
    /\ phase \in {"idle", "join"} => script["user"] = <<>>
    /\ kind = "chain" /\ worker # "loop" => script["motor"] = <<>>
    /\ kind = "follower" => worker = "none" /\ phase # "join"
    /\ worker = "loop" =>
          \/ running /\ phase = "idle"
          \/ ~running /\ phase = "join"
          \/ timed_out /\ ~running /\ phase \in {"off", "idle"}
    /\ phase = "start" => running = (kind = "follower")
    /\ phase = "act" => kind = "follower"
    /\ running \/ phase # "idle" => port_open
    /\ ready => running /\ phase \in {"idle", "act"}
Turns == InScript /\ Protocol

(* The calls of a script, by the method it is of.                           *)
Methods ==
    /\ \A c \in ToSet(script["motor"]) :
          c.op \in IF kind = "chain" THEN SetPoints ELSE {"refresh"}
    /\ phase = "act" => \A c \in ToSet(script["user"]) : c.op \in SetPoints \cup StatusCalls
    /\ phase = "off" => \A c \in ToSet(script["user"]) : c.op = "disable"

(* The chain's two threads may meet on the driver.                          *)
Shared == timed_out /\ (phase = "off" \/ (worker = "loop" /\ ~running /\ phase = "idle"))

FramesSound ==
    kind = "chain" /\ Foreign[kind] = {} /\ ~Shared => \A t \in Threads :
        /\ at[t] \in {"data", "copy"} => frame.id = IdOf(call[t])
        /\ at[t] = "copy" => frame.data = call[t]
        /\ at[t] = "write" => out[t] = Composed(call[t])

Supply == (clean => power) /\ (~power => \A m \in Motors : ~on[m])

(* What is left of the set-up brings m to where it has to be.               *)
Target(m) == IF m = gripper THEN "Torque_Pos" ELSE ArmMode
Settled(s, m) ==
    /\ Mends(s, {Do("disable", m)}, Do("enable", m))
    /\ on[m] \/ Do("enable", m) \in ToSet(s)
    /\ Mends(s, Others(m, Target(m)), Switch(m, Target(m)))
    /\ mode[m] = Target(m) \/ Switch(m, Target(m)) \in ToSet(s)
Energised == \A m \in Motors : on[m] /\ mode[m] = Target(m)
SetUp ==
    /\ ready /\ clean /\ ~mixed => Energised
    /\ phase = "start" /\ at["user"] # "raised" /\ clean /\ ~mixed =>
          \A m \in Motors : Settled(Pending("user"), m)

(* A motor is off, or its disable is still to come; a call raises only for a
   reason that lasts.                                                       *)
Doomed == \A m \in Motors : ~on[m] \/ Do("disable", m) \in ToSet(Pending("user"))
Closing == /\ phase = "off" /\ (kind = "chain" \/ release)
           /\ ~timed_out /\ ~mixed /\ adapter # "gone"
RaisedFor == \A t \in Threads : at[t] = "raised" => adapter = "gone" \/ ~port_open
TearDown == (Closing => Doomed) /\ RaisedFor

(* An answer to a parameter call is of this connection.                     *)
Heard(s) == \A x \in ToSet(s) : x.r.about # "status" => x.r.m \in answered
Answers ==
    /\ Heard(wire) /\ Heard(data_save)
    /\ kind = "chain" => \A m \in Motors : param[m] # "none" => m \in answered
    /\ \A t \in Threads : ret[t] # "none" =>
          at[t] = "done" /\ (kind = "chain" => call[t].m \in answered)
    /\ kind = "chain" /\ phase = "start" =>
          \A m \in Motors : m \in answered \/ Do("read", m) \in ToSet(script["user"])

Stream == Alternates(data_save \o wire)

IInv == /\ TypeOK /\ Turns /\ Methods /\ FramesSound /\ Supply /\ SetUp /\ TearDown
        /\ Answers /\ Stream /\ FramesUnmixed


-----------------------------------------------------------------------------
(* Frames, replies and what a write does.                                   *)

(* The groups of variables an action may leave alone.                       *)
USE DEF host, calls, motors, history, driver, owner, vars

(* Frames, whoever composed them.                                           *)
LEMMA FrameTypes ==
    /\ \A c \in Calls : IdOf(c) \in [off : {"own", "vel", "posvel", "emit", "param"}, m : Motors \cup {NoMotor}]
    /\ \A f \in Frames : Addressee(f) \in Motors \cup {NoMotor}
    /\ NoFrame \in Frames /\ NoCall \in Calls
    /\ \A f \in Frames : Meaning(f) = "switch" => f.data.arg \in Modes
<1>1. ASSUME NEW c \in Calls
      PROVE  IdOf(c) \in [off : {"own", "vel", "posvel", "emit", "param"}, m : Motors \cup {NoMotor}]
  <2>1. c.m \in Motors \cup {NoMotor} /\ c.op \in Ops \cup {"none"}
      BY Alphabet DEF Calls, DriverCalls, NoCall, Call
  <2> QED BY <2>1, Alphabet DEF IdOf
<1>2. NoCall \in Calls
    BY DEF Calls
<1>3. NoFrame \in Frames
    BY <1>2 DEF NoFrame, Frames, IdOf, Call, StatusCalls
<1>4. ASSUME NEW f \in Frames
      PROVE  /\ Addressee(f) \in Motors \cup {NoMotor}
             /\ Meaning(f) = "switch" => f.data.arg \in Modes
  <2>1. f.id.m \in Motors \cup {NoMotor} /\ f.data \in Calls
      BY DEF Frames
  <2>2. f.data.m \in Motors \cup {NoMotor} /\ (f.data.op = "switch" => f.data.arg \in Modes)
      BY <2>1, Alphabet DEF Calls, DriverCalls, NoCall, Call
  <2> QED BY <2>1, <2>2 DEF Addressee, Meaning
<1> QED BY <1>1, <1>2, <1>3, <1>4

(* A motor answers in its own name.                                         *)
LEMMA RepliesType ==
    ASSUME DriverTypeOK, NEW f \in Frames, Addressee(f) # NoMotor, NEW r \in RepliesTo(f)
    PROVE  r \in Replies /\ r.m = Addressee(f)
<1>1. Addressee(f) \in Motors /\ mode[Addressee(f)] \in Modes
    BY FrameTypes DEF DriverTypeOK
<1>2. Meaning(f) = "switch" => f.data.arg \in Modes
    BY FrameTypes
<1>3. r.m = Addressee(f)
    BY DEF RepliesTo
<1>4. CASE Meaning(f) = "read"
    BY <1>1, <1>4 DEF RepliesTo, Replies
<1>5. CASE Meaning(f) = "switch"
    BY <1>1, <1>2, <1>5 DEF RepliesTo, Replies
<1>6. CASE Meaning(f) = "change"
    BY <1>1, <1>6 DEF RepliesTo, Replies
<1>7. CASE Meaning(f) \notin {"read", "switch", "change"}
    BY <1>1, <1>7 DEF RepliesTo, Replies
<1> QED BY <1>3, <1>4, <1>5, <1>6, <1>7

(* A frame composed by one call means what the call means.                  *)
LEMMA ComposedFacts ==
    ASSUME NEW c \in DriverCalls
    PROVE  /\ Composed(c) \in Frames /\ Addressee(Composed(c)) = c.m
           /\ Meaning(Composed(c)) = IF c.op \in SetPoints THEN "set-point" ELSE c.op
           /\ Composed(c).id = IdOf(Composed(c).data) /\ Composed(c).data = c
<1>1. c \in Calls /\ c.op \in Ops
    BY Alphabet DEF Calls, DriverCalls
<1>2. Composed(c) \in Frames
    BY <1>1, FrameTypes DEF Composed, Frames
<1>3. Composed(c).id = IdOf(c) /\ Composed(c).data = c
    BY DEF Composed
<1>4. ParamCalls \cup StatusCalls = {"read", "switch", "change", "refresh", "home"}
      /\ Commands = {"enable", "disable", "zero"}
    BY DEF ParamCalls, StatusCalls, Commands
<1> DEFINE f == Composed(c)
<1>5. CASE c.op \in ParamCalls \cup StatusCalls
  <2>1. f.id.off = "param" /\ c.op \notin SetPoints
      BY <1>3, <1>4, <1>5, Alphabet DEF IdOf
  <2> HIDE DEF f
  <2>2. Addressee(f) = c.m /\ Meaning(f) = c.op
      BY <1>5, <2>1, <1>3 DEF Addressee, Meaning, f
  <2> QED BY <1>2, <1>3, <2>1, <2>2 DEF f
<1>6. CASE c.op \notin ParamCalls \cup StatusCalls
  <2>1. f.id.off # "param" /\ f.id.m = c.m
        /\ (f.id.off = "own" <=> c.op \notin SetPoints \ {"mit"})
      BY <1>1, <1>3, <1>4, <1>6, Alphabet DEF IdOf
  <2>2. c.op \notin SetPoints <=> c.op \in Commands
      BY <1>1, <1>4, <1>6, Alphabet
  <2>3. "mit" \notin Commands
      BY <1>4
  <2> HIDE DEF f
  <2>4. Addressee(f) = c.m
      BY <2>1 DEF Addressee
  <2>5. f.data = c
      BY <1>3 DEF f
  <2>6. Meaning(f) = IF c.op \in SetPoints THEN "set-point" ELSE c.op
      BY <2>1, <2>2, <2>3, <2>5 DEF Meaning
  <2> QED BY <1>2, <1>3, <2>4, <2>6 DEF f
<1> QED BY <1>2, <1>3, <1>5, <1>6

Heading(r) == [r |-> r, last |-> FALSE]
Ending(r) == [r |-> r, last |-> TRUE]

(* What a write does to the motors and the wire.                            *)
LEMMA WriteFacts ==
    ASSUME DriverTypeOK, NEW t \in Threads, Write(t)
    PROVE  /\ on' \in [Motors -> BOOLEAN] /\ mode' \in [Motors -> Modes]
           /\ \/ wire' = wire /\ answered' = answered
              \/ \E r \in Replies :
                   /\ wire' = wire \o <<Heading(r), Ending(r)>> /\ Len(wire) + 2 <= MaxWire
                   /\ answered' = IF r.about = "status" THEN answered ELSE answered \cup {r.m}
<1> DEFINE f == out[t]
           m == Addressee(f)
           op == Meaning(f)
<1>1. f \in Frames /\ on \in [Motors -> BOOLEAN] /\ mode \in [Motors -> Modes]
    BY DEF DriverTypeOK
<1>2. m \in Motors \cup {NoMotor} /\ (op = "switch" => f.data.arg \in Modes)
    BY <1>1, FrameTypes
<1>3. Obey(f)
    BY DEF Write
<1>4. CASE ~power \/ m = NoMotor
    BY <1>1, <1>3, <1>4 DEF Obey
<1>5. CASE power /\ m # NoMotor
  <2>1. m \in Motors
      BY <1>2, <1>5
  <2>2. /\ on' = [on EXCEPT ![m] = (@ \/ op = "enable") /\ op # "disable"]
        /\ mode' = [mode EXCEPT ![m] = IF op = "switch" THEN f.data.arg ELSE @]
        /\ \E r \in RepliesTo(f), heard \in BOOLEAN :
             IF heard /\ Len(wire) + 2 <= MaxWire
             THEN /\ wire' = wire \o <<[r |-> r, last |-> FALSE], [r |-> r, last |-> TRUE]>>
                  /\ answered' = IF r.about = "status" THEN answered ELSE answered \cup {m}
             ELSE UNCHANGED <<wire, answered>>
      BY <1>3, <1>5 DEF Obey
  <2>3. PICK r \in RepliesTo(f), heard \in BOOLEAN :
             IF heard /\ Len(wire) + 2 <= MaxWire
             THEN /\ wire' = wire \o <<[r |-> r, last |-> FALSE], [r |-> r, last |-> TRUE]>>
                  /\ answered' = IF r.about = "status" THEN answered ELSE answered \cup {m}
             ELSE UNCHANGED <<wire, answered>>
      BY <2>2
  <2>4. r \in Replies /\ r.m = m
      BY <1>1, <1>5, RepliesType
  <2>5. on' \in [Motors -> BOOLEAN] /\ mode' \in [Motors -> Modes]
    <3> HIDE DEF m, op, f
    <3> QED BY <2>1, <2>2, <1>1, <1>2
  <2>6. \/ wire' = wire /\ answered' = answered
        \/ \E rr \in Replies :
             /\ wire' = wire \o <<Heading(rr), Ending(rr)>> /\ Len(wire) + 2 <= MaxWire
             /\ answered' = IF rr.about = "status" THEN answered ELSE answered \cup {rr.m}
    <3>1. CASE heard /\ Len(wire) + 2 <= MaxWire
        BY <2>3, <2>4, <3>1 DEF Heading, Ending
    <3>2. CASE ~(heard /\ Len(wire) + 2 <= MaxWire)
        BY <2>3, <3>2
    <3> QED BY <3>1, <3>2
  <2> QED BY <2>5, <2>6
<1> QED BY <1>4, <1>5

(* The same for a frame that one call composed.                             *)
LEMMA ComposedWrite ==
    ASSUME DriverTypeOK, NEW t \in Threads, Write(t), call[t] \in DriverCalls,
           out[t] = Composed(call[t])
    PROVE  /\ \A m \in Motors : on'[m] =
                IF power /\ m = call[t].m
                THEN (on[m] \/ call[t].op = "enable") /\ call[t].op # "disable" ELSE on[m]
           /\ \A m \in Motors : mode'[m] =
                IF power /\ m = call[t].m /\ call[t].op = "switch" THEN call[t].arg ELSE mode[m]
<1> DEFINE f == out[t]
           c == call[t]
<1>1. /\ Addressee(f) = c.m /\ Meaning(f) = IF c.op \in SetPoints THEN "set-point" ELSE c.op
      /\ f.data = c
    BY ComposedFacts
<1>2. Obey(f) /\ mixed' = (mixed \/ f # Composed(c))
    BY DEF Write
<1>3. on \in [Motors -> BOOLEAN] /\ mode \in [Motors -> Modes] /\ mixed \in BOOLEAN
    BY DEF DriverTypeOK
<1>4. c.m \in Motors /\ c.m # NoMotor /\ "enable" \notin SetPoints /\ "disable" \notin SetPoints
      /\ "switch" \notin SetPoints
    BY MotorFacts, Alphabet DEF DriverCalls
<1> DEFINE op == Meaning(f)
<1>5. /\ op = "enable" <=> c.op = "enable"
      /\ op = "disable" <=> c.op = "disable"
      /\ op = "switch" <=> c.op = "switch"
    BY <1>1, <1>4
<1>6. CASE ~power
  <2>1. on' = on /\ mode' = mode
      BY <1>2, <1>6 DEF Obey
  <2> QED BY <2>1, <1>1, <1>2, <1>3, <1>6
<1>7. CASE power
  <2>1. /\ on' = [on EXCEPT ![c.m] = (@ \/ op = "enable") /\ op # "disable"]
        /\ mode' = [mode EXCEPT ![c.m] = IF op = "switch" THEN f.data.arg ELSE @]
      BY <1>1, <1>2, <1>4, <1>7 DEF Obey
  <2>2. f.data.arg = c.arg
      BY <1>1
  <2> HIDE DEF op, c, f
  <2>3. \A m \in Motors : on'[m] =
                IF m = c.m THEN (on[m] \/ c.op = "enable") /\ c.op # "disable" ELSE on[m]
      BY <2>1, <1>3, <1>4, <1>5
  <2>4. \A m \in Motors : mode'[m] = IF m = c.m /\ c.op = "switch" THEN c.arg ELSE mode[m]
      BY <2>1, <2>2, <1>3, <1>4, <1>5
  <2> QED BY <2>3, <2>4, <1>7 DEF c
<1> QED BY <1>6, <1>7

(* A frame is mixed up, or it is the one that its call composed.            *)
LEMMA UnmixedWrite ==
    ASSUME DriverTypeOK, NEW t \in Threads, Write(t), ~mixed'
    PROVE  out[t] = Composed(call[t]) /\ ~mixed
BY DEF Write, DriverTypeOK

(* What is read is what was sent: the queues keep their types.              *)
LEMMA PutOnWire ==
    ASSUME NEW a \in Seq(Tokens), NEW w \in Seq(Tokens), Alternates(a \o w), NEW r \in Replies
    PROVE  /\ w \o <<Heading(r), Ending(r)>> \in Seq(Tokens)
           /\ Len(w \o <<Heading(r), Ending(r)>>) = Len(w) + 2
           /\ ToSet(w \o <<Heading(r), Ending(r)>>) = ToSet(w) \cup {Heading(r), Ending(r)}
           /\ Alternates(a \o (w \o <<Heading(r), Ending(r)>>))
<1> DEFINE z == a \o w
           p == <<Heading(r), Ending(r)>>
           y == z \o p
<1>1. p \in Seq(Tokens) /\ Len(p) = 2 /\ ToSet(p) = {Heading(r), Ending(r)}
      /\ p[1] = Heading(r) /\ p[2] = Ending(r)
  <2>1. Heading(r) \in Tokens /\ Ending(r) \in Tokens
      BY DEF Tokens, Heading, Ending
  <2> QED BY <2>1, ToSetOfTuples
<1>2. Heading(r).last = FALSE /\ Ending(r).last = TRUE
    BY DEF Heading, Ending
<1> HIDE DEF p
<1>3. z \in Seq(Tokens) /\ Alternates(z)
    OBVIOUS
<1>4. a \o (w \o p) = y
  <2>1. p \in Seq(Tokens)
      BY <1>1
  <2> QED BY <2>1, ConcatAssociative
<1> HIDE DEF z
<1>5. /\ y \in Seq(Tokens) /\ Len(y) = Len(z) + 2 /\ Len(z) \in Nat
      /\ \A i \in 1..(Len(z) + 2) : y[i] = IF i <= Len(z) THEN z[i] ELSE p[i - Len(z)]
  <2>1. /\ y \in Seq(Tokens) /\ Len(y) = Len(z) + Len(p)
        /\ \A i \in 1..(Len(z) + Len(p)) : y[i] = IF i <= Len(z) THEN z[i] ELSE p[i - Len(z)]
      BY <1>1, <1>3, ConcatProperties
  <2> HIDE DEF y
  <2> QED BY <2>1, <1>1, <1>3
<1> HIDE DEF y
<1>6. y[Len(z) + 1] = Heading(r) /\ y[Len(z) + 2] = Ending(r)
  <2>1. /\ Len(z) + 1 \in 1..(Len(z) + 2) /\ Len(z) + 2 \in 1..(Len(z) + 2)
        /\ ~(Len(z) + 1 <= Len(z)) /\ ~(Len(z) + 2 <= Len(z))
        /\ (Len(z) + 1) - Len(z) = 1 /\ (Len(z) + 2) - Len(z) = 2
      BY <1>5
  <2> QED BY <2>1, <1>1, <1>5
<1>7. ASSUME NEW i \in 1..(Len(y) - 1) PROVE y[i].last # y[i + 1].last
  <2>1. CASE i = Len(z) + 1
    <3>1. i + 1 = Len(z) + 2
        BY <2>1, <1>5
    <3> QED BY <2>1, <3>1, <1>6, <1>2
  <2>2. CASE i = Len(z)
    <3>1. z # <<>> /\ i \in 1..(Len(z) + 2) /\ i <= Len(z)
        BY <2>2, <1>5, EmptySeq
    <3>2. z[Len(z)].last
        BY <3>1, <1>3 DEF Alternates
    <3>3. y[i] = z[i]
        BY <3>1, <1>5
    <3>4. z[Len(z)] \in Tokens
        BY <2>2, <3>1, <1>3, <1>5
    <3> QED BY <3>2, <3>3, <3>4, <2>2, <1>6, <1>2, TokenFields
  <2>3. CASE i < Len(z)
    <3>1. i \in 1..(Len(z) - 1) /\ i \in 1..(Len(z) + 2) /\ i + 1 \in 1..(Len(z) + 2)
          /\ i <= Len(z) /\ i + 1 <= Len(z)
        BY <2>3, <1>5
    <3> QED BY <3>1, <1>3, <1>5 DEF Alternates
  <2> QED BY <2>1, <2>2, <2>3, <1>5
<1>8. y[Len(y)].last
    BY <1>2, <1>5, <1>6
<1>9. Alternates(y)
    BY <1>7, <1>8 DEF Alternates
<1>10. w \o p \in Seq(Tokens) /\ Len(w \o p) = Len(w) + 2 /\ ToSet(w \o p) = ToSet(w) \cup ToSet(p)
  <2>1. p \in Seq(Tokens)
      BY <1>1
  <2>2. w \o p \in Seq(Tokens) /\ ToSet(w \o p) = ToSet(w) \cup ToSet(p)
      BY <2>1, ToSetConcat
  <2>3. Len(w \o p) = Len(w) + Len(p)
      BY <2>1, ConcatProperties
  <2> QED BY <2>2, <2>3, <1>1
<1> QED BY <1>1, <1>4, <1>9, <1>10 DEF p

-----------------------------------------------------------------------------
(* Types, over every step.                                                  *)

(* The constants.                                                           *)
LEMMA Hosts == Threads = {"user", "motor"} /\ MaxWire \in Nat /\ MaxFaults \in Nat
               /\ MaxSessions \in Nat /\ Kinds \subseteq {"chain", "follower"}
BY DriverAssumption, OwnerAssumption

(* The session's own steps.                                                 *)
LEMMA SessionTypes ==
    ASSUME IInv, Start \/ Started \/ Act \/ Acted \/ SetRelease \/ Stop \/ Joined
                 \/ JoinTimeout \/ Stopped \/ Cycle \/ Observe \/ OtherObject
    PROVE  TypeOK'
<1>1. TypeOK /\ DriverTypeOK /\ script \in [Threads -> Seq(ScriptCalls)]
    BY DEF IInv, TypeOK, ScriptCalls
<1>2. <<>> \in Seq(ScriptCalls)
    OBVIOUS
<1>3. CASE Start
  <2>1. DriverTypeOK'
    <3>1. <<>> \in Seq(Tokens) /\ Len(<<>>) = 0 /\ "none" \in Modes \cup {"none"}
        OBVIOUS
    <3>2. (param' = FreshParams /\ torque' = FreshTorque) \/ UNCHANGED <<param, torque>>
        BY <1>3 DEF Start, MotorObjects
    <3>3. param' \in [Motors -> Modes \cup {"none"}] /\ torque' \in {"low", "high"}
        BY <3>2, <1>1 DEF DriverTypeOK, FreshParams, FreshTorque
    <3>4. /\ port_open' = TRUE /\ known' = {} /\ data_save' = <<>> /\ wire' = <<>>
          /\ answered' = {} /\ clean' = power /\ mixed' = FALSE
        BY <1>3 DEF Start, OpenBus
    <3>5. UNCHANGED <<frame, out, calls, motors, adapter, faults>>
        BY <1>3 DEF Start
    <3>6. /\ port_open' \in BOOLEAN /\ known' \subseteq Motors /\ answered' \subseteq Motors
          /\ clean' \in BOOLEAN /\ mixed' \in BOOLEAN
        BY <3>4, <1>1 DEF DriverTypeOK
    <3>7. /\ data_save' \in Seq(Tokens) /\ Len(data_save') <= 2
          /\ wire' \in Seq(Tokens) /\ Len(wire') <= MaxWire
        BY <3>1, <3>4, Hosts
    <3> QED BY <3>3, <3>5, <3>6, <3>7, <1>1 DEF DriverTypeOK
  <2>2. script' \in [Threads -> Seq(ScriptCalls)]
      BY <1>1, <1>3, ChainScript, FollowerScript DEF Start, Run
  <2>3. sessions' \in 0..MaxSessions
      BY <1>1, <1>3, Hosts DEF Start, TypeOK
  <2>4. running' \in BOOLEAN /\ release' \in BOOLEAN /\ ready' \in BOOLEAN /\ phase' = "start"
        /\ timed_out' = FALSE /\ UNCHANGED <<kind, worker>>
      BY <1>3 DEF Start
  <2> QED BY <2>1, <2>2, <2>3, <2>4, <1>1 DEF TypeOK, ScriptCalls
<1>4. CASE Started \/ Acted \/ SetRelease
  <2>1. CASE Started
      BY <1>1, <2>1 DEF Started, TypeOK, DriverTypeOK
  <2>2. CASE Acted
      BY <1>1, <2>2 DEF Acted, TypeOK, DriverTypeOK
  <2>3. CASE SetRelease
    <3>1. release' \in BOOLEAN
        BY <2>3 DEF SetRelease
    <3> QED BY <1>1, <2>3, <3>1 DEF SetRelease, TypeOK, DriverTypeOK
  <2> QED BY <1>4, <2>1, <2>2, <2>3
<1>5. CASE Act
  <2>1. script' \in [Threads -> Seq(ScriptCalls)]
      BY <1>1, <1>5, RunningScripts DEF Act, Run
  <2>2. DriverTypeOK'
      BY <1>1, <1>5 DEF Act, DriverTypeOK
  <2> QED BY <2>1, <2>2, <1>1, <1>5 DEF Act, TypeOK, ScriptCalls
<1>6. CASE Stop
  <2>1. script' \in [Threads -> Seq(ScriptCalls)]
      BY <1>1, <1>2, <1>6, ShutdownScript DEF Stop, Run
  <2>2. DriverTypeOK'
      BY <1>1, <1>6 DEF Stop, DriverTypeOK
  <2> QED BY <2>1, <2>2, <1>1, <1>6 DEF Stop, TypeOK, ScriptCalls
<1>7. CASE Joined \/ JoinTimeout
  <2>1. script' \in [Threads -> Seq(ScriptCalls)]
      BY <1>1, <1>7, ShutdownScript DEF Joined, JoinTimeout, Run
  <2>2. DriverTypeOK'
      BY <1>1, <1>7 DEF Joined, JoinTimeout, DriverTypeOK
  <2> QED BY <2>1, <2>2, <1>1, <1>7 DEF Joined, JoinTimeout, TypeOK, ScriptCalls
<1>8. CASE Stopped
    BY <1>1, <1>8 DEF Stopped, TypeOK, DriverTypeOK
<1>9. CASE Cycle
  <2>1. script' \in [Threads -> Seq(ScriptCalls)]
      BY <1>1, <1>9, RunningScripts DEF Cycle, Run
  <2>2. DriverTypeOK'
      BY <1>1, <1>9 DEF Cycle, DriverTypeOK
  <2> QED BY <2>1, <2>2, <1>1, <1>9 DEF Cycle, TypeOK, ScriptCalls
<1>10. CASE Observe
  <2>1. script' \in [Threads -> Seq(ScriptCalls)]
      BY <1>1, <1>10, RunningScripts DEF Observe, Run
  <2>2. DriverTypeOK'
      BY <1>1, <1>10 DEF Observe, DriverTypeOK
  <2> QED BY <2>1, <2>2, <1>1, <1>10 DEF Observe, TypeOK, ScriptCalls
<1>11. CASE OtherObject
  <2>1. \A c \in Foreign[kind] : IdOf(c) \in [off : {"own", "vel", "posvel", "emit", "param"},
                                              m : Motors \cup {NoMotor}] /\ c \in Calls
    <3>1. kind \in Kinds
        BY DEF IInv, TypeOK
    <3>2. Foreign[kind] \subseteq DriverCalls
        BY <3>1, OwnerAssumption
    <3>3. Foreign[kind] \subseteq Calls
        BY <3>2 DEF Calls
    <3> QED BY <3>3, FrameTypes
  <2>2. frame \in Frames
      BY <1>1 DEF DriverTypeOK
  <2>3. frame' \in Frames
    <3>1. ASSUME NEW c \in Foreign[kind]
          PROVE  [frame EXCEPT !.id = IdOf(c)] \in Frames /\ [frame EXCEPT !.data = c] \in Frames
        BY <2>1, <2>2 DEF Frames
    <3> QED BY <3>1, <1>11 DEF OtherObject
  <2>4. faults' \in 0..MaxFaults
      BY <1>1, <1>11, DriverAssumption DEF OtherObject, Fault, DriverTypeOK
  <2>5. DriverTypeOK'
      BY <1>1, <1>11, <2>3, <2>4 DEF OtherObject, DriverTypeOK
  <2> QED BY <2>5, <1>1, <1>11 DEF OtherObject, TypeOK
<1> QED BY <1>3, <1>4, <1>5, <1>6, <1>7, <1>8, <1>9, <1>10, <1>11

(* The steps between the calls of a thread.                                 *)
LEMMA BetweenTypes ==
    ASSUME IInv, NEW t \in Threads, NextCall(t) \/ Returned(t) \/ Failed(t)
    PROVE  TypeOK'
<1>1. /\ TypeOK /\ DriverTypeOK /\ script \in [Threads -> Seq(ScriptCalls)]
      /\ script[t] \in Seq(ScriptCalls) /\ <<>> \in Seq(ScriptCalls) /\ NoCall \in Calls
    BY FrameTypes DEF IInv, TypeOK, ScriptCalls
<1>2. script[t] # <<>>
    BY DEF NextCall, Returned, Failed, IInv, Turns, InScript, Protocol
<1>3. Tail(script[t]) \in Seq(ScriptCalls) /\ Head(script[t]) \in ScriptCalls
    BY <1>1, <1>2, HeadTail
<1>4. CASE NextCall(t)
  <2>1. CASE Head(script[t]).op = "add"
    <3>1. Head(script[t]).m \in Motors
        BY <1>3 DEF ScriptCalls, DriverCalls, Adds
    <3>2. known' = known \cup {Head(script[t]).m} /\ Pop(t) /\ UNCHANGED calls
        BY <1>4, <2>1 DEF NextCall
    <3>3. known' \subseteq Motors
        BY <1>1, <3>1, <3>2 DEF DriverTypeOK
    <3>4. script' \in [Threads -> Seq(ScriptCalls)]
        BY <3>2, <1>1, <1>3 DEF Pop, Run
    <3>5. DriverTypeOK'
        BY <1>1, <1>4, <3>2, <3>3 DEF NextCall, DriverTypeOK
    <3> QED BY <3>4, <3>5, <1>1, <1>4 DEF NextCall, TypeOK, ScriptCalls
  <2>2. CASE Head(script[t]).op # "add"
    <3>1. Head(script[t]) \in Calls
        BY <1>3, <2>2 DEF ScriptCalls, Adds, Calls
    <3>2. Enter(t, Head(script[t])) /\ UNCHANGED <<known, ret, script>>
        BY <1>4, <2>2 DEF NextCall
    <3>3. DriverTypeOK'
        BY <1>1, <1>4, <3>1, <3>2 DEF NextCall, DriverTypeOK, Enter
    <3> QED BY <3>2, <3>3, <1>1, <1>4 DEF NextCall, TypeOK, ScriptCalls
  <2> QED BY <2>1, <2>2
<1>5. CASE Returned(t)
  <2>1. script' \in [Threads -> Seq(ScriptCalls)]
      BY <1>1, <1>3, <1>5 DEF Returned, Pop, Run
  <2>2. call[t] \in Calls
      BY <1>1 DEF DriverTypeOK
  <2>3. DriverTypeOK'
      BY <1>1, <1>5, <2>2 DEF Returned, DriverTypeOK, Enter, Leave
  <2> QED BY <2>1, <2>3, <1>1, <1>5 DEF Returned, TypeOK, ScriptCalls
<1>6. CASE Failed(t)
  <2>1. script' \in [Threads -> Seq(ScriptCalls)]
      BY <1>1, <1>3, <1>6 DEF Failed, Pop, Run
  <2>3. DriverTypeOK'
      BY <1>1, <1>6 DEF Failed, DriverTypeOK, Leave
  <2> QED BY <2>1, <2>3, <1>1, <1>6 DEF Failed, TypeOK, ScriptCalls
<1> QED BY <1>4, <1>5, <1>6

(* The steps of a call.                                                     *)
LEMMA CallTypes ==
    ASSUME IInv, NEW t \in Threads, CallStep(t), UNCHANGED owner
    PROVE  TypeOK'
<1>1. DriverTypeOK /\ TypeOK
    BY DEF IInv, TypeOK
<1>2. call[t] \in Calls /\ NoFrame \in Frames /\ frame \in Frames /\ out[t] \in Frames
    BY <1>1, FrameTypes DEF DriverTypeOK
<1>3. CASE Refuse(t)
    BY <1>1, <1>3 DEF Refuse, DriverTypeOK, Goto, TypeOK
<1>4. CASE SendId(t)
  <2>1. frame' \in Frames
      BY <1>2, <1>4, FrameTypes DEF SendId, Frames
  <2> QED BY <1>1, <1>4, <2>1 DEF SendId, DriverTypeOK, Goto, TypeOK
<1>5. CASE SendData(t)
  <2>1. frame' \in Frames
      BY <1>2, <1>5 DEF SendData, Frames
  <2> QED BY <1>1, <1>5, <2>1 DEF SendData, DriverTypeOK, Goto, TypeOK
<1>6. CASE SendCopy(t)
    BY <1>1, <1>6 DEF SendCopy, DriverTypeOK, Goto, TypeOK
<1>7. CASE Write(t)
  <2>1. on' \in [Motors -> BOOLEAN] /\ mode' \in [Motors -> Modes]
      BY <1>1, <1>7, WriteFacts
  <2>2. wire' \in Seq(Tokens) /\ Len(wire') <= MaxWire /\ answered' \subseteq Motors
    <3>1. CASE wire' = wire /\ answered' = answered
        BY <1>1, <3>1 DEF DriverTypeOK
    <3>2. CASE ~(wire' = wire /\ answered' = answered)
      <4>1. PICK r \in Replies :
                   /\ wire' = wire \o <<Heading(r), Ending(r)>> /\ Len(wire) + 2 <= MaxWire
                   /\ answered' = IF r.about = "status" THEN answered ELSE answered \cup {r.m}
          BY <1>1, <1>7, <3>2, WriteFacts
      <4>2. r.m \in Motors
          BY DEF Replies
      <4>3. data_save \in Seq(Tokens) /\ wire \in Seq(Tokens) /\ Alternates(data_save \o wire)
          BY <1>1 DEF IInv, Stream, DriverTypeOK
      <4>4. wire' \in Seq(Tokens) /\ Len(wire') = Len(wire) + 2
        <5>1. wire \o <<Heading(r), Ending(r)>> \in Seq(Tokens)
              /\ Len(wire \o <<Heading(r), Ending(r)>>) = Len(wire) + 2
            BY <4>3, PutOnWire
        <5> QED BY <5>1, <4>1
      <4> QED BY <1>1, <4>1, <4>2, <4>4 DEF DriverTypeOK
    <3> QED BY <3>1, <3>2
  <2>3. mixed' \in BOOLEAN
      BY <1>1, <1>7 DEF Write, DriverTypeOK
  <2> QED BY <1>1, <1>2, <1>7, <2>1, <2>2, <2>3 DEF Write, DriverTypeOK, Goto, TypeOK
<1>8. CASE Raise(t)
    BY <1>1, <1>2, <1>8 DEF Raise, DriverTypeOK, TypeOK
<1>9. ASSUME NEW a \in {<<>>, data_save}, NEW n \in 0..Len(wire), NEW s, s = a \o SubSeq(wire, 1, n),
             wire' = SubSeq(wire, n + 1, Len(wire)), data_save' = Remainder(s)
      PROVE  /\ s \in Seq(Tokens) /\ wire' \in Seq(Tokens) /\ Len(wire') <= MaxWire
             /\ data_save' \in Seq(Tokens) /\ Len(data_save') <= 2
  <2>1. data_save \in Seq(Tokens) /\ wire \in Seq(Tokens) /\ Alternates(data_save \o wire)
        /\ Len(wire) <= MaxWire
      BY <1>1 DEF IInv, Stream, DriverTypeOK
  <2>2. a \in Seq(Tokens) /\ Alternates(a \o wire)
    <3>1. CASE a = <<>>
      <4>1. Alternates(<<>> \o wire)
          BY <2>1, AlternatesSuffix
      <4> QED BY <4>1, <3>1
    <3>2. CASE a = data_save
        BY <2>1, <3>2
    <3> QED BY <3>1, <3>2
  <2>3. PICK rest : rest = SubSeq(wire, n + 1, Len(wire))
      OBVIOUS
  <2>4. s \in Seq(Tokens) /\ rest \in Seq(Tokens) /\ Len(rest) <= Len(wire)
        /\ Remainder(s) \in Seq(Tokens) /\ Len(Remainder(s)) <= 2
    <3>1. PICK w : w = wire
        OBVIOUS
    <3>2. w \in Seq(Tokens) /\ Alternates(a \o w) /\ n \in 0..Len(w)
        BY <2>1, <2>2, <3>1
    <3>3. Reads(a, w, s, rest)
        BY <1>9, <2>3, <3>1 DEF Reads
    <3>4. s \in Seq(Tokens) /\ rest \in Seq(Tokens) /\ Len(rest) <= Len(w)
          /\ Remainder(s) \in Seq(Tokens) /\ Len(Remainder(s)) <= 2
        BY <2>2, <3>2, <3>3, Reading
    <3> QED BY <3>1, <3>4
  <2>5. Len(rest) \in Nat /\ Len(wire) \in Nat
      BY <2>1, <2>4
  <2> QED BY <1>9, <2>1, <2>3, <2>4, <2>5, Hosts
<1>10. CASE Recv(t)
  <2>1. PICK n \in 0..Len(wire) :
           /\ torque' = ProcessPackets(data_save \o SubSeq(wire, 1, n))
           /\ data_save' = Remainder(data_save \o SubSeq(wire, 1, n))
           /\ wire' = SubSeq(wire, n + 1, Len(wire))
      BY <1>10 DEF Recv
  <2>2. PICK s : s = data_save \o SubSeq(wire, 1, n)
      OBVIOUS
  <2>3. /\ s \in Seq(Tokens) /\ wire' \in Seq(Tokens) /\ Len(wire') <= MaxWire
        /\ data_save' \in Seq(Tokens) /\ Len(data_save') <= 2
      BY <1>9, <2>1, <2>2
  <2>4. torque' \in {"low", "high"}
      BY <1>1, <2>1, <2>2, <2>3, ProcessPacketsType DEF DriverTypeOK
  <2> QED BY <1>1, <1>10, <2>3, <2>4 DEF Recv, DriverTypeOK, Goto, TypeOK
<1>11. CASE Poll(t)
  <2>1. PICK n \in 0..Len(wire) :
           /\ param' = ProcessParams(SubSeq(wire, 1, n))
           /\ data_save' = Remainder(SubSeq(wire, 1, n))
           /\ wire' = SubSeq(wire, n + 1, Len(wire))
           /\ \/ /\ at' = [at EXCEPT ![t] = "done"]
                 /\ ret' = [ret EXCEPT ![t] = param'[call[t].m]]
              \/ UNCHANGED <<at, ret>>
      BY <1>11 DEF Poll
  <2>2. PICK s : s = <<>> \o SubSeq(wire, 1, n)
      OBVIOUS
  <2>3. s = SubSeq(wire, 1, n)
    <3>1. SubSeq(wire, 1, n) \in Seq(Tokens)
        BY <1>1 DEF DriverTypeOK
    <3> QED BY <3>1, <2>2
  <2>4. /\ s \in Seq(Tokens) /\ wire' \in Seq(Tokens) /\ Len(wire') <= MaxWire
        /\ data_save' \in Seq(Tokens) /\ Len(data_save') <= 2
      BY <1>9, <2>1, <2>2, <2>3
  <2>5. param' \in [Motors -> Modes \cup {"none"}]
      BY <1>1, <2>1, <2>3, <2>4, ProcessParamsType DEF DriverTypeOK
  <2>6. call[t].m \in Motors
    <3>1. at[t] = "reply"
        BY <1>11 DEF Poll
    <3> QED BY <3>1 DEF IInv, Turns, InScript, Protocol, DriverCalls
  <2>7. at' \in [Threads -> {"idle", "id", "data", "copy", "write", "reply", "done", "raised"}]
        /\ ret' \in [Threads -> Modes \cup {"none"}]
      BY <1>1, <2>1, <2>5, <2>6 DEF DriverTypeOK
  <2> QED BY <1>1, <1>11, <2>4, <2>5, <2>7 DEF Poll, DriverTypeOK, TypeOK
<1>12. CASE GiveUp(t)
    BY <1>1, <1>12 DEF GiveUp, DriverTypeOK, Goto, TypeOK
<1> QED BY <1>3, <1>4, <1>5, <1>6, <1>7, <1>8, <1>10, <1>11, <1>12 DEF CallStep

(* The faults of adapter and power, and their end.                          *)
LEMMA BusTypes ==
    ASSUME IInv, BusStep, UNCHANGED owner
    PROVE  TypeOK'
<1>1. DriverTypeOK /\ TypeOK
    BY DEF IInv, TypeOK
<1>2. /\ on' \in [Motors -> BOOLEAN] /\ power' \in BOOLEAN /\ clean' \in BOOLEAN
      /\ adapter' \in {"ok", "wedged", "gone"} /\ faults' \in 0..MaxFaults
  <2>1. CASE Wedge \/ Unplug
      BY <1>1, <2>1, Hosts DEF Wedge, Unplug, Fault, DriverTypeOK
  <2>2. CASE Drain \/ RestorePower
      BY <1>1, <2>2, Hosts DEF Drain, RestorePower, DriverTypeOK
  <2>3. CASE CutPower
    <3>1. on' = [m \in Motors |-> FALSE] /\ power' = FALSE /\ clean' = FALSE /\ adapter' = adapter
        BY <2>3 DEF CutPower, Fault
    <3>2. on' \in [Motors -> BOOLEAN]
        BY <3>1
    <3>3. faults' \in 0..MaxFaults
        BY <1>1, <2>3, Hosts DEF CutPower, Fault, DriverTypeOK
    <3> QED BY <1>1, <3>1, <3>2, <3>3 DEF DriverTypeOK
  <2> QED BY <2>1, <2>2, <2>3 DEF BusStep
<1> QED BY <1>1, <1>2 DEF BusStep, DriverTypeOK, TypeOK

-----------------------------------------------------------------------------
(* Turns.                                                                   *)

(* What every step needs of the types.                                      *)
LEMMA Basics ==
    ASSUME IInv
    PROVE  /\ Threads = {"user", "motor"} /\ kind \in {"chain", "follower"}
           /\ script \in [Threads -> Seq(ScriptCalls)]
           /\ at \in [Threads -> {"idle", "id", "data", "copy", "write", "reply", "done", "raised"}]
           /\ call \in [Threads -> Calls] /\ ret \in [Threads -> Modes \cup {"none"}]
           /\ running \in BOOLEAN /\ release \in BOOLEAN /\ ready \in BOOLEAN /\ timed_out \in BOOLEAN
           /\ phase \in {"idle", "start", "act", "join", "off"}
           /\ worker \in {"none", "loop", "exited"}
           /\ \A t \in Threads : script[t] = <<>> => at[t] = "idle"
           /\ \A t \in Threads : script[t] # <<>> =>
                /\ Head(script[t]) \in ScriptCalls /\ Tail(script[t]) \in Seq(ScriptCalls)
                /\ ToSet(script[t]) = {Head(script[t])} \cup ToSet(Tail(script[t]))
<1>1. TypeOK /\ Turns
    BY DEF IInv
<1>2. script \in [Threads -> Seq(ScriptCalls)]
    BY <1>1 DEF TypeOK, ScriptCalls
<1>3. ASSUME NEW t \in Threads, script[t] # <<>>
      PROVE  /\ Head(script[t]) \in ScriptCalls /\ Tail(script[t]) \in Seq(ScriptCalls)
             /\ ToSet(script[t]) = {Head(script[t])} \cup ToSet(Tail(script[t]))
  <2>1. script[t] \in Seq(ScriptCalls)
      BY <1>2
  <2> QED BY <2>1, <1>3, HeadTail
<1>4. \A t \in Threads : script[t] = <<>> => at[t] = "idle"
    BY <1>1 DEF Turns, InScript, Protocol
<1>5. kind \in {"chain", "follower"}
    BY <1>1, Hosts DEF TypeOK
<1> QED BY <1>1, <1>2, <1>3, <1>4, <1>5, Hosts DEF TypeOK, DriverTypeOK

Session == \/ Start \/ Started \/ Act \/ Acted \/ SetRelease \/ Stop \/ Joined
           \/ JoinTimeout \/ Stopped \/ Cycle \/ Observe \/ OtherObject

(* Another object's call leaves everything but the frame as it is.          *)
LEMMA OnlyTheFrame ==
    OtherObject => /\ UNCHANGED <<out, known, param, torque, data_save, port_open, calls, wire>>
                   /\ UNCHANGED <<call, at, ret, on, mode, power, motors, adapter, answered, clean>>
                   /\ UNCHANGED <<mixed, history>>
                   /\ UNCHANGED <<kind, running, release, script, phase, worker, ready, sessions>>
                   /\ UNCHANGED <<timed_out, owner>>
<1> SUFFICES ASSUME OtherObject
             PROVE  UNCHANGED <<out, known, param, torque, data_save, port_open, calls, wire,
                                motors, adapter, history, owner>>
    BY DEF calls, motors, history, owner
<1> QED BY DEF OtherObject

(* Turns, over the steps of the session and of the motor loop.              *)
LEMMA SessionTurns ==
    ASSUME IInv, Session
    PROVE  Turns'
<1>1. InScript /\ Protocol
    BY DEF IInv, Turns, InScript, Protocol
<1>2. at' = at /\ call' = call
    BY DEF Session, Start, Started, Act, Acted, SetRelease, Stop, Joined, JoinTimeout, Stopped,
       Cycle, Observe, OtherObject
<1>3. \A t \in Threads : at[t] # "idle" => script'[t] = script[t]
  <2>1. script["user"] # <<>> => script' = script \/ (\E s : Run("motor", s) /\ at["motor"] = "idle")
      BY <1>1, Basics DEF Protocol, Session, Start, Started, Act, Acted, SetRelease, Stop, Joined, JoinTimeout,
         Stopped, Cycle, Observe, OtherObject
  <2>2. script' = script \/ (\E s : Run("user", s)) \/ (\E s : Run("motor", s) /\ at["motor"] = "idle")
      BY Basics DEF Session, Start, Started, Act, Acted, SetRelease, Stop, Joined, JoinTimeout, Stopped,
       Cycle, Observe, OtherObject
  <2>3. script["user"] = <<>> => at["user"] = "idle"
      BY Basics
  <2> QED BY <2>1, <2>2, <2>3, Basics DEF Run
<1>4. InScript'
    BY <1>1, <1>2, <1>3 DEF InScript
<1>5. Protocol'
  <2>1. CASE Start
      BY <1>1, <2>1, Basics DEF Protocol, Start, OpenBus, Run
  <2>2. CASE Started \/ Acted \/ SetRelease
      BY <1>1, <2>2, Basics DEF Protocol, Started, Acted, SetRelease
  <2>3. CASE Act
      BY <1>1, <2>3, Basics DEF Protocol, Act, Run
  <2>4. CASE Stop
      BY <1>1, <2>4, Basics DEF Protocol, Stop, Run
  <2>5. CASE Joined \/ JoinTimeout
      BY <1>1, <2>5, Basics DEF Protocol, Joined, JoinTimeout, Run
  <2>6. CASE Stopped
      BY <1>1, <2>6, Basics DEF Protocol, Stopped
  <2>7. CASE Cycle
      BY <1>1, <2>7, Basics DEF Protocol, Cycle, Run
  <2>8. CASE Observe
      BY <1>1, <2>8, Basics DEF Protocol, Observe, Run
  <2>9. CASE OtherObject
      BY <1>1, <2>9 DEF Protocol, OtherObject
  <2> QED BY <2>1, <2>2, <2>3, <2>4, <2>5, <2>6, <2>7, <2>8, <2>9 DEF Session
<1> QED BY <1>4, <1>5 DEF Turns

Between(t) == NextCall(t) \/ Returned(t) \/ Failed(t)

(* Turns, between the calls of a thread: an exception leaves a method as a
   whole, or ends the motor thread.                                         *)
LEMMA BetweenTurns ==
    ASSUME IInv, NEW t \in Threads, Between(t)
    PROVE  Turns'
<1>1. InScript /\ Protocol
    BY DEF IInv, Turns, InScript, Protocol
<1>2. script[t] # <<>>
    BY <1>1 DEF InScript, Between, NextCall, Returned, Failed
<1>3. CASE NextCall(t)
  <2>1. CASE Head(script[t]).op = "add"
    <3>1. at' = at /\ call' = call /\ at[t] = "idle" /\ script' = [script EXCEPT ![t] = Tail(@)]
        BY <1>3, <2>1 DEF NextCall, Pop, Run
    <3>2. UNCHANGED <<kind, running, phase, worker, ready, timed_out, port_open>>
        BY <1>3 DEF NextCall
    <3>3. InScript'
        BY <1>1, <3>1, Basics DEF InScript
    <3>4. Protocol'
        BY <1>1, <1>2, <3>1, <3>2, Basics DEF Protocol
    <3> QED BY <3>3, <3>4 DEF Turns
  <2>2. CASE Head(script[t]).op # "add"
    <3>1. /\ at' = [at EXCEPT ![t] = "id"] /\ call' = [call EXCEPT ![t] = Head(script[t])]
          /\ script' = script
        BY <1>3, <2>2 DEF NextCall, Enter
    <3>2. Head(script[t]) \in DriverCalls
        BY <1>2, <2>2, Basics DEF ScriptCalls, Adds
    <3>3. InScript'
        BY <1>1, <1>2, <3>1, <3>2, Basics DEF InScript
    <3>4. Protocol'
        BY <1>1, <1>3, <3>1 DEF Protocol, NextCall
    <3> QED BY <3>3, <3>4 DEF Turns
  <2> QED BY <2>1, <2>2
<1>4. CASE Returned(t)
  <2>1. UNCHANGED <<kind, running, phase, worker, ready, timed_out, port_open>>
      BY <1>4 DEF Returned
  <2>2. CASE StillOpening(t)
    <3>1. at' = [at EXCEPT ![t] = "id"] /\ call' = [call EXCEPT ![t] = call[t]] /\ script' = script
          /\ at[t] # "idle"
        BY <1>4, <2>2 DEF Returned, Enter
    <3>2. InScript'
        BY <1>1, <3>1, Basics DEF InScript
    <3>3. Protocol'
        BY <1>1, <3>1, <2>1 DEF Protocol
    <3> QED BY <3>2, <3>3 DEF Turns
  <2>3. CASE ~StillOpening(t)
    <3>1. at' = [at EXCEPT ![t] = "idle"] /\ call' = [call EXCEPT ![t] = NoCall]
          /\ script' = [script EXCEPT ![t] = Tail(script[t])]
        BY <1>4, <2>3 DEF Returned, Leave, Pop, Run
    <3>2. InScript'
        BY <1>1, <3>1, Basics DEF InScript
    <3>3. Protocol'
        BY <1>1, <1>2, <3>1, <2>1, Basics DEF Protocol
    <3> QED BY <3>2, <3>3 DEF Turns
  <2> QED BY <2>2, <2>3
<1>5. CASE Failed(t)
  <2>1. /\ at' = [at EXCEPT ![t] = "idle"] /\ call' = [call EXCEPT ![t] = NoCall]
        /\ \E s : script' = [script EXCEPT ![t] = s]
        /\ UNCHANGED <<kind, running, ready, timed_out, port_open>>
      BY <1>5 DEF Failed, Leave, Pop, Run
  <2>2. InScript'
      BY <1>1, <2>1, Basics DEF InScript
  <2>3. Protocol'
    <3>1. CASE t = "motor"
      <4>1. /\ kind = "chain" => worker = "loop" /\ worker' = "exited"
            /\ kind # "chain" => worker' = worker
            /\ phase' = phase /\ script' = [script EXCEPT !["motor"] = <<>>]
          BY <1>1, <1>2, <1>5, <3>1 DEF Failed, Run, Protocol
      <4> QED BY <1>1, <2>1, <4>1, Basics DEF Protocol
    <3>2. CASE t = "user" /\ phase = "off" /\ kind = "chain"
      <4>1. worker' = worker /\ phase' = phase
          BY <1>5, <3>2 DEF Failed
      <4> QED BY <1>1, <2>1, <3>2, <4>1, Basics DEF Protocol
    <3>3. CASE t = "user" /\ ~(phase = "off" /\ kind = "chain")
      <4>1. worker' = worker /\ phase' = "idle" /\ script' = [script EXCEPT !["user"] = <<>>]
          BY <1>5, <3>3 DEF Failed, Run
      <4>2. phase \in {"start", "act", "off"} /\ worker # "loop"
          BY <1>1, <1>2, <3>3, Basics DEF Protocol
      <4> QED BY <1>1, <2>1, <3>3, <4>1, <4>2, Basics DEF Protocol
    <3> QED BY <3>1, <3>2, <3>3, Basics
  <2> QED BY <2>2, <2>3 DEF Turns
<1> QED BY <1>3, <1>4, <1>5 DEF Between

(* Turns, within a call.                                                    *)
LEMMA CallTurns ==
    ASSUME IInv, NEW t \in Threads, CallStep(t), UNCHANGED owner
    PROVE  Turns'
<1>1. InScript /\ Protocol
    BY DEF IInv, Turns, InScript, Protocol
<1>2. /\ call' = call /\ port_open' = port_open
      /\ at[t] # "idle" /\ \E p : at' = at \/ at' = [at EXCEPT ![t] = p]
    BY DEF CallStep, Refuse, SendId, SendData, SendCopy, Write, Raise, Recv, Poll, GiveUp, Goto
<1>3. InScript'
    BY <1>1, <1>2, Basics DEF InScript
<1>4. Protocol'
    BY <1>1, <1>2 DEF Protocol
<1> QED BY <1>3, <1>4 DEF Turns

(* Turns, under the faults.                                                 *)
LEMMA BusTurns ==
    ASSUME IInv, BusStep, UNCHANGED owner
    PROVE  Turns'
BY DEF BusStep, IInv, Turns, InScript, Protocol

-----------------------------------------------------------------------------
(* Methods and frames.                                                      *)

(* Between its calls a thread's script only loses calls.                    *)
LEMMA ScriptsShrink ==
    ASSUME IInv, NEW t \in Threads, Between(t)
    PROVE  /\ script' \in [Threads -> Seq(ScriptCalls)]
           /\ \A u \in Threads : ToSet(script'[u]) \subseteq ToSet(script[u])
           /\ \A u \in Threads \ {t} : script'[u] = script[u]
<1>1. script[t] # <<>>
    BY DEF IInv, Turns, InScript, Protocol, Between, NextCall, Returned, Failed
<1>2. \/ script' = script
      \/ script' = [script EXCEPT ![t] = Tail(script[t])]
      \/ script' = [script EXCEPT ![t] = <<>>]
    BY DEF Between, NextCall, Returned, Failed, Pop, Run
<1>3. ToSet(<<>>) = {} /\ <<>> \in Seq(ScriptCalls)
    BY DEF ToSet
<1>4. /\ script \in [Threads -> Seq(ScriptCalls)] /\ Tail(script[t]) \in Seq(ScriptCalls)
      /\ ToSet(script[t]) = {Head(script[t])} \cup ToSet(Tail(script[t]))
    BY <1>1, Basics
<1>5. CASE script' = script
    BY <1>4, <1>5 DEF ToSet
<1>6. CASE script' = [script EXCEPT ![t] = Tail(script[t])]
  <2>1. /\ script'[t] = Tail(script[t]) /\ script' \in [Threads -> Seq(ScriptCalls)]
        /\ \A u \in Threads \ {t} : script'[u] = script[u]
      BY <1>4, <1>6
  <2>3. ToSet(script'[t]) \subseteq ToSet(script[t])
    <3>1. ToSet(Tail(script[t])) \subseteq ToSet(script[t])
        BY <1>4
    <3> QED BY <3>1, <2>1 DEF ToSet
  <2>4. ASSUME NEW u \in Threads PROVE ToSet(script'[u]) \subseteq ToSet(script[u])
    <3>1. CASE u = t
        BY <2>3, <3>1
    <3>2. CASE u # t
        BY <2>1, <3>2 DEF ToSet
    <3> QED BY <3>1, <3>2
  <2> QED BY <2>1, <2>4
<1>7. CASE script' = [script EXCEPT ![t] = <<>>]
  <2>1. /\ script'[t] = <<>> /\ script' \in [Threads -> Seq(ScriptCalls)]
        /\ \A u \in Threads \ {t} : script'[u] = script[u]
      BY <1>3, <1>4, <1>7
  <2>3. ToSet(script'[t]) \subseteq ToSet(script[t])
      BY <2>1 DEF ToSet
  <2>4. ASSUME NEW u \in Threads PROVE ToSet(script'[u]) \subseteq ToSet(script[u])
    <3>1. CASE u = t
        BY <2>3, <3>1
    <3>2. CASE u # t
        BY <2>1, <3>2 DEF ToSet
    <3> QED BY <3>1, <3>2
  <2> QED BY <2>1, <2>4
<1> QED BY <1>2, <1>5, <1>6, <1>7

(* Nothing is in an empty script.                                           *)
LEMMA EmptyScript == ToSet(<<>>) = {}
BY DEF ToSet

(* A method starts with the calls it is known for.                          *)
LEMMA SessionMethods ==
    ASSUME IInv, Session
    PROVE  Methods'
<1>1. Methods /\ Turns
    BY DEF IInv
<1>2. \A m \in Motors : Do("disable", m).op = "disable"
    BY DEF Do, Call
<1>3. \A c \in ToSet(DisableAll) : c.op = "disable"
    BY <1>2, ShutdownScript
<1>4. CASE Start
  <2>1. script["motor"] = <<>> /\ script'["motor"] = script["motor"] /\ phase' = "start"
      BY <1>4, Basics DEF Start, Run
  <2> QED BY <2>1, EmptyScript DEF Methods
<1>5. CASE Started \/ Acted \/ SetRelease \/ Stopped
    BY <1>1, <1>5 DEF Started, Acted, SetRelease, Stopped, Methods
<1>6. CASE Act
  <2>1. \A c \in ToSet(script'["user"]) : c.op \in SetPoints \cup StatusCalls
      BY <1>6, RunningScripts, Basics DEF Act, Run
  <2>2. script'["motor"] = script["motor"] /\ phase' = "act" /\ kind' = kind
      BY <1>6, Basics DEF Act, Run
  <2> QED BY <1>1, <2>1, <2>2 DEF Methods
<1>7. CASE Stop \/ Joined \/ JoinTimeout
  <2>1. \/ script' = script /\ phase' = "join"
        \/ script' = [script EXCEPT !["user"] = DisableAll] /\ phase' = "off"
        \/ script' = [script EXCEPT !["user"] = <<>>] /\ phase' = "off"
      BY <1>7 DEF Stop, Joined, JoinTimeout, Run
  <2>2. script'["motor"] = script["motor"] /\ kind' = kind
      BY <1>7, <2>1, Basics DEF Stop, Joined, JoinTimeout
  <2>3. phase' = "off" => \A c \in ToSet(script'["user"]) : c.op = "disable"
      BY <2>1, <1>3, EmptyScript, Basics
  <2> QED BY <1>1, <2>1, <2>2, <2>3 DEF Methods
<1>8. CASE Cycle
  <2>1. \/ script' = script
        \/ script' = [script EXCEPT !["motor"] = MotorCycle]
      BY <1>8 DEF Cycle, Run
  <2>2. script'["user"] = script["user"] /\ phase' = phase
      BY <1>8, <2>1, Basics DEF Cycle
  <2>3. kind' = kind /\ kind = "chain"
      BY <1>1, <1>8, Basics DEF Cycle, Turns, Protocol
  <2>4. \A c \in ToSet(script'["motor"]) : c.op \in SetPoints
      BY <1>1, <2>1, <2>3, RunningScripts, Basics DEF Methods
  <2> QED BY <1>1, <2>2, <2>3, <2>4 DEF Methods
<1>9. CASE Observe
  <2>1. /\ script' = [script EXCEPT !["motor"] = ReadMotors] /\ phase' = phase
        /\ kind' = "follower"
      BY <1>9 DEF Observe, Run
  <2>2. script'["user"] = script["user"] /\ script'["motor"] = ReadMotors
      BY <2>1, Basics
  <2>3. \A c \in ToSet(script'["motor"]) : c.op = "refresh"
      BY <2>2, RunningScripts
  <2> QED BY <1>1, <2>1, <2>2, <2>3 DEF Methods
<1>10. CASE OtherObject
    BY <1>1, <1>10 DEF OtherObject, Methods
<1> QED BY <1>4, <1>5, <1>6, <1>7, <1>8, <1>9, <1>10 DEF Session

(* Methods, between the calls.                                              *)
LEMMA BetweenMethods ==
    ASSUME IInv, NEW t \in Threads, Between(t)
    PROVE  Methods'
<1>1. Methods
    BY DEF IInv
<1>2. phase' \in {phase, "idle"} /\ kind' = kind
    BY DEF Between, NextCall, Returned, Failed
<1> QED BY <1>1, <1>2, ScriptsShrink, Basics DEF Methods

(* Outside of the time they share, one of the chain's threads at most is in a
   call.                                                                    *)
LEMMA Alone ==
    ASSUME IInv, kind = "chain", ~Shared, NEW t \in Threads, NEW u \in Threads, at[t] # "idle", at[u] # "idle"
    PROVE  t = u
<1>1. script[t] # <<>> /\ script[u] # <<>>
    BY Basics
<1>2. Turns
    BY DEF IInv
<1>3. ASSUME script["user"] # <<>>, script["motor"] # <<>> PROVE FALSE
  <2>1. worker = "loop" /\ phase \in {"start", "act", "off"}
      BY <1>2, <1>3, Basics DEF Turns, InScript, Protocol
  <2>2. timed_out /\ phase = "off"
      BY <1>2, <2>1 DEF Turns, InScript, Protocol
  <2> QED BY <2>2 DEF Shared
<1>4. \A x \in Threads : x = "user" \/ x = "motor"
    BY Basics
<1> QED BY <1>1, <1>3, <1>4

(* The threads stop sharing the driver with nothing under way.              *)
LEMMA SharingEnds ==
    ASSUME IInv, kind = "chain", Shared, ~Shared', NEW t \in Threads,
           Session \/ \E u \in Threads : Between(u)
    PROVE  at'[t] = "idle"
<1>1. Turns
    BY DEF IInv
<1>2. CASE Session
  <2>1. at' = at
      BY <1>2 DEF Session, Start, Started, Act, Acted, SetRelease, Stop, Joined, JoinTimeout,
         Stopped, Cycle, Observe, OtherObject
  <2>2. script["user"] = <<>> /\ script["motor"] = <<>>
    <3>1. CASE Start \/ Started \/ Act \/ Acted \/ SetRelease \/ Stop \/ Joined \/ JoinTimeout
        BY <3>1, <1>1 DEF Shared, Turns, InScript, Protocol, Start, Started, Act, Acted, SetRelease,
           Stop, Joined, JoinTimeout
    <3>2. CASE Stopped
        BY <3>2, <1>1 DEF Shared, Turns, InScript, Protocol, Stopped
    <3>3. CASE Cycle
        BY <3>3, <1>1 DEF Shared, Turns, InScript, Protocol, Cycle
    <3>4. CASE Observe \/ OtherObject
        BY <3>4 DEF Shared, Observe, OtherObject
    <3> QED BY <1>2, <3>1, <3>2, <3>3, <3>4 DEF Session
  <2> QED BY <2>1, <2>2, Basics
<1>3. ASSUME NEW u \in Threads, Between(u)
      PROVE  at'[t] = "idle"
  <2>1. Failed(u)
      BY <1>3 DEF Between, Shared, NextCall, Returned
  <2>2. at' = [at EXCEPT ![u] = "idle"]
      BY <2>1 DEF Failed, Leave
  <2>3. script[u] # <<>>
      BY <2>1, <1>1 DEF Failed, Turns, InScript, Protocol
  <2>4. CASE u = "motor"
    <3>1. script["user"] = <<>>
        BY <2>1, <2>4, <1>1 DEF Failed, Shared, Turns, InScript, Protocol
    <3> QED BY <3>1, <2>2, <2>4, Basics
  <2>5. CASE u = "user"
    <3>1. script["motor"] = <<>>
        BY <2>1, <2>3, <2>5, <1>1, Basics DEF Failed, Shared, Turns, InScript, Protocol
    <3> QED BY <3>1, <2>2, <2>5, Basics
  <2> QED BY <2>4, <2>5, Basics
<1> QED BY <1>2, <1>3

(* Frames, over the steps of the session.                                   *)
LEMMA SessionFrames ==
    ASSUME IInv, Session
    PROVE  FramesSound' /\ FramesUnmixed'
<1>1. FramesSound /\ FramesUnmixed
    BY DEF IInv
<1>2. CASE Start
  <2>1. \A t \in Threads : at'[t] = "idle"
      BY <1>2, Basics DEF Start, IInv, Turns, Protocol
  <2> QED BY <1>2, <2>1 DEF Start, OpenBus, FramesSound, FramesUnmixed
<1>3. CASE OtherObject
  <2>1. Foreign[kind] # {} /\ kind' = kind
      BY <1>3 DEF OtherObject, owner
  <2> QED BY <2>1 DEF FramesSound, FramesUnmixed
<1>4. CASE Session /\ ~Start /\ ~OtherObject
  <2>1. UNCHANGED <<at, call, frame, out, mixed, kind>> /\ (timed_out => timed_out')
      BY <1>4 DEF Session, Started, Act, Acted, SetRelease, Stop, Joined, JoinTimeout, Stopped,
         Cycle, Observe
  <2>2. FramesSound'
      BY <1>1, <1>4, <2>1, SharingEnds DEF FramesSound
  <2> QED BY <1>1, <2>1, <2>2 DEF FramesUnmixed
<1> QED BY <1>2, <1>3, <1>4

(* Frames, between the calls.                                               *)
LEMMA BetweenFrames ==
    ASSUME IInv, NEW t \in Threads, Between(t)
    PROVE  FramesSound' /\ FramesUnmixed'
<1>1. FramesSound /\ FramesUnmixed
    BY DEF IInv
<1>2. UNCHANGED <<frame, out, mixed, timed_out, kind>>
    BY DEF Between, NextCall, Returned, Failed
<1>3. \A u \in Threads : at'[u] \in {"idle", "id"} \/ (at'[u] = at[u] /\ call'[u] = call[u])
    BY Basics DEF Between, NextCall, Returned, Failed, Enter, Leave
<1>4. FramesSound'
    BY <1>1, <1>2, <1>3, SharingEnds DEF FramesSound
<1> QED BY <1>1, <1>2, <1>4 DEF FramesUnmixed

(* A thread that is alone in a call writes the frame it composed.           *)
LEMMA CallFrames ==
    ASSUME IInv, NEW t \in Threads, CallStep(t), UNCHANGED owner
    PROVE  FramesSound' /\ FramesUnmixed'
<1>1. FramesSound /\ FramesUnmixed /\ DriverTypeOK
    BY DEF IInv, TypeOK
<1>2. Shared' = Shared
    BY DEF Shared
<1>3. /\ call' = call /\ at[t] # "idle"
      /\ \A u \in Threads \ {t} : at'[u] = at[u]
    BY Basics DEF CallStep, Refuse, SendId, SendData, SendCopy, Write, Raise, Recv, Poll, GiveUp, Goto
<1>4. call[t] \in DriverCalls
    BY <1>3 DEF IInv, Turns, InScript, Protocol
<1>5. ASSUME kind = "chain", Foreign[kind] = {}, ~Shared
      PROVE  /\ at'[t] \in {"data", "copy"} => frame'.id = IdOf(call[t])
             /\ at'[t] = "copy" => frame'.data = call[t]
             /\ at'[t] = "write" => out'[t] = Composed(call[t])
             /\ mixed' => mixed
  <2>1. frame \in [id : [off : {"own", "vel", "posvel", "emit", "param"}, m : Motors \cup {NoMotor}],
                   data : Calls]
        /\ out \in [Threads -> Frames]
      BY <1>1 DEF DriverTypeOK, Frames
  <2>2. CASE SendId(t)
      BY <2>1, <2>2, Basics DEF SendId, Goto
  <2>3. CASE SendData(t)
      BY <2>1, <2>3, <1>1, <1>5, Basics DEF SendData, Goto, FramesSound
  <2>4. CASE SendCopy(t)
    <3>1. frame.id = IdOf(call[t]) /\ frame.data = call[t]
        BY <2>4, <1>1, <1>5 DEF SendCopy, Goto, FramesSound
    <3>2. frame = Composed(call[t])
        BY <3>1, <2>1 DEF Composed
    <3> QED BY <2>1, <2>4, <3>2, Basics DEF SendCopy, Goto
  <2>5. CASE Write(t)
    <3>1. out[t] = Composed(call[t])
        BY <2>5, <1>1, <1>5 DEF Write, Goto, FramesSound
    <3>2. mixed' => mixed
        BY <3>1, <2>5 DEF Write
    <3>3. at'[t] = "reply"
        BY <2>5, Basics DEF Write, Goto
    <3> QED BY <3>2, <3>3
  <2>6. CASE Raise(t)
      BY <2>6, Basics DEF Raise
  <2>7. CASE Refuse(t) \/ Recv(t) \/ Poll(t) \/ GiveUp(t)
    <3>1. at'[t] \in {"reply", "done"} /\ (mixed' => mixed)
        BY <2>7, Basics DEF Refuse, Recv, Poll, GiveUp, Goto
    <3> QED BY <3>1
  <2> QED BY <2>2, <2>3, <2>4, <2>5, <2>6, <2>7 DEF CallStep
<1>6. kind = "chain" /\ ~Shared => \A u \in Threads \ {t} : at'[u] = "idle"
    BY <1>3, Alone
<1>7. FramesSound'
    BY <1>2, <1>3, <1>5, <1>6 DEF FramesSound
<1>8. FramesUnmixed'
  <2>1. Shared => timed_out'
      BY DEF Shared
  <2> QED BY <2>1, <1>1, <1>5 DEF FramesUnmixed
<1> QED BY <1>7, <1>8

-----------------------------------------------------------------------------
(* Supply, streams and answers.                                             *)

(* Nothing that is on is without supply.                                    *)
LEMMA SessionSupply ==
    ASSUME IInv, Session
    PROVE  Supply'
<1>1. Supply
    BY DEF IInv
<1>2. UNCHANGED <<power, on>> /\ clean' \in {clean, power}
    BY DEF Session, Start, OpenBus, Started, Act, Acted, SetRelease, Stop, Joined, JoinTimeout, Stopped,
       Cycle, Observe, OtherObject
<1> QED BY <1>1, <1>2 DEF Supply

(* A motor without supply is not switched on.                               *)
LEMMA CallSupply ==
    ASSUME IInv, NEW t \in Threads, CallStep(t), UNCHANGED owner
    PROVE  Supply'
<1>1. Supply
    BY DEF IInv
<1>2. UNCHANGED <<power, clean>>
    BY DEF CallStep, Refuse, SendId, SendData, SendCopy, Write, Raise, Recv, Poll, GiveUp
<1>3. ~power => on' = on
    BY DEF CallStep, Refuse, SendId, SendData, SendCopy, Write, Raise, Recv, Poll, GiveUp, Obey
<1> QED BY <1>1, <1>2, <1>3 DEF Supply

(* The supply fails and comes back.                                         *)
LEMMA BusSupply ==
    ASSUME IInv, BusStep, UNCHANGED owner
    PROVE  Supply'
<1>1. Supply
    BY DEF IInv
<1>2. CASE Wedge \/ Unplug \/ Drain
    BY <1>1, <1>2 DEF Wedge, Unplug, Drain, Fault, Supply
<1>3. CASE CutPower
    BY <1>3 DEF CutPower, Fault, Supply
<1>4. CASE RestorePower
    BY <1>1, <1>4 DEF RestorePower, Supply
<1> QED BY <1>2, <1>3, <1>4 DEF BusStep

StreamKept == data_save' = data_save /\ wire' = wire
(* Only a write and a read move the streams of tokens.                      *)
LEMMA CallStreams ==
    ASSUME IInv, NEW t \in Threads, CallStep(t)
    PROVE  \/ StreamKept /\ answered' = answered
           \/ Write(t)
           \/ /\ \E a \in {<<>>, data_save}, s \in Seq(Tokens) :
                   Reads(a, wire, s, wire') /\ data_save' = Remainder(s)
              /\ answered' = answered
<1>1. CASE Refuse(t) \/ SendId(t) \/ SendData(t) \/ SendCopy(t) \/ Raise(t) \/ GiveUp(t)
    BY <1>1 DEF Refuse, SendId, SendData, SendCopy, Raise, GiveUp, StreamKept
<1>2. data_save \in Seq(Tokens) /\ wire \in Seq(Tokens)
    BY DEF IInv, TypeOK, DriverTypeOK
<1>3. ASSUME NEW n \in 0..Len(wire) PROVE SubSeq(wire, 1, n) \in Seq(Tokens)
    BY <1>2
<1>4. CASE Recv(t)
  <2>1. PICK n \in 0..Len(wire) :
           /\ data_save' = Remainder(data_save \o SubSeq(wire, 1, n))
           /\ wire' = SubSeq(wire, n + 1, Len(wire))
      BY <1>4 DEF Recv
  <2>2. data_save \o SubSeq(wire, 1, n) \in Seq(Tokens)
      BY <1>2, <1>3
  <2>3. Reads(data_save, wire, data_save \o SubSeq(wire, 1, n), wire')
      BY <2>1 DEF Reads
  <2>4. answered' = answered
      BY <1>4 DEF Recv
  <2> QED BY <2>1, <2>2, <2>3, <2>4
<1>5. CASE Poll(t)
  <2>1. PICK n \in 0..Len(wire) :
           /\ data_save' = Remainder(SubSeq(wire, 1, n))
           /\ wire' = SubSeq(wire, n + 1, Len(wire))
      BY <1>5 DEF Poll
  <2>2. SubSeq(wire, 1, n) \in Seq(Tokens) /\ <<>> \o SubSeq(wire, 1, n) = SubSeq(wire, 1, n)
      BY <1>3
  <2>3. Reads(<<>>, wire, SubSeq(wire, 1, n), wire')
      BY <2>1, <2>2 DEF Reads
  <2>4. answered' = answered
      BY <1>5 DEF Poll
  <2> QED BY <2>1, <2>2, <2>3, <2>4
<1> QED BY <1>1, <1>4, <1>5 DEF CallStep

(* What a read leaves.                                                      *)
LEMMA ReadLeaves ==
    ASSUME IInv, NEW a \in {<<>>, data_save}, NEW s \in Seq(Tokens), Reads(a, wire, s, wire'),
           data_save' = Remainder(s)
    PROVE  /\ Alternates(data_save' \o wire')
           /\ ToSet(s) \subseteq ToSet(data_save) \cup ToSet(wire)
           /\ ToSet(data_save') \subseteq ToSet(data_save) \cup ToSet(wire)
           /\ ToSet(wire') \subseteq ToSet(wire)
<1>1. data_save \in Seq(Tokens) /\ wire \in Seq(Tokens) /\ Alternates(data_save \o wire)
    BY DEF IInv, Stream, TypeOK, DriverTypeOK
<1>2. PICK w, rest : w = wire /\ rest = wire'
    OBVIOUS
<1>3. a \in Seq(Tokens) /\ Alternates(a \o w)
  <2>1. CASE a = <<>>
    <3>1. Alternates(<<>> \o wire)
        BY <1>1, AlternatesSuffix
    <3> QED BY <2>1, <3>1, <1>2
  <2>2. CASE a = data_save
      BY <1>1, <1>2, <2>2
  <2> QED BY <2>1, <2>2
<1>4. ToSet(a) \subseteq ToSet(data_save)
  <2>1. CASE a = <<>>
      BY <2>1 DEF ToSet
  <2>2. CASE a = data_save
      BY <2>2
  <2> QED BY <2>1, <2>2
<1>5. Reads(a, w, s, rest) /\ w \in Seq(Tokens)
    BY <1>1, <1>2
<1>6. /\ ToSet(s) \subseteq ToSet(a) \cup ToSet(w) /\ ToSet(rest) \subseteq ToSet(w)
      /\ ToSet(Remainder(s)) \subseteq ToSet(s) /\ Alternates(Remainder(s) \o rest)
    BY <1>3, <1>5, Reading
<1> QED BY <1>2, <1>4, <1>6

(* Parts of replies alternate, whatever is written and read.                *)
LEMMA CallStream ==
    ASSUME IInv, NEW t \in Threads, CallStep(t)
    PROVE  Stream'
<1>1. data_save \in Seq(Tokens) /\ wire \in Seq(Tokens) /\ Alternates(data_save \o wire) /\ DriverTypeOK
    BY DEF IInv, Stream, TypeOK, DriverTypeOK
<1>2. CASE StreamKept
    BY <1>1, <1>2 DEF Stream, StreamKept
<1>3. CASE Write(t)
  <2>1. data_save' = data_save
      BY <1>3 DEF Write
  <2>2. CASE wire' = wire
      BY <1>1, <2>1, <2>2 DEF Stream
  <2>3. CASE wire' # wire
    <3>1. PICK r \in Replies : wire' = wire \o <<Heading(r), Ending(r)>>
        BY <1>1, <1>3, <2>3, WriteFacts
    <3>2. Alternates(data_save \o (wire \o <<Heading(r), Ending(r)>>))
        BY <1>1, PutOnWire
    <3> QED BY <3>1, <3>2, <2>1 DEF Stream
  <2> QED BY <2>2, <2>3
<1>4. ASSUME NEW a \in {<<>>, data_save}, NEW s \in Seq(Tokens),
             Reads(a, wire, s, wire'), data_save' = Remainder(s)
      PROVE  Stream'
    BY <1>4, ReadLeaves DEF Stream
<1> QED BY <1>2, <1>3, <1>4, CallStreams

(* The port is opened with nothing on the wire.                             *)
LEMMA SessionStream ==
    ASSUME IInv, Session
    PROVE  Stream'
<1>1. StreamKept \/ (data_save' = <<>> /\ wire' = <<>>)
    BY DEF Session, Start, OpenBus, Started, Act, Acted, SetRelease, Stop, Joined, JoinTimeout, Stopped,
       Cycle, Observe, OtherObject, StreamKept
<1>2. Alternates(<<>> \o <<>>)
    BY DEF Alternates
<1> QED BY <1>1, <1>2 DEF IInv, Stream, StreamKept

(* A fresh connection has heard nothing, and is to read every motor.        *)
LEMMA SessionAnswers ==
    ASSUME IInv, Session
    PROVE  Answers'
<1>1. Answers /\ Turns /\ Methods
    BY DEF IInv
<1>2. CASE Start
  <2>1. wire' = <<>> /\ data_save' = <<>> /\ answered' = {}
        /\ UNCHANGED <<ret, at, call, kind>>
      BY <1>2 DEF Start, OpenBus
  <2>2. Heard(wire)' /\ Heard(data_save)'
      BY <2>1 DEF Heard, ToSet
  <2>3. kind = "chain" => param' = FreshParams
      BY <1>2 DEF Start, MotorObjects
  <2>4. \A m \in Motors : FreshParams[m] = "none"
      BY DEF FreshParams
  <2>5. \A t \in Threads : at[t] = "idle"
      BY <1>1, <1>2, Basics DEF Start, Turns, InScript, Protocol
  <2>6. \A t \in Threads : ret'[t] = "none"
      BY <1>1, <2>1, <2>5 DEF Answers
  <2>7. kind = "chain" => script'["user"] = ChainConfigure
      BY <1>2, Basics DEF Start, Run
  <2>8. kind = "chain" => \A m \in Motors : Do("read", m) \in ToSet(script'["user"])
    <3>1. \A m \in Motors : Do("read", m) \in ToSet(ChainConfigure)
        BY ChainScript
    <3> QED BY <2>7, <3>1 DEF ToSet
  <2> QED BY <2>1, <2>2, <2>3, <2>4, <2>6, <2>8 DEF Answers
<1>3. CASE Session /\ ~Start
  <2>1. UNCHANGED <<wire, data_save, answered, param, ret, at, call, kind>>
      BY <1>3 DEF Session, Started, Act, Acted, SetRelease, Stop, Joined, JoinTimeout, Stopped,
       Cycle, Observe, OtherObject
  <2>2. phase' = "start" => phase = "start" /\ script'["user"] = script["user"]
      BY <1>3, Basics DEF Session, Started, Act, Acted, SetRelease, Stop, Joined, JoinTimeout, Stopped,
         Cycle, Observe, OtherObject, Run
  <2>3. Heard(wire)' /\ Heard(data_save)'
      BY <1>1, <2>1 DEF Answers, Heard
  <2>4. kind' = "chain" => \A m \in Motors : param'[m] # "none" => m \in answered'
      BY <1>1, <2>1 DEF Answers
  <2>5. \A t \in Threads : ret'[t] # "none" =>
          at'[t] = "done" /\ (kind' = "chain" => call'[t].m \in answered')
      BY <1>1, <2>1 DEF Answers
  <2>6. kind' = "chain" /\ phase' = "start" =>
          \A m \in Motors : m \in answered' \/ Do("read", m) \in ToSet(script'["user"])
      BY <1>1, <2>1, <2>2 DEF Answers
  <2> QED BY <2>3, <2>4, <2>5, <2>6 DEF Answers
<1> QED BY <1>2, <1>3

(* A read is popped only after it was answered; else the method ends.       *)
LEMMA BetweenAnswers ==
    ASSUME IInv, NEW t \in Threads, Between(t)
    PROVE  Answers'
<1>1. Answers /\ Turns
    BY DEF IInv
<1>2. script[t] # <<>>
    BY <1>1 DEF Turns, InScript, Protocol, Between, NextCall, Returned, Failed
<1>3. UNCHANGED <<wire, data_save, answered, param, kind>>
    BY DEF Between, NextCall, Returned, Failed
<1>4. Heard(wire)' /\ Heard(data_save)'
    BY <1>1, <1>3 DEF Answers, Heard
<1>5. ASSUME NEW u \in Threads, ret'[u] # "none"
      PROVE  at'[u] = "done" /\ (kind' = "chain" => call'[u].m \in answered')
  <2>1. ret[u] # "none" /\ at[u] = "done" /\ (kind = "chain" => call[u].m \in answered)
    <3>1. ret' = ret \/ ret' = [ret EXCEPT ![t] = "none"]
        BY DEF Between, NextCall, Returned, Failed
    <3> QED BY <1>1, <1>5, <3>1, Basics DEF Answers
  <2>2. u # t
    <3>1. CASE NextCall(t)
        BY <3>1, <2>1 DEF NextCall
    <3>2. CASE Returned(t)
        BY <3>2, <1>5, Basics DEF Returned
    <3>3. CASE Failed(t)
        BY <3>3, <2>1 DEF Failed, Unanswered
    <3> QED BY <3>1, <3>2, <3>3 DEF Between
  <2>3. at'[u] = at[u] /\ call'[u] = call[u]
      BY <2>2, Basics DEF Between, NextCall, Returned, Failed, Enter, Leave
  <2> QED BY <1>3, <2>1, <2>3
<1>6. ASSUME kind' = "chain", phase' = "start", NEW m \in Motors, m \notin answered'
      PROVE  Do("read", m) \in ToSet(script'["user"])
  <2>1. kind = "chain" /\ phase = "start" /\ m \notin answered
      BY <1>3, <1>6 DEF Between, NextCall, Returned, Failed
  <2>2. Do("read", m) \in ToSet(script["user"])
      BY <1>1, <2>1 DEF Answers
  <2>3. CASE t # "user" \/ script' = script
    <3>1. script'["user"] = script["user"]
        BY <2>3, ScriptsShrink, Basics
    <3> QED BY <2>2, <3>1
  <2>4. CASE t = "user" /\ script' # script
    <3>1. ~Failed(t)
        BY <1>6, <2>4, <2>1 DEF Failed
    <3>2. script' = [script EXCEPT !["user"] = Tail(script["user"])] /\ Head(script["user"]) # Do("read", m)
      <4>1. CASE NextCall(t)
          BY <2>4, <4>1 DEF NextCall, Pop, Run, Do, Call
      <4>2. CASE Returned(t)
        <5>1. ~Unanswered(t) /\ at[t] = "done" /\ Pop(t)
            BY <2>4, <4>2 DEF Returned
        <5>2. call[t] = Head(script[t])
            BY <5>1, <1>1 DEF Turns, InScript, Protocol
        <5>3. ASSUME call[t] = Do("read", m) PROVE FALSE
          <6>1. call[t].op = "read" /\ call[t].m = m
              BY <5>3 DEF Do, Call
          <6>2. ret[t] # "none"
              BY <5>1, <6>1 DEF Unanswered
          <6> QED BY <6>1, <6>2, <1>1, <2>1 DEF Answers
        <5> QED BY <5>1, <5>2, <5>3, <2>4 DEF Pop, Run
      <4> QED BY <3>1, <4>1, <4>2 DEF Between
    <3>3. Do("read", m) \in ToSet(Tail(script["user"]))
        BY <2>2, <2>4, <3>2, <1>2, Basics
    <3>4. script'["user"] = Tail(script["user"])
        BY <3>2, Basics
    <3> QED BY <3>3, <3>4
  <2> QED BY <2>3, <2>4
<1>7. kind' = "chain" => \A m \in Motors : param'[m] # "none" => m \in answered'
    BY <1>1, <1>3 DEF Answers
<1> QED BY <1>4, <1>5, <1>6, <1>7 DEF Answers

(* What is written to the wire is recorded as answered, what is read from it
   comes from there.                                                        *)
LEMMA CallAnswers ==
    ASSUME IInv, NEW t \in Threads, CallStep(t), UNCHANGED owner
    PROVE  Answers'
<1>1. Answers /\ Turns /\ DriverTypeOK
    BY DEF IInv, TypeOK
<1>2. call' = call /\ at[t] # "idle"
    BY DEF CallStep, Refuse, SendId, SendData, SendCopy, Write, Raise, Recv, Poll, GiveUp, Goto
<1>3. answered \subseteq answered' /\ Heard(wire)' /\ Heard(data_save)'
  <2>1. Heard(wire) /\ Heard(data_save)
      BY <1>1 DEF Answers
  <2>2. CASE StreamKept /\ answered' = answered
      BY <2>1, <2>2 DEF Heard, StreamKept
  <2>3. CASE Write(t)
    <3>1. data_save' = data_save
        BY <2>3 DEF Write
    <3>2. CASE wire' = wire /\ answered' = answered
        BY <2>1, <3>1, <3>2 DEF Heard
    <3>3. CASE ~(wire' = wire /\ answered' = answered)
      <4>1. PICK r \in Replies :
                   /\ wire' = wire \o <<Heading(r), Ending(r)>>
                   /\ answered' = IF r.about = "status" THEN answered ELSE answered \cup {r.m}
          BY <1>1, <2>3, <3>3, WriteFacts
      <4>2. data_save \in Seq(Tokens) /\ wire \in Seq(Tokens) /\ Alternates(data_save \o wire)
          BY <1>1 DEF IInv, Stream, DriverTypeOK
      <4>3. ToSet(wire \o <<Heading(r), Ending(r)>>) = ToSet(wire) \cup {Heading(r), Ending(r)}
          BY <4>2, PutOnWire
      <4>4. ToSet(wire') = ToSet(wire) \cup {Heading(r), Ending(r)}
          BY <4>1, <4>3
      <4>5. Heading(r).r = r /\ Ending(r).r = r
          BY DEF Heading, Ending
      <4>6. answered \subseteq answered' /\ (r.about # "status" => r.m \in answered')
          BY <4>1
      <4>7. Heard(wire)'
          BY <2>1, <4>4, <4>5, <4>6 DEF Heard
      <4>8. Heard(data_save)'
          BY <2>1, <3>1, <4>6 DEF Heard
      <4> QED BY <4>6, <4>7, <4>8
    <3> QED BY <3>2, <3>3
  <2>4. ASSUME NEW a \in {<<>>, data_save}, NEW s \in Seq(Tokens), Reads(a, wire, s, wire'),
               data_save' = Remainder(s), answered' = answered
        PROVE  Heard(wire)' /\ Heard(data_save)'
    <3>1. /\ ToSet(data_save') \subseteq ToSet(data_save) \cup ToSet(wire)
          /\ ToSet(wire') \subseteq ToSet(wire)
        BY <2>4, ReadLeaves
    <3> QED BY <2>1, <2>4, <3>1 DEF Heard
  <2> QED BY <2>2, <2>3, <2>4, CallStreams
<1>4. ASSUME kind = "chain", NEW m \in Motors, param'[m] # "none" PROVE m \in answered'
  <2>1. CASE param' = param
      BY <1>1, <1>3, <1>4, <2>1 DEF Answers
  <2>2. CASE param' # param
    <3>1. Poll(t)
        BY <2>2 DEF CallStep, Refuse, SendId, SendData, SendCopy, Write, Raise, Recv, GiveUp
    <3>2. PICK n \in 0..Len(wire) :
           /\ param' = ProcessParams(SubSeq(wire, 1, n))
           /\ data_save' = Remainder(SubSeq(wire, 1, n))
           /\ wire' = SubSeq(wire, n + 1, Len(wire))
        BY <3>1 DEF Poll
    <3>3. PICK s : s = SubSeq(wire, 1, n)
        OBVIOUS
    <3>4. wire \in Seq(Tokens) /\ param \in [Motors -> Modes \cup {"none"}]
        BY <1>1 DEF DriverTypeOK
    <3>5. s \in Seq(Tokens) /\ <<>> \o SubSeq(wire, 1, n) = s
        BY <3>3, <3>4
    <3>6. Reads(<<>>, wire, s, wire')
        BY <3>2, <3>5 DEF Reads
    <3>7. ToSet(s) \subseteq ToSet(data_save) \cup ToSet(wire)
        BY <3>2, <3>3, <3>5, <3>6, ReadLeaves
    <3>8. param'[m] = param[m] \/ \E x \in ToSet(s) : x.r.m = m /\ x.r.about # "status"
        BY <3>2, <3>3, <3>4, <3>5, ProcessParamsType
    <3>9. \A x \in ToSet(s) : x.r.about # "status" => x.r.m \in answered
        BY <3>7, <1>1 DEF Answers, Heard
    <3> QED BY <3>8, <3>9, <1>1, <1>3, <1>4 DEF Answers
  <2> QED BY <2>1, <2>2
<1>5. ASSUME NEW u \in Threads, ret'[u] # "none"
      PROVE  at'[u] = "done" /\ (kind' = "chain" => call'[u].m \in answered')
  <2>1. CASE ret[u] # "none" /\ u # t
    <3>1. at'[u] = at[u]
        BY <2>1, Basics DEF CallStep, Refuse, SendId, SendData, SendCopy, Write, Raise, Recv, Poll,
           GiveUp, Goto
    <3> QED BY <1>1, <1>2, <1>3, <2>1, <3>1 DEF Answers
  <2>2. CASE ret[u] = "none" \/ u = t
    <3>1. ret[u] = "none"
      <4>1. at[t] # "done"
          BY DEF CallStep, Refuse, SendId, SendData, SendCopy, Write, Raise, Recv, Poll, GiveUp, Goto
      <4> QED BY <2>2, <4>1, <1>1 DEF Answers
    <3>2. Poll(t)
        BY <1>5, <3>1, Basics DEF CallStep, Refuse, SendId, SendData, SendCopy, Write, Raise, Recv, GiveUp
    <3>3. u = t /\ at'[t] = "done" /\ ret'[t] = param'[call[t].m]
        BY <1>5, <3>1, <3>2, Basics DEF Poll
    <3>4. call[t].m \in Motors
        BY <1>1, <1>2 DEF Turns, InScript, Protocol, DriverCalls
    <3> QED BY <1>2, <1>4, <1>5, <3>3, <3>4
  <2> QED BY <2>1, <2>2
<1>6. kind' = "chain" /\ phase' = "start" =>
          \A m \in Motors : m \in answered' \/ Do("read", m) \in ToSet(script'["user"])
    BY <1>1, <1>3 DEF Answers
<1> QED BY <1>3, <1>4, <1>5, <1>6 DEF Answers

-----------------------------------------------------------------------------
(* The shutdown and the set-up.                                             *)

(* A shutdown starts with every motor still to be disabled.                 *)
LEMMA SessionTearDown ==
    ASSUME IInv, Session
    PROVE  TearDown'
<1>1. TearDown /\ Turns
    BY DEF IInv
<1>2. /\ UNCHANGED <<at, adapter, on>>
      /\ port_open' => port_open \/ Start
    BY OnlyTheFrame DEF Session, Start, OpenBus, Started, Act, Acted, SetRelease, Stop, Joined,
       JoinTimeout, Stopped, Cycle, Observe
<1>3. Start => \A t \in Threads : at[t] = "idle"
    BY <1>1, Basics DEF Start, Turns, InScript, Protocol
<1>4. RaisedFor'
    BY <1>1, <1>2, <1>3 DEF RaisedFor, TearDown, Closing, Doomed
<1>5. ASSUME Closing' PROVE Doomed'
  <2>1. CASE Stop \/ Joined
    <3>1. script' = [script EXCEPT !["user"] = DisableAll]
        BY <1>5, <2>1 DEF Closing, Stop, Joined, Run
    <3>2. at["user"] = "idle"
        BY <1>1, <2>1, Basics DEF Turns, InScript, Protocol, Stop, Joined
    <3>3. Pending("user")' = DisableAll
        BY <1>2, <3>1, <3>2, Basics DEF Pending
    <3>4. \A m \in Motors : Do("disable", m) \in ToSet(DisableAll)
        BY ShutdownScript
    <3> QED BY <3>3, <3>4 DEF Doomed
  <2>2. CASE Cycle \/ Observe \/ OtherObject
    <3>1. Closing /\ script'["user"] = script["user"]
        BY <1>2, <1>5, <2>2, Basics, OnlyTheFrame DEF Closing, Cycle, Observe, Run
    <3>2. Pending("user")' = Pending("user")
        BY <1>2, <3>1 DEF Pending
    <3> QED BY <1>1, <1>2, <3>1, <3>2 DEF TearDown, Closing, Doomed, RaisedFor
  <2>3. ~(Start \/ Started \/ Act \/ Acted \/ SetRelease \/ JoinTimeout \/ Stopped)
      BY <1>5 DEF Closing, Start, Started, Act, Acted, SetRelease, JoinTimeout, Stopped
  <2> QED BY <2>1, <2>2, <2>3 DEF Session
<1> QED BY <1>4, <1>5 DEF TearDown

(* While the motors are being switched off no other call than a read of the
   publisher is made.                                                       *)
LEMMA ClosingCalls ==
    ASSUME IInv, Closing
    PROVE  /\ port_open /\ \A c \in ToSet(script["user"]) : c.op = "disable"
           /\ kind = "chain" => script["motor"] = <<>>
           /\ kind = "follower" => \A c \in ToSet(script["motor"]) : c.op = "refresh"
<1>1. Turns /\ Methods
    BY DEF IInv
<1>2. kind = "chain" => worker # "loop"
    BY <1>1 DEF Turns, InScript, Protocol, Closing
<1> QED BY <1>1, <1>2, EmptyScript DEF Turns, InScript, Protocol, Methods, Closing

(* A disable is popped only after it was written, or behind an adapter that
   is gone.                                                                 *)
LEMMA BetweenTearDown ==
    ASSUME IInv, NEW t \in Threads, Between(t)
    PROVE  TearDown'
<1>1. TearDown /\ Turns
    BY DEF IInv
<1>2. script[t] # <<>>
    BY <1>1 DEF Turns, InScript, Protocol, Between, NextCall, Returned, Failed
<1>3. UNCHANGED <<adapter, on, port_open, kind, release, timed_out, mixed>>
    BY DEF Between, NextCall, Returned, Failed
<1>4. \A u \in Threads : at'[u] = "raised" => at[u] = "raised"
    BY Basics DEF Between, NextCall, Returned, Failed, Enter, Leave
<1>5. RaisedFor'
    BY <1>1, <1>3, <1>4 DEF RaisedFor, TearDown, Closing, Doomed
<1>6. ASSUME Closing' PROVE Doomed'
  <2>1. Closing
      BY <1>3, <1>6 DEF Closing, Between, NextCall, Returned, Failed
  <2>2. CASE t # "user"
    <3>1. script'["user"] = script["user"] /\ at'["user"] = at["user"]
        BY <2>2, ScriptsShrink, Basics DEF Between, NextCall, Returned, Failed, Enter, Leave
    <3>2. Pending("user")' = Pending("user")
        BY <3>1 DEF Pending
    <3> QED BY <1>1, <1>3, <2>1, <3>2 DEF TearDown, Closing, Doomed, RaisedFor
  <2>3. CASE t = "user"
    <3>1. Head(script["user"]).op = "disable"
        BY <2>1, <2>3, <1>2, ClosingCalls, Basics
    <3>2. Pending("user")' = Pending("user")
      <4>1. CASE NextCall(t)
        <5>1. at["user"] = "idle" /\ at' = [at EXCEPT !["user"] = "id"] /\ script' = script
            BY <4>1, <2>3, <3>1 DEF NextCall, Enter
        <5> QED BY <5>1, Basics DEF Pending
      <4>2. CASE Returned(t)
        <5>1. call[t] = Head(script[t])
            BY <4>2, <1>1 DEF Returned, Turns, InScript, Protocol
        <5>2. at["user"] = "done" /\ at' = [at EXCEPT !["user"] = "idle"]
              /\ script' = [script EXCEPT !["user"] = Tail(script["user"])]
            BY <4>2, <5>1, <2>3, <3>1 DEF Returned, StillOpening, Leave, Pop, Run
        <5> QED BY <5>2, Basics DEF Pending
      <4>3. CASE Failed(t)
        <5>1. call[t] = Head(script[t])
            BY <4>3, <1>1 DEF Failed, Turns, InScript, Protocol
        <5>2. at[t] = "raised"
            BY <4>3, <5>1, <2>3, <3>1 DEF Failed, Unanswered
        <5> QED BY <5>2, <1>1, <2>1, ClosingCalls DEF TearDown, Closing, Doomed, RaisedFor
      <4> QED BY <4>1, <4>2, <4>3 DEF Between
    <3> QED BY <1>1, <1>3, <2>1, <3>2 DEF TearDown, Closing, Doomed, RaisedFor
  <2> QED BY <2>2, <2>3
<1> QED BY <1>5, <1>6 DEF TearDown

(* How the steps of a call move the thread's pending calls.                 *)
LEMMA CallPends ==
    ASSUME IInv, NEW t \in Threads, CallStep(t), UNCHANGED owner
    PROVE  /\ call[t] = Head(script[t]) /\ call[t] \in DriverCalls /\ script[t] # <<>>
           /\ \A u \in Threads \ {t} : Pending(u)' = Pending(u) /\ at'[u] = at[u]
           /\ \/ /\ Pending(t)' = Pending(t) /\ on' = on /\ mode' = mode
                 /\ at'[t] \notin {"idle", "raised"}
              \/ /\ Refuse(t) /\ Pending(t) = script[t] /\ Pending(t)' = Tail(script[t])
                 /\ on' = on /\ mode' = mode
              \/ Write(t) /\ Pending(t) = script[t] /\ Pending(t)' = Tail(script[t])
              \/ Raise(t) /\ on' = on /\ mode' = mode
<1>1. Turns
    BY DEF IInv
<1>2. script' = script
    OBVIOUS
<1>3. /\ at[t] # "idle"
      /\ \A u \in Threads \ {t} : at'[u] = at[u]
    BY Basics DEF CallStep, Refuse, SendId, SendData, SendCopy, Write, Raise, Recv, Poll, GiveUp, Goto
<1>4. CASE SendId(t) \/ SendData(t) \/ SendCopy(t) \/ Recv(t) \/ Poll(t) \/ GiveUp(t)
  <2>1. /\ on' = on /\ mode' = mode /\ at'[t] \notin {"idle", "raised"}
        /\ at[t] \in {"reply", "done"} <=> at'[t] \in {"reply", "done"}
      BY <1>4, Basics DEF SendId, SendData, SendCopy, Recv, Poll, GiveUp, Goto
  <2> QED BY <1>1, <1>2, <1>3, <2>1 DEF Pending, Turns, InScript, Protocol
<1>5. CASE Refuse(t) \/ Write(t)
  <2>1. /\ at[t] \notin {"reply", "done"} /\ at'[t] \in {"reply", "done"}
        /\ Refuse(t) => on' = on /\ mode' = mode
      BY <1>5, Basics DEF Refuse, Write, Goto
  <2> QED BY <1>1, <1>2, <1>3, <1>5, <2>1 DEF Pending, Turns, InScript, Protocol
<1>6. CASE Raise(t)
  <2>1. on' = on /\ mode' = mode
      BY <1>6 DEF Raise
  <2> QED BY <1>1, <1>2, <1>3, <1>6, <2>1 DEF Pending, Turns, InScript, Protocol
<1> QED BY <1>4, <1>5, <1>6 DEF CallStep

(* A disable that was written is obeyed; no other call comes between.       *)
LEMMA CallTearDown ==
    ASSUME IInv, NEW t \in Threads, CallStep(t), UNCHANGED owner
    PROVE  TearDown'
<1>1. TearDown /\ Turns /\ Supply /\ DriverTypeOK
    BY DEF IInv, TypeOK
<1>2. UNCHANGED <<adapter, port_open>>
    BY DEF CallStep, Refuse, SendId, SendData, SendCopy, Write, Raise, Recv, Poll, GiveUp
<1>3. RaisedFor'
  <2>1. \A u \in Threads : at'[u] = "raised" => at[u] = "raised" \/ (u = t /\ Raise(t))
      BY Basics DEF CallStep, Refuse, SendId, SendData, SendCopy, Write, Recv, Poll, GiveUp, Goto, Raise
  <2>2. Raise(t) => adapter = "gone" \/ ~port_open
      BY DEF Raise
  <2> QED BY <1>1, <1>2, <2>1, <2>2 DEF RaisedFor, TearDown, Closing, Doomed
<1>4. ASSUME Closing' PROVE Doomed'
  <2>1. Closing /\ ~mixed'
    <3>1. mixed => mixed'
        BY <1>1 DEF CallStep, Refuse, SendId, SendData, SendCopy, Write, Raise, Recv, Poll, GiveUp,
           DriverTypeOK
    <3> QED BY <1>2, <1>4, <3>1 DEF Closing
  <2>2. Doomed
      BY <1>1, <2>1 DEF Closing, Doomed, TearDown, RaisedFor
  <2>3. call[t] = Head(script[t]) /\ call[t] \in DriverCalls /\ script[t] # <<>>
      BY CallPends
  <2>4. CASE t # "user"
    <3>1. call[t].op = "refresh" /\ kind = "follower"
        BY <2>1, <2>3, <2>4, ClosingCalls, Basics
    <3>2. \A m \in Motors : on'[m] => on[m]
      <4>1. CASE Write(t)
        <5>1. out[t] = Composed(call[t])
            BY <1>1, <2>1, <4>1, UnmixedWrite
        <5>2. \A m \in Motors : on'[m] =
                  IF power /\ m = call[t].m
                  THEN (on[m] \/ call[t].op = "enable") /\ call[t].op # "disable" ELSE on[m]
            BY <1>1, <2>3, <4>1, <5>1, ComposedWrite
        <5> QED BY <3>1, <5>2
      <4>2. CASE ~Write(t)
          BY <4>2, CallPends
      <4> QED BY <4>1, <4>2
    <3>3. Pending("user")' = Pending("user")
        BY <2>4, CallPends, Basics
    <3> QED BY <2>2, <3>2, <3>3 DEF Doomed
  <2>5. ASSUME t = "user" PROVE call[t].op = "disable" /\ ~Refuse(t) /\ ~Raise(t)
    <3>1. call[t].op = "disable"
        BY <2>1, <2>3, <2>5, ClosingCalls, Basics
    <3> QED BY <2>1, <3>1, ClosingCalls, Alphabet DEF Closing, Refuse, Raise
  <2>7. CASE t = "user" /\ Pending(t)' = Pending(t) /\ on' = on
      BY <2>2, <2>7 DEF Doomed
  <2>8. CASE t = "user" /\ Write(t) /\ Pending(t) = script[t] /\ Pending(t)' = Tail(script[t])
    <3>1. out[t] = Composed(call[t])
        BY <1>1, <2>1, <2>8, UnmixedWrite
    <3>2. \A m \in Motors : on'[m] =
                IF power /\ m = call[t].m
                THEN (on[m] \/ call[t].op = "enable") /\ call[t].op # "disable" ELSE on[m]
        BY <1>1, <2>3, <2>8, <3>1, ComposedWrite
    <3>3. ASSUME NEW m \in Motors, on'[m]
          PROVE  Do("disable", m) \in ToSet(Tail(script[t]))
      <4>1. power
          BY <1>1, <3>2, <3>3 DEF Supply
      <4>2. m # call[t].m /\ on[m]
          BY <3>2, <3>3, <4>1, <2>5, <2>8
      <4>3. Do("disable", m) # Head(script[t])
          BY <4>2, <2>3 DEF Do, Call
      <4>4. Do("disable", m) \in ToSet(script[t])
          BY <2>2, <2>8, <4>2 DEF Doomed
      <4> QED BY <4>3, <4>4, <2>3, Basics
    <3>4. Pending("user")' = Tail(script[t])
        BY <2>8
    <3> QED BY <3>3, <3>4 DEF Doomed
  <2> QED BY <2>4, <2>5, <2>7, <2>8, CallPends
<1> QED BY <1>3, <1>4 DEF TearDown

(* No fault switches a motor on.                                            *)
LEMMA BusTearDown ==
    ASSUME IInv, BusStep, UNCHANGED owner
    PROVE  TearDown'
<1>1. TearDown /\ Supply
    BY DEF IInv
<1>2. UNCHANGED <<at, port_open, script, mixed>>
    BY DEF BusStep
<1>3. (\A m \in Motors : on'[m] => on[m]) /\ (adapter = "gone" => adapter' = "gone")
    BY DEF BusStep, Wedge, Unplug, Drain, CutPower, RestorePower, Fault
<1>4. RaisedFor'
    BY <1>1, <1>2, <1>3 DEF RaisedFor, TearDown, Closing, Doomed
<1>5. Pending("user")' = Pending("user")
    BY <1>2 DEF Pending
<1>6. ASSUME Closing' PROVE Doomed'
    BY <1>1, <1>2, <1>3, <1>5, <1>6 DEF Closing, Doomed, TearDown, RaisedFor
<1> QED BY <1>4, <1>6 DEF TearDown

(* While the arm is ready no call switches a motor off or to another mode.  *)
LEMMA ReadyCalls ==
    ASSUME IInv, ready
    PROVE  \A t \in Threads : \A c \in ToSet(script[t]) : c.op \notin {"disable", "switch"}
<1>1. Turns /\ Methods
    BY DEF IInv
<1>2. phase \in {"idle", "act"} /\ running
    BY <1>1 DEF Turns, InScript, Protocol
<1>3. SetPoints \cup StatusCalls = {"mit", "posvel", "vel", "emit", "refresh", "home"}
    BY Alphabet DEF StatusCalls
<1>4. \A c \in ToSet(script["user"]) : c.op \in SetPoints \cup StatusCalls
    BY <1>1, <1>2, EmptyScript DEF Turns, InScript, Protocol, Methods
<1>5. \A c \in ToSet(script["motor"]) : c.op \in SetPoints \cup {"refresh"}
    BY <1>1 DEF Methods
<1> QED BY <1>3, <1>4, <1>5, Basics

(* Both set-ups start with all that is needed; when nothing is left of one,
   the arm is ready.                                                        *)
LEMMA SessionSetUp ==
    ASSUME IInv, Session
    PROVE  SetUp'
<1>1. SetUp /\ Turns
    BY DEF IInv
<1>2. UNCHANGED <<on, mode, at, kind>>
    BY DEF Session, Start, Started, Act, Acted, SetRelease, Stop, Joined, JoinTimeout, Stopped,
       Cycle, Observe, OtherObject
<1>3. Energised' = Energised /\ \A m \in Motors : Target(m)' = Target(m)
    BY <1>2 DEF Energised, Target, ArmMode
<1>4. CASE Start
  <2>1. ready' = FALSE /\ at["user"] = "idle"
      BY <1>1, <1>4, Basics DEF Start, Turns, InScript, Protocol
  <2>2. script'["user"] = IF kind = "chain" THEN ChainConfigure ELSE FollowerConfigure
      BY <1>4, Basics DEF Start, Run
  <2>3. PICK s : s = script'["user"]
      OBVIOUS
  <2>4. \A m \in Motors : Readies(s, m, Target(m))
      BY <2>2, <2>3, ChainScript, FollowerScript DEF Target, ArmMode
  <2>5. Pending("user")' = s
      BY <1>2, <2>1, <2>3 DEF Pending
  <2>6. ASSUME NEW m \in Motors PROVE Settled(Pending("user"), m)'
      BY <2>4, <2>5, <1>3 DEF Readies, Settled
  <2> QED BY <2>1, <2>6 DEF SetUp
<1>5. CASE Started
  <2>1. ASSUME clean, ~mixed PROVE Energised
    <3>1. at["user"] = "idle" /\ Pending("user") = <<>>
        BY <1>5, Basics DEF Started, Pending
    <3>2. \A m \in Motors : Settled(<<>>, m)
        BY <1>1, <1>5, <2>1, <3>1 DEF SetUp, Started
    <3> QED BY <3>2, EmptyScript DEF Settled, Energised
  <2>2. clean' = clean /\ mixed' = mixed /\ phase' # "start"
      BY <1>5 DEF Started
  <2> QED BY <2>1, <2>2, <1>3 DEF SetUp
<1>6. CASE Session /\ ~Start /\ ~Started
  <2>1. /\ clean' = clean /\ mixed' = mixed /\ (ready' => ready)
        /\ phase' = "start" => phase = "start" /\ script'["user"] = script["user"]
      BY <1>6, Basics, OnlyTheFrame
      DEF Session, Act, Acted, SetRelease, Stop, Joined, JoinTimeout, Stopped, Cycle, Observe, Run
  <2>2. ready' /\ clean' /\ ~mixed' => Energised'
      BY <1>1, <1>3, <2>1 DEF SetUp
  <2>3. ASSUME phase' = "start", at'["user"] # "raised", clean', ~mixed', NEW m \in Motors
        PROVE  Settled(Pending("user"), m)'
    <3>1. Settled(Pending("user"), m)
        BY <1>1, <1>2, <2>1, <2>3 DEF SetUp
    <3>2. PICK s : s = Pending("user")
        OBVIOUS
    <3>3. Pending("user")' = s
        BY <1>2, <2>1, <2>3, <3>2 DEF Pending
    <3> QED BY <3>1, <3>2, <3>3, <1>2, <1>3 DEF Settled
  <2> QED BY <2>2, <2>3 DEF SetUp
<1> QED BY <1>4, <1>5, <1>6

(* A set-up that has made its next call, when that had its effect.          *)
LEMMA SettledTail ==
    ASSUME NEW s \in Seq(ScriptCalls), s # <<>>, NEW m \in Motors, Settled(s, m)
    PROVE  /\ Head(s) \notin {Do("enable", m)} \cup {Switch(m, x) : x \in Modes} => Settled(Tail(s), m)
           /\ Mends(Tail(s), {Do("disable", m)}, Do("enable", m))
           /\ Mends(Tail(s), Others(m, Target(m)), Switch(m, Target(m)))
           /\ Head(s) = Do("disable", m) => Do("enable", m) \in ToSet(Tail(s))
           /\ Head(s) \in Others(m, Target(m)) => Switch(m, Target(m)) \in ToSet(Tail(s))
           /\ on[m] \/ Do("enable", m) = Head(s) \/ Do("enable", m) \in ToSet(Tail(s))
           /\ \/ mode[m] = Target(m) \/ Switch(m, Target(m)) = Head(s)
              \/ Switch(m, Target(m)) \in ToSet(Tail(s))
<1> DEFINE off == {Do("disable", m)}
           wrong == Others(m, Target(m))
           en == Do("enable", m)
           sw == Switch(m, Target(m))
<1>1. ToSet(s) = {Head(s)} \cup ToSet(Tail(s))
    BY HeadTail
<1>2. Mends(s, off, en) /\ Mends(s, wrong, sw) /\ (on[m] \/ en \in ToSet(s))
      /\ (mode[m] = Target(m) \/ sw \in ToSet(s))
    BY DEF Settled
<1>3. Target(m) \in Modes
    BY Alphabet DEF Target, ArmMode
<1> HIDE DEF off, wrong, en, sw
<1>4. /\ Mends(Tail(s), off, en) /\ (Head(s) \in off => en \in ToSet(Tail(s)))
      /\ Mends(Tail(s), wrong, sw) /\ (Head(s) \in wrong => sw \in ToSet(Tail(s)))
    BY <1>2, MendsTail
<1>5. (on[m] \/ en = Head(s) \/ en \in ToSet(Tail(s)))
      /\ (mode[m] = Target(m) \/ sw = Head(s) \/ sw \in ToSet(Tail(s)))
    BY <1>1, <1>2
<1>6. ASSUME Head(s) \notin {Do("enable", m)} \cup {Switch(m, x) : x \in Modes}
      PROVE  Settled(Tail(s), m)
  <2>1. Head(s) # en /\ Head(s) # sw
      BY <1>3, <1>6 DEF en, sw
  <2> QED BY <2>1, <1>4, <1>5 DEF Settled, off, wrong, en, sw
<1> QED BY <1>4, <1>5, <1>6 DEF off, wrong, en, sw

(* A harmless call in front mends nothing and spoils nothing.               *)
LEMMA MendsBefore ==
    ASSUME NEW X, NEW s \in Seq(X), s # <<>>, NEW bad, NEW good, Mends(Tail(s), bad, good),
           Head(s) \notin bad
    PROVE  Mends(s, bad, good)
<1>1. /\ Len(s) \in Nat /\ Len(s) > 0 /\ DOMAIN s = 1..Len(s)
      /\ Tail(s) \in Seq(X) /\ Len(Tail(s)) = Len(s) - 1
      /\ \A i \in 1..Len(Tail(s)) : Tail(s)[i] = s[i + 1]
    BY HeadTailProperties, EmptySeq
<1>2. DOMAIN Tail(s) = 1..(Len(s) - 1) /\ Head(s) = s[1]
    BY <1>1
<1> SUFFICES ASSUME NEW i \in 1..Len(s), s[i] \in bad
             PROVE  \E j \in 1..Len(s) : j > i /\ s[j] = good
    BY <1>1 DEF Mends
<1>3. i # 1
    BY <1>2
<1>4. i - 1 \in 1..(Len(s) - 1) /\ Tail(s)[i - 1] = s[i]
    BY <1>1, <1>3
<1>5. PICK k \in 1..(Len(s) - 1) : k > i - 1 /\ Tail(s)[k] = good
    BY <1>2, <1>4 DEF Mends
<1>6. k + 1 \in 1..Len(s) /\ k + 1 > i /\ s[k + 1] = good
    BY <1>1, <1>5
<1> QED BY <1>6

(* Calls that are popped between calls switch nothing; homing is entered
   again with the same calls to come.                                       *)
LEMMA BetweenSetUp ==
    ASSUME IInv, NEW t \in Threads, Between(t)
    PROVE  SetUp'
<1>1. SetUp /\ Turns
    BY DEF IInv
<1>2. UNCHANGED <<on, mode, kind, ready, clean, mixed>>
    BY DEF Between, NextCall, Returned, Failed
<1>3. Energised' = Energised /\ \A m \in Motors : Target(m)' = Target(m)
    BY <1>2 DEF Energised, Target, ArmMode
<1>4. ASSUME phase' = "start", at'["user"] # "raised", clean', ~mixed', NEW m \in Motors
      PROVE  Settled(Pending("user"), m)'
  <2>1. phase = "start" /\ script[t] # <<>>
      BY <1>1, <1>4, Basics DEF Turns, InScript, Protocol, Between, NextCall, Returned, Failed
  <2>a. CASE t # "user"
    <3>1. script'["user"] = script["user"] /\ at'["user"] = at["user"]
        BY <2>a, ScriptsShrink, Basics DEF Between, NextCall, Returned, Failed, Enter, Leave
    <3>2. PICK r : r = Pending("user")
        OBVIOUS
    <3>3. Pending("user")' = r
        BY <3>1, <3>2 DEF Pending
    <3>4. Settled(r, m)
        BY <1>1, <1>2, <1>4, <2>1, <3>1, <3>2 DEF SetUp
    <3> QED BY <3>3, <3>4, <1>2, <1>3 DEF Settled
  <2>2. CASE t = "user"
    <3>3. ~Failed(t)
        BY <2>1, <2>2, <1>4 DEF Failed
    <3>4. at["user"] # "raised"
        BY <2>2, <3>3 DEF Between, NextCall, Returned
    <3>5. Settled(Pending("user"), m)
        BY <1>1, <1>2, <1>4, <2>1, <3>4 DEF SetUp
    <3>6. PICK s : s = script["user"]
        OBVIOUS
    <3>7. s \in Seq(ScriptCalls) /\ s # <<>> /\ Head(s) \in ScriptCalls /\ Tail(s) \in Seq(ScriptCalls)
        BY <2>1, <2>2, <3>6, Basics
    <3>8. ASSUME NEW r, Pending("user")' = r, Settled(r, m)
          PROVE  Settled(Pending("user"), m)'
        BY <3>8, <1>2, <1>3 DEF Settled
    <3>9. CASE NextCall(t)
      <4>1. Settled(s, m)
          BY <2>2, <3>5, <3>6, <3>9 DEF NextCall, Pending
      <4>2. CASE Head(s).op = "add"
        <5>1. at["user"] = "idle" /\ at' = at /\ script'["user"] = Tail(s)
            BY <2>2, <3>6, <3>9, <4>2, Basics DEF NextCall, Pop, Run
        <5>2. Pending("user")' = Tail(s)
            BY <5>1 DEF Pending
        <5>3. Head(s) \notin {Do("enable", m)} \cup {Switch(m, x) : x \in Modes}
            BY <4>2 DEF Do, Switch, Call
        <5>4. Settled(Tail(s), m)
            BY <3>7, <4>1, <5>3, SettledTail
        <5> QED BY <3>8, <5>2, <5>4
      <4>3. CASE Head(s).op # "add"
        <5>1. at'["user"] = "id" /\ script' = script
            BY <2>2, <3>6, <3>9, <4>3, Basics DEF NextCall, Enter
        <5>2. Pending("user")' = s
            BY <3>6, <5>1 DEF Pending
        <5> QED BY <3>8, <5>2, <4>1
      <4> QED BY <4>2, <4>3
    <3>10. CASE Returned(t)
      <4>1. at["user"] = "done" /\ Settled(Tail(s), m)
          BY <2>2, <3>5, <3>6, <3>10 DEF Returned, Pending
      <4>2. CASE StillOpening(t)
        <5>1. at'["user"] = "id" /\ script' = script
            BY <2>2, <3>6, <3>10, <4>2, Basics DEF Returned, Enter
        <5>2. Pending("user")' = s
            BY <3>6, <5>1 DEF Pending
        <5>3. Head(s).op = "home"
            BY <1>1, <2>2, <3>6, <4>1, <4>2 DEF StillOpening, Turns, InScript, Protocol
        <5>4. Head(s) # Do("disable", m) /\ Head(s) \notin Others(m, Target(m))
            BY <5>3 DEF Do, Others, Switch, Call
        <5>5. Settled(s, m)
          <6>1. /\ Mends(Tail(s), {Do("disable", m)}, Do("enable", m))
                /\ Mends(Tail(s), Others(m, Target(m)), Switch(m, Target(m)))
              BY <4>1 DEF Settled
          <6>2. Head(s) \notin {Do("disable", m)}
              BY <5>4
          <6>3. /\ Mends(s, {Do("disable", m)}, Do("enable", m))
                /\ Mends(s, Others(m, Target(m)), Switch(m, Target(m)))
              BY <3>7, <5>4, <6>1, <6>2, MendsBefore
          <6>4. ToSet(Tail(s)) \subseteq ToSet(s)
              BY <3>7, HeadTail
          <6> QED BY <4>1, <6>3, <6>4 DEF Settled
        <5> QED BY <3>8, <5>2, <5>5
      <4>3. CASE ~StillOpening(t)
        <5>1. at'["user"] = "idle" /\ script'["user"] = Tail(s)
            BY <2>2, <3>6, <3>10, <4>3, Basics DEF Returned, Leave, Pop, Run
        <5>2. Pending("user")' = Tail(s)
            BY <5>1 DEF Pending
        <5> QED BY <3>8, <5>2, <4>1
      <4> QED BY <4>2, <4>3
    <3> QED BY <3>3, <3>9, <3>10 DEF Between
  <2> QED BY <2>a, <2>2
<1> QED BY <1>1, <1>2, <1>3, <1>4 DEF SetUp

(* Each written call takes the effect it is popped for.                     *)
LEMMA CallSetUp ==
    ASSUME IInv, NEW t \in Threads, CallStep(t), UNCHANGED owner
    PROVE  SetUp'
<1>1. SetUp /\ Turns /\ Methods /\ Supply /\ DriverTypeOK
    BY DEF IInv, TypeOK
<1>2. clean' = clean /\ (mixed => mixed')
    BY <1>1 DEF CallStep, Refuse, SendId, SendData, SendCopy, Write, Raise, Recv, Poll, GiveUp,
       DriverTypeOK
<1>3. \A m \in Motors : Target(m)' = Target(m)
    BY DEF Target, ArmMode
<1>4. call[t] = Head(script[t]) /\ call[t] \in DriverCalls /\ script[t] # <<>>
    BY CallPends
<1>5. ASSUME Write(t), ~mixed', clean
      PROVE  /\ \A m \in Motors : on'[m] =
                  IF m = call[t].m THEN (on[m] \/ call[t].op = "enable") /\ call[t].op # "disable"
                  ELSE on[m]
             /\ \A m \in Motors : mode'[m] =
                  IF m = call[t].m /\ call[t].op = "switch" THEN call[t].arg ELSE mode[m]
  <2>1. out[t] = Composed(call[t])
      BY <1>1, <1>5, UnmixedWrite
  <2>2. power
      BY <1>1, <1>5 DEF Supply
  <2> QED BY <1>1, <1>4, <1>5, <2>1, <2>2, ComposedWrite
<1>6. ASSUME ready', clean', ~mixed' PROVE Energised'
  <2>1. Energised
      BY <1>1, <1>2, <1>6 DEF SetUp
  <2>2. CASE ~Write(t)
    <3>1. on' = on /\ mode' = mode
        BY <2>2, CallPends
    <3> QED BY <2>1, <3>1, <1>3 DEF Energised
  <2>3. CASE Write(t)
    <3>1. call[t].op \notin {"disable", "switch"}
        BY <1>4, <1>6, ReadyCalls, Basics
    <3>2. \A m \in Motors : (on[m] => on'[m]) /\ mode'[m] = mode[m]
        BY <1>2, <1>5, <1>6, <2>3, <3>1
    <3> QED BY <2>1, <3>2, <1>3 DEF Energised
  <2> QED BY <2>2, <2>3
<1>7. ASSUME phase' = "start", at'["user"] # "raised", clean', ~mixed', NEW m \in Motors
      PROVE  Settled(Pending("user"), m)'
  <2>1. CASE t # "user"
    <3>1. at'["user"] = at["user"] /\ Pending("user")' = Pending("user")
        BY <2>1, CallPends, Basics
    <3>2. PICK r : r = Pending("user")
        OBVIOUS
    <3>3. Settled(r, m)
        BY <1>1, <1>2, <1>7, <3>1, <3>2 DEF SetUp
    <3>4. kind = "follower" /\ call[t].op = "refresh"
      <4>1. script["motor"] # <<>> /\ t = "motor"
          BY <1>4, <2>1, Basics
      <4>2. kind # "chain"
          BY <1>1, <1>7, <4>1 DEF Turns, Protocol
      <4> QED BY <1>1, <1>4, <4>1, <4>2, Basics DEF Methods
    <3>5. (on[m] => on'[m]) /\ mode'[m] = mode[m]
      <4>1. CASE Write(t)
          BY <1>2, <1>5, <1>7, <3>4, <4>1
      <4>2. CASE ~Write(t)
          BY <4>2, CallPends
      <4> QED BY <4>1, <4>2
    <3> QED BY <3>1, <3>2, <3>3, <3>5, <1>3 DEF Settled
  <2>2. CASE t = "user"
    <3>3. PICK s : s = script["user"]
        OBVIOUS
    <3>4. s \in Seq(ScriptCalls) /\ s # <<>> /\ Head(s) = call[t] /\ Tail(s) \in Seq(ScriptCalls)
        BY <1>4, <2>2, <3>3, Basics
    <3>5. ~Raise(t)
        BY <1>7, <2>2, Basics DEF Raise
    <3>6. at["user"] # "raised"
        BY <2>2, <3>5 DEF CallStep, Refuse, SendId, SendData, SendCopy, Write, Recv, Poll, GiveUp, Goto
    <3>7. Settled(Pending("user"), m)
        BY <1>1, <1>2, <1>7, <3>6 DEF SetUp
    <3>8. CASE Pending(t)' = Pending(t) /\ on' = on /\ mode' = mode
      <4>1. PICK r : r = Pending("user")
          OBVIOUS
      <4>2. Pending("user")' = r
          BY <2>2, <3>8, <4>1
      <4> QED BY <3>7, <3>8, <4>1, <4>2, <1>3 DEF Settled
    <3>9. CASE Refuse(t) /\ Pending(t) = script[t] /\ Pending(t)' = Tail(script[t]) /\ on' = on /\ mode' = mode
      <4>1. Head(s).op \in SetPoints
          BY <3>4, <3>9 DEF Refuse
      <4>2. Head(s) \notin {Do("enable", m)} \cup {Switch(m, x) : x \in Modes}
          BY <4>1, Alphabet DEF Do, Switch, Call
      <4>3. Settled(s, m)
          BY <2>2, <3>3, <3>7, <3>9
      <4>4. Settled(Tail(s), m)
          BY <3>4, <4>2, <4>3, SettledTail
      <4>5. Pending("user")' = Tail(s)
          BY <2>2, <3>3, <3>9
      <4> QED BY <3>9, <4>4, <4>5, <1>3 DEF Settled
    <3>10. CASE Write(t) /\ Pending(t) = script[t] /\ Pending(t)' = Tail(script[t])
      <4>1. Settled(s, m)
          BY <2>2, <3>3, <3>7, <3>10
      <4>2. /\ Mends(Tail(s), {Do("disable", m)}, Do("enable", m))
            /\ Mends(Tail(s), Others(m, Target(m)), Switch(m, Target(m)))
            /\ Head(s) = Do("disable", m) => Do("enable", m) \in ToSet(Tail(s))
            /\ Head(s) \in Others(m, Target(m)) => Switch(m, Target(m)) \in ToSet(Tail(s))
            /\ on[m] \/ Do("enable", m) = Head(s) \/ Do("enable", m) \in ToSet(Tail(s))
            /\ \/ mode[m] = Target(m) \/ Switch(m, Target(m)) = Head(s)
               \/ Switch(m, Target(m)) \in ToSet(Tail(s))
          BY <3>4, <4>1, SettledTail
      <4>3. /\ on'[m] = IF m = call[t].m
                        THEN (on[m] \/ call[t].op = "enable") /\ call[t].op # "disable" ELSE on[m]
            /\ mode'[m] = IF m = call[t].m /\ call[t].op = "switch" THEN call[t].arg ELSE mode[m]
          BY <1>2, <1>5, <1>7, <3>10
      <4>4. on'[m] \/ Do("enable", m) \in ToSet(Tail(s))
        <5>1. CASE Do("enable", m) = Head(s)
          <6>1. call[t].op = "enable" /\ call[t].m = m
              BY <3>4, <5>1 DEF Do, Call
          <6> QED BY <4>3, <6>1
        <5>2. CASE on[m] /\ call[t].op = "disable" /\ call[t].m = m
          <6>1. call[t] = Do("disable", m)
              BY <1>4, <5>2 DEF DriverCalls, Do, Call
          <6> QED BY <4>2, <6>1, <3>4
        <5>3. CASE on[m] /\ ~(call[t].op = "disable" /\ call[t].m = m)
            BY <4>3, <5>3
        <5> QED BY <4>2, <5>1, <5>2, <5>3
      <4>5. mode'[m] = Target(m) \/ Switch(m, Target(m)) \in ToSet(Tail(s))
        <5>1. CASE call[t].op = "switch" /\ call[t].m = m
          <6>1. call[t].arg \in Modes /\ call[t] = Switch(m, call[t].arg)
              BY <1>4, <5>1 DEF DriverCalls, Switch, Call
          <6>2. CASE call[t].arg = Target(m)
              BY <4>3, <5>1, <6>2
          <6>3. CASE call[t].arg # Target(m)
              BY <3>4, <4>2, <6>1, <6>3 DEF Others
          <6> QED BY <6>2, <6>3
        <5>2. CASE ~(call[t].op = "switch" /\ call[t].m = m)
          <6>1. Head(s) # Switch(m, Target(m))
              BY <3>4, <5>2 DEF Switch, Call
          <6> QED BY <4>2, <4>3, <5>2, <6>1
        <5> QED BY <5>1, <5>2
      <4>6. Pending("user")' = Tail(s)
          BY <2>2, <3>3, <3>10
      <4> QED BY <4>2, <4>4, <4>5, <4>6, <1>3 DEF Settled
    <3> QED BY <2>2, <3>5, <3>8, <3>9, <3>10, CallPends
  <2> QED BY <2>1, <2>2
<1> QED BY <1>6, <1>7 DEF SetUp

(* Only a loss of power undoes a set-up, and is remembered.                 *)
LEMMA BusSetUp ==
    ASSUME IInv, BusStep, UNCHANGED owner
    PROVE  SetUp'
<1>1. SetUp
    BY DEF IInv
<1>2. UNCHANGED <<at, script, mode>>
    BY DEF BusStep
<1>3. (clean' => clean /\ on' = on) /\ mixed' = mixed
    BY DEF BusStep, Wedge, Unplug, Drain, CutPower, RestorePower, Fault
<1>4. Pending("user")' = Pending("user") /\ \A m \in Motors : Target(m)' = Target(m)
    BY <1>2 DEF Pending, Target, ArmMode
<1>5. ready' /\ clean' /\ ~mixed' => Energised'
    BY <1>1, <1>2, <1>3, <1>4 DEF SetUp, Energised
<1>6. ASSUME phase' = "start", at'["user"] # "raised", clean', ~mixed', NEW m \in Motors
      PROVE  Settled(Pending("user"), m)'
    BY <1>1, <1>2, <1>3, <1>4, <1>6 DEF SetUp, Settled
<1> QED BY <1>5, <1>6 DEF SetUp

-----------------------------------------------------------------------------
(* The theorems.                                                            *)

(* The invariant holds at first.                                            *)
LEMMA InitIInv == Init => IInv
<1> SUFFICES ASSUME Init PROVE IInv
    OBVIOUS
<1>1. \A t \in Threads : at[t] = "idle" /\ script[t] = <<>> /\ ret[t] = "none"
    BY DEF Init, DriverInit
<1>2. phase = "idle" /\ worker = "none" /\ ~ready /\ ~running /\ ~port_open /\ ~clean /\ ~mixed
      /\ data_save = <<>> /\ wire = <<>> /\ power
    BY DEF Init, DriverInit
<1>3. kind \in {"chain", "follower"} /\ Threads = {"user", "motor"}
    BY Hosts DEF Init
<1>4. TypeOK
  <2>1. <<>> \in Seq(Tokens) /\ Len(<<>>) = 0 /\ <<>> \in Seq(DriverCalls \cup Adds)
      OBVIOUS
  <2>2. NoFrame \in Frames /\ NoCall \in Calls /\ "MIT" \in Modes
      BY FrameTypes, Alphabet
  <2>3. DriverTypeOK
    <3>1. frame \in Frames /\ out \in [Threads -> Frames] /\ call \in [Threads -> Calls]
        BY <2>2 DEF Init, DriverInit
    <3>2. /\ at \in [Threads -> {"idle", "id", "data", "copy", "write", "reply", "done", "raised"}]
          /\ ret \in [Threads -> Modes \cup {"none"}] /\ param \in [Motors -> Modes \cup {"none"}]
          /\ torque \in {"low", "high"}
        BY DEF Init, DriverInit, FreshParams, FreshTorque
    <3>3. on \in [Motors -> BOOLEAN] /\ mode \in [Motors -> Modes]
        BY <2>2 DEF Init, DriverInit
    <3>4. /\ known \subseteq Motors /\ answered \subseteq Motors /\ faults \in 0..MaxFaults
          /\ port_open \in BOOLEAN /\ power \in BOOLEAN /\ clean \in BOOLEAN /\ mixed \in BOOLEAN
          /\ adapter \in {"ok", "wedged", "gone"}
      <4>1. known = {} /\ answered = {} /\ faults = 0 /\ adapter = "ok"
          BY DEF Init, DriverInit
      <4>2. port_open = FALSE /\ power = TRUE /\ clean = FALSE /\ mixed = FALSE
          BY DEF Init, DriverInit
      <4>3. faults \in 0..MaxFaults
          BY <4>1, Hosts
      <4> QED BY <4>1, <4>2, <4>3
    <3>5. /\ data_save \in Seq(Tokens) /\ Len(data_save) <= 2
          /\ wire \in Seq(Tokens) /\ Len(wire) <= MaxWire
        BY <1>2, <2>1, Hosts
    <3> QED BY <3>1, <3>2, <3>3, <3>4, <3>5 DEF DriverTypeOK
  <2>4. script \in [Threads -> Seq(DriverCalls \cup Adds)]
      BY <2>1 DEF Init
  <2>5. kind \in Kinds /\ sessions \in 0..MaxSessions
      BY Hosts DEF Init
  <2> QED BY <2>3, <2>4, <2>5 DEF Init, TypeOK
<1>5. Turns
    BY <1>1, <1>2, <1>3 DEF Turns, InScript, Protocol
<1>6. Methods
    BY <1>1, <1>2, <1>3, EmptyScript DEF Methods
<1>7. FramesSound
    BY <1>1 DEF FramesSound
<1>8. Supply /\ SetUp /\ TearDown
    BY <1>1, <1>2 DEF Supply, SetUp, TearDown, Closing, Doomed, RaisedFor
<1>9. Answers
  <2>1. Heard(wire) /\ Heard(data_save)
      BY <1>2, EmptyScript DEF Heard
  <2>2. \A m \in Motors : param[m] = "none"
      BY DEF Init, DriverInit, FreshParams
  <2> QED BY <1>1, <1>2, <2>1, <2>2 DEF Answers
<1>10. Stream
    BY <1>2 DEF Stream, Alternates
<1>11. FramesUnmixed
    BY <1>2 DEF FramesUnmixed
<1> QED BY <1>4, <1>5, <1>6, <1>7, <1>8, <1>9, <1>10, <1>11 DEF IInv

(* What the faults do not touch.                                            *)
LEMMA BusKeepsCalls ==
    ASSUME IInv, BusStep, UNCHANGED owner
    PROVE  Methods' /\ FramesSound' /\ FramesUnmixed' /\ Answers' /\ Stream'
<1>1. Methods /\ FramesSound /\ FramesUnmixed /\ Answers /\ Stream
    BY DEF IInv
<1>2. UNCHANGED <<frame, out, data_save, wire, call, at, ret, param, answered, mixed>>
    BY DEF BusStep
<1>3. Methods'
    BY <1>1 DEF Methods
<1>4. FramesSound'
    BY <1>1, <1>2 DEF FramesSound, Shared
<1>5. FramesUnmixed' /\ Stream'
    BY <1>1, <1>2 DEF FramesUnmixed, Stream
<1>6. Answers'
    BY <1>1, <1>2 DEF Answers, Heard
<1> QED BY <1>3, <1>4, <1>5, <1>6

(* The invariant, over the four kinds of step.                              *)
LEMMA SessionStep ==
    ASSUME IInv, Session
    PROVE  IInv'
BY SessionTypes, SessionTurns, SessionMethods, SessionFrames, SessionSupply, SessionSetUp,
   SessionTearDown, SessionAnswers, SessionStream DEF IInv, Session

(* Between the calls of a thread.                                           *)
LEMMA BetweenStep ==
    ASSUME IInv, NEW t \in Threads, Between(t)
    PROVE  IInv'
<1>1. Supply' /\ Stream'
  <2>1. UNCHANGED <<on, power, clean, data_save, wire>> /\ Supply /\ Stream
      BY DEF IInv, Between, NextCall, Returned, Failed
  <2> QED BY <2>1 DEF Supply, Stream
<1>2. TypeOK'
    BY BetweenTypes DEF Between
<1> QED BY <1>1, <1>2, BetweenTurns, BetweenMethods, BetweenFrames, BetweenSetUp, BetweenTearDown,
   BetweenAnswers DEF IInv

(* Within a call.                                                           *)
LEMMA CallStepKeeps ==
    ASSUME IInv, NEW t \in Threads, CallStep(t), UNCHANGED owner
    PROVE  IInv'
<1>1. Methods'
    BY DEF IInv, Methods
<1> QED BY <1>1, CallTypes, CallTurns, CallFrames, CallSupply, CallSetUp, CallTearDown, CallAnswers,
   CallStream DEF IInv

(* Under the faults.                                                        *)
LEMMA BusKeeps ==
    ASSUME IInv, BusStep, UNCHANGED owner
    PROVE  IInv'
BY BusTypes, BusTurns, BusKeepsCalls, BusSupply, BusSetUp, BusTearDown DEF IInv

(* The invariant is inductive.                                              *)
LEMMA StepIInv == IInv /\ [Next]_vars => IInv'
<1> SUFFICES ASSUME IInv, [Next]_vars PROVE IInv'
    OBVIOUS
<1>1. CASE Session
    BY <1>1, SessionStep
<1>2. ASSUME NEW t \in Threads, ThreadStep(t) PROVE IInv'
    BY <1>2, BetweenStep, CallStepKeeps DEF ThreadStep, Between
<1>3. CASE BusStep /\ UNCHANGED owner
    BY <1>3, BusKeeps
<1>4. CASE UNCHANGED vars
  <2>1. TypeOK' /\ Turns' /\ Methods' /\ Supply' /\ FramesUnmixed' /\ Stream'
      BY <1>4 DEF IInv, TypeOK, DriverTypeOK, Turns, InScript, Protocol, Methods, Supply,
         FramesUnmixed, Stream
  <2>2. FramesSound'
      BY <1>4 DEF IInv, FramesSound, Shared
  <2>3. SetUp' /\ TearDown'
    <3>1. Pending("user")' = Pending("user") /\ \A m \in Motors : Target(m)' = Target(m)
        BY <1>4 DEF Pending, Target, ArmMode
    <3>2. TearDown'
        BY <1>4, <3>1 DEF IInv, TearDown, Closing, Doomed, RaisedFor
    <3>3. SetUp'
        BY <1>4, <3>1 DEF IInv, SetUp, Settled, Energised
    <3> QED BY <3>2, <3>3
  <2>4. Answers'
      BY <1>4 DEF IInv, Answers, Heard
  <2> QED BY <2>1, <2>2, <2>3, <2>4 DEF IInv
<1> QED BY <1>1, <1>2, <1>3, <1>4 DEF Next, Session

(* The inductive invariant holds.                                           *)
THEOREM ArmInvariant == Spec => []IInv
BY InitIInv, StepIInv, PTL DEF Spec

(* Every variable keeps its type; the parser keeps two tokens at most.      *)
THEOREM ArmTypes == Spec => []TypeOK
<1>1. IInv => TypeOK
    BY DEF IInv
<1> QED BY <1>1, ArmInvariant, PTL

(* Alone in its process, the chain writes the frames its calls composed and
   no others, unless stop() gave up the motor thread.                       *)
THEOREM FramesAreUnmixed == Spec => []FramesUnmixed
<1>1. IInv => FramesUnmixed
    BY DEF IInv
<1> QED BY <1>1, ArmInvariant, PTL

(* After start() or configure(), every motor is on and in its mode, whatever
   the replies of the set-up were, unless power failed or a frame was mixed
   up with another call's.                                                  *)
THEOREM ReadyIsMeant == Spec => []ReadyMeansReady
<1>1. IInv => ReadyMeansReady
    BY DEF IInv, SetUp, Energised, Target, ReadyMeansReady
<1> QED BY <1>1, ArmInvariant, PTL

(* A motor that the chain has detected answered on this connection.         *)
THEOREM DetectionIsAnswered == Spec => []DetectedMeansAnswered
<1>1. IInv => DetectedMeansAnswered
  <2> SUFFICES ASSUME IInv, kind = "chain", phase = "start", NEW m \in Detected
               PROVE  m \in answered
      BY DEF DetectedMeansAnswered, ConnectedMeansAnswered
  <2>1. known \subseteq Motors
      BY DEF IInv, TypeOK, DriverTypeOK
  <2>2. m \in Motors /\ Do("read", m) \notin ToSet(script["user"])
      BY <2>1 DEF Detected, ToSet
  <2> QED BY <2>2 DEF IInv, Answers
<1> QED BY <1>1, ArmInvariant, PTL

ClosedDisabled ==
    port_open /\ ~port_open' /\ (kind = "chain" \/ release)
    /\ ~timed_out /\ ~mixed /\ adapter # "gone"
        => \A m \in Motors : ~on'[m]

(* A shutdown that closes the port has disabled every motor, unless the join
   timed out, a frame was mixed up or the adapter is gone.                  *)
THEOREM StopDisablesAll == Spec => StopDisables
<1>1. IInv /\ [Next]_vars => [ClosedDisabled]_vars
  <2> SUFFICES ASSUME IInv, Next, port_open, ~port_open', kind = "chain" \/ release, ~timed_out,
                      ~mixed, adapter # "gone", NEW m \in Motors
               PROVE  ~on'[m]
      BY DEF ClosedDisabled
  <2>1. Stopped
    <3>1. Session \/ (\E t \in Threads : Between(t) \/ CallStep(t)) \/ BusStep
        BY DEF Next, Session, ThreadStep, Between
    <3>2. ~BusStep /\ \A t \in Threads : ~Between(t)
        BY DEF BusStep, Between, NextCall, Returned, Failed
    <3>3. \A t \in Threads : ~CallStep(t)
        BY DEF CallStep, Refuse, SendId, SendData, SendCopy, Write, Raise, Recv, Poll, GiveUp
    <3>4. ~(Start \/ Started \/ Act \/ Acted \/ SetRelease \/ Stop \/ Joined \/ JoinTimeout \/ Cycle
           \/ Observe \/ OtherObject)
        BY DEF Start, OpenBus, Started, Act, Acted, SetRelease, Stop, Joined, JoinTimeout, Cycle,
           Observe, OtherObject
    <3> QED BY <3>1, <3>2, <3>3, <3>4 DEF Session
  <2>2. Closing /\ script["user"] = <<>> /\ on' = on
      BY <2>1 DEF Stopped, Closing
  <2>3. at["user"] = "idle"
      BY <2>2, Basics
  <2>4. Pending("user") = <<>>
      BY <2>2, <2>3 DEF Pending
  <2>5. Do("disable", m) \notin ToSet(Pending("user"))
      BY <2>4, EmptyScript
  <2>6. ~on[m]
      BY <2>2, <2>5 DEF IInv, TearDown, Closing, Doomed, RaisedFor
  <2> QED BY <2>2, <2>6
<1> QED BY <1>1, ArmInvariant, PTL DEF Spec, StopDisables, ClosedDisabled
================================================================================
