----------------------------- MODULE DataLemmas -----------------------------
(***************************************************************************)
(* Induction over numbers, functions defined by recursion, and what        *)
(* FlattenSeq returns, for the proofs of the other modules.                *)
(***************************************************************************)
EXTENDS Integers, Sequences, SequencesExt, SequenceTheorems, WellFoundedInduction, TLAPS

(***************************************************************************)
(* A set of numbers that is not empty has a least one.                     *)
(***************************************************************************)
LEMMA LeastOf ==
  ASSUME NEW T \in SUBSET Nat, T # {}
  PROVE  \E x \in T : \A y \in T : x <= y
<1> DEFINE R == OpToRel(<, Nat)
<1>1. IsWellFoundedOn(R, Nat)
  BY NatLessThanWellFounded
<1>2. \A x, y \in Nat : x < y => <<x, y>> \in R
  BY DEF OpToRel
<1> HIDE DEF R
<1>3. PICK x \in T : \A y \in T : ~ (<<y, x>> \in R)
  BY <1>1, WFMin
<1>4. \A y \in T : ~(y < x)
  BY <1>2, <1>3
<1> QED
  BY <1>4

(***************************************************************************)
(* Induction along 1..n, with a set where other provers have a predicate.  *)
(***************************************************************************)
LEMMA InductionTo ==
  ASSUME NEW n \in Nat, NEW T,
         n >= 1 => 1 \in T,
         \A i \in 1..n : i \in T /\ i # n => i + 1 \in T
  PROVE  \A i \in 1..n : i \in T
<1> DEFINE Missing == {i \in 1..n : i \notin T}
<1>1. Missing \in SUBSET Nat /\ \A i \in 1..n : i \notin Missing => i \in T
  OBVIOUS
<1>2. ASSUME NEW i \in Missing, \A j \in Missing : i <= j PROVE FALSE
  <2>1. i \in 1..n /\ i \notin T
    OBVIOUS
  <2>2. i # 1
    BY <2>1
  <2>3. i - 1 \in 1..n /\ i - 1 # n /\ (i - 1) + 1 = i
    BY <2>1, <2>2
  <2>4. i - 1 \notin Missing
    BY <1>2, <2>3
  <2>5. i - 1 \in T
    BY <1>1, <2>3, <2>4
  <2> QED
    BY <2>1, <2>3, <2>5
<1> HIDE DEF Missing
<1>3. Missing = {}
  BY <1>1, <1>2, LeastOf
<1> QED
  BY <1>1, <1>3

\* Functions that give a value from a position and the value before it.
NextValues(n, S) == [(1..n) \X S -> S]

Recurs(f, n, S, first, next) ==
    /\ f \in [1..n -> S]
    /\ \A i \in 1..n : f[i] = IF i = 1 THEN first ELSE next[<<i, f[i - 1]>>]

(***************************************************************************)
(* A function defined by recursion on 1..n exists: its first value, and    *)
(* each next one from the one before it by a function "next".              *)
(***************************************************************************)
LEMMA RecursionExists ==
  ASSUME NEW S, NEW n \in Nat, NEW first \in S, NEW next \in NextValues(n, S)
  PROVE  \E f : Recurs(f, n, S, first, next)
<1> USE DEF NextValues, Recurs
<1> DEFINE Is(f, m) == /\ f \in [1..m -> S]
                       /\ \A i \in 1..m : f[i] = IF i = 1 THEN first ELSE next[<<i, f[i - 1]>>]
           T == {m \in 0..n : ~ \E f : Is(f, m)}
<1>1. SUFFICES ASSUME T # {} PROVE FALSE
  <2>1. n \notin T
    BY <1>1
  <2> QED
    BY <2>1
<1>2. PICK m \in T : \A k \in T : m <= k
  <2> HIDE DEF T
  <2>1. T \in SUBSET Nat
    BY DEF T
  <2> QED
    BY <1>1, <2>1, LeastOf
<1>3. m # 0
  <2>1. Is([i \in 1..0 |-> first], 0)
    OBVIOUS
  <2> QED
    BY <1>2, <2>1
<1>4. m - 1 \in 0..n /\ m - 1 \notin T /\ m \in 1..n
  <2>1. T \subseteq 0..n
    OBVIOUS
  <2> HIDE DEF T
  <2> QED
    BY <1>2, <1>3, <2>1
<1>5. PICK f : Is(f, m - 1)
  BY <1>4
<1> DEFINE value == IF m = 1 THEN first ELSE next[<<m, f[m - 1]>>]
           g == [i \in 1..m |-> IF i = m THEN value ELSE f[i]]
<1>6. value \in S
  BY <1>4, <1>5
<1>7. Is(g, m)
  <2>1. g \in [1..m -> S]
    BY <1>4, <1>5, <1>6
  <2>2. ASSUME NEW i \in 1..m
        PROVE  g[i] = IF i = 1 THEN first ELSE next[<<i, g[i - 1]>>]
    <3>1. CASE i = m
      <4>1. i # 1 => i - 1 \in 1..m /\ i - 1 # m
        BY <1>4, <3>1
      <4>2. i # 1 => g[i - 1] = f[m - 1]
        BY <3>1, <4>1
      <4>3. g[i] = value
        BY <3>1
      <4> QED
        BY <3>1, <4>2, <4>3
    <3>2. CASE i # m
      <4>1. i \in 1..(m - 1) /\ (i # 1 => i - 1 \in 1..m /\ i - 1 # m)
        BY <1>4, <3>2
      <4>2. g[i] = f[i] /\ (i # 1 => g[i - 1] = f[i - 1])
        BY <3>2, <4>1
      <4>3. f[i] = IF i = 1 THEN first ELSE next[<<i, f[i - 1]>>]
        BY <1>5, <4>1
      <4> HIDE DEF g
      <4> QED
        BY <4>2, <4>3
    <3> QED
      BY <3>1, <3>2
  <2> QED
    BY <2>1, <2>2
<1> QED
  BY <1>2, <1>7

(***************************************************************************)
(* The first and the remaining elements of a list.                         *)
(***************************************************************************)
LEMMA HeadAndTail ==
  ASSUME NEW S, NEW s \in Seq(S), s # <<>>
  PROVE  /\ Head(s) \in S
         /\ Tail(s) \in Seq(S)
         /\ ToSet(s) = {Head(s)} \cup ToSet(Tail(s))
<1>1. /\ Head(s) \in S
      /\ Tail(s) \in Seq(S)
      /\ Len(Tail(s)) = Len(s) - 1
      /\ \A i \in 1..Len(Tail(s)) : Tail(s)[i] = s[i + 1]
      /\ Len(s) \in Nat \ {0}
      /\ DOMAIN s = 1..Len(s)
      /\ Head(s) = s[1]
  BY HeadTailProperties, LenProperties, EmptySeq
<1>2. DOMAIN Tail(s) = 1..(Len(s) - 1)
  BY <1>1, LenProperties
<1>3. \A i \in 2..Len(s) : i - 1 \in DOMAIN Tail(s) /\ s[i] = Tail(s)[i - 1]
  BY <1>1, <1>2
<1>4. \A i \in DOMAIN Tail(s) : i + 1 \in DOMAIN s /\ Tail(s)[i] = s[i + 1]
  BY <1>1, <1>2
<1>5. \A i \in DOMAIN s : i = 1 \/ i \in 2..Len(s)
  BY <1>1
<1>6. 1 \in DOMAIN s
  BY <1>1
<1>7. ToSet(s) = {Head(s)} \cup ToSet(Tail(s))
  <2>1. Head(s) \in ToSet(s)
    BY <1>1, <1>6 DEF ToSet
  <2>2. ToSet(Tail(s)) \subseteq ToSet(s)
    BY <1>4 DEF ToSet
  <2>3. ToSet(s) \subseteq {Head(s)} \cup ToSet(Tail(s))
    <3> SUFFICES ASSUME NEW i \in DOMAIN s PROVE s[i] \in {Head(s)} \cup ToSet(Tail(s))
      BY DEF ToSet
    <3>1. CASE i = 1
      BY <1>1, <3>1
    <3>2. CASE i \in 2..Len(s)
      BY <1>3, <3>2 DEF ToSet
    <3> QED
      BY <1>5, <3>1, <3>2
  <2> QED
    BY <2>1, <2>2, <2>3
<1> QED
  BY <1>1, <1>7

LEMMA TailInjective ==
  ASSUME NEW S, NEW s \in Seq(S), s # <<>>, IsInjective(s)
  PROVE  IsInjective(Tail(s)) /\ Head(s) \notin ToSet(Tail(s))
<1>1. /\ Len(s) \in Nat \ {0} /\ DOMAIN s = 1..Len(s) /\ Head(s) = s[1]
      /\ DOMAIN Tail(s) = 1..(Len(s) - 1)
      /\ \A i \in 1..(Len(s) - 1) : Tail(s)[i] = s[i + 1]
  BY HeadTailProperties, LenProperties, EmptySeq
<1>2. \A i \in 1..(Len(s) - 1) : i + 1 \in DOMAIN s /\ i + 1 # 1
  BY <1>1
<1>3. 1 \in DOMAIN s
  BY <1>1
<1>4. \A a, b \in 1..(Len(s) - 1) : s[a + 1] = s[b + 1] => a = b
  BY <1>1, <1>2 DEF IsInjective
<1>5. Head(s) \notin ToSet(Tail(s))
  BY <1>1, <1>2, <1>3 DEF IsInjective, ToSet
<1> QED
  BY <1>1, <1>4, <1>5 DEF IsInjective

(***************************************************************************)
(* The elements of a concatenation.                                        *)
(***************************************************************************)
LEMMA ConcatElements ==
  ASSUME NEW S, NEW s \in Seq(S), NEW t \in Seq(S)
  PROVE  ToSet(s \o t) = ToSet(s) \cup ToSet(t)
<1>1. /\ DOMAIN s = 1..Len(s) /\ DOMAIN t = 1..Len(t)
      /\ Len(s) \in Nat /\ Len(t) \in Nat
      /\ DOMAIN (s \o t) = 1..(Len(s) + Len(t))
      /\ \A i \in 1..Len(s) : (s \o t)[i] = s[i]
      /\ \A i \in 1..(Len(s) + Len(t)) : i > Len(s) => (s \o t)[i] = t[i - Len(s)]
  BY LenProperties, ConcatProperties
<1>2. \A i \in DOMAIN t : i + Len(s) \in DOMAIN (s \o t) /\ (s \o t)[i + Len(s)] = t[i]
  BY <1>1
<1>3. \A i \in DOMAIN s : i \in DOMAIN (s \o t) /\ (s \o t)[i] = s[i]
  BY <1>1
<1>4. \A i \in DOMAIN (s \o t) :
        \/ i \in DOMAIN s /\ (s \o t)[i] = s[i]
        \/ i - Len(s) \in DOMAIN t /\ (s \o t)[i] = t[i - Len(s)]
  BY <1>1
<1>5. ToSet(s) \subseteq ToSet(s \o t)
  BY <1>3 DEF ToSet
<1>6. ToSet(t) \subseteq ToSet(s \o t)
  BY <1>2 DEF ToSet
<1>7. ToSet(s \o t) \subseteq ToSet(s) \cup ToSet(t)
  BY <1>4 DEF ToSet
<1> QED
  BY <1>5, <1>6, <1>7

Concatenates(f, S, seqs) ==
    /\ f \in [1..Len(seqs) -> Seq(S)]
    /\ f[1] = seqs[1]
    /\ \A i \in 1..Len(seqs) : i # Len(seqs) => f[i + 1] = f[i] \o seqs[i + 1]
    /\ FlattenSeq(seqs) = f[Len(seqs)]

(***************************************************************************)
(* FlattenSeq as its successive concatenations.                            *)
(***************************************************************************)
LEMMA FlattenSteps ==
  ASSUME NEW S, NEW seqs \in Seq(Seq(S)), Len(seqs) > 0
  PROVE  \E f : Concatenates(f, S, seqs)
<1> DEFINE n == Len(seqs)
           next == [p \in (1..n) \X Seq(S) |-> p[2] \o seqs[p[1]]]
           F == CHOOSE f : f = [i \in 1..n |-> IF i = 1 THEN seqs[i] ELSE f[i - 1] \o seqs[i]]
<1>1. n \in Nat \ {0} /\ \A i \in 1..n : seqs[i] \in Seq(S)
  BY LenProperties, ElementOfSeq
<1>2. next \in [(1..n) \X Seq(S) -> Seq(S)]
  BY <1>1, ConcatProperties
<1>3. PICK f : Recurs(f, n, Seq(S), seqs[1], next)
  <2>1. seqs[1] \in Seq(S) /\ n \in Nat /\ next \in NextValues(n, Seq(S))
    BY <1>1, <1>2 DEF NextValues
  <2> HIDE DEF n, next
  <2> QED
    BY <2>1, RecursionExists
<1>4. f = [i \in 1..n |-> IF i = 1 THEN seqs[i] ELSE f[i - 1] \o seqs[i]]
  <2>1. ASSUME NEW i \in 1..n PROVE f[i] = IF i = 1 THEN seqs[i] ELSE f[i - 1] \o seqs[i]
    <3>0. /\ f \in [1..n -> Seq(S)]
          /\ f[i] = IF i = 1 THEN seqs[1] ELSE next[<<i, f[i - 1]>>]
      BY <1>3 DEF Recurs
    <3>1. CASE i = 1
      BY <3>0, <3>1
    <3>2. CASE i # 1
      <4>1. i - 1 \in 1..n
        BY <1>1, <3>2
      <4>2. f[i - 1] \in Seq(S)
        BY <3>0, <4>1
      <4>3. next[<<i, f[i - 1]>>] = f[i - 1] \o seqs[i]
        BY <4>2
      <4> QED
        BY <3>0, <3>2, <4>3
    <3> QED
      BY <3>1, <3>2
  <2> QED
    BY <1>3, <2>1 DEF Recurs
<1>5. F = [i \in 1..n |-> IF i = 1 THEN seqs[i] ELSE F[i - 1] \o seqs[i]]
  BY <1>4
<1>6. FlattenSeq(seqs) = F[n]
  BY <1>1 DEF FlattenSeq
<1> HIDE DEF F
<1>7. \A i \in 1..n : F[i] = IF i = 1 THEN seqs[i] ELSE F[i - 1] \o seqs[i]
  BY <1>5
<1>8. F[1] = seqs[1] /\ \A i \in 1..n : i # n => F[i + 1] = F[i] \o seqs[i + 1]
  <2>1. 1 \in 1..n
    BY <1>1
  <2>2. \A i \in 1..n : i # n => i + 1 \in 1..n /\ i + 1 # 1 /\ (i + 1) - 1 = i
    BY <1>1
  <2> QED
    BY <1>7, <2>1, <2>2
<1>9. F \in [1..n -> Seq(S)]
  <2> DEFINE T == {i \in 1..n : F[i] \in Seq(S)}
  <2>1. 1 \in T
    BY <1>1, <1>8
  <2>2. ASSUME NEW i \in 1..n, i \in T, i # n PROVE i + 1 \in T
    <3>1. i + 1 \in 1..n
      BY <1>1, <2>2
    <3>2. F[i] \in Seq(S) /\ seqs[i + 1] \in Seq(S)
      BY <1>1, <2>2, <3>1
    <3>3. F[i] \o seqs[i + 1] \in Seq(S)
      BY <3>2, ConcatProperties
    <3>4. F[i + 1] \in Seq(S)
      BY <1>8, <2>2, <3>3
    <3> QED
      BY <3>1, <3>4
  <2>3. \A i \in 1..n : i \in T
    <3> HIDE DEF T
    <3> QED
      BY <1>1, <2>1, <2>2, InductionTo
  <2>4. DOMAIN F = 1..n /\ F = [i \in 1..n |-> F[i]]
    BY <1>5
  <2> QED
    BY <2>3, <2>4
<1> QED
  BY <1>6, <1>8, <1>9 DEF Concatenates

(***************************************************************************)
(* What FlattenSeq makes of a sequence of pairs.                           *)
(***************************************************************************)
LEMMA FlattenPairs ==
  ASSUME NEW S, NEW pairs \in Seq(Seq(S)), \A n \in 1..Len(pairs) : Len(pairs[n]) = 2
  PROVE  /\ FlattenSeq(pairs) \in Seq(S)
         /\ Len(FlattenSeq(pairs)) = 2 * Len(pairs)
         /\ \A n \in 1..Len(pairs) : /\ FlattenSeq(pairs)[2 * n - 1] = pairs[n][1]
                                     /\ FlattenSeq(pairs)[2 * n] = pairs[n][2]
<1> DEFINE N == Len(pairs)
<1>1. N \in Nat /\ \A n \in 1..N : pairs[n] \in Seq(S)
  BY LenProperties, ElementOfSeq
<1>2. CASE N = 0
  BY <1>2, EmptySeq DEF FlattenSeq
<1>3. CASE N # 0
  <2>0. PICK f : Concatenates(f, S, pairs)
    BY <1>1, <1>3, FlattenSteps
  <2>1. /\ f \in [1..N -> Seq(S)]
        /\ f[1] = pairs[1]
        /\ \A i \in 1..N : i # N => f[i + 1] = f[i] \o pairs[i + 1]
        /\ FlattenSeq(pairs) = f[N]
    BY <2>0 DEF Concatenates
  <2> DEFINE Good(i) == /\ Len(f[i]) = 2 * i
                        /\ \A n \in 1..i : /\ f[i][2 * n - 1] = pairs[n][1]
                                           /\ f[i][2 * n] = pairs[n][2]
             T == {i \in 1..N : Good(i)}
  <2>2. 1 \in T
    BY <1>1, <1>3, <2>1
  <2>3. ASSUME NEW i \in 1..N, i \in T, i # N PROVE i + 1 \in T
    <3>0. Good(i)
      BY <2>3
    <3> HIDE DEF T, Good
    <3>1. i + 1 \in 1..N /\ i \in Nat
      BY <1>1, <2>3
    <3>2. /\ f[i + 1] = f[i] \o pairs[i + 1]
          /\ f[i] \in Seq(S) /\ pairs[i + 1] \in Seq(S)
          /\ Len(pairs[i + 1]) = 2
      BY <1>1, <2>1, <2>3, <3>1
    <3>3. Len(f[i]) = 2 * i
      BY <3>0 DEF Good
    <3>4. /\ Len(f[i + 1]) = 2 * i + 2
          /\ \A k \in 1..(2 * i + 2) : f[i + 1][k] = IF k <= 2 * i THEN f[i][k]
                                                     ELSE pairs[i + 1][k - 2 * i]
      <4> DEFINE s == f[i]
                 t == pairs[i + 1]
      <4>1. s \in Seq(S) /\ t \in Seq(S) /\ f[i + 1] = s \o t
        BY <3>2
      <4>2. Len(s) = 2 * i /\ Len(t) = 2
        BY <3>2, <3>3
      <4> HIDE DEF s, t
      <4>3. /\ Len(s \o t) = Len(s) + Len(t)
            /\ \A k \in 1..(Len(s) + Len(t)) :
                 (s \o t)[k] = IF k <= Len(s) THEN s[k] ELSE t[k - Len(s)]
        BY <4>1, ConcatProperties
      <4> QED
        BY <4>1, <4>2, <4>3 DEF s, t
    <3>5. ASSUME NEW n \in 1..(i + 1)
          PROVE  f[i + 1][2 * n - 1] = pairs[n][1] /\ f[i + 1][2 * n] = pairs[n][2]
      <4>1. CASE n = i + 1
        BY <3>1, <3>4, <4>1
      <4>2. CASE n # i + 1
        <5>1. n \in 1..i /\ 2 * n - 1 \in 1..(2 * i) /\ 2 * n \in 1..(2 * i)
          BY <3>1, <4>2
        <5> QED
          BY <3>0, <3>1, <3>4, <5>1 DEF Good
      <4> QED
        BY <4>1, <4>2
    <3> QED
      BY <3>1, <3>4, <3>5 DEF T, Good
  <2>4. \A i \in 1..N : i \in T
    <3> HIDE DEF T, N
    <3> QED
      BY <1>1, <2>2, <2>3, InductionTo
  <2>5. N \in 1..N
    BY <1>1, <1>3
  <2> QED
    BY <2>1, <2>4, <2>5
<1> QED
  BY <1>2, <1>3

(***************************************************************************)
(* The elements of FlattenSeq are those of the sequences it puts together. *)
(***************************************************************************)
LEMMA FlattenElements ==
  ASSUME NEW S, NEW seqs \in Seq(Seq(S))
  PROVE  /\ FlattenSeq(seqs) \in Seq(S)
         /\ \A e : e \in ToSet(FlattenSeq(seqs)) <=> \E n \in DOMAIN seqs : e \in ToSet(seqs[n])
<1> DEFINE N == Len(seqs)
<1>1. N \in Nat /\ DOMAIN seqs = 1..N /\ \A n \in 1..N : seqs[n] \in Seq(S)
  BY LenProperties, ElementOfSeq
<1>2. CASE N = 0
  BY <1>1, <1>2, EmptySeq DEF FlattenSeq, ToSet
<1>3. CASE N # 0
  <2>0. PICK f : Concatenates(f, S, seqs)
    BY <1>1, <1>3, FlattenSteps
  <2>1. /\ f \in [1..N -> Seq(S)]
        /\ f[1] = seqs[1]
        /\ \A i \in 1..N : i # N => f[i + 1] = f[i] \o seqs[i + 1]
        /\ FlattenSeq(seqs) = f[N]
    BY <2>0 DEF Concatenates
  <2> DEFINE Good(i) == \A e : e \in ToSet(f[i]) <=> \E n \in 1..i : e \in ToSet(seqs[n])
             T == {i \in 1..N : Good(i)}
  <2>2. 1 \in T
    <3>1. \A n : n \in 1..1 <=> n = 1
      OBVIOUS
    <3>2. Good(1)
      BY <2>1, <3>1
    <3> HIDE DEF Good
    <3> QED
      BY <1>1, <1>3, <3>2
  <2>3. ASSUME NEW i \in 1..N, i \in T, i # N PROVE i + 1 \in T
    <3>0. Good(i)
      BY <2>3
    <3> HIDE DEF T, Good
    <3>1. i + 1 \in 1..N /\ i \in Nat
      <4> HIDE DEF N
      <4> QED
        BY <1>1, <2>3
    <3>2. /\ f[i + 1] = f[i] \o seqs[i + 1]
          /\ f[i] \in Seq(S) /\ seqs[i + 1] \in Seq(S)
      BY <1>1, <2>1, <2>3, <3>1
    <3>3. ToSet(f[i + 1]) = ToSet(f[i]) \cup ToSet(seqs[i + 1])
      BY <3>2, ConcatElements
    <3>4. \A n : n \in 1..(i + 1) <=> n \in 1..i \/ n = i + 1
      BY <3>1
    <3>5. Good(i + 1)
      BY <3>0, <3>2, <3>3, <3>4 DEF Good
    <3> QED
      BY <3>1, <3>5 DEF T
  <2>4. \A i \in 1..N : i \in T
    <3> HIDE DEF T, N
    <3> QED
      BY <1>1, <2>2, <2>3, InductionTo
  <2>5. N \in 1..N
    BY <1>1, <1>3
  <2> QED
    BY <1>1, <2>1, <2>4, <2>5
<1> QED
  BY <1>2, <1>3

(***************************************************************************)
(* Sequences without repetitions, put together.                            *)
(***************************************************************************)
LEMMA ConcatInjective ==
  ASSUME NEW S, NEW s \in Seq(S), NEW t \in Seq(S), IsInjective(s), IsInjective(t),
         ToSet(s) \cap ToSet(t) = {}
  PROVE  IsInjective(s \o t)
<1>1. /\ Len(s) \in Nat /\ Len(t) \in Nat /\ DOMAIN s = 1..Len(s) /\ DOMAIN t = 1..Len(t)
      /\ DOMAIN (s \o t) = 1..(Len(s) + Len(t))
      /\ \A i \in 1..(Len(s) + Len(t)) : (s \o t)[i] = IF i <= Len(s) THEN s[i] ELSE t[i - Len(s)]
  BY LenProperties, ConcatProperties
<1>2. ASSUME NEW a \in 1..(Len(s) + Len(t)), NEW b \in 1..(Len(s) + Len(t)),
             (s \o t)[a] = (s \o t)[b]
      PROVE  a = b
  <2>1. CASE a <= Len(s) /\ b <= Len(s)
    <3>1. a \in DOMAIN s /\ b \in DOMAIN s /\ s[a] = s[b]
      BY <1>1, <1>2, <2>1
    <3> QED
      BY <3>1 DEF IsInjective
  <2>2. CASE a > Len(s) /\ b > Len(s)
    <3>1. a - Len(s) \in DOMAIN t /\ b - Len(s) \in DOMAIN t /\ t[a - Len(s)] = t[b - Len(s)]
      BY <1>1, <1>2, <2>2
    <3>2. a - Len(s) = b - Len(s)
      BY <3>1 DEF IsInjective
    <3> QED
      BY <1>1, <3>2
  <2>3. CASE a <= Len(s) /\ b > Len(s)
    <3>1. a \in DOMAIN s /\ b - Len(s) \in DOMAIN t /\ s[a] = t[b - Len(s)]
      BY <1>1, <1>2, <2>3
    <3> QED
      BY <3>1 DEF ToSet
  <2>4. CASE a > Len(s) /\ b <= Len(s)
    <3>1. b \in DOMAIN s /\ a - Len(s) \in DOMAIN t /\ s[b] = t[a - Len(s)]
      BY <1>1, <1>2, <2>4
    <3> QED
      BY <3>1 DEF ToSet
  <2> QED
    BY <1>1, <2>1, <2>2, <2>3, <2>4
<1> QED
  BY <1>1, <1>2 DEF IsInjective

LEMMA FlattenInjective ==
  ASSUME NEW S, NEW seqs \in Seq(Seq(S)),
         \A n \in DOMAIN seqs : IsInjective(seqs[n]),
         \A n, m \in DOMAIN seqs : n # m => ToSet(seqs[n]) \cap ToSet(seqs[m]) = {}
  PROVE  IsInjective(FlattenSeq(seqs))
<1> DEFINE N == Len(seqs)
<1>1. N \in Nat /\ DOMAIN seqs = 1..N /\ \A n \in 1..N : seqs[n] \in Seq(S)
  BY LenProperties, ElementOfSeq
<1>2. CASE N = 0
  BY <1>1, <1>2, EmptySeq DEF FlattenSeq, IsInjective
<1>3. CASE N # 0
  <2>0. PICK f : Concatenates(f, S, seqs)
    BY <1>1, <1>3, FlattenSteps
  <2>1. /\ f \in [1..N -> Seq(S)]
        /\ f[1] = seqs[1]
        /\ \A i \in 1..N : i # N => f[i + 1] = f[i] \o seqs[i + 1]
        /\ FlattenSeq(seqs) = f[N]
    BY <2>0 DEF Concatenates
  <2> DEFINE Good(i) == /\ \A e \in ToSet(f[i]) : \E n \in 1..i : e \in ToSet(seqs[n])
                        /\ IsInjective(f[i])
             T == {i \in 1..N : Good(i)}
  <2>2. 1 \in T
    <3>1. 1 \in 1..1 /\ 1 \in DOMAIN seqs
      BY <1>1, <1>3
    <3>2. Good(1)
      BY <2>1, <3>1
    <3> HIDE DEF Good
    <3> QED
      BY <1>1, <1>3, <3>2
  <2>3. ASSUME NEW i \in 1..N, i \in T, i # N PROVE i + 1 \in T
    <3>0. Good(i)
      BY <2>3
    <3> HIDE DEF T, Good
    <3>1. i + 1 \in 1..N /\ i \in Nat
      <4> HIDE DEF N
      <4> QED
        BY <1>1, <2>3
    <3>2. /\ f[i + 1] = f[i] \o seqs[i + 1]
          /\ f[i] \in Seq(S) /\ seqs[i + 1] \in Seq(S)
      BY <1>1, <2>1, <2>3, <3>1
    <3>3. ToSet(f[i + 1]) = ToSet(f[i]) \cup ToSet(seqs[i + 1])
      BY <3>2, ConcatElements
    <3>4. \A n \in 1..i : n \in 1..(i + 1) /\ n \in 1..N /\ n # i + 1
      <4> HIDE DEF N
      <4> QED
        BY <1>1, <2>3, <3>1
    <3>5. ToSet(f[i]) \cap ToSet(seqs[i + 1]) = {}
      BY <1>1, <3>0, <3>1, <3>4 DEF Good
    <3>6. IsInjective(f[i + 1])
      BY <1>1, <3>0, <3>1, <3>2, <3>5, ConcatInjective DEF Good
    <3>7. i + 1 \in 1..(i + 1)
      BY <3>1
    <3>8. Good(i + 1)
      BY <3>0, <3>3, <3>4, <3>6, <3>7 DEF Good
    <3> QED
      BY <3>1, <3>8 DEF T
  <2>4. \A i \in 1..N : i \in T
    <3> HIDE DEF T, N
    <3> QED
      BY <1>1, <2>2, <2>3, InductionTo
  <2>5. N \in 1..N
    BY <1>1, <1>3
  <2> QED
    BY <1>1, <2>1, <2>4, <2>5
<1> QED
  BY <1>2, <1>3

(***************************************************************************)
(* Reversing a sequence keeps its elements.                                *)
(***************************************************************************)
LEMMA ReverseElements ==
  ASSUME NEW S, NEW s \in Seq(S)
  PROVE  /\ Reverse(s) \in Seq(S)
         /\ Len(Reverse(s)) = Len(s)
         /\ \A i \in 1..Len(s) : Reverse(s)[i] = s[Len(s) - i + 1]
         /\ ToSet(Reverse(s)) = ToSet(s)
<1>1. DOMAIN s = 1..Len(s) /\ Len(s) \in Nat /\ \A i \in 1..Len(s) : s[i] \in S
  BY LenProperties, ElementOfSeq
<1>2. Reverse(s) = [i \in 1..Len(s) |-> s[(Len(s) - i) + 1]]
  BY DEF Reverse
<1>3. Reverse(s) \in [1..Len(s) -> S]
  BY <1>1, <1>2
<1>4. Reverse(s) \in Seq(S) /\ Len(Reverse(s)) = Len(s) /\ DOMAIN Reverse(s) = 1..Len(s)
  BY <1>1, <1>3
<1>5. \A i \in 1..Len(s) : Reverse(s)[i] = s[Len(s) - i + 1]
  BY <1>1, <1>2
<1>6. ToSet(Reverse(s)) \subseteq ToSet(s)
  <2>1. \A i \in 1..Len(s) : Len(s) - i + 1 \in 1..Len(s)
    BY <1>1
  <2> QED
    BY <1>1, <1>4, <1>5, <2>1 DEF ToSet
<1>7. ToSet(s) \subseteq ToSet(Reverse(s))
  <2> SUFFICES ASSUME NEW j \in 1..Len(s) PROVE s[j] \in ToSet(Reverse(s))
    BY <1>1 DEF ToSet
  <2> DEFINE i == Len(s) - j + 1
  <2>1. i \in 1..Len(s) /\ Len(s) - i + 1 = j
    BY <1>1
  <2>2. Reverse(s)[i] = s[j]
    BY <1>5, <2>1
  <2> HIDE DEF i
  <2> QED
    BY <1>4, <2>1, <2>2 DEF ToSet
<1> QED
  BY <1>4, <1>5, <1>6, <1>7

(***************************************************************************)
(* The first n elements of a sequence, and those after them.               *)
(***************************************************************************)
LEMMA PrefixOf ==
  ASSUME NEW S, NEW s \in Seq(S), NEW n \in 0..Len(s)
  PROVE  /\ SubSeq(s, 1, n) \in Seq(S) /\ Len(SubSeq(s, 1, n)) = n
         /\ \A i \in 1..n : SubSeq(s, 1, n)[i] = s[i]
<1> DEFINE t == SubSeq(s, 1, n)
<1>1. Len(s) \in Nat /\ DOMAIN s = 1..Len(s) /\ \A i \in 1..Len(s) : s[i] \in S
  BY LenProperties, ElementOfSeq
<1>2. n \in Int /\ 1 \in Int /\ \A i \in 1..n : s[i] \in S
  BY <1>1
<1>3. /\ t \in Seq(S) /\ Len(t) = IF 1 <= n THEN n - 1 + 1 ELSE 0
      /\ \A i \in 1..(n - 1 + 1) : t[i] = s[1 + i - 1]
  BY <1>2, SubSeqProperties
<1> HIDE DEF t
<1>4. n - 1 + 1 = n /\ (~(1 <= n) => n = 0) /\ \A i \in 1..n : 1 + i - 1 = i
  BY <1>1
<1> QED
  BY <1>3, <1>4 DEF t

LEMMA RestOf ==
  ASSUME NEW S, NEW s \in Seq(S), NEW n \in 0..Len(s)
  PROVE  /\ SubSeq(s, n + 1, Len(s)) \in Seq(S) /\ Len(SubSeq(s, n + 1, Len(s))) = Len(s) - n
         /\ \A i \in 1..(Len(s) - n) : SubSeq(s, n + 1, Len(s))[i] = s[n + i]
<1> DEFINE m == n + 1
           k == Len(s)
           t == SubSeq(s, m, k)
<1>1. k \in Nat /\ DOMAIN s = 1..k /\ \A i \in 1..k : s[i] \in S
  BY LenProperties, ElementOfSeq
<1>2. n \in 0..k
  OBVIOUS
<1>3. m \in Int /\ k \in Int /\ \A i \in m..k : s[i] \in S
  BY <1>1, <1>2
<1> HIDE DEF m, k
<1>4. /\ t \in Seq(S) /\ Len(t) = IF m <= k THEN k - m + 1 ELSE 0
      /\ \A i \in 1..(k - m + 1) : t[i] = s[m + i - 1]
  BY <1>3, SubSeqProperties
<1> HIDE DEF t
<1>5. /\ k - m + 1 = k - n /\ (~(m <= k) => k - n = 0)
      /\ \A i \in 1..(k - n) : m + i - 1 = n + i
  BY <1>1, <1>2 DEF m
<1> QED
  BY <1>4, <1>5 DEF t, k, m

\* Cut where they were joined, two sequences come apart.
LEMMA JoinedAndCut ==
  ASSUME NEW S, NEW s \in Seq(S), NEW t \in Seq(S)
  PROVE  /\ SubSeq(s \o t, 1, Len(s)) = s
         /\ SubSeq(s \o t, Len(s) + 1, Len(s \o t)) = t
<1> DEFINE u == s \o t
           a == Len(s)
           front == SubSeq(u, 1, a)
           back == SubSeq(u, a + 1, Len(u))
<1>1. /\ a \in Nat /\ Len(t) \in Nat /\ u \in Seq(S) /\ Len(u) = a + Len(t)
      /\ \A i \in 1..(a + Len(t)) : u[i] = IF i <= a THEN s[i] ELSE t[i - a]
  BY ConcatProperties, LenProperties
<1>2. Len(s) = a
  OBVIOUS
<1> HIDE DEF u, a
<1>3. a \in 0..Len(u)
  BY <1>1
<1>4. front = s
  <2>1. /\ front \in Seq(S) /\ Len(front) = a /\ \A i \in 1..a : front[i] = u[i]
    BY <1>1, <1>3, PrefixOf
  <2> HIDE DEF front
  <2>2. \A i \in 1..a : u[i] = s[i]
    BY <1>1
  <2> QED
    BY <1>2, <2>1, <2>2, SeqEqual
<1>5. back = t
  <2>1. /\ back \in Seq(S) /\ Len(back) = Len(u) - a
        /\ \A i \in 1..(Len(u) - a) : back[i] = u[a + i]
    BY <1>1, <1>3, RestOf
  <2> HIDE DEF back
  <2>2. \A i \in 1..Len(t) : u[a + i] = t[i]
    <3> DEFINE b == Len(t)
    <3>1. b \in Nat /\ \A i \in 1..(a + b) : u[i] = IF i <= a THEN s[i] ELSE t[i - a]
      BY <1>1
    <3> HIDE DEF b
    <3>2. \A i \in 1..b : a + i \in 1..(a + b) /\ ~(a + i <= a) /\ (a + i) - a = i
      BY <1>1, <3>1
    <3>3. \A i \in 1..b : u[a + i] = t[i]
      BY <3>1, <3>2
    <3> QED
      BY <3>3 DEF b
  <2>3. Len(u) - a = Len(t)
    BY <1>1
  <2> QED
    BY <2>1, <2>2, <2>3, SeqEqual
<1> QED
  BY <1>4, <1>5 DEF front, back, u, a

(***************************************************************************)
(* Odd and even numbers alternate.                                         *)
(***************************************************************************)
LEMMA Parity ==
  ASSUME NEW i \in Nat
  PROVE  /\ i % 2 = 0 \/ i % 2 = 1
         /\ i % 2 = 0 <=> (i + 1) % 2 = 1
         /\ i % 2 = 1 <=> (i + 1) % 2 = 0
         /\ i % 2 = 0 => i % 2 # 1
OBVIOUS
RecursFromZero(f, n, S, first, next) ==
    /\ f \in [0..n -> S]
    /\ f[0] = first
    /\ \A i \in 1..n : f[i] = next[<<i, f[i - 1]>>]

(***************************************************************************)
(* The same for a function that starts at 0.                               *)
(***************************************************************************)
LEMMA RecursionFromZero ==
  ASSUME NEW S, NEW n \in Nat, NEW first \in S, NEW next \in NextValues(n, S)
  PROVE  \E f : RecursFromZero(f, n, S, first, next)
<1> USE DEF RecursFromZero
<1>1. CASE n = 0
  <2> DEFINE f == [i \in 0..n |-> first]
  <2>1. f \in [0..n -> S] /\ f[0] = first
    OBVIOUS
  <2>2. \A i \in 1..n : f[i] = next[<<i, f[i - 1]>>]
    BY <1>1
  <2> HIDE DEF f
  <2> QED
    BY <2>1, <2>2
<1>2. CASE n # 0
  <2> DEFINE second == next[<<1, first>>]
  <2>1. second \in S
    BY <1>2 DEF NextValues
  <2> HIDE DEF second
  <2>2. PICK g : Recurs(g, n, S, second, next)
    BY <2>1, RecursionExists
  <2> DEFINE f == [i \in 0..n |-> IF i = 0 THEN first ELSE g[i]]
  <2>3. f \in [0..n -> S] /\ f[0] = first
    BY <2>2 DEF Recurs
  <2>4. ASSUME NEW i \in 1..n
        PROVE  f[i] = next[<<i, f[i - 1]>>]
    <3>1. i \in 0..n /\ f[i] = g[i] /\ g[i] = IF i = 1 THEN second ELSE next[<<i, g[i - 1]>>]
      BY <2>2 DEF Recurs
    <3>2. CASE i = 1
      <4>1. i - 1 = 0 /\ f[i - 1] = first
        BY <2>3, <3>2
      <4> QED
        BY <3>1, <3>2, <4>1 DEF second
    <3>3. CASE i # 1
      <4>1. i - 1 \in 0..n /\ i - 1 # 0
        BY <3>3
      <4> QED
        BY <3>1, <3>3, <4>1
    <3> QED
      BY <3>2, <3>3
  <2> HIDE DEF f
  <2> QED
    BY <2>3, <2>4
<1> QED
  BY <1>1, <1>2


=============================================================================
