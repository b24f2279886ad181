--------------------------- MODULE VersionProofs ----------------------------
(***************************************************************************)
(* Theorems about version.c and pkgvercmp.c, for versions of any length    *)
(* and any width of integers: the comparison is an order, and what that    *)
(* means for the program.                                                  *)
(***************************************************************************)
EXTENDS PkgVerCmp, DataLemmas

Characters == DOMAIN Code

-----------------------------------------------------------------------------
(***************************************************************************)
(* Three-way comparisons.  x, y and z are how a compares with b, b with c  *)
(* and a with c: what they must be if there is an order behind them.       *)
(***************************************************************************)
Outcomes == {-1, 0, 1}

Consistent(x, y, z) ==
    /\ x \in Outcomes /\ y \in Outcomes /\ z \in Outcomes
    /\ x = 0 => z = y
    /\ y = 0 => z = x
    /\ x = y => z = x

LEMMA SignConsistent ==
  ASSUME NEW a \in Int, NEW b \in Int, NEW c \in Int
  PROVE  /\ Consistent(Sign(a, b), Sign(b, c), Sign(a, c))
         /\ Sign(b, a) = 0 - Sign(a, b)
         /\ Sign(a, a) = 0
         /\ Sign(a, b) = 0 => a = b
BY DEF Sign, Consistent, Outcomes

(***************************************************************************)
(* Consistency of two comparisons one after the other.                     *)
(***************************************************************************)
LEMMA ThenConsistent ==
  ASSUME NEW x, NEW y, NEW z, Consistent(x, y, z),
         NEW u, NEW v, NEW w, Consistent(u, v, w)
  PROVE  Consistent(IF x # 0 THEN x ELSE u, IF y # 0 THEN y ELSE v, IF z # 0 THEN z ELSE w)
BY DEF Consistent, Outcomes

LEMMA LeastElement ==
  ASSUME NEW S \in SUBSET Nat, S # {}
  PROVE  /\ Min(S) \in S
         /\ \A n \in S : Min(S) <= n
<1>1. PICK x \in S : \A y \in S : x <= y
  BY LeastOf
<1> QED
  BY <1>1 DEF Min

(***************************************************************************)
(* The first result that is not 0, or 0.                                   *)
(***************************************************************************)
IsFirst(d, K, r) ==
    \/ /\ r = 0
       /\ \A n \in 1..K : d[n] = 0
    \/ \E n \in 1..K : /\ r = d[n] /\ r # 0
                       /\ \A m \in 1..K : m < n => d[m] = 0

LEMMA FirstDifferenceIs ==
  ASSUME NEW K \in Nat, NEW d, DOMAIN d = 1..K
  PROVE  IsFirst(d, K, FirstDifference(d))
<1> DEFINE differs == {n \in 1..K : d[n] # 0}
<1>1. FirstDifference(d) = IF differs = {} THEN 0 ELSE d[Min(differs)]
  BY DEF FirstDifference
<1>2. CASE differs = {}
  BY <1>1, <1>2 DEF IsFirst
<1>3. CASE differs # {}
  <2>1. differs \in SUBSET Nat
    OBVIOUS
  <2>2. PICK n \in differs : n = Min(differs) /\ \A m \in differs : n <= m
    BY <1>3, <2>1, LeastElement
  <2>3. FirstDifference(d) = d[n] /\ d[n] # 0 /\ n \in 1..K
    BY <1>1, <1>3, <2>2
  <2>4. \A m \in 1..K : m < n => d[m] = 0
    BY <2>2
  <2> QED
    BY <2>3, <2>4 DEF IsFirst
<1> QED
  BY <1>2, <1>3

LEMMA FirstIsUnique ==
  ASSUME NEW K \in Nat, NEW d, NEW r, NEW s, IsFirst(d, K, r), IsFirst(d, K, s)
  PROVE  r = s
BY DEF IsFirst

LEMMA FirstDifferenceTyped ==
  ASSUME NEW K \in Nat, NEW d, DOMAIN d = 1..K, \A n \in 1..K : d[n] \in Outcomes
  PROVE  FirstDifference(d) \in Outcomes
BY FirstDifferenceIs DEF IsFirst, Outcomes

LEMMA FirstDifferenceNegated ==
  ASSUME NEW K \in Nat, NEW d, NEW e, DOMAIN d = 1..K, DOMAIN e = 1..K,
         \A n \in 1..K : d[n] \in Outcomes /\ e[n] = 0 - d[n]
  PROVE  FirstDifference(e) = 0 - FirstDifference(d)
<1>1. IsFirst(d, K, FirstDifference(d)) /\ IsFirst(e, K, FirstDifference(e))
  BY FirstDifferenceIs
<1>2. \A n \in 1..K : d[n] = 0 <=> e[n] = 0
  BY DEF Outcomes
<1>3. IsFirst(e, K, 0 - FirstDifference(d))
  <2>1. CASE FirstDifference(d) = 0 /\ \A n \in 1..K : d[n] = 0
    <3>1. 0 - FirstDifference(d) = 0
      BY <2>1
    <3>2. \A n \in 1..K : e[n] = 0
      BY <1>2, <2>1
    <3> QED
      BY <3>1, <3>2 DEF IsFirst
  <2>2. ASSUME NEW n \in 1..K, FirstDifference(d) = d[n], d[n] # 0,
               \A m \in 1..K : m < n => d[m] = 0
        PROVE  IsFirst(e, K, 0 - FirstDifference(d))
    <3>1. e[n] = 0 - FirstDifference(d) /\ 0 - FirstDifference(d) # 0
      BY <2>2 DEF Outcomes
    <3>2. \A m \in 1..K : m < n => e[m] = 0
      BY <1>2, <2>2
    <3> QED
      BY <3>1, <3>2 DEF IsFirst
  <2>3. \/ FirstDifference(d) = 0 /\ \A n \in 1..K : d[n] = 0
        \/ \E n \in 1..K : /\ FirstDifference(d) = d[n] /\ d[n] # 0
                            /\ \A m \in 1..K : m < n => d[m] = 0
    BY <1>1 DEF IsFirst
  <2> QED
    BY <2>1, <2>2, <2>3
<1> QED
  BY <1>1, <1>3, FirstIsUnique

(***************************************************************************)
(* Results that are 0 may be left out at the end.                          *)
(***************************************************************************)
LEMMA FirstDifferenceExtended ==
  ASSUME NEW K \in Nat, NEW L \in Nat, K <= L,
         NEW d, NEW e, DOMAIN d = 1..K, DOMAIN e = 1..L,
         \A n \in 1..L : e[n] = IF n <= K THEN d[n] ELSE 0
  PROVE  FirstDifference(d) = FirstDifference(e)
<1>1. IsFirst(d, K, FirstDifference(d)) /\ IsFirst(e, L, FirstDifference(e))
  BY FirstDifferenceIs
<1>2. IsFirst(e, L, FirstDifference(d))
  <2>1. CASE FirstDifference(d) = 0 /\ \A n \in 1..K : d[n] = 0
    <3>1. \A n \in 1..L : e[n] = 0
      BY <2>1
    <3> QED
      BY <2>1, <3>1 DEF IsFirst
  <2>2. ASSUME NEW n \in 1..K, FirstDifference(d) = d[n], d[n] # 0,
               \A m \in 1..K : m < n => d[m] = 0
        PROVE  IsFirst(e, L, FirstDifference(d))
    <3>1. n \in 1..L /\ e[n] = d[n] /\ \A m \in 1..L : m < n => e[m] = 0
      BY <2>2
    <3> QED
      BY <2>2, <3>1 DEF IsFirst
  <2> QED
    BY <1>1, <2>1, <2>2 DEF IsFirst
<1> QED
  BY <1>1, <1>2, FirstIsUnique

(***************************************************************************)
(* The lexicographic order is one if the order at each position is.        *)
(***************************************************************************)
LEMMA FirstDifferenceConsistent ==
  ASSUME NEW K \in Nat, NEW d, NEW e, NEW f,
         DOMAIN d = 1..K, DOMAIN e = 1..K, DOMAIN f = 1..K,
         \A n \in 1..K : Consistent(d[n], e[n], f[n])
  PROVE  Consistent(FirstDifference(d), FirstDifference(e), FirstDifference(f))
<1> DEFINE x == FirstDifference(d)
           y == FirstDifference(e)
           z == FirstDifference(f)
<1>1. IsFirst(d, K, x) /\ IsFirst(e, K, y) /\ IsFirst(f, K, z)
  BY FirstDifferenceIs
<1> HIDE DEF x, y, z
<1>2. \A n \in 1..K : /\ d[n] \in Outcomes /\ e[n] \in Outcomes /\ f[n] \in Outcomes
                      /\ d[n] = 0 => f[n] = e[n]
                      /\ e[n] = 0 => f[n] = d[n]
                      /\ d[n] = e[n] => f[n] = d[n]
  BY DEF Consistent
<1>3. CASE x = 0 /\ \A n \in 1..K : d[n] = 0
  <2>1. IsFirst(f, K, y)
    BY <1>1, <1>2, <1>3 DEF IsFirst
  <2>2. z = y
    BY <1>1, <2>1, FirstIsUnique
  <2>3. y \in Outcomes
    BY <1>1, <1>2 DEF IsFirst, Outcomes
  <2> QED
    BY <1>3, <2>2, <2>3 DEF Consistent, Outcomes, x, y, z
<1>4. CASE y = 0 /\ \A n \in 1..K : e[n] = 0
  <2>1. IsFirst(f, K, x)
    BY <1>1, <1>2, <1>4 DEF IsFirst
  <2>2. z = x
    BY <1>1, <2>1, FirstIsUnique
  <2>3. x \in Outcomes
    BY <1>1, <1>2 DEF IsFirst, Outcomes
  <2> QED
    BY <1>4, <2>2, <2>3 DEF Consistent, Outcomes, x, y, z
<1>6. /\ \/ x = 0 /\ \A n \in 1..K : d[n] = 0
         \/ \E n \in 1..K : x = d[n] /\ x # 0 /\ \A i \in 1..K : i < n => d[i] = 0
      /\ \/ y = 0 /\ \A n \in 1..K : e[n] = 0
         \/ \E m \in 1..K : y = e[m] /\ y # 0 /\ \A i \in 1..K : i < m => e[i] = 0
  BY <1>1 DEF IsFirst
<1>5. SUFFICES ASSUME ~(x = 0 /\ \A n \in 1..K : d[n] = 0),
                      ~(y = 0 /\ \A n \in 1..K : e[n] = 0)
               PROVE  Consistent(x, y, z)
  BY <1>3, <1>4 DEF x, y, z
<1>7. PICK n \in 1..K : x = d[n] /\ x # 0 /\ \A i \in 1..K : i < n => d[i] = 0
  BY <1>6, <1>5
<1>8. PICK m \in 1..K : y = e[m] /\ y # 0 /\ \A i \in 1..K : i < m => e[i] = 0
  BY <1>6, <1>5
<1>9. Consistent(x, y, z)
  <2>1. x \in Outcomes /\ y \in Outcomes
    BY <1>2, <1>7, <1>8
  <2>2. CASE n < m
    <3>1. f[n] = x /\ \A i \in 1..K : i < n => f[i] = 0
      BY <1>2, <1>7, <1>8, <2>2
    <3>2. z = x
      BY <1>1, <1>7, <1>8, <3>1, FirstIsUnique DEF IsFirst
    <3> QED
      BY <1>7, <1>8, <2>1, <3>2 DEF Consistent, Outcomes
  <2>3. CASE m < n
    <3>1. f[m] = y /\ \A i \in 1..K : i < m => f[i] = 0
      BY <1>2, <1>7, <1>8, <2>3
    <3>2. z = y
      BY <1>1, <1>7, <1>8, <3>1, FirstIsUnique DEF IsFirst
    <3> QED
      BY <1>7, <1>8, <2>1, <3>2 DEF Consistent, Outcomes
  <2>4. CASE n = m
    <3>1. \A i \in 1..K : i < n => f[i] = 0
      BY <1>2, <1>7, <1>8, <2>4
    <3>2. z \in Outcomes
      BY <1>1, <1>2 DEF IsFirst, Outcomes
    <3>3. CASE x = y
      <4>1. f[n] = x
        BY <1>2, <1>7, <1>8, <2>4, <3>3
      <4>2. z = x
        BY <1>1, <1>7, <1>8, <3>1, <4>1, FirstIsUnique DEF IsFirst
      <4> QED
        BY <1>7, <1>8, <2>1, <3>3, <4>2 DEF Consistent, Outcomes
    <3>4. CASE x # y
      BY <1>7, <1>8, <2>1, <3>2, <3>4 DEF Consistent, Outcomes
    <3> QED
      BY <3>3, <3>4
  <2> QED
    BY <2>2, <2>3, <2>4
<1> QED
  BY <1>9

-----------------------------------------------------------------------------
-----------------------------------------------------------------------------
(***************************************************************************)
(* Single characters.                                                      *)
(***************************************************************************)
LEMMA CodeTyped ==
  /\ \A c \in Characters : Code[c] \in Int /\ Ascii[Code[c]] = c
  /\ NUL \in Characters
  /\ Digits \subseteq Characters /\ NUL \notin Digits
<1>1. /\ DOMAIN Ascii = 1..23 /\ Ascii[1] = NUL
      /\ Ascii[6] = "0" /\ Ascii[7] = "1" /\ Ascii[8] = "2" /\ Ascii[9] = "3" /\ Ascii[10] = "4"
      /\ Ascii[11] = "5" /\ Ascii[12] = "6" /\ Ascii[13] = "7" /\ Ascii[14] = "8"
      /\ Ascii[15] = "9"
  <2>1. DOMAIN Ascii = 1..23
    BY DEF Ascii
  <2>2. Ascii[1] = NUL
    BY DEF Ascii
  <2>3. /\ Ascii[6] = "0" /\ Ascii[7] = "1" /\ Ascii[8] = "2" /\ Ascii[9] = "3"
        /\ Ascii[10] = "4"
    BY DEF Ascii
  <2>4. /\ Ascii[11] = "5" /\ Ascii[12] = "6" /\ Ascii[13] = "7" /\ Ascii[14] = "8"
        /\ Ascii[15] = "9"
    BY DEF Ascii
  <2> QED
    BY <2>1, <2>2, <2>3, <2>4
<1>2. Characters = {Ascii[n] : n \in 1..23}
  BY <1>1 DEF Characters, Code, ToSet
<1>3. ASSUME NEW c \in Characters
      PROVE  Code[c] \in 1..23 /\ Ascii[Code[c]] = c
  <2>1. c \in ToSet(Ascii)
    BY <1>1, <1>2 DEF ToSet
  <2>2. Code[c] = CHOOSE n \in DOMAIN Ascii : Ascii[n] = c
    BY <2>1 DEF Code
  <2>3. \E n \in DOMAIN Ascii : Ascii[n] = c
    BY <1>1, <1>2
  <2> QED
    BY <1>1, <2>2, <2>3
<1>4. NUL \in Characters /\ Digits \subseteq Characters
  BY <1>1, <1>2 DEF Digits
<1>5. NUL \notin Digits
  BY DEF NUL, Digits
<1> QED
  BY <1>3, <1>4, <1>5

LEMMA VercharConsistent ==
  ASSUME NEW a \in Characters, NEW b \in Characters, NEW c \in Characters
  PROVE  /\ Consistent(cmp_verchar(a, b), cmp_verchar(b, c), cmp_verchar(a, c))
         /\ cmp_verchar(b, a) = 0 - cmp_verchar(a, b)
         /\ cmp_verchar(a, b) = 0 <=> a = b
<1>1. /\ Code[a] \in Int /\ Code[b] \in Int /\ Code[c] \in Int
      /\ Code[a] = Code[b] => a = b
      /\ Code[b] = Code[c] => b = c
      /\ Code[a] = Code[c] => a = c
  BY CodeTyped
<1>2. ASSUME NEW i \in Int, NEW j \in Int, NEW k \in Int
      PROVE  /\ Consistent(Sign(i, j), Sign(j, k), Sign(i, k))
             /\ Sign(j, i) = 0 - Sign(i, j)
             /\ Sign(i, j) = 0 => i = j
  BY SignConsistent
<1>3. /\ Consistent(Sign(Code[a], Code[b]), Sign(Code[b], Code[c]), Sign(Code[a], Code[c]))
      /\ Sign(Code[b], Code[a]) = 0 - Sign(Code[a], Code[b])
      /\ Sign(Code[a], Code[b]) = 0 => a = b
      /\ Sign(Code[b], Code[c]) = 0 => b = c
      /\ Sign(Code[a], Code[c]) = 0 => a = c
  BY <1>1, <1>2
<1>4. Consistent(cmp_verchar(a, b), cmp_verchar(b, c), cmp_verchar(a, c))
  BY <1>3 DEF cmp_verchar, Consistent, Outcomes
<1>5. cmp_verchar(b, a) = 0 - cmp_verchar(a, b) /\ (cmp_verchar(a, b) = 0 <=> a = b)
  BY <1>3 DEF cmp_verchar, Consistent, Outcomes
<1> QED
  BY <1>4, <1>5

LEMMA CharAtTyped ==
  ASSUME NEW s \in Seq(Characters), NEW n
  PROVE  CharAt(s, n) \in Characters
BY CodeTyped, ElementOfSeq, LenProperties DEF CharAt

-----------------------------------------------------------------------------
(***************************************************************************)
(* Runs of characters other than digits.                                   *)
(***************************************************************************)
LEMMA NondigResults ==
  ASSUME NEW s \in Seq(Characters), NEW t \in Seq(Characters),
         NEW K \in Nat, K >= Len(s), K >= Len(t)
  PROVE  cmp_nondig(s, t) =
            FirstDifference([n \in 1..K |-> cmp_verchar(CharAt(s, n), CharAt(t, n))])
<1> DEFINE L == IF Len(s) > Len(t) THEN Len(s) ELSE Len(t)
           R(n) == cmp_verchar(CharAt(s, n), CharAt(t, n))
           d == [n \in 1..L |-> R(n)]
           e == [n \in 1..K |-> R(n)]
<1>1. Len(s) \in Nat /\ Len(t) \in Nat /\ DOMAIN s = 1..Len(s) /\ DOMAIN t = 1..Len(t)
  BY LenProperties
<1>2. L \in Nat /\ L <= K /\ L >= Len(s) /\ L >= Len(t)
  BY <1>1
<1>3. cmp_nondig(s, t) = FirstDifference(d)
  BY DEF cmp_nondig
<1> HIDE DEF L
<1>4. ASSUME NEW n \in 1..K, ~(n <= L) PROVE R(n) = 0
  <2>1. CharAt(s, n) = NUL /\ CharAt(t, n) = NUL
    BY <1>1, <1>2, <1>4 DEF CharAt
  <2> QED
    BY <2>1 DEF cmp_verchar
<1>5. \A n \in 1..K : e[n] = IF n <= L THEN d[n] ELSE 0
  BY <1>2, <1>4
<1>6. DOMAIN d = 1..L /\ DOMAIN e = 1..K
  OBVIOUS
<1> HIDE DEF d, e
<1>7. FirstDifference(d) = FirstDifference(e)
  BY <1>2, <1>5, <1>6, FirstDifferenceExtended
<1> QED
  BY <1>3, <1>7 DEF d, e

LEMMA NondigConsistent ==
  ASSUME NEW s \in Seq(Characters), NEW t \in Seq(Characters), NEW u \in Seq(Characters)
  PROVE  /\ Consistent(cmp_nondig(s, t), cmp_nondig(t, u), cmp_nondig(s, u))
         /\ cmp_nondig(t, s) = 0 - cmp_nondig(s, t)
<1> DEFINE K == Len(s) + (Len(t) + Len(u))
           D(x, y) == [n \in 1..K |-> cmp_verchar(CharAt(x, n), CharAt(y, n))]
<1>1. Len(s) \in Nat /\ Len(t) \in Nat /\ Len(u) \in Nat
  BY LenProperties
<1>2. K \in Nat /\ K >= Len(s) /\ K >= Len(t) /\ K >= Len(u)
  BY <1>1
<1> HIDE DEF K
<1>3. /\ cmp_nondig(s, t) = FirstDifference(D(s, t))
      /\ cmp_nondig(t, u) = FirstDifference(D(t, u))
      /\ cmp_nondig(s, u) = FirstDifference(D(s, u))
      /\ cmp_nondig(t, s) = FirstDifference(D(t, s))
  BY <1>2, NondigResults
<1>4. ASSUME NEW n \in 1..K
      PROVE  /\ Consistent(D(s, t)[n], D(t, u)[n], D(s, u)[n])
             /\ D(t, s)[n] = 0 - D(s, t)[n]
             /\ D(s, t)[n] \in Outcomes
  <2>1. /\ CharAt(s, n) \in Characters /\ CharAt(t, n) \in Characters
        /\ CharAt(u, n) \in Characters
    BY CharAtTyped
  <2> QED
    BY <2>1, VercharConsistent DEF Consistent
<1>5. /\ DOMAIN D(s, t) = 1..K /\ DOMAIN D(t, u) = 1..K
      /\ DOMAIN D(s, u) = 1..K /\ DOMAIN D(t, s) = 1..K
  OBVIOUS
<1> HIDE DEF D
<1>6. Consistent(FirstDifference(D(s, t)), FirstDifference(D(t, u)), FirstDifference(D(s, u)))
  BY <1>2, <1>4, <1>5, FirstDifferenceConsistent
<1>7. FirstDifference(D(t, s)) = 0 - FirstDifference(D(s, t))
  BY <1>2, <1>4, <1>5, FirstDifferenceNegated
<1> QED
  BY <1>3, <1>6, <1>7

(***************************************************************************)
(* No run of characters is equal to none.                                  *)
(***************************************************************************)
LEMMA NondigOfNothing ==
  ASSUME NEW s \in Seq(Characters \ {NUL}), NEW t \in Seq(Characters \ {NUL}),
         s = <<>>, t # <<>>
  PROVE  cmp_nondig(s, t) # 0 /\ cmp_nondig(t, s) # 0
<1> DEFINE K == Len(t)
           D(x, y) == [n \in 1..K |-> cmp_verchar(CharAt(x, n), CharAt(y, n))]
<1>1. K \in Nat /\ K >= 1 /\ DOMAIN t = 1..K /\ Len(s) = 0 /\ DOMAIN s = 1..0
      /\ t[1] \in Characters \ {NUL}
      /\ s \in Seq(Characters) /\ t \in Seq(Characters)
      /\ K >= Len(s) /\ K >= Len(t)
  BY LenProperties, EmptySeq, ElementOfSeq
<1> HIDE DEF K
<1>2. cmp_nondig(s, t) = FirstDifference(D(s, t)) /\ cmp_nondig(t, s) = FirstDifference(D(t, s))
  BY <1>1, NondigResults
<1>3. 1 \in 1..K /\ CharAt(s, 1) = NUL /\ CharAt(t, 1) # NUL
      /\ CharAt(t, 1) \in Characters /\ NUL \in Characters
  BY <1>1, CodeTyped DEF CharAt
<1>4. D(s, t)[1] # 0 /\ D(t, s)[1] # 0
  BY <1>3, VercharConsistent
<1>5. DOMAIN D(s, t) = 1..K /\ DOMAIN D(t, s) = 1..K
  OBVIOUS
<1> HIDE DEF D
<1>6. IsFirst(D(s, t), K, FirstDifference(D(s, t))) /\ IsFirst(D(t, s), K, FirstDifference(D(t, s)))
  BY <1>1, <1>5, FirstDifferenceIs
<1> QED
  BY <1>2, <1>3, <1>4, <1>6 DEF IsFirst

-----------------------------------------------------------------------------
(***************************************************************************)
(* What strtoull returns is a number, and 0 at the end of the string.      *)
(***************************************************************************)
LEMMA RunEndIs ==
  ASSUME NEW s, NEW n \in Nat, NEW last \in Int, n <= last + 1, NEW S
  PROVE  LET r == RunEnd(s, n, last, S)
         IN  /\ r \in n..(last + 1)
             /\ r = last + 1 \/ s[r] \notin S
             /\ \A k \in n..(r - 1) : s[k] \in S
<1> DEFINE L == last + 1
           T == {m \in n..L : m = L \/ s[m] \notin S}
           Is(m) == /\ m = L \/ s[m] \notin S
                    /\ \A k \in n..(m - 1) : s[k] \in S
<1>1. L \in Int /\ n <= L
  OBVIOUS
<1>2. RunEnd(s, n, last, S) = CHOOSE m \in n..L : Is(m)
  BY DEF RunEnd
<1> HIDE DEF L
<1>3. T \in SUBSET Nat /\ T # {}
  BY <1>1
<1>4. PICK r \in T : \A m \in T : r <= m
  BY <1>3, LeastOf
<1>5. \A k \in n..(r - 1) : k \in n..L /\ ~(r <= k)
  BY <1>1, <1>4
<1>6. r \in n..L /\ Is(r)
  BY <1>4, <1>5
<1>7. /\ RunEnd(s, n, last, S) \in n..L
      /\ Is(RunEnd(s, n, last, S))
  BY <1>2, <1>6
<1> QED
  BY <1>7 DEF L

LEMMA NumberTyped ==
  ASSUME NEW digits \in Seq(Characters)
  PROVE  /\ Number(digits) \in Int
         /\ digits = <<>> => Number(digits) = 0
<1> DEFINE n == Len(digits)
           next1 == [p \in (1..n) \X Int |-> 10 * p[2] + (Code[digits[p[1]]] - Code["0"])]
           F == CHOOSE f : f = [i \in 0..n |-> IF i = 0 THEN 0
                                ELSE 10 * f[i - 1] + (Code[digits[i]] - Code["0"])]
<1>1. n \in Nat /\ \A i \in 1..n : digits[i] \in Characters
  BY LenProperties, ElementOfSeq
<1>2. Code["0"] \in Int /\ \A i \in 1..n : Code[digits[i]] \in Int
  BY <1>1, CodeTyped DEF Digits
<1>3. next1 \in [(1..n) \X Int -> Int]
  BY <1>2
<1>4. \A i \in 1..n, x \in Int : next1[<<i, x>>] = 10 * x + (Code[digits[i]] - Code["0"])
  OBVIOUS
<1>5. Number(digits) = F[n]
  BY DEF Number
<1> HIDE DEF n, next1
<1>6. PICK f : /\ f \in [0..n -> Int]
               /\ f[0] = 0
               /\ \A i \in 1..n : f[i] = next1[<<i, f[i - 1]>>]
  <2>1. next1 \in NextValues(n, Int) /\ 0 \in Int
    BY <1>3 DEF NextValues
  <2>2. \E f : RecursFromZero(f, n, Int, 0, next1)
    BY <1>1, <2>1, RecursionFromZero
  <2> QED
    BY <2>2 DEF RecursFromZero
<1>7. f = [i \in 0..n |-> IF i = 0 THEN 0 ELSE 10 * f[i - 1] + (Code[digits[i]] - Code["0"])]
  <2>1. ASSUME NEW i \in 0..n
        PROVE  f[i] = IF i = 0 THEN 0 ELSE 10 * f[i - 1] + (Code[digits[i]] - Code["0"])
    <3>1. CASE i = 0
      BY <1>6, <3>1
    <3>2. CASE i # 0
      <4>1. i \in 1..n /\ i - 1 \in 0..n
        BY <1>1, <3>2
      <4>2. f[i - 1] \in Int
        BY <1>6, <4>1
      <4> QED
        BY <1>4, <1>6, <3>2, <4>1, <4>2
    <3> QED
      BY <3>1, <3>2
  <2>2. f = [i \in 0..n |-> f[i]]
    BY <1>6
  <2> QED
    BY <2>1, <2>2
<1>8. F = [i \in 0..n |-> IF i = 0 THEN 0 ELSE 10 * F[i - 1] + (Code[digits[i]] - Code["0"])]
  BY <1>7
<1> HIDE DEF F
<1>9. \A i \in 0..n : F[i] = IF i = 0 THEN 0
                            ELSE 10 * F[i - 1] + (Code[digits[i]] - Code["0"])
  BY <1>8
<1> DEFINE T == {i \in 0..n : F[i] \notin Int}
<1>10. T = {}
  <2>1. SUFFICES ASSUME T # {} PROVE FALSE
    OBVIOUS
  <2>2. T \in SUBSET Nat
    OBVIOUS
  <2>3. PICK i \in T : \A j \in T : i <= j
    BY <2>1, <2>2, LeastOf
  <2>4. CASE i = 0
    BY <1>9, <2>3, <2>4
  <2>5. CASE i # 0
    <3>1. i \in 1..n /\ i - 1 \in 0..n /\ ~(i <= i - 1)
      BY <1>1, <2>3, <2>5
    <3>2. F[i - 1] \in Int
      BY <2>3, <3>1
    <3>3. F[i] = 10 * F[i - 1] + (Code[digits[i]] - Code["0"])
      BY <1>9, <2>3, <2>5
    <3>4. Code[digits[i]] \in Int /\ Code["0"] \in Int
      BY <1>2, <3>1
    <3>5. F[i] \in Int
      BY <3>2, <3>3, <3>4
    <3> QED
      BY <2>3, <3>5
  <2> QED
    BY <2>4, <2>5
<1>11. n \in 0..n /\ (digits = <<>> => n = 0)
  BY <1>1, EmptySeq DEF n
<1> QED
  BY <1>5, <1>9, <1>10, <1>11

\* The blanks before the sign.
LEMMA SignAtIs ==
  ASSUME NEW v \in Seq(Characters), NEW n \in 1..(Len(v) + 1)
  PROVE  SignAt(v, n) \in n..(Len(v) + 1)
<1> DEFINE S == {" "}
<1>1. n \in Nat /\ Len(v) \in Int /\ n <= Len(v) + 1
  BY LenProperties
<1>2. SignAt(v, n) = RunEnd(v, n, Len(v), S)
  BY DEF SignAt
<1> HIDE DEF S
<1>3. RunEnd(v, n, Len(v), S) \in n..(Len(v) + 1)
  BY <1>1, RunEndIs
<1> QED
  BY <1>2, <1>3

LEMMA SubjectTyped ==
  ASSUME NEW v \in Seq(Characters), NEW n \in 1..(Len(v) + 1)
  PROVE  LET first == DigitsAt(v, n)
             end == RunEnd(v, first, Len(v), Digits)
         IN  /\ first \in n..(Len(v) + 1)
             /\ end \in first..(Len(v) + 1)
             /\ Subject(v, n) \in Seq(Characters)
             /\ Len(Subject(v, n)) = end - first
             /\ \A k \in first..(end - 1) : v[k] \in Digits
             /\ end = Len(v) + 1 \/ v[end] \notin Digits
<1> DEFINE first == DigitsAt(v, n)
           end == RunEnd(v, first, Len(v), Digits)
<1>1. Len(v) \in Nat /\ DOMAIN v = 1..Len(v) /\ \A i \in 1..Len(v) : v[i] \in Characters
  BY LenProperties, ElementOfSeq
<1>2. SignAt(v, n) \in n..(Len(v) + 1)
  BY SignAtIs
<1>3. first \in n..(Len(v) + 1)
  <2> DEFINE sign == SignAt(v, n)
  <2>1. first = IF CharAt(v, sign) \in {"+", "-"} THEN sign + 1 ELSE sign
    BY DEF DigitsAt
  <2>2. CharAt(v, sign) \in {"+", "-"} => sign \in 1..Len(v)
    BY <1>1 DEF CharAt, NUL
  <2> HIDE DEF sign, first
  <2>3. sign \in n..(Len(v) + 1)
    BY <1>2 DEF sign
  <2> QED
    BY <1>1, <2>1, <2>2, <2>3
<1> HIDE DEF first
<1>4. /\ end \in first..(Len(v) + 1)
      /\ end = Len(v) + 1 \/ v[end] \notin Digits
      /\ \A k \in first..(end - 1) : v[k] \in Digits
  BY <1>1, <1>3, RunEndIs
<1>5. Subject(v, n) = SubSeq(v, first, end - 1)
  BY DEF Subject, first
<1> HIDE DEF end
<1>6. /\ Subject(v, n) \in Seq(Characters)
      /\ Len(Subject(v, n)) = end - first
  <2>1. first \in Int /\ end - 1 \in Int /\ \A i \in first..(end - 1) : v[i] \in Characters
    BY <1>1, <1>3, <1>4
  <2>2. SubSeq(v, first, end - 1) \in Seq(Characters)
    BY <2>1, SubSeqProperties
  <2>3. Len(SubSeq(v, first, end - 1)) = IF first <= end - 1 THEN ((end - 1) - first) + 1 ELSE 0
    BY <2>1, SubSeqProperties
  <2> QED
    BY <1>3, <1>4, <1>5, <2>2, <2>3
<1> QED
  BY <1>3, <1>4, <1>6 DEF first, end

LEMMA strtoullTyped ==
  ASSUME NEW v \in Seq(Characters), NEW n \in 1..(Len(v) + 1)
  PROVE  /\ strtoull(v, n) \in Int
         /\ n = Len(v) + 1 => strtoull(v, n) = 0
<1>1. Subject(v, n) \in Seq(Characters)
  BY SubjectTyped
<1>2. Number(Subject(v, n)) \in Int /\ (Subject(v, n) = <<>> => Number(Subject(v, n)) = 0)
  BY <1>1, NumberTyped
<1>3. strtoull(v, n) \in Int
  <2> DEFINE u == Number(Subject(v, n))
  <2>1. strtoull(v, n) = IF u > ULLongMax THEN ULLongMax
                         ELSE IF CharAt(v, SignAt(v, n)) = "-"
                         THEN (ULLongMax + 1 - u) % (ULLongMax + 1)
                         ELSE u
    BY DEF strtoull
  <2> HIDE DEF u
  <2>2. u \in Int /\ ULLongMax \in Nat
    BY <1>2, WidthAssumption DEF u
  <2>3. (ULLongMax + 1 - u) % (ULLongMax + 1) \in Int
    BY <2>2
  <2> QED
    BY <2>1, <2>2, <2>3
<1>4. ASSUME n = Len(v) + 1
      PROVE  strtoull(v, n) = 0
  <2>1. Len(v) \in Nat /\ DOMAIN v = 1..Len(v)
    BY LenProperties
  <2>2. SignAt(v, n) = n
    <3>1. SignAt(v, n) \in n..(Len(v) + 1)
      BY SignAtIs
    <3> QED
      BY <1>4, <2>1, <3>1
  <2>3. CharAt(v, SignAt(v, n)) # "-"
    BY <1>4, <2>1, <2>2 DEF CharAt, NUL
  <2>4. Len(Subject(v, n)) = 0
    <3> DEFINE first == DigitsAt(v, n)
               end == RunEnd(v, first, Len(v), Digits)
    <3>1. first \in n..(Len(v) + 1) /\ end \in first..(Len(v) + 1)
          /\ Len(Subject(v, n)) = end - first
      BY SubjectTyped
    <3>2. first \in n..n
      BY <1>4, <3>1
    <3> HIDE DEF first, end
    <3>3. first = n /\ end = n
      BY <1>4, <2>1, <3>1, <3>2
    <3> QED
      BY <2>1, <3>1, <3>3
  <2>5. Subject(v, n) = <<>>
    BY <1>1, <2>4, EmptySeq
  <2>6. Number(Subject(v, n)) = 0 /\ ~(0 > ULLongMax)
    BY <1>2, <2>5, WidthAssumption
  <2> QED
    BY <2>3, <2>6 DEF strtoull
<1> QED
  BY <1>3, <1>4

-----------------------------------------------------------------------------
(***************************************************************************)
(* Parts of a version, and where the iterations of cmp_verstr's loop       *)
(* start in them.                                                          *)
(***************************************************************************)
Versions == Seq(Characters \ {NUL})

IsPart(v, p) ==
    /\ p.first \in Nat \ {0}
    /\ p.last \in 0..Len(v)
    /\ p.first <= p.last + 1

Middle(v, p, n) == RunEnd(v, n, p.last, NonDigits)

After(v, p, n) == RunEnd(v, Middle(v, p, n), p.last, Digits)

LEMMA VersionTyped ==
  ASSUME NEW v \in Versions
  PROVE  /\ v \in Seq(Characters)
         /\ Len(v) \in Nat /\ DOMAIN v = 1..Len(v)
         /\ \A n \in 1..Len(v) : v[n] \in Characters /\ (v[n] \in Digits \/ v[n] \in NonDigits)
<1>1. Len(v) \in Nat /\ DOMAIN v = 1..Len(v) /\ \A n \in 1..Len(v) : v[n] \in Characters \ {NUL}
  BY LenProperties, ElementOfSeq DEF Versions
<1>2. v \in Seq(Characters)
  BY DEF Versions
<1> QED
  BY <1>1, <1>2 DEF NonDigits, Characters

LEMMA AfterIs ==
  ASSUME NEW v \in Versions, NEW p, IsPart(v, p), NEW n \in p.first..(p.last + 1)
  PROVE  /\ Middle(v, p, n) \in n..(p.last + 1)
         /\ \A k \in n..(Middle(v, p, n) - 1) : v[k] \in NonDigits
         /\ After(v, p, n) \in n..(p.last + 1)
         /\ n <= p.last => After(v, p, n) # n
         /\ After(v, p, n) <= p.last => v[After(v, p, n)] \in NonDigits
<1> DEFINE m == Middle(v, p, n)
           a == After(v, p, n)
           last == p.last
<1>1. n \in Nat \ {0} /\ last \in Nat /\ n <= last + 1 /\ last <= Len(v)
  BY VersionTyped DEF IsPart
<1>2. /\ m \in n..(last + 1)
      /\ m = last + 1 \/ v[m] \notin NonDigits
      /\ \A k \in n..(m - 1) : v[k] \in NonDigits
  BY <1>1, RunEndIs DEF Middle
<1> HIDE DEF m
<1>3. m \in Nat /\ m <= last + 1
  BY <1>1, <1>2
<1>4. /\ a \in m..(last + 1)
      /\ a = last + 1 \/ v[a] \notin Digits
      /\ \A k \in m..(a - 1) : v[k] \in Digits
  BY <1>1, <1>3, RunEndIs DEF After, m
<1> HIDE DEF a, last
<1>5. \A k \in 1..last : v[k] \in Digits \/ v[k] \in NonDigits
  BY <1>1, VersionTyped
<1>6. a \in n..(last + 1)
  BY <1>1, <1>2, <1>4
<1>7. a <= last => a \in 1..last /\ v[a] \in NonDigits
  BY <1>1, <1>4, <1>5, <1>6
<1>8. ASSUME n <= last, a = n PROVE FALSE
  <2>1. m = n
    BY <1>2, <1>4, <1>8
  <2>2. n \in 1..last /\ v[n] \notin NonDigits /\ v[n] \notin Digits
    BY <1>1, <1>2, <1>4, <1>8, <2>1
  <2> QED
    BY <1>5, <2>2
<1> QED
  BY <1>2, <1>6, <1>7, <1>8 DEF m, a, last

IsStarts(r, v, p, K) ==
    /\ r \in [1..K -> p.first..(p.last + 1)]
    /\ \A k \in 1..K : r[k] = IF k = 1 THEN p.first ELSE After(v, p, r[k - 1])

LEMMA StartsAre ==
  ASSUME NEW v \in Versions, NEW p, IsPart(v, p), NEW K \in Nat
  PROVE  IsStarts(Starts(v, p, K), v, p, K)
<1> DEFINE S == p.first..(p.last + 1)
           step == [x \in (1..K) \X S |-> After(v, p, x[2])]
           F == CHOOSE f : f = [k \in 1..K |-> IF k = 1 THEN p.first ELSE
                   RunEnd(v, RunEnd(v, f[k - 1], p.last, NonDigits), p.last, Digits)]
<1>1. /\ p.first \in S
      /\ \A n \in S : After(v, p, n) \in S
  <2>1. p.first \in S
    BY VersionTyped DEF IsPart
  <2>2. ASSUME NEW n \in S PROVE After(v, p, n) \in S
    <3>1. After(v, p, n) \in n..(p.last + 1)
      BY <2>2, AfterIs
    <3> QED
      BY <2>2, <3>1, VersionTyped DEF IsPart
  <2> QED
    BY <2>1, <2>2
<1>2. Starts(v, p, K) = F
  BY DEF Starts
<1> HIDE DEF S
<1>3. /\ step \in [(1..K) \X S -> S]
      /\ \A k \in 1..K, n \in S : step[<<k, n>>] = After(v, p, n)
  BY <1>1
<1> HIDE DEF step
<1>4. PICK f : Recurs(f, K, S, p.first, step)
  <2>1. step \in NextValues(K, S)
    BY <1>3 DEF NextValues
  <2> QED
    BY <1>1, <2>1, RecursionExists
<1>5. /\ f \in [1..K -> S]
      /\ \A k \in 1..K : f[k] = IF k = 1 THEN p.first ELSE After(v, p, f[k - 1])
  <2>1. f \in [1..K -> S] /\ \A k \in 1..K : f[k] = IF k = 1 THEN p.first ELSE step[<<k, f[k - 1]>>]
    BY <1>4 DEF Recurs
  <2>2. ASSUME NEW k \in 1..K, k # 1
        PROVE  f[k] = After(v, p, f[k - 1])
    <3>1. k - 1 \in 1..K
      BY <2>2
    <3> QED
      BY <1>3, <2>1, <2>2, <3>1
  <2> QED
    BY <2>1, <2>2
<1>6. f = [k \in 1..K |-> IF k = 1 THEN p.first ELSE
              RunEnd(v, RunEnd(v, f[k - 1], p.last, NonDigits), p.last, Digits)]
  <2>1. f = [k \in 1..K |-> f[k]]
    BY <1>5
  <2> QED
    BY <1>5, <2>1 DEF After, Middle
<1>7. F = [k \in 1..K |-> IF k = 1 THEN p.first ELSE
              RunEnd(v, RunEnd(v, F[k - 1], p.last, NonDigits), p.last, Digits)]
  BY <1>6
<1> HIDE DEF F
<1>8. DOMAIN F = 1..K /\ \A k \in 1..K : F[k] = IF k = 1 THEN p.first ELSE After(v, p, F[k - 1])
  BY <1>7 DEF After, Middle
<1> DEFINE T == {k \in 1..K : F[k] \in S}
<1>9. \A k \in 1..K : k \in T
  <2>1. K >= 1 => 1 \in T
    BY <1>1, <1>8
  <2>2. ASSUME NEW k \in 1..K, k \in T, k # K
        PROVE  k + 1 \in T
    <3>1. k + 1 \in 1..K /\ k + 1 # 1 /\ (k + 1) - 1 = k
      BY <2>2
    <3>2. F[k + 1] = After(v, p, F[k])
      BY <1>8, <3>1
    <3> QED
      BY <1>1, <2>2, <3>1, <3>2
  <2> HIDE DEF T
  <2> QED
    BY <2>1, <2>2, InductionTo
<1>10. F \in [1..K -> S]
  <2>1. F = [k \in 1..K |-> F[k]]
    BY <1>7
  <2> QED
    BY <1>9, <2>1
<1> QED
  BY <1>2, <1>8, <1>10 DEF IsStarts, S

(***************************************************************************)
(* Each iteration uses up a character, and all but the first start at a    *)
(* character that is no digit or at the end.                               *)
(***************************************************************************)
LEMMA StartsAdvance ==
  ASSUME NEW v \in Versions, NEW p, IsPart(v, p), NEW K \in Nat, NEW r, IsStarts(r, v, p, K),
         NEW k \in 1..K
  PROVE  /\ r[k] \in p.first..(p.last + 1)
         /\ r[k] = p.last + 1 \/ r[k] >= (p.first + k) - 1
         /\ k # 1 /\ r[k] <= p.last => v[r[k]] \in NonDigits
<1>1. /\ \A i \in 1..K : r[i] \in p.first..(p.last + 1)
      /\ \A i \in 1..K : r[i] = IF i = 1 THEN p.first ELSE After(v, p, r[i - 1])
  BY DEF IsStarts
<1>2. p.first \in Nat \ {0} /\ p.last \in Nat
  BY VersionTyped DEF IsPart
<1> DEFINE T == {i \in 1..K : r[i] = p.last + 1 \/ r[i] >= (p.first + i) - 1}
<1>3. \A i \in 1..K : i \in T
  <2>1. K >= 1 => 1 \in T
    BY <1>1, <1>2
  <2>2. ASSUME NEW i \in 1..K, i \in T, i # K
        PROVE  i + 1 \in T
    <3>1. i + 1 \in 1..K /\ i + 1 # 1 /\ (i + 1) - 1 = i
      BY <2>2
    <3>2. r[i + 1] = After(v, p, r[i]) /\ r[i] \in p.first..(p.last + 1)
      BY <1>1, <3>1
    <3>3. /\ r[i + 1] \in r[i]..(p.last + 1)
          /\ r[i] <= p.last => r[i + 1] # r[i]
      BY <3>2, AfterIs
    <3>4. r[i] = p.last + 1 \/ r[i] >= (p.first + i) - 1
      BY <2>2
    <3> DEFINE x == r[i]
               y == r[i + 1]
               first == p.first
               last == p.last
    <3>5. /\ x \in first..(last + 1) /\ y \in x..(last + 1)
          /\ x <= last => y # x
          /\ x = last + 1 \/ x >= (first + i) - 1
          /\ first \in Nat /\ last \in Nat /\ i \in Nat
      BY <1>2, <3>2, <3>3, <3>4
    <3> HIDE DEF x, y, first, last
    <3>6. y = last + 1 \/ y >= (first + (i + 1)) - 1
      BY <3>5
    <3> QED
      BY <3>1, <3>6 DEF y, first, last
  <2> HIDE DEF T
  <2> QED
    BY <2>1, <2>2, InductionTo
<1>4. ASSUME k # 1, r[k] <= p.last
      PROVE  v[r[k]] \in NonDigits
  <2>1. k - 1 \in 1..K /\ r[k] = After(v, p, r[k - 1])
    BY <1>1, <1>4
  <2>2. r[k - 1] \in p.first..(p.last + 1)
    BY <1>1, <2>1
  <2> QED
    BY <1>4, <2>1, <2>2, AfterIs
<1> QED
  BY <1>1, <1>3, <1>4

LEMMA StartsAgree ==
  ASSUME NEW v, NEW p, NEW K \in Nat, NEW L \in Nat, K <= L,
         NEW r, IsStarts(r, v, p, K), NEW s, IsStarts(s, v, p, L)
  PROVE  \A k \in 1..K : r[k] = s[k]
<1>1. /\ \A i \in 1..K : r[i] = IF i = 1 THEN p.first ELSE After(v, p, r[i - 1])
      /\ \A i \in 1..L : s[i] = IF i = 1 THEN p.first ELSE After(v, p, s[i - 1])
  BY DEF IsStarts
<1> DEFINE T == {i \in 1..K : r[i] = s[i]}
<1>2. K >= 1 => 1 \in T
  BY <1>1
<1>3. ASSUME NEW i \in 1..K, i \in T, i # K
      PROVE  i + 1 \in T
  <2>1. i + 1 \in 1..K /\ i + 1 \in 1..L /\ i + 1 # 1 /\ (i + 1) - 1 = i
    BY <1>3
  <2>2. r[i + 1] = After(v, p, r[i]) /\ s[i + 1] = After(v, p, s[i])
    BY <1>1, <2>1
  <2> QED
    BY <1>3, <2>1, <2>2
<1>4. \A i \in 1..K : i \in T
  <2> HIDE DEF T
  <2> QED
    BY <1>2, <1>3, InductionTo
<1> QED
  BY <1>4

-----------------------------------------------------------------------------
(***************************************************************************)
(* One iteration compares two runs, whichever of the parts is used up.     *)
(***************************************************************************)
Run(v, p, n) == SubSeq(v, n, Middle(v, p, n) - 1)

LEMMA RunIs ==
  ASSUME NEW v \in Versions, NEW p, IsPart(v, p), NEW n \in p.first..(p.last + 1)
  PROVE  /\ Run(v, p, n) \in Versions /\ Run(v, p, n) \in Seq(Characters)
         /\ Middle(v, p, n) \in 1..(Len(v) + 1)
         /\ n = p.last + 1 => Run(v, p, n) = <<>> /\ Middle(v, p, n) = n
         /\ n <= p.last /\ v[n] \in NonDigits => Run(v, p, n) # <<>>
<1> DEFINE m == Middle(v, p, n)
           last == p.last
<1>1. n \in Nat \ {0} /\ last \in Nat /\ n <= last + 1 /\ last <= Len(v) /\ Len(v) \in Nat
  BY VersionTyped DEF IsPart
<1>2. m \in n..(last + 1) /\ \A k \in n..(m - 1) : v[k] \in NonDigits
  BY AfterIs
<1>3. n <= last /\ v[n] \in NonDigits => m # n
  BY <1>1, RunEndIs DEF Middle
<1> HIDE DEF m, last
<1>4. \A k \in n..(m - 1) : v[k] \in Characters \ {NUL}
  <2>1. ASSUME NEW k \in n..(m - 1) PROVE k \in 1..Len(v)
    BY <1>1, <1>2
  <2> QED
    BY <1>2, <2>1, VersionTyped DEF NonDigits
<1>5. /\ SubSeq(v, n, m - 1) \in Versions
      /\ Len(SubSeq(v, n, m - 1)) = IF n <= m - 1 THEN ((m - 1) - n) + 1 ELSE 0
  BY <1>1, <1>2, <1>4, SubSeqProperties DEF Versions
<1>6. SubSeq(v, n, m - 1) = <<>> <=> m = n
  <2>1. Len(SubSeq(v, n, m - 1)) = m - n
    BY <1>1, <1>2, <1>5
  <2>2. SubSeq(v, n, m - 1) = <<>> <=> Len(SubSeq(v, n, m - 1)) = 0
    BY <1>5, EmptySeq DEF Versions
  <2> QED
    BY <1>1, <1>2, <2>1, <2>2
<1>7. m \in 1..(Len(v) + 1) /\ (n = last + 1 => m = n)
  BY <1>1, <1>2
<1>8. SubSeq(v, n, m - 1) \in Seq(Characters)
  BY <1>5, VersionTyped
<1> QED
  BY <1>3, <1>5, <1>6, <1>7, <1>8 DEF Run, m, last

\* The number an iteration compares; a part that is used up counts as 0.
Value(v, p, n) == IF n > p.last THEN 0 ELSE strtoull(v, Middle(v, p, n))

LEMMA ValueTyped ==
  ASSUME NEW v \in Versions, NEW p, IsPart(v, p), NEW n \in p.first..(p.last + 1)
  PROVE  Value(v, p, n) \in Int /\ strtoull(v, Middle(v, p, n)) \in Int
BY RunIs, VersionTyped, strtoullTyped DEF Value

LEMMA NothingIsEqual == cmp_nondig(<<>>, <<>>) = 0
<1>1. <<>> \in Seq(Characters)
  BY EmptySeq
<1>2. cmp_nondig(<<>>, <<>>) = 0 - cmp_nondig(<<>>, <<>>) /\ cmp_nondig(<<>>, <<>>) \in Outcomes
  BY <1>1, NondigConsistent DEF Consistent
<1> QED
  BY <1>2 DEF Outcomes

\* What an iteration returns, without regard to the loop's condition.
Compared(v, p, n, w, q, m) ==
    LET letters == cmp_nondig(Run(v, p, n), Run(w, q, m))
    IN  IF letters # 0 THEN letters ELSE Sign(Value(v, p, n), Value(w, q, m))

\* A part at its end compares as 0, or the other one goes on with a letter.
EndsBefore(v, p, n, w, q, m) ==
    n = p.last + 1 /\ m # q.last + 1 => w[m] \in NonDigits \/ strtoull(v, n) = 0

LEMMA CompareRunsIs ==
  ASSUME NEW v \in Versions, NEW p, IsPart(v, p), NEW n \in p.first..(p.last + 1),
         NEW w \in Versions, NEW q, IsPart(w, q), NEW m \in q.first..(q.last + 1),
         EndsBefore(v, p, n, w, q, m), EndsBefore(w, q, m, v, p, n)
  PROVE  CompareRuns(v, p, n, w, q, m) = Compared(v, p, n, w, q, m)
<1> DEFINE letters == cmp_nondig(Run(v, p, n), Run(w, q, m))
           x == strtoull(v, Middle(v, p, n))
           y == strtoull(w, Middle(w, q, m))
<1>1. CompareRuns(v, p, n, w, q, m) =
        IF n > p.last /\ m > q.last THEN 0
        ELSE IF letters # 0 THEN letters ELSE Sign(x, y)
  BY DEF CompareRuns, cmp_dig, Run, Middle
<1>2. Compared(v, p, n, w, q, m) = IF letters # 0 THEN letters
                                   ELSE Sign(Value(v, p, n), Value(w, q, m))
  BY DEF Compared
<1>3. /\ p.first \in Nat /\ p.last \in Nat /\ q.first \in Nat /\ q.last \in Nat
      /\ n > p.last <=> n = p.last + 1
      /\ m > q.last <=> m = q.last + 1
      /\ ~(n > p.last) <=> n <= p.last
      /\ ~(m > q.last) <=> m <= q.last
  <2>1. Len(v) \in Nat /\ Len(w) \in Nat
    BY VersionTyped
  <2>2. p.first \in Nat /\ p.last \in Nat /\ q.first \in Nat /\ q.last \in Nat
    BY <2>1 DEF IsPart
  <2>3. /\ n > p.last <=> n = p.last + 1
        /\ ~(n > p.last) <=> n <= p.last
    BY <2>2
  <2>4. /\ m > q.last <=> m = q.last + 1
        /\ ~(m > q.last) <=> m <= q.last
    BY <2>2
  <2> QED
    BY <2>2, <2>3, <2>4
<1>4. CASE n > p.last /\ m > q.last
  <2>1. Run(v, p, n) = <<>> /\ Run(w, q, m) = <<>>
    BY <1>3, <1>4, RunIs
  <2>2. letters = 0
    BY <2>1, NothingIsEqual
  <2>3. Value(v, p, n) = 0 /\ Value(w, q, m) = 0 /\ Sign(0, 0) = 0
    BY <1>4 DEF Value, Sign
  <2> QED
    BY <1>1, <1>2, <1>4, <2>2, <2>3
<1>5. CASE ~(n > p.last) /\ ~(m > q.last)
  BY <1>1, <1>2, <1>5 DEF Value
<1>6. CASE n > p.last /\ ~(m > q.last)
  <2>1. Run(v, p, n) = <<>> /\ Middle(v, p, n) = n
    BY <1>3, <1>6, RunIs
  <2>2. CASE w[m] \in NonDigits
    <3>1. Run(w, q, m) # <<>> /\ Run(v, p, n) \in Versions /\ Run(w, q, m) \in Versions
      BY <1>3, <1>6, <2>2, RunIs
    <3>2. letters # 0
      BY <2>1, <3>1, NondigOfNothing DEF Versions
    <3> QED
      BY <1>1, <1>2, <1>6, <3>2
  <2>3. CASE x = 0
    BY <1>1, <1>2, <1>6, <2>3 DEF Value
  <2> QED
    BY <1>3, <1>6, <2>1, <2>2, <2>3 DEF EndsBefore
<1>7. CASE ~(n > p.last) /\ m > q.last
  <2>1. Run(w, q, m) = <<>> /\ Middle(w, q, m) = m
    BY <1>3, <1>7, RunIs
  <2>2. CASE v[n] \in NonDigits
    <3>1. Run(v, p, n) # <<>> /\ Run(v, p, n) \in Versions /\ Run(w, q, m) \in Versions
      BY <1>3, <1>7, <2>2, RunIs
    <3>2. letters # 0
      BY <2>1, <3>1, NondigOfNothing DEF Versions
    <3> QED
      BY <1>1, <1>2, <1>7, <3>2
  <2>3. CASE y = 0
    BY <1>1, <1>2, <1>7, <2>3 DEF Value
  <2> QED
    BY <1>3, <1>7, <2>1, <2>2, <2>3 DEF EndsBefore
<1> QED
  BY <1>4, <1>5, <1>6, <1>7

LEMMA CompareRunsOpposite ==
  ASSUME NEW v \in Versions, NEW p, IsPart(v, p), NEW n \in p.first..(p.last + 1),
         NEW w \in Versions, NEW q, IsPart(w, q), NEW m \in q.first..(q.last + 1)
  PROVE  /\ CompareRuns(v, p, n, w, q, m) \in Outcomes
         /\ CompareRuns(w, q, m, v, p, n) = 0 - CompareRuns(v, p, n, w, q, m)
<1> DEFINE letters == cmp_nondig(Run(v, p, n), Run(w, q, m))
           srettel == cmp_nondig(Run(w, q, m), Run(v, p, n))
           x == strtoull(v, Middle(v, p, n))
           y == strtoull(w, Middle(w, q, m))
<1>1. /\ CompareRuns(v, p, n, w, q, m) =
            IF n > p.last /\ m > q.last THEN 0
            ELSE IF letters # 0 THEN letters ELSE Sign(x, y)
      /\ CompareRuns(w, q, m, v, p, n) =
            IF m > q.last /\ n > p.last THEN 0
            ELSE IF srettel # 0 THEN srettel ELSE Sign(y, x)
  BY DEF CompareRuns, cmp_dig, Run, Middle
<1>2. letters \in Outcomes /\ srettel = 0 - letters
  BY RunIs, NondigConsistent DEF Consistent
<1>3. x \in Int /\ y \in Int
  BY ValueTyped
<1> HIDE DEF letters, srettel, x, y
<1>4. Sign(x, y) \in Outcomes /\ Sign(y, x) = 0 - Sign(x, y)
  BY <1>3, SignConsistent DEF Consistent
<1> QED
  BY <1>1, <1>2, <1>4 DEF Outcomes

LEMMA ComparedConsistent ==
  ASSUME NEW v \in Versions, NEW p, IsPart(v, p), NEW n \in p.first..(p.last + 1),
         NEW w \in Versions, NEW q, IsPart(w, q), NEW m \in q.first..(q.last + 1),
         NEW u \in Versions, NEW o, IsPart(u, o), NEW l \in o.first..(o.last + 1)
  PROVE  Consistent(Compared(v, p, n, w, q, m), Compared(w, q, m, u, o, l),
                    Compared(v, p, n, u, o, l))
<1>1. /\ Run(v, p, n) \in Seq(Characters) /\ Run(w, q, m) \in Seq(Characters)
      /\ Run(u, o, l) \in Seq(Characters)
  BY RunIs
<1>2. Consistent(cmp_nondig(Run(v, p, n), Run(w, q, m)), cmp_nondig(Run(w, q, m), Run(u, o, l)),
                 cmp_nondig(Run(v, p, n), Run(u, o, l)))
  BY <1>1, NondigConsistent
<1>3. Value(v, p, n) \in Int /\ Value(w, q, m) \in Int /\ Value(u, o, l) \in Int
  BY ValueTyped
<1>4. Consistent(Sign(Value(v, p, n), Value(w, q, m)), Sign(Value(w, q, m), Value(u, o, l)),
                 Sign(Value(v, p, n), Value(u, o, l)))
  BY <1>3, SignConsistent
<1> QED
  BY <1>2, <1>4, ThenConsistent DEF Compared

-----------------------------------------------------------------------------
(***************************************************************************)
(* cmp_verstr's loop may be thought of as going on behind the ends.        *)
(***************************************************************************)
PartLength(p) == p.last + 1 - p.first

LEMMA VerstrIs ==
  ASSUME NEW v \in Versions, NEW p, IsPart(v, p), NEW w \in Versions, NEW q, IsPart(w, q),
         NEW K \in Nat, K >= PartLength(p) + PartLength(q),
         NEW r, IsStarts(r, v, p, K), NEW s, IsStarts(s, w, q, K)
  PROVE  cmp_verstr(v, p, w, q) =
            FirstDifference([k \in 1..K |-> CompareRuns(v, p, r[k], w, q, s[k])])
<1> DEFINE L == (p.last + 1 - p.first) + (q.last + 1 - q.first)
           n == Starts(v, p, L)
           m == Starts(w, q, L)
           d == [k \in 1..L |-> CompareRuns(v, p, n[k], w, q, m[k])]
           e == [k \in 1..K |-> CompareRuns(v, p, r[k], w, q, s[k])]
<1>1. /\ p.first \in Nat /\ p.last \in Nat /\ p.first <= p.last + 1
      /\ q.first \in Nat /\ q.last \in Nat /\ q.first <= q.last + 1
  BY VersionTyped DEF IsPart
<1>2. L \in Nat /\ L <= K
  BY <1>1 DEF PartLength
<1>3. cmp_verstr(v, p, w, q) = FirstDifference(d)
  BY DEF cmp_verstr
<1>4. ASSUME NEW k \in 1..K, ~(k <= L)
      PROVE  CompareRuns(v, p, r[k], w, q, s[k]) = 0
  <2>1. /\ r[k] \in p.first..(p.last + 1) /\ (r[k] = p.last + 1 \/ r[k] >= (p.first + k) - 1)
        /\ s[k] \in q.first..(q.last + 1) /\ (s[k] = q.last + 1 \/ s[k] >= (q.first + k) - 1)
    BY StartsAdvance
  <2>2. k \in Nat /\ k > (p.last + 1 - p.first) + (q.last + 1 - q.first)
    BY <1>2, <1>4
  <2>3. r[k] > p.last /\ s[k] > q.last
    <3>1. (p.first + k) - 1 > p.last
      BY <1>1, <2>2
    <3>2. (q.first + k) - 1 > q.last
      BY <1>1, <2>2
    <3> QED
      BY <1>1, <2>1, <2>2, <3>1, <3>2
  <2> QED
    BY <2>3 DEF CompareRuns
<1> HIDE DEF L
<1>5. \A k \in 1..L : n[k] = r[k] /\ m[k] = s[k]
  <2>1. IsStarts(n, v, p, L) /\ IsStarts(m, w, q, L)
    BY <1>2, StartsAre
  <2> HIDE DEF n, m
  <2> QED
    BY <1>2, <2>1, StartsAgree
<1>6. \A k \in 1..K : e[k] = IF k <= L THEN d[k] ELSE 0
  <2> HIDE DEF n, m
  <2>1. ASSUME NEW k \in 1..K, k <= L PROVE e[k] = d[k]
    <3>1. k \in 1..L
      BY <2>1
    <3> QED
      BY <1>5, <3>1
  <2> QED
    BY <1>4, <2>1
<1>7. DOMAIN d = 1..L /\ DOMAIN e = 1..K
  OBVIOUS
<1> HIDE DEF d, e
<1>8. FirstDifference(d) = FirstDifference(e)
  BY <1>2, <1>6, <1>7, FirstDifferenceExtended
<1> QED
  BY <1>3, <1>8 DEF e

LEMMA PartLengthTyped ==
  ASSUME NEW v \in Versions, NEW p, IsPart(v, p)
  PROVE  PartLength(p) \in Nat
<1>1. p.first \in Nat /\ p.last \in Nat /\ p.first <= p.last + 1
  BY VersionTyped DEF IsPart
<1> QED
  BY <1>1 DEF PartLength

LEMMA VerstrOpposite ==
  ASSUME NEW v \in Versions, NEW p, IsPart(v, p), NEW w \in Versions, NEW q, IsPart(w, q)
  PROVE  /\ cmp_verstr(v, p, w, q) \in Outcomes
         /\ cmp_verstr(w, q, v, p) = 0 - cmp_verstr(v, p, w, q)
<1> DEFINE K == PartLength(p) + PartLength(q)
           r == Starts(v, p, K)
           s == Starts(w, q, K)
           d == [k \in 1..K |-> CompareRuns(v, p, r[k], w, q, s[k])]
           e == [k \in 1..K |-> CompareRuns(w, q, s[k], v, p, r[k])]
<1>1. K \in Nat /\ K >= PartLength(p) + PartLength(q) /\ K >= PartLength(q) + PartLength(p)
  <2>1. PartLength(p) \in Nat /\ PartLength(q) \in Nat
    BY PartLengthTyped
  <2> QED
    BY <2>1
<1> HIDE DEF K
<1>2. IsStarts(r, v, p, K) /\ IsStarts(s, w, q, K)
  BY <1>1, StartsAre
<1> HIDE DEF r, s
<1>3. cmp_verstr(v, p, w, q) = FirstDifference(d) /\ cmp_verstr(w, q, v, p) = FirstDifference(e)
  <2>1. cmp_verstr(v, p, w, q) = FirstDifference(d)
    BY <1>1, <1>2, VerstrIs
  <2>2. cmp_verstr(w, q, v, p) = FirstDifference(e)
    BY <1>1, <1>2, VerstrIs
  <2> QED
    BY <2>1, <2>2
<1>4. ASSUME NEW k \in 1..K
      PROVE  d[k] \in Outcomes /\ e[k] = 0 - d[k]
  <2>1. r[k] \in p.first..(p.last + 1) /\ s[k] \in q.first..(q.last + 1)
    BY <1>1, <1>2, StartsAdvance
  <2> QED
    BY <2>1, CompareRunsOpposite
<1>5. DOMAIN d = 1..K /\ DOMAIN e = 1..K
  OBVIOUS
<1> HIDE DEF d, e
<1>6. FirstDifference(d) \in Outcomes /\ FirstDifference(e) = 0 - FirstDifference(d)
  BY <1>1, <1>4, <1>5, FirstDifferenceTyped, FirstDifferenceNegated
<1> QED
  BY <1>3, <1>6

(***************************************************************************)
(* Nothing to read as a number behind a part without characters.           *)
(***************************************************************************)
EmptyIsZero(v, p) == p.first = p.last + 1 => p.last = Len(v)

LEMMA StartsEndBefore ==
  ASSUME NEW v \in Versions, NEW p, IsPart(v, p), NEW w \in Versions, NEW q, IsPart(w, q),
         EmptyIsZero(v, p), EmptyIsZero(w, q),
         NEW K \in Nat, NEW r, IsStarts(r, v, p, K), NEW s, IsStarts(s, w, q, K),
         NEW k \in 1..K
  PROVE  EndsBefore(v, p, r[k], w, q, s[k])
<1>1. SUFFICES ASSUME r[k] = p.last + 1, s[k] # q.last + 1
               PROVE  w[s[k]] \in NonDigits \/ strtoull(v, r[k]) = 0
  BY DEF EndsBefore
<1>2. CASE k = 1
  <2>1. r[k] = p.first
    BY <1>2 DEF IsStarts
  <2>2. r[k] = Len(v) + 1 /\ r[k] \in 1..(Len(v) + 1)
    <3>1. p.first = p.last + 1 /\ p.last = Len(v) /\ Len(v) \in Nat
      BY <1>1, <2>1, VersionTyped DEF EmptyIsZero
    <3> QED
      BY <2>1, <3>1
  <2>3. strtoull(v, r[k]) = 0
    BY <2>2, VersionTyped, strtoullTyped
  <2> QED
    BY <2>3
<1>3. CASE k # 1
  <2>1. s[k] \in q.first..(q.last + 1) /\ (s[k] <= q.last => w[s[k]] \in NonDigits)
    BY <1>3, StartsAdvance
  <2>2. s[k] <= q.last
    BY <1>1, <2>1, VersionTyped DEF IsPart
  <2> QED
    BY <2>1, <2>2
<1> QED
  BY <1>2, <1>3

LEMMA VerstrConsistent ==
  ASSUME NEW v \in Versions, NEW p, IsPart(v, p), EmptyIsZero(v, p),
         NEW w \in Versions, NEW q, IsPart(w, q), EmptyIsZero(w, q),
         NEW u \in Versions, NEW o, IsPart(u, o), EmptyIsZero(u, o)
  PROVE  Consistent(cmp_verstr(v, p, w, q), cmp_verstr(w, q, u, o), cmp_verstr(v, p, u, o))
<1> DEFINE K == PartLength(p) + PartLength(q) + PartLength(o)
           r == Starts(v, p, K)
           s == Starts(w, q, K)
           t == Starts(u, o, K)
           d == [k \in 1..K |-> CompareRuns(v, p, r[k], w, q, s[k])]
           e == [k \in 1..K |-> CompareRuns(w, q, s[k], u, o, t[k])]
           f == [k \in 1..K |-> CompareRuns(v, p, r[k], u, o, t[k])]
<1>1. PartLength(p) \in Nat /\ PartLength(q) \in Nat /\ PartLength(o) \in Nat
  BY PartLengthTyped
<1>2. /\ K \in Nat /\ K >= PartLength(p) + PartLength(q) /\ K >= PartLength(q) + PartLength(o)
      /\ K >= PartLength(p) + PartLength(o)
  BY <1>1
<1> HIDE DEF K
<1>3. IsStarts(r, v, p, K) /\ IsStarts(s, w, q, K) /\ IsStarts(t, u, o, K)
  BY <1>2, StartsAre
<1> HIDE DEF r, s, t
<1>4. /\ cmp_verstr(v, p, w, q) = FirstDifference(d)
      /\ cmp_verstr(w, q, u, o) = FirstDifference(e)
      /\ cmp_verstr(v, p, u, o) = FirstDifference(f)
  BY <1>2, <1>3, VerstrIs
<1>5. ASSUME NEW k \in 1..K
      PROVE  Consistent(d[k], e[k], f[k])
  <2>1. /\ r[k] \in p.first..(p.last + 1) /\ s[k] \in q.first..(q.last + 1)
        /\ t[k] \in o.first..(o.last + 1)
    BY <1>2, <1>3, StartsAdvance
  <2>2. /\ EndsBefore(v, p, r[k], w, q, s[k]) /\ EndsBefore(w, q, s[k], v, p, r[k])
        /\ EndsBefore(w, q, s[k], u, o, t[k]) /\ EndsBefore(u, o, t[k], w, q, s[k])
        /\ EndsBefore(v, p, r[k], u, o, t[k]) /\ EndsBefore(u, o, t[k], v, p, r[k])
    BY <1>2, <1>3, StartsEndBefore
  <2>3. /\ d[k] = Compared(v, p, r[k], w, q, s[k])
        /\ e[k] = Compared(w, q, s[k], u, o, t[k])
        /\ f[k] = Compared(v, p, r[k], u, o, t[k])
    BY <2>1, <2>2, CompareRunsIs
  <2>4. Consistent(Compared(v, p, r[k], w, q, s[k]), Compared(w, q, s[k], u, o, t[k]),
                   Compared(v, p, r[k], u, o, t[k]))
    BY <2>1, ComparedConsistent
  <2> HIDE DEF d, e, f
  <2> QED
    BY <2>3, <2>4
<1>6. DOMAIN d = 1..K /\ DOMAIN e = 1..K /\ DOMAIN f = 1..K
  OBVIOUS
<1> HIDE DEF d, e, f
<1>7. Consistent(FirstDifference(d), FirstDifference(e), FirstDifference(f))
  BY <1>2, <1>5, <1>6, FirstDifferenceConsistent
<1> QED
  BY <1>4, <1>7

-----------------------------------------------------------------------------
(***************************************************************************)
(* What parse_coarse accepts has the parts cmp_verstr can work with.       *)
(***************************************************************************)
LEMMA FirstOfIs ==
  ASSUME NEW s, NEW N \in Nat, Len(s) = N, DOMAIN s = 1..N, NEW c
  PROVE  /\ FirstOf(s, c) \in 0..N
         /\ FirstOf(s, c) # 0 => s[FirstOf(s, c)] = c
         /\ FirstOf(s, c) = 0 => \A k \in 1..N : s[k] # c
<1> DEFINE S == {n \in DOMAIN s : s[n] = c}
<1>1. Contains(s, c) <=> S # {}
  BY DEF Contains
<1>2. FirstOf(s, c) = IF Contains(s, c) THEN Min(S) ELSE 0
  BY DEF FirstOf
<1>3. S \in SUBSET Nat
  OBVIOUS
<1>4. CASE S = {}
  BY <1>1, <1>2, <1>4
<1>5. CASE S # {}
  <2>1. Min(S) \in S
    BY <1>3, <1>5, LeastElement
  <2> QED
    BY <1>1, <1>2, <1>5, <2>1
<1> QED
  BY <1>4, <1>5

LEMMA CoarseIs ==
  ASSUME NEW v \in Versions, version_validate(v)
  PROVE  LET c == parse_coarse(v)
         IN  /\ c.epoch \in Int
             /\ IsPart(v, c.us) /\ IsPart(v, c.rev)
             /\ EmptyIsZero(v, c.rev)
             /\ ~LacksUpstream(v) => EmptyIsZero(v, c.us)
<1> DEFINE N == Len(v)
           col == FirstOf(v, ":")
           hyp == FirstOf(v, "-")
           us == [first |-> col + 1, last |-> IF hyp # 0 THEN hyp - 1 ELSE N]
           rev == [first |-> us.last + 2, last |-> N]
           none == [first |-> N + 1, last |-> N]
           c == parse_coarse(v)
<1>1. N \in Nat /\ DOMAIN v = 1..N
  BY VersionTyped
<1>2. /\ col \in 0..N /\ (col # 0 => v[col] = ":")
      /\ hyp \in 0..N /\ (hyp # 0 => v[hyp] = "-")
  BY <1>1, FirstOfIs
<1>3. /\ hyp # 0 => \A n \in (hyp + 1)..N : IsRevChar(v[n])
      /\ c = [ok |-> TRUE, epoch |-> IF col # 0 THEN strtoull(v, 1) ELSE 0,
              us |-> us, rev |-> IF hyp # 0 THEN rev ELSE none]
  BY DEF version_validate, parse_coarse, Failed
<1>4. LacksUpstream(v) <=> CharAt(v, us.first) = "-"
  BY <1>3 DEF LacksUpstream
<1> HIDE DEF N, col, hyp, c
<1>5. hyp # 0 => hyp > col
  <2>1. CASE col # 0 /\ hyp # 0
    <3>1. ~IsRevChar(":") /\ ":" # "-"
      BY DEF IsRevChar, Digits, Letters
    <3>2. col \notin (hyp + 1)..N /\ col # hyp
      BY <1>2, <1>3, <2>1, <3>1
    <3> QED
      BY <1>1, <1>2, <2>1, <3>2
  <2> QED
    BY <1>2, <2>1
<1>6. c.epoch \in Int
  <2>1. strtoull(v, 1) \in Int
    BY <1>1, VersionTyped, strtoullTyped DEF N
  <2> QED
    BY <1>3, <2>1
<1>7. /\ us.first = col + 1 /\ us.last = IF hyp # 0 THEN hyp - 1 ELSE N
      /\ c.us = us
  BY <1>3
<1>8. IsPart(v, c.us)
  <2>1. us.first \in Nat \ {0} /\ us.last \in 0..N /\ us.first <= us.last + 1
    BY <1>1, <1>2, <1>5, <1>7
  <2> QED
    BY <1>7, <2>1 DEF IsPart, N
<1>9. IsPart(v, c.rev) /\ EmptyIsZero(v, c.rev)
  <2>1. /\ c.rev.last = N
        /\ c.rev.first = IF hyp # 0 THEN hyp + 1 ELSE N + 1
    BY <1>2, <1>3
  <2>2. c.rev.first \in Nat \ {0} /\ c.rev.last \in 0..N /\ c.rev.first <= c.rev.last + 1
    BY <1>1, <1>2, <2>1
  <2> QED
    BY <2>1, <2>2 DEF IsPart, EmptyIsZero, N
<1>10. ASSUME ~LacksUpstream(v) PROVE EmptyIsZero(v, c.us)
  <2>1. CASE hyp = 0
    BY <1>7, <2>1 DEF EmptyIsZero, N
  <2>2. CASE hyp # 0 /\ us.first = us.last + 1
    <3>1. us.first = hyp /\ hyp \in DOMAIN v
      BY <1>1, <1>2, <1>7, <2>2
    <3>2. CharAt(v, us.first) = "-"
      BY <1>2, <2>2, <3>1 DEF CharAt
    <3> QED
      BY <1>4, <1>10, <3>2
  <2>3. CASE us.first # us.last + 1
    BY <1>7, <2>3 DEF EmptyIsZero
  <2> QED
    BY <2>1, <2>2, <2>3
<1> QED
  BY <1>6, <1>8, <1>9, <1>10 DEF c

-----------------------------------------------------------------------------
(***************************************************************************)
(* version_cmp as one number.                                              *)
(***************************************************************************)
OrderOf(v, w) ==
    LET a == parse_coarse(v)
        b == parse_coarse(w)
        epochs == Sign(a.epoch, b.epoch)
        us == cmp_verstr(v, a.us, w, b.us)
        revs == cmp_verstr(v, a.rev, w, b.rev)
    IN  IF epochs # 0 THEN epochs ELSE IF us # 0 THEN us ELSE revs

LEMMA OrderIs ==
  ASSUME NEW v \in Versions, NEW w \in Versions, version_validate(v), version_validate(w)
  PROVE  /\ OrderOf(v, w) \in Outcomes
         /\ OrderOf(w, v) = 0 - OrderOf(v, w)
         /\ version_cmp(v, w) = IF OrderOf(v, w) = -1 THEN "LT"
                                ELSE IF OrderOf(v, w) = 0 THEN "EQ" ELSE "GT"
<1> DEFINE a == parse_coarse(v)
           b == parse_coarse(w)
           epochs == Sign(a.epoch, b.epoch)
           us == cmp_verstr(v, a.us, w, b.us)
           revs == cmp_verstr(v, a.rev, w, b.rev)
           epochs1 == Sign(b.epoch, a.epoch)
           us1 == cmp_verstr(w, b.us, v, a.us)
           revs1 == cmp_verstr(w, b.rev, v, a.rev)
<1>1. /\ a.epoch \in Int /\ b.epoch \in Int
      /\ IsPart(v, a.us) /\ IsPart(v, a.rev) /\ IsPart(w, b.us) /\ IsPart(w, b.rev)
      /\ a.ok /\ b.ok
  BY CoarseIs DEF version_validate
<1>2. OrderOf(v, w) = IF epochs # 0 THEN epochs ELSE IF us # 0 THEN us ELSE revs
  BY DEF OrderOf
<1>3. OrderOf(w, v) = IF epochs1 # 0 THEN epochs1 ELSE IF us1 # 0 THEN us1 ELSE revs1
  BY DEF OrderOf
<1>4. version_cmp(v, w) = IF a.epoch # b.epoch THEN Result[epochs]
                          ELSE IF us # 0 THEN Result[us] ELSE Result[revs]
  BY <1>1 DEF version_cmp
<1> HIDE DEF a, b
<1>5. /\ epochs \in Outcomes /\ epochs1 = 0 - epochs
      /\ epochs = 0 <=> a.epoch = b.epoch
  BY <1>1, SignConsistent DEF Consistent
<1>6. us \in Outcomes /\ us1 = 0 - us /\ revs \in Outcomes /\ revs1 = 0 - revs
  BY <1>1, VerstrOpposite
<1> HIDE DEF epochs, us, revs, epochs1, us1, revs1
<1>7. \A n \in Outcomes : Result[n] = IF n = -1 THEN "LT" ELSE IF n = 0 THEN "EQ" ELSE "GT"
  BY DEF Result, Outcomes
<1>8. OrderOf(v, w) \in Outcomes /\ OrderOf(w, v) = 0 - OrderOf(v, w)
  BY <1>2, <1>3, <1>5, <1>6 DEF Outcomes
<1>9. version_cmp(v, w) = Result[OrderOf(v, w)]
  BY <1>2, <1>4, <1>5, <1>6
<1> QED
  BY <1>7, <1>8, <1>9

LEMMA OrderConsistent ==
  ASSUME NEW v \in Versions, NEW w \in Versions, NEW u \in Versions,
         version_validate(v), version_validate(w), version_validate(u),
         ~LacksUpstream(v), ~LacksUpstream(w), ~LacksUpstream(u)
  PROVE  Consistent(OrderOf(v, w), OrderOf(w, u), OrderOf(v, u))
<1> DEFINE a == parse_coarse(v)
           b == parse_coarse(w)
           c == parse_coarse(u)
<1>1. /\ a.epoch \in Int /\ IsPart(v, a.us) /\ EmptyIsZero(v, a.us)
      /\ IsPart(v, a.rev) /\ EmptyIsZero(v, a.rev)
  BY CoarseIs
<1>2. /\ b.epoch \in Int /\ IsPart(w, b.us) /\ EmptyIsZero(w, b.us)
      /\ IsPart(w, b.rev) /\ EmptyIsZero(w, b.rev)
  BY CoarseIs
<1>3. /\ c.epoch \in Int /\ IsPart(u, c.us) /\ EmptyIsZero(u, c.us)
      /\ IsPart(u, c.rev) /\ EmptyIsZero(u, c.rev)
  BY CoarseIs
<1> HIDE DEF a, b, c
<1>4. Consistent(Sign(a.epoch, b.epoch), Sign(b.epoch, c.epoch), Sign(a.epoch, c.epoch))
  BY <1>1, <1>2, <1>3, SignConsistent
<1>5. Consistent(cmp_verstr(v, a.us, w, b.us), cmp_verstr(w, b.us, u, c.us),
                 cmp_verstr(v, a.us, u, c.us))
  BY <1>1, <1>2, <1>3, VerstrConsistent
<1>6. Consistent(cmp_verstr(v, a.rev, w, b.rev), cmp_verstr(w, b.rev, u, c.rev),
                 cmp_verstr(v, a.rev, u, c.rev))
  BY <1>1, <1>2, <1>3, VerstrConsistent
<1>7. ASSUME NEW x1, NEW y1, NEW z1, Consistent(x1, y1, z1),
             NEW x2, NEW y2, NEW z2, Consistent(x2, y2, z2),
             NEW x3, NEW y3, NEW z3, Consistent(x3, y3, z3)
      PROVE  Consistent(IF x1 # 0 THEN x1 ELSE IF x2 # 0 THEN x2 ELSE x3,
                        IF y1 # 0 THEN y1 ELSE IF y2 # 0 THEN y2 ELSE y3,
                        IF z1 # 0 THEN z1 ELSE IF z2 # 0 THEN z2 ELSE z3)
  BY <1>7, ThenConsistent
<1> QED
  BY <1>4, <1>5, <1>6, <1>7 DEF OrderOf, a, b, c

(***************************************************************************)
(* What version_validate takes, version_cmp orders: it never fails, the    *)
(* answer for the versions the other way round is the opposite one, and,   *)
(* for versions that do not consist of a revision only, "newer" and        *)
(* "equal" are transitive.  This is what withpkgs's and pkgsolve's         *)
(* insertion of versions, and pkgvercmp's one pass over them, rely on      *)
(* (version.c:30-67).                                                      *)
(***************************************************************************)
THEOREM VersionsAreOrdered ==
  ASSUME NEW v \in Versions, NEW w \in Versions, NEW u \in Versions,
         version_validate(v), version_validate(w), version_validate(u)
  PROVE  /\ version_cmp(v, w) \in {"LT", "EQ", "GT"}
         /\ version_cmp(v, v) = "EQ"
         /\ version_cmp(v, w) = "LT" <=> version_cmp(w, v) = "GT"
         /\ ~LacksUpstream(v) /\ ~LacksUpstream(w) /\ ~LacksUpstream(u) =>
               /\ version_cmp(v, w) = "GT" /\ version_cmp(w, u) = "GT" => version_cmp(v, u) = "GT"
               /\ version_cmp(v, w) = "EQ" => version_cmp(v, u) = version_cmp(w, u)
<1>1. /\ version_cmp(v, w) = IF OrderOf(v, w) = -1 THEN "LT"
                             ELSE IF OrderOf(v, w) = 0 THEN "EQ" ELSE "GT"
      /\ version_cmp(w, v) = IF OrderOf(w, v) = -1 THEN "LT"
                             ELSE IF OrderOf(w, v) = 0 THEN "EQ" ELSE "GT"
      /\ version_cmp(v, v) = IF OrderOf(v, v) = -1 THEN "LT"
                             ELSE IF OrderOf(v, v) = 0 THEN "EQ" ELSE "GT"
      /\ version_cmp(w, u) = IF OrderOf(w, u) = -1 THEN "LT"
                             ELSE IF OrderOf(w, u) = 0 THEN "EQ" ELSE "GT"
      /\ version_cmp(v, u) = IF OrderOf(v, u) = -1 THEN "LT"
                             ELSE IF OrderOf(v, u) = 0 THEN "EQ" ELSE "GT"
  BY OrderIs
<1>2. /\ OrderOf(v, w) \in Outcomes /\ OrderOf(w, u) \in Outcomes /\ OrderOf(v, u) \in Outcomes
      /\ OrderOf(v, v) \in Outcomes /\ OrderOf(v, v) = 0 - OrderOf(v, v)
      /\ OrderOf(w, v) \in Outcomes /\ OrderOf(w, v) = 0 - OrderOf(v, w)
  BY OrderIs
<1>3. version_cmp(v, w) \in {"LT", "EQ", "GT"}
  BY <1>1
<1>4. version_cmp(v, v) = "EQ"
  BY <1>1, <1>2 DEF Outcomes
<1>5. version_cmp(v, w) = "LT" <=> version_cmp(w, v) = "GT"
  BY <1>1, <1>2 DEF Outcomes
<1>6. ASSUME ~LacksUpstream(v), ~LacksUpstream(w), ~LacksUpstream(u)
      PROVE  /\ version_cmp(v, w) = "GT" /\ version_cmp(w, u) = "GT" => version_cmp(v, u) = "GT"
             /\ version_cmp(v, w) = "EQ" => version_cmp(v, u) = version_cmp(w, u)
  <2>1. Consistent(OrderOf(v, w), OrderOf(w, u), OrderOf(v, u))
    BY <1>6, OrderConsistent
  <2> QED
    BY <1>1, <1>2, <2>1 DEF Consistent, Outcomes
<1> QED
  BY <1>3, <1>4, <1>5, <1>6

(***************************************************************************)
(* VerCmpAssumption of Solve, for version.c's comparison and any set of    *)
(* strings of which none is a revision only, those that version_validate   *)
(* refuses included: the theorems about the solver hold of the two         *)
(* together (repo.c:36-47 and withpkgs.c, pkgsolve.c pass version_cmp on). *)
(***************************************************************************)
THEOREM ComparisonSuitsSolver ==
  ASSUME NEW V \in SUBSET Versions, \A v \in V : version_validate(v) => ~LacksUpstream(v)
  PROVE  LET VerCmp == [p \in V \X V |-> version_cmp(p[1], p[2])]
             Beats(v, w) == VerCmp[<<v, w>>] = "GT"
         IN  /\ VerCmp \in [V \X V -> {"LT", "EQ", "GT", "FAILED"}]
             /\ \A v, w \in V : VerCmp[<<v, w>>] = "LT" <=> Beats(w, v)
             /\ \A u, v, w \in V : Beats(u, v) /\ Beats(v, w) => Beats(u, w)
<1> DEFINE VerCmp == [p \in V \X V |-> version_cmp(p[1], p[2])]
<1>1. ASSUME NEW v \in V, NEW w \in V
      PROVE  /\ VerCmp[<<v, w>>] = version_cmp(v, w)
             /\ version_validate(v) /\ version_validate(w) =>
                   /\ version_cmp(v, w) \in {"LT", "EQ", "GT"}
                   /\ version_cmp(v, w) = "LT" <=> version_cmp(w, v) = "GT"
             /\ ~(version_validate(v) /\ version_validate(w)) =>
                   version_cmp(v, w) = "FAILED" /\ version_cmp(w, v) = "FAILED"
  <2>1. VerCmp[<<v, w>>] = version_cmp(v, w)
    OBVIOUS
  <2>2. ASSUME version_validate(v), version_validate(w)
        PROVE  /\ version_cmp(v, w) \in {"LT", "EQ", "GT"}
               /\ version_cmp(v, w) = "LT" <=> version_cmp(w, v) = "GT"
    BY <2>2, VersionsAreOrdered
  <2>3. ASSUME ~(version_validate(v) /\ version_validate(w))
        PROVE  version_cmp(v, w) = "FAILED" /\ version_cmp(w, v) = "FAILED"
    BY <2>3 DEF version_validate, version_cmp
  <2> QED
    BY <2>1, <2>2, <2>3
<1>2. VerCmp \in [V \X V -> {"LT", "EQ", "GT", "FAILED"}]
  <2>1. \A v, w \in V : version_cmp(v, w) \in {"LT", "EQ", "GT", "FAILED"}
    BY <1>1
  <2> QED
    BY <2>1
<1> HIDE DEF VerCmp
<1>3. ASSUME NEW v \in V, NEW w \in V
      PROVE  VerCmp[<<v, w>>] = "LT" <=> VerCmp[<<w, v>>] = "GT"
  BY <1>1
<1>4. ASSUME NEW u \in V, NEW v \in V, NEW w \in V,
             VerCmp[<<u, v>>] = "GT", VerCmp[<<v, w>>] = "GT"
      PROVE  VerCmp[<<u, w>>] = "GT"
  <2>1. version_cmp(u, v) = "GT" /\ version_cmp(v, w) = "GT"
    BY <1>1, <1>4
  <2>2. version_validate(u) /\ version_validate(v) /\ version_validate(w)
    BY <1>1, <2>1
  <2>3. ~LacksUpstream(u) /\ ~LacksUpstream(v) /\ ~LacksUpstream(w)
    BY <2>2
  <2>4. version_cmp(u, w) = "GT"
    BY <2>1, <2>2, <2>3, VersionsAreOrdered
  <2> QED
    BY <1>1, <2>4
<1>5. \A v, w \in V : VerCmp[<<v, w>>] = "LT" <=> VerCmp[<<w, v>>] = "GT"
  BY <1>3
<1>6. \A u, v, w \in V : VerCmp[<<u, v>>] = "GT" /\ VerCmp[<<v, w>>] = "GT"
                          => VerCmp[<<u, w>>] = "GT"
  BY <1>4
<1> QED
  BY <1>2, <1>5, <1>6, Zenon DEF VerCmp

-----------------------------------------------------------------------------
(***************************************************************************)
(* pkgvercmp.                                                              *)
(***************************************************************************)
LEMMA OperandsAre ==
  ASSUME NEW line \in Seq(Versions)
  PROVE  Operands(line) \in Seq(Versions)
<1> DEFINE dropped(n) == n = OptionsEnd(line) \/ (n < OptionsEnd(line) /\ IsOption(line[n]))
           seqs == [n \in DOMAIN line |-> IF dropped(n) THEN <<>> ELSE <<line[n]>>]
<1>1. Len(line) \in Nat /\ DOMAIN line = 1..Len(line) /\ \A n \in 1..Len(line) : line[n] \in Versions
  BY LenProperties, ElementOfSeq
<1>2. ASSUME NEW n \in DOMAIN line
      PROVE  seqs[n] \in Seq(Versions)
  <2>1. <<>> \in Seq(Versions) /\ <<line[n]>> \in Seq(Versions)
    BY <1>1
  <2> QED
    BY <2>1
<1>3. Operands(line) = FlattenSeq(seqs)
  BY DEF Operands
<1>4. DOMAIN seqs = 1..Len(line) /\ seqs = [n \in 1..Len(line) |-> seqs[n]]
  BY <1>1
<1> HIDE DEF seqs
<1>5. seqs \in [1..Len(line) -> Seq(Versions)]
  BY <1>1, <1>2, <1>4
<1>6. seqs \in Seq(Seq(Versions))
  BY <1>1, <1>5
<1> QED
  BY <1>3, <1>6, FlattenElements

\* Operand n is not older (-m) or newer (-M) than operand m.
NoBetter(n, m) == version_cmp(args[n], args[m]) # (IF mode = "MIN" THEN "LT" ELSE "GT")

PkgVerCmpTyped ==
    /\ args \in Seq(Versions)
    /\ mode \in {"CMP", "MIN", "MAX"}
    /\ pc \in {"parse", "validate", "compare", "done", "usage", "unsupported"}
    /\ pc = "parse" => mode = "CMP"
    /\ pc \in {"parse", "validate"} => best = 1

Counted ==
    pc \in {"validate", "compare", "done"} =>
        IF mode = "CMP" THEN Len(args) = 2 ELSE Len(args) > 0

Validated ==
    pc \in {"compare", "done"} => \A n \in DOMAIN args : version_validate(args[n])

\* The scan so far: the operands before "next" are no better than "best".
BestSoFar ==
    pc \in {"compare", "done"} /\ mode # "CMP" =>
        /\ best \in 1..Len(args)
        /\ next \in 2..(Len(args) + 1)
        /\ best < next
        /\ \/ \E n \in DOMAIN args : LacksUpstream(args[n])
           \/ \A n \in 1..(next - 1) : NoBetter(n, best)

Answered ==
    pc = "done" =>
        IF mode = "CMP" THEN out = <<Text[version_cmp(args[1], args[2])]>>
        ELSE next = Len(args) + 1 /\ out = args[best]

PkgVerCmpInv == PkgVerCmpTyped /\ Counted /\ Validated /\ BestSoFar /\ Answered

LEMMA InitPkgVerCmpInv == Init => PkgVerCmpInv
<1> SUFFICES ASSUME Init PROVE PkgVerCmpInv
  OBVIOUS
<1>1. args \in Seq(Versions)
  BY CommandLinesAssumption DEF Init, Versions, Characters
<1> QED
  BY <1>1 DEF Init, PkgVerCmpInv, PkgVerCmpTyped, Counted, Validated, BestSoFar, Answered

LEMMA parse_paramsInv == PkgVerCmpInv /\ parse_params => PkgVerCmpInv'
<1> SUFFICES ASSUME PkgVerCmpInv, parse_params PROVE PkgVerCmpInv'
  OBVIOUS
<1> USE DEF PkgVerCmpInv, PkgVerCmpTyped
<1> DEFINE letters == OptionLetters(args)
<1>1. pc = "parse" /\ best = 1 /\ UNCHANGED <<best, next, out>>
  BY DEF parse_params
<1>2. CASE pc' = "validate"
  <2>1. /\ mode' = ModeOf(letters) /\ args' = Operands(args)
        /\ IF letters = <<>> THEN Len(Operands(args)) = 2 ELSE Len(Operands(args)) > 0
    BY <1>2 DEF parse_params
  <2>2. args' \in Seq(Versions)
    BY <2>1, OperandsAre
  <2>3. mode' \in {"CMP", "MIN", "MAX"} /\ (mode' = "CMP" <=> letters = <<>>)
    BY <2>1 DEF ModeOf
  <2> HIDE DEF letters
  <2> QED
    BY <1>1, <1>2, <2>1, <2>2, <2>3 DEF Counted, Validated, BestSoFar, Answered
<1>3. CASE pc' = "usage" /\ UNCHANGED <<mode, args>>
  BY <1>1, <1>3 DEF Counted, Validated, BestSoFar, Answered
<1> QED
  BY <1>2, <1>3 DEF parse_params

LEMMA ValidateInv == PkgVerCmpInv /\ Validate => PkgVerCmpInv'
<1> SUFFICES ASSUME PkgVerCmpInv, Validate PROVE PkgVerCmpInv'
  OBVIOUS
<1> USE DEF PkgVerCmpInv, PkgVerCmpTyped
<1>1. pc = "validate" /\ best = 1 /\ UNCHANGED <<args, mode, best, out>>
  BY DEF Validate
<1>2. CASE pc' = "unsupported"
  BY <1>1, <1>2 DEF Counted, Validated, BestSoFar, Answered
<1>3. CASE pc' = "compare" /\ next' = 2 /\ \A n \in DOMAIN args : version_validate(args[n])
  <2>1. Counted' /\ Validated' /\ Answered' /\ PkgVerCmpTyped'
    BY <1>1, <1>3 DEF Counted, Validated, Answered
  <2>2. ASSUME mode # "CMP"
        PROVE  /\ 1 \in 1..Len(args) /\ 2 \in 2..(Len(args) + 1)
               /\ \A n \in 1..(2 - 1) : NoBetter(n, 1)
    <3>1. Len(args) \in Nat /\ Len(args) > 0 /\ DOMAIN args = 1..Len(args) /\ args[1] \in Versions
      BY <1>1, <2>2, LenProperties, ElementOfSeq DEF Counted
    <3>2. version_validate(args[1])
      BY <1>3, <3>1
    <3>3. version_cmp(args[1], args[1]) = "EQ"
      BY <3>1, <3>2, VersionsAreOrdered
    <3> QED
      BY <3>1, <3>3 DEF NoBetter
  <2>3. BestSoFar'
    BY <1>1, <1>3, <2>2 DEF BestSoFar, NoBetter
  <2> QED
    BY <2>1, <2>3
<1> QED
  BY <1>2, <1>3 DEF Validate

LEMMA CompareInv == PkgVerCmpInv /\ Compare => PkgVerCmpInv'
<1> SUFFICES ASSUME PkgVerCmpInv, Compare PROVE PkgVerCmpInv'
  OBVIOUS
<1> USE DEF PkgVerCmpInv, PkgVerCmpTyped
<1>1. pc = "compare" /\ mode = "CMP" /\ UNCHANGED <<args, mode, best, next>>
  BY DEF Compare
<1>2. version_cmp(args[1], args[2]) \in {"LT", "EQ", "GT"}
  <2>1. Len(args) = 2 /\ DOMAIN args = 1..2 /\ args[1] \in Versions /\ args[2] \in Versions
    <3>1. args \in Seq(Versions) /\ Len(args) = 2
      BY <1>1 DEF Counted
    <3>2. DOMAIN args = 1..2
      BY <3>1, LenProperties
    <3>3. args[1] \in Versions /\ args[2] \in Versions
      BY <3>1, ElementOfSeq
    <3> QED
      BY <3>1, <3>2, <3>3
  <2>2. version_validate(args[1]) /\ version_validate(args[2])
    BY <1>1, <2>1 DEF Validated
  <2> QED
    BY <2>1, <2>2, VersionsAreOrdered
<1>3. pc' = "done" /\ out' = <<Text[version_cmp(args[1], args[2])]>>
  BY <1>2 DEF Compare
<1> QED
  BY <1>1, <1>3 DEF Counted, Validated, BestSoFar, Answered

(***************************************************************************)
(* An operand that beats the best so far beats what that one beat: this is *)
(* where the order has to be transitive.                                   *)
(***************************************************************************)
LEMMA BetterIsBest ==
  ASSUME NEW a \in Versions, NEW b \in Versions, NEW c \in Versions,
         version_validate(a), version_validate(b), version_validate(c),
         ~LacksUpstream(a), ~LacksUpstream(b), ~LacksUpstream(c),
         NEW worse \in {"LT", "GT"},
         version_cmp(a, b) # worse, version_cmp(c, b) = worse
  PROVE  version_cmp(a, c) # worse
<1>1. Consistent(OrderOf(a, b), OrderOf(b, c), OrderOf(a, c))
  BY OrderConsistent
<1>2. OrderOf(b, c) = 0 - OrderOf(c, b) /\ OrderOf(c, b) \in Outcomes
  BY OrderIs
<1>3. /\ version_cmp(a, b) = IF OrderOf(a, b) = -1 THEN "LT"
                             ELSE IF OrderOf(a, b) = 0 THEN "EQ" ELSE "GT"
      /\ version_cmp(c, b) = IF OrderOf(c, b) = -1 THEN "LT"
                             ELSE IF OrderOf(c, b) = 0 THEN "EQ" ELSE "GT"
      /\ version_cmp(a, c) = IF OrderOf(a, c) = -1 THEN "LT"
                             ELSE IF OrderOf(a, c) = 0 THEN "EQ" ELSE "GT"
  BY OrderIs
<1> QED
  BY <1>1, <1>2, <1>3 DEF Consistent, Outcomes

LEMMA ScanInv == PkgVerCmpInv /\ Scan => PkgVerCmpInv'
<1> SUFFICES ASSUME PkgVerCmpInv, Scan PROVE PkgVerCmpInv'
  OBVIOUS
<1> USE DEF PkgVerCmpInv, PkgVerCmpTyped
<1> DEFINE worse == IF mode = "MIN" THEN "LT" ELSE "GT"
           res == version_cmp(args[next], args[best])
           N == Len(args)
<1>1. pc = "compare" /\ mode # "CMP" /\ next <= N /\ UNCHANGED <<args, mode, out>>
  BY DEF Scan
<1>2. /\ N \in Nat /\ DOMAIN args = 1..N /\ \A n \in 1..N : args[n] \in Versions
      /\ \A n \in 1..N : version_validate(args[n])
      /\ best \in 1..N /\ next \in 1..N /\ best < next
      /\ \/ \E n \in 1..N : LacksUpstream(args[n])
         \/ \A n \in 1..(next - 1) : version_cmp(args[n], args[best]) # worse
  <2>1. N \in Nat /\ DOMAIN args = 1..N /\ \A n \in 1..N : args[n] \in Versions
    BY LenProperties, ElementOfSeq
  <2> QED
    BY <1>1, <2>1 DEF Validated, BestSoFar, NoBetter
<1>3. res \in {"LT", "EQ", "GT"}
  BY <1>2, VersionsAreOrdered
<1>4. /\ best' = IF res = worse THEN next ELSE best
      /\ next' = next + 1 /\ pc' = "compare"
  BY <1>1, <1>3 DEF Scan
<1>5. PkgVerCmpTyped' /\ Counted' /\ Validated' /\ Answered'
  BY <1>1, <1>4 DEF Counted, Validated, Answered
<1> HIDE DEF N
<1>6. best' \in 1..N /\ next' \in 2..(N + 1) /\ best' < next'
  BY <1>2, <1>4
<1>7. ASSUME \A n \in 1..N : ~LacksUpstream(args[n]), NEW n \in 1..next
      PROVE  version_cmp(args[n], args[best']) # worse
  <2>1. n \in 1..N /\ (n # next => n \in 1..(next - 1))
    BY <1>2
  <2>2. version_cmp(args[next], args[next]) = "EQ"
    BY <1>2, VersionsAreOrdered
  <2>3. CASE res = worse
    <3>1. best' = next
      BY <1>4, <2>3
    <3>2. CASE n = next
      BY <2>2, <3>1, <3>2
    <3>3. CASE n # next
      <4>1. version_cmp(args[n], args[best]) # worse
        BY <1>2, <1>7, <2>1, <3>3
      <4> HIDE DEF worse
      <4>2. worse \in {"LT", "GT"}
        BY DEF worse
      <4>3. /\ args[n] \in Versions /\ args[best] \in Versions /\ args[next] \in Versions
            /\ version_validate(args[n]) /\ version_validate(args[best])
            /\ version_validate(args[next])
            /\ ~LacksUpstream(args[n]) /\ ~LacksUpstream(args[best])
            /\ ~LacksUpstream(args[next])
        BY <1>2, <1>7, <2>1
      <4>4. version_cmp(args[n], args[next]) # worse
        BY <2>3, <4>1, <4>2, <4>3, BetterIsBest
      <4> QED
        BY <3>1, <4>4
    <3> QED
      BY <3>2, <3>3
  <2>4. CASE res # worse
    <3>1. best' = best
      BY <1>4, <2>4
    <3> QED
      BY <1>2, <1>7, <2>1, <2>4, <3>1
  <2> QED
    BY <2>3, <2>4
<1>8. next' - 1 = next
  BY <1>2, <1>4
<1>9. \/ \E n \in 1..N : LacksUpstream(args[n])
      \/ \A n \in 1..(next' - 1) : version_cmp(args[n], args[best']) # worse
  BY <1>7, <1>8
<1>10. BestSoFar'
  BY <1>1, <1>2, <1>6, <1>9 DEF BestSoFar, NoBetter, N
<1> QED
  BY <1>5, <1>10

LEMMA PutBestInv == PkgVerCmpInv /\ PutBest => PkgVerCmpInv'
<1> SUFFICES ASSUME PkgVerCmpInv, PutBest PROVE PkgVerCmpInv'
  OBVIOUS
<1> USE DEF PkgVerCmpInv, PkgVerCmpTyped
<1>1. /\ pc = "compare" /\ mode # "CMP" /\ next > Len(args)
      /\ out' = args[best] /\ pc' = "done" /\ UNCHANGED <<args, mode, best, next>>
  BY DEF PutBest
<1>2. next = Len(args) + 1
  BY <1>1, LenProperties DEF BestSoFar
<1> QED
  BY <1>1, <1>2 DEF Counted, Validated, BestSoFar, Answered, NoBetter

LEMMA NextPkgVerCmpInv == PkgVerCmpInv /\ [Next]_vars => PkgVerCmpInv'
<1> SUFFICES ASSUME PkgVerCmpInv, [Next]_vars PROVE PkgVerCmpInv'
  OBVIOUS
<1>1. CASE UNCHANGED vars
  BY <1>1 DEF vars, PkgVerCmpInv, PkgVerCmpTyped, Counted, Validated, BestSoFar, Answered, NoBetter
<1> QED
  BY <1>1, parse_paramsInv, ValidateInv, CompareInv, ScanInv, PutBestInv DEF Next

(***************************************************************************)
(* The inductive invariant: what is known of the operands at each stage,   *)
(* and that the scan has kept the best of those before "next"              *)
(* (pkgvercmp.c:35-68).                                                    *)
(***************************************************************************)
THEOREM PkgVerCmpInvariant == Spec => []PkgVerCmpInv
BY InitPkgVerCmpInv, NextPkgVerCmpInv, PTL DEF Spec

(***************************************************************************)
(* pkgvercmp never reaches its abort()s (pkgvercmp.c:48-50, 59-63),        *)
(* whatever its arguments.                                                 *)
(***************************************************************************)
THEOREM PkgVerCmpNeverAborts == Spec => []NeverAborts
<1>1. PkgVerCmpInv => NeverAborts
  BY DEF PkgVerCmpInv, PkgVerCmpTyped, NeverAborts
<1> QED
  BY <1>1, PkgVerCmpInvariant, PTL

(***************************************************************************)
(* What -m and -M print is an extreme of all operands, any number of them  *)
(* and of any length, unless one is a revision only (pkgvercmp.c:52-68).   *)
(***************************************************************************)
THEOREM ExtremesArePrinted == Spec => []PrintedIsExtreme
<1>1. ASSUME PkgVerCmpInv PROVE PrintedIsExtreme
  <2>1. SUFFICES ASSUME pc = "done", mode # "CMP"
                 PROVE  /\ out \in ToSet(args)
                        /\ \/ \E n \in DOMAIN args : LacksUpstream(args[n])
                           \/ \A n \in DOMAIN args : version_cmp(args[n], out) #
                                 (IF mode = "MIN" THEN "LT" ELSE "GT")
    BY DEF PrintedIsExtreme
  <2>2. Len(args) \in Nat /\ DOMAIN args = 1..Len(args)
    BY <1>1, LenProperties DEF PkgVerCmpInv, PkgVerCmpTyped
  <2>3. next = Len(args) + 1 /\ out = args[best] /\ best \in 1..Len(args)
    BY <1>1, <2>1 DEF PkgVerCmpInv, Answered, BestSoFar
  <2>4. next - 1 = Len(args)
    BY <2>2, <2>3
  <2>5. \/ \E n \in DOMAIN args : LacksUpstream(args[n])
        \/ \A n \in 1..Len(args) : NoBetter(n, best)
    BY <1>1, <2>1, <2>4 DEF PkgVerCmpInv, BestSoFar
  <2>6. out \in ToSet(args)
    BY <2>2, <2>3 DEF ToSet
  <2> QED
    BY <2>2, <2>3, <2>5, <2>6 DEF NoBetter
<1> QED
  BY <1>1, PkgVerCmpInvariant, PTL

(***************************************************************************)
(* The answer about two versions is the opposite of the answer about them  *)
(* the other way round (pkgvercmp.c:42-51), revisions only included.       *)
(***************************************************************************)
THEOREM AnswersAreAntisymmetric == Spec => []AnswerIsAntisymmetric
<1>1. ASSUME PkgVerCmpInv PROVE AnswerIsAntisymmetric
  <2>1. SUFFICES ASSUME pc = "done", mode = "CMP"
                 PROVE  version_cmp(args[2], args[1]) =
                            CASE out = <<"less than">>    -> "GT"
                              [] out = <<"equal">>        -> "EQ"
                              [] out = <<"greater than">> -> "LT"
    BY DEF AnswerIsAntisymmetric
  <2> DEFINE v == args[1]
             w == args[2]
  <2>2. v \in Versions /\ w \in Versions /\ version_validate(v) /\ version_validate(w)
    <3>1. args \in Seq(Versions) /\ Len(args) = 2
      BY <1>1, <2>1 DEF PkgVerCmpInv, PkgVerCmpTyped, Counted
    <3>2. 1 \in DOMAIN args /\ 2 \in DOMAIN args
      BY <3>1, LenProperties
    <3> QED
      BY <1>1, <2>1, <3>1, <3>2, ElementOfSeq DEF PkgVerCmpInv, Validated
  <2>3. out = <<Text[version_cmp(v, w)]>>
    BY <1>1, <2>1 DEF PkgVerCmpInv, Answered
  <2> HIDE DEF v, w
  <2>4. /\ version_cmp(v, w) \in {"LT", "EQ", "GT"} /\ version_cmp(w, v) \in {"LT", "EQ", "GT"}
        /\ version_cmp(v, w) = "LT" <=> version_cmp(w, v) = "GT"
        /\ version_cmp(w, v) = "LT" <=> version_cmp(v, w) = "GT"
    BY <2>2, VersionsAreOrdered
  <2>5. CASE version_cmp(v, w) = "LT"
    <3>1. out = <<"less than">>
      BY <2>3, <2>5 DEF Text
    <3> QED
      BY <2>4, <2>5, <3>1 DEF v, w
  <2>6. CASE version_cmp(v, w) = "EQ"
    <3>1. out = <<"equal">> /\ out # <<"less than">>
      BY <2>3, <2>6 DEF Text
    <3> QED
      BY <2>4, <2>6, <3>1 DEF v, w
  <2>7. CASE version_cmp(v, w) = "GT"
    <3>1. out = <<"greater than">> /\ out # <<"less than">> /\ out # <<"equal">>
      BY <2>3, <2>7 DEF Text
    <3> QED
      BY <2>4, <2>7, <3>1 DEF v, w
  <2> QED
    BY <2>4, <2>5, <2>6, <2>7
<1> QED
  BY <1>1, PkgVerCmpInvariant, PTL


=============================================================================
