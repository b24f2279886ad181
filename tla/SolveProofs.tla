---------------------------- MODULE SolveProofs -----------------------------
(***************************************************************************)
(* Theorems about Solve, for every set of names and versions, every        *)
(* comparison that is an order where it answers, and every callback.       *)
(***************************************************************************)
EXTENDS Solve, SequenceTheorems, TLAPS

(***************************************************************************)
(* Reversing a dependency list yields a list of names.                     *)
(***************************************************************************)
LEMMA VersionedType ==
  ASSUME NEW ver \in Versioned
  PROVE  /\ ver.version \in Versions
         /\ ver.dependencies \in Seq(Names)
<1>1. PICK deps \in DependencyLists : ver.dependencies = Reverse(deps)
  BY DEF Versioned
<1>2. deps \in Seq(Names)
  BY DependencyListsAssumption
<1>3. Reverse(deps) \in Seq(Names)
  BY <1>2, LenProperties, ElementOfSeq DEF Reverse
<1> QED
  BY <1>1, <1>3 DEF Versioned

(***************************************************************************)
(* What pkg_add returns: the list it was given, with the name on it, and   *)
(* at most one entry more, which is new and at the end.                    *)
(***************************************************************************)
LEMMA PkgAddProperties ==
  ASSUME NEW pkgs \in Seq(Package), NEW n \in Names
  PROVE  /\ PkgAdd(pkgs, n) \in Seq(Package)
         /\ Len(pkgs) <= Len(PkgAdd(pkgs, n))
         /\ \A k \in 1..Len(pkgs) : PkgAdd(pkgs, n)[k] = pkgs[k]
         /\ \A k \in 1..Len(PkgAdd(pkgs, n)) : k > Len(pkgs) =>
              /\ k = Len(pkgs) + 1
              /\ PkgAdd(pkgs, n)[k] = NewPackage(n)
              /\ \A j \in 1..Len(pkgs) : pkgs[j].name # n
         /\ \E k \in 1..Len(PkgAdd(pkgs, n)) : PkgAdd(pkgs, n)[k].name = n
<1> DEFINE new == NewPackage(n)
<1>1. new \in Package /\ new.name = n
  BY EmptySeq DEF NewPackage, Package
<1>2. DOMAIN pkgs = 1..Len(pkgs) /\ Len(pkgs) \in Nat
  BY LenProperties
<1>3. CASE IsListed(pkgs, n)
  BY <1>2, <1>3 DEF PkgAdd, IsListed
<1>4. CASE ~IsListed(pkgs, n)
  <2>1. PkgAdd(pkgs, n) = Append(pkgs, new)
    BY <1>4 DEF PkgAdd
  <2> HIDE DEF new
  <2>2. /\ Append(pkgs, new) \in Seq(Package)
        /\ Len(Append(pkgs, new)) = Len(pkgs) + 1
        /\ \A k \in 1..Len(pkgs) : Append(pkgs, new)[k] = pkgs[k]
        /\ Append(pkgs, new)[Len(pkgs) + 1] = new
    BY <1>1, AppendProperties
  <2>3. \A j \in 1..Len(pkgs) : pkgs[j].name # n
    BY <1>2, <1>4 DEF IsListed
  <2> QED
    BY <1>1, <1>2, <2>1, <2>2, <2>3 DEF new
<1> QED
  BY <1>3, <1>4

(***************************************************************************)
(* What inserting at position p of a list returns.                         *)
(***************************************************************************)
LEMMA InsertAtProperties ==
  ASSUME NEW S, NEW s \in Seq(S), NEW e \in S, NEW p \in 1..(Len(s) + 1)
  PROVE  /\ InsertAt(s, p, e) \in Seq(S)
         /\ Len(InsertAt(s, p, e)) = Len(s) + 1
         /\ \A k \in 1..(p - 1) : InsertAt(s, p, e)[k] = s[k]
         /\ InsertAt(s, p, e)[p] = e
         /\ \A k \in (p + 1)..(Len(s) + 1) : InsertAt(s, p, e)[k] = s[k - 1]
<1> DEFINE front == SubSeq(s, 1, p - 1)
           back == SubSeq(s, p, Len(s))
<1>0. /\ Len(s) \in Nat
      /\ p \in Nat
      /\ \A i \in 1..Len(s) : s[i] \in S
  BY LenProperties, ElementOfSeq
<1>1. /\ front \in Seq(S)
      /\ Len(front) = p - 1
      /\ \A i \in 1..(p - 1) : front[i] = s[i]
  <2>1. \A i \in 1..(p - 1) : s[i] \in S
    BY <1>0
  <2> QED
    BY <1>0, <2>1, SubSeqProperties
<1>2. /\ back \in Seq(S)
      /\ Len(back) = Len(s) - p + 1
      /\ \A i \in 1..(Len(s) - p + 1) : back[i] = s[p + i - 1]
  <2>1. \A i \in p..Len(s) : s[i] \in S
    BY <1>0
  <2> QED
    BY <1>0, <2>1, SubSeqProperties
<1> HIDE DEF front, back
<1>3. /\ Append(front, e) \in Seq(S)
      /\ Append(front, e) = front \o <<e>>
      /\ Len(Append(front, e)) = p
      /\ \A i \in 1..(p - 1) : Append(front, e)[i] = s[i]
      /\ Append(front, e)[p] = e
  BY <1>0, <1>1, AppendProperties, AppendIsConcat
<1> DEFINE left == Append(front, e)
<1>4. InsertAt(s, p, e) = left \o back
  BY <1>3 DEF InsertAt, front, back
<1> HIDE DEF left
<1>5. /\ left \in Seq(S)
      /\ Len(left) = p
      /\ \A i \in 1..(p - 1) : left[i] = s[i]
      /\ left[p] = e
  BY <1>3 DEF left
<1>6. /\ left \o back \in Seq(S)
      /\ Len(left \o back) = Len(left) + Len(back)
      /\ \A i \in 1..(Len(left) + Len(back)) :
           (left \o back)[i] = IF i <= Len(left) THEN left[i] ELSE back[i - Len(left)]
  BY <1>2, <1>5, ConcatProperties
<1> QED
  BY <1>0, <1>2, <1>4, <1>5, <1>6

-----------------------------------------------------------------------------

\* A reader of the list: its domain, and the types of its entries.
LEMMA ListType ==
  ASSUME TypeOK
  PROVE  /\ Len(packages) \in Nat
         /\ DOMAIN packages = 1..Len(packages)
         /\ \A k \in DOMAIN packages :
              /\ packages[k] \in Package
              /\ packages[k].name \in Names
              /\ packages[k].available \in Seq(Versioned)
              /\ DOMAIN packages[k].available = 1..Len(packages[k].available)
              /\ Len(packages[k].available) \in Nat
              /\ IsChosen(packages[k]) =>
                   /\ packages[k].chosen \in Versioned
                   /\ packages[k].chosen.dependencies \in Seq(Names)
                   /\ Len(packages[k].chosen.dependencies) \in Nat
<1>1. packages \in Seq(Package)
  BY DEF TypeOK
<1>2. Len(packages) \in Nat /\ DOMAIN packages = 1..Len(packages)
  BY <1>1, LenProperties
<1> SUFFICES ASSUME NEW k \in DOMAIN packages
             PROVE  /\ packages[k] \in Package
                    /\ packages[k].name \in Names
                    /\ packages[k].available \in Seq(Versioned)
                    /\ DOMAIN packages[k].available = 1..Len(packages[k].available)
                    /\ Len(packages[k].available) \in Nat
                    /\ IsChosen(packages[k]) =>
                         /\ packages[k].chosen \in Versioned
                         /\ packages[k].chosen.dependencies \in Seq(Names)
                         /\ Len(packages[k].chosen.dependencies) \in Nat
  BY <1>2
<1>3. packages[k] \in Package
  BY <1>1, <1>2, ElementOfSeq
<1>4. /\ packages[k].name \in Names
      /\ packages[k].available \in Seq(Versioned)
      /\ packages[k].chosen \in Versioned \cup {NoVersion}
  BY <1>3 DEF Package
<1>5. /\ DOMAIN packages[k].available = 1..Len(packages[k].available)
      /\ Len(packages[k].available) \in Nat
  BY <1>4, LenProperties
<1>6. ASSUME IsChosen(packages[k])
      PROVE  /\ packages[k].chosen \in Versioned
             /\ packages[k].chosen.dependencies \in Seq(Names)
             /\ Len(packages[k].chosen.dependencies) \in Nat
  <2>1. packages[k].chosen \in Versioned
    BY <1>4, <1>6 DEF IsChosen
  <2> QED
    BY <2>1, VersionedType, LenProperties
<1> QED
  BY <1>3, <1>4, <1>5, <1>6

(***************************************************************************)
(* Adding a name to the list keeps every entry, and so whatever is said of *)
(* the entries; the new entry is fresh and its name is listed once.        *)
(***************************************************************************)
LEMMA PkgAddPreserves ==
  ASSUME SolveInv,
         NEW n \in Names,
         packages' = PkgAdd(packages, n)
  PROVE  /\ packages' \in Seq(Package)
         /\ Len(packages') \in Nat
         /\ DOMAIN packages' = 1..Len(packages')
         /\ Len(packages) <= Len(packages')
         /\ \A k \in DOMAIN packages : k \in DOMAIN packages' /\ packages'[k] = packages[k]
         /\ \A k \in DOMAIN packages' : k > Len(packages) =>
              k = Len(packages) + 1 /\ packages'[k] = NewPackage(n)
         /\ ListedNames \subseteq ListedNames'
         /\ n \in ListedNames'
         /\ ListsSorted'
         /\ ChosenIsFirst'
         /\ OneVersionPerName'
<1> USE DEF SolveInv
<1>1. /\ packages \in Seq(Package)
      /\ Len(packages) \in Nat
      /\ DOMAIN packages = 1..Len(packages)
  BY ListType DEF TypeOK
<1>2. /\ packages' \in Seq(Package)
      /\ Len(packages) <= Len(packages')
      /\ \A k \in 1..Len(packages) : packages'[k] = packages[k]
      /\ \A k \in 1..Len(packages') : k > Len(packages) =>
           /\ k = Len(packages) + 1
           /\ packages'[k] = NewPackage(n)
           /\ \A j \in 1..Len(packages) : packages[j].name # n
      /\ \E k \in 1..Len(packages') : packages'[k].name = n
  <2> DEFINE res == PkgAdd(packages, n)
  <2>1. /\ res \in Seq(Package)
        /\ Len(packages) <= Len(res)
        /\ \E k \in 1..Len(res) : res[k].name = n
    BY <1>1, PkgAddProperties
  <2>2. \A k \in 1..Len(packages) : res[k] = packages[k]
    BY <1>1, PkgAddProperties
  <2>3. \A k \in 1..Len(res) : k > Len(packages) =>
             /\ k = Len(packages) + 1
             /\ res[k] = NewPackage(n)
             /\ \A j \in 1..Len(packages) : packages[j].name # n
    BY <1>1, PkgAddProperties
  <2>4. packages' = res
    OBVIOUS
  <2> HIDE DEF res
  <2> QED
    BY <2>1, <2>2, <2>3, <2>4
<1>3. Len(packages') \in Nat /\ DOMAIN packages' = 1..Len(packages')
  BY <1>2, LenProperties
<1>4. \A k \in DOMAIN packages : k \in DOMAIN packages' /\ packages'[k] = packages[k]
  BY <1>1, <1>2, <1>3
<1>5. \A k \in DOMAIN packages' : k \notin DOMAIN packages =>
        k = Len(packages) + 1 /\ packages'[k] = NewPackage(n)
  BY <1>1, <1>2, <1>3
<1>6. NewPackage(n).name = n /\ IsFresh(NewPackage(n))
  BY DEF NewPackage, IsFresh, IsChosen
<1>7. ListedNames \subseteq ListedNames' /\ n \in ListedNames'
  BY <1>2, <1>3, <1>4 DEF ListedNames
<1>8. ListsSorted'
  <2>1. Sorted(<<>>)
    BY DEF Sorted
  <2> QED
    BY <1>4, <1>5, <1>6, <2>1 DEF ListsSorted, IsFresh
<1>9. ChosenIsFirst'
  BY <1>4, <1>5, <1>6 DEF ChosenIsFirst, IsFresh
<1>10. OneVersionPerName'
  BY <1>1, <1>2, <1>3, <1>4, <1>5, <1>6 DEF OneVersionPerName
<1> QED
  BY <1>1, <1>2, <1>3, <1>4, <1>5, <1>7, <1>8, <1>9, <1>10

(***************************************************************************)
(* The invariant survives a client's constraint.                           *)
(***************************************************************************)
LEMMA ConstraintAddInv ==
  ASSUME SolveInv, NEW n \in Names, ConstraintAdd(n)
  PROVE  SolveInv'
<1> USE DEF SolveInv, ConstraintAdd
<1>1. /\ packages' \in Seq(Package)
      /\ Len(packages') \in Nat
      /\ DOMAIN packages' = 1..Len(packages')
      /\ Len(packages) <= Len(packages')
      /\ \A k \in DOMAIN packages : k \in DOMAIN packages' /\ packages'[k] = packages[k]
      /\ \A k \in DOMAIN packages' : k > Len(packages) =>
           k = Len(packages) + 1 /\ packages'[k] = NewPackage(n)
      /\ ListedNames \subseteq ListedNames'
      /\ n \in ListedNames'
      /\ ListsSorted'
      /\ ChosenIsFirst'
      /\ OneVersionPerName'
  BY PkgAddPreserves
<1>2. Len(packages) \in Nat /\ DOMAIN packages = 1..Len(packages)
  BY ListType
<1>3. NewPackage(n).name = n /\ IsFresh(NewPackage(n))
  BY DEF NewPackage, IsFresh, IsChosen
<1>4. \A k \in DOMAIN packages' : k \notin DOMAIN packages => packages'[k] = NewPackage(n)
  BY <1>1, <1>2
<1>5. TypeOK'
  BY <1>1 DEF TypeOK
<1>6. Progress'
  BY <1>1, <1>2, <1>3, <1>4 DEF Progress
<1>7. DependenciesListed'
  BY <1>1, <1>2 DEF DependenciesListed, Progress
<1>8. EveryPackageNeeded'
  <2> SUFFICES ASSUME NEW k \in DOMAIN packages'
               PROVE  \/ packages'[k].name \in roots'
                      \/ \E j \in 1..(k - 1) : Needs(packages'[j], packages'[k].name)
    BY DEF EveryPackageNeeded, Needs, IsChosen
  <2>1. CASE k \in DOMAIN packages
    <3>1. \A j \in 1..(k - 1) : packages'[j] = packages[j]
      BY <1>1, <1>2, <2>1
    <3>2. packages'[k] = packages[k]
      BY <1>1, <2>1
    <3> QED
      BY <2>1, <3>1, <3>2 DEF EveryPackageNeeded
  <2>2. CASE k \notin DOMAIN packages
    BY <1>3, <1>4, <2>2
  <2> QED
    BY <2>1, <2>2
<1> QED
  BY <1>1, <1>5, <1>6, <1>7, <1>8

(***************************************************************************)
(* The invariant survives an iteration of the dependency loop.             *)
(***************************************************************************)
LEMMA AddDependencyInv ==
  ASSUME SolveInv, AddDependency
  PROVE  SolveInv'
<1> DEFINE deps == packages[cur].chosen.dependencies
           n == deps[dep]
<1> USE DEF SolveInv
<1>0. /\ Len(packages) \in Nat
      /\ DOMAIN packages = 1..Len(packages)
      /\ pc = "deps"
      /\ cur \in DOMAIN packages
      /\ IsChosen(packages[cur])
      /\ deps \in Seq(Names)
      /\ Len(deps) \in Nat
      /\ dep \in 1..Len(deps)
  BY ListType DEF AddDependency, Progress, TypeOK
<1>1. n \in Names
  BY <1>0, ElementOfSeq
<1>2. /\ packages' = PkgAdd(packages, n)
      /\ dep' = dep + 1
      /\ UNCHANGED <<solved, pc, cur, roots>>
  BY DEF AddDependency
<1>3. n \in ToSet(deps)
  BY <1>0, LenProperties DEF ToSet
<1> HIDE DEF n
<1>4. /\ packages' \in Seq(Package)
      /\ Len(packages') \in Nat
      /\ DOMAIN packages' = 1..Len(packages')
      /\ Len(packages) <= Len(packages')
      /\ \A k \in DOMAIN packages : k \in DOMAIN packages' /\ packages'[k] = packages[k]
      /\ \A k \in DOMAIN packages' : k > Len(packages) =>
           k = Len(packages) + 1 /\ packages'[k] = NewPackage(n)
      /\ ListedNames \subseteq ListedNames'
      /\ n \in ListedNames'
      /\ ListsSorted'
      /\ ChosenIsFirst'
      /\ OneVersionPerName'
  BY <1>1, <1>2, PkgAddPreserves
<1>5. NewPackage(n).name = n /\ IsFresh(NewPackage(n))
  BY DEF NewPackage, IsFresh, IsChosen
<1>6. TypeOK'
  BY <1>0, <1>2, <1>4 DEF TypeOK
<1>7. Progress'
  BY <1>0, <1>2, <1>4, <1>5 DEF Progress
<1>8. DependenciesListed'
  <2>1. (roots \subseteq ListedNames)'
    BY <1>2, <1>4 DEF DependenciesListed
  <2>2. (\A k \in DOMAIN packages : k < cur =>
           ToSet(packages[k].chosen.dependencies) \subseteq ListedNames)'
    BY <1>0, <1>2, <1>4 DEF DependenciesListed
  <2>3. (\A d \in 1..(dep - 1) : packages[cur].chosen.dependencies[d] \in ListedNames)'
    <3> SUFFICES ASSUME NEW d \in 1..dep
                 PROVE  deps[d] \in ListedNames'
      BY <1>0, <1>2, <1>4
    <3>1. CASE d = dep
      BY <1>4, <3>1 DEF n
    <3>2. CASE d # dep
      BY <1>0, <1>4, <3>2 DEF DependenciesListed
    <3> QED
      BY <3>1, <3>2
  <2> QED
    BY <2>1, <2>2, <2>3 DEF DependenciesListed
<1>9. EveryPackageNeeded'
  <2> SUFFICES ASSUME NEW k \in DOMAIN packages'
               PROVE  \/ packages'[k].name \in roots'
                      \/ \E j \in 1..(k - 1) : Needs(packages'[j], packages'[k].name)
    BY DEF EveryPackageNeeded, Needs, IsChosen
  <2>1. CASE k \in DOMAIN packages
    <3>1. packages'[k] = packages[k]
      BY <1>4, <2>1
    <3>2. CASE packages[k].name \in roots
      BY <1>2, <3>1, <3>2
    <3>3. CASE \E j \in 1..(k - 1) : Needs(packages[j], packages[k].name)
      <4>1. PICK j \in 1..(k - 1) : Needs(packages[j], packages[k].name)
        BY <3>3
      <4>2. j \in DOMAIN packages
        BY <1>0, <2>1
      <4>3. packages'[j] = packages[j]
        BY <1>4, <4>2
      <4> QED
        BY <3>1, <4>1, <4>3
    <3> QED
      BY <2>1, <3>2, <3>3 DEF EveryPackageNeeded
  <2>2. CASE k \notin DOMAIN packages
    <3>1. packages'[k].name = n /\ cur \in 1..(k - 1)
      BY <1>0, <1>4, <1>5, <2>2
    <3>2. Needs(packages'[cur], n)
      BY <1>0, <1>3, <1>4 DEF Needs
    <3> QED
      BY <3>1, <3>2
  <2> QED
    BY <2>1, <2>2
<1> QED
  BY <1>4, <1>6, <1>7, <1>8, <1>9

(***************************************************************************)
(* The insertion loop keeps a version list strictly descending: everything *)
(* before p beats the new version, which beats the entry at p and so, the  *)
(* comparison being transitive, everything after it.                       *)
(***************************************************************************)
LEMMA InsertionKeepsOrder ==
  ASSUME NEW available \in Seq(Versioned), Sorted(available),
         NEW ver \in Versioned, NEW p \in 1..(Len(available) + 1),
         StopsAt(available, ver.version, p),
         GoesBefore(available, ver.version, p)
  PROVE  Sorted(InsertAt(available, p, ver))
<1> DEFINE new == InsertAt(available, p, ver)
           V(q) == available[q].version
           v == ver.version
<1>1. /\ Len(available) \in Nat
      /\ DOMAIN available = 1..Len(available)
      /\ v \in Versions
      /\ \A q \in 1..Len(available) : V(q) \in Versions
  BY LenProperties, ElementOfSeq, VersionedType
<1>2. /\ new \in Seq(Versioned)
      /\ Len(new) = Len(available) + 1
      /\ \A k \in 1..(p - 1) : new[k] = available[k]
      /\ new[p] = ver
      /\ \A k \in (p + 1)..(Len(available) + 1) : new[k] = available[k - 1]
  <2>1. /\ new \in Seq(Versioned)
        /\ Len(new) = Len(available) + 1
        /\ new[p] = ver
    BY InsertAtProperties
  <2>2. \A k \in 1..(p - 1) : new[k] = available[k]
    BY InsertAtProperties
  <2>3. ASSUME NEW k \in (p + 1)..(Len(available) + 1)
        PROVE  new[k] = available[k - 1]
    BY InsertAtProperties
  <2> QED
    BY <2>1, <2>2, <2>3
<1>3. DOMAIN new = 1..(Len(available) + 1)
  BY <1>2, LenProperties
<1> HIDE DEF new
<1>4. \A i, j \in 1..Len(available) : i < j => Beats(V(i), V(j))
  BY <1>1 DEF Sorted
<1>5. \A q \in 1..(p - 1) : Beats(V(q), v)
  <2> SUFFICES ASSUME NEW q \in 1..(p - 1)
               PROVE  Beats(V(q), v)
    OBVIOUS
  <2>1. VerCmp[<<v, V(q)>>] = "LT"
    BY DEF StopsAt
  <2>2. V(q) \in Versions
    BY <1>1
  <2> HIDE DEF V
  <2> QED
    BY <1>1, <2>1, <2>2, VerCmpAssumption
<1>6. \A q \in p..Len(available) : Beats(v, V(q))
  <2> SUFFICES ASSUME NEW q \in p..Len(available)
               PROVE  Beats(v, V(q))
    OBVIOUS
  <2>1. p \in 1..Len(available) /\ q \in 1..Len(available)
    BY <1>1
  <2>2. Beats(v, V(p))
    BY <2>1 DEF GoesBefore
  <2>3. CASE q = p
    BY <2>2, <2>3
  <2>4. CASE q # p
    <3>1. Beats(V(p), V(q))
      BY <1>4, <2>1, <2>4
    <3>2. V(p) \in Versions /\ V(q) \in Versions
      BY <1>1, <2>1
    <3> QED
      BY <1>1, <2>2, <3>1, <3>2, VerCmpAssumption
  <2> QED
    BY <2>3, <2>4
<1>7. SUFFICES ASSUME NEW i \in 1..(Len(available) + 1),
                      NEW j \in 1..(Len(available) + 1),
                      i < j
               PROVE  Beats(new[i].version, new[j].version)
  BY <1>3 DEF Sorted, new
<1>8. CASE j < p
  <2>1. new[i] = available[i] /\ new[j] = available[j]
    BY <1>2, <1>7, <1>8
  <2>2. i \in 1..Len(available) /\ j \in 1..Len(available)
    BY <1>1, <1>7, <1>8
  <2> QED
    BY <1>4, <1>7, <2>1, <2>2
<1>9. CASE j = p
  BY <1>1, <1>2, <1>5, <1>7, <1>9
<1>10. CASE i = p
  <2>1. new[i] = ver /\ new[j] = available[j - 1]
    BY <1>1, <1>2, <1>7, <1>10
  <2>2. j - 1 \in p..Len(available)
    BY <1>1, <1>7, <1>10
  <2> QED
    BY <1>6, <2>1, <2>2
<1>11. CASE i < p /\ p < j
  <2>1. new[i] = available[i] /\ new[j] = available[j - 1]
    BY <1>2, <1>7, <1>11
  <2>2. i \in 1..Len(available) /\ j - 1 \in 1..Len(available) /\ i < j - 1
    BY <1>1, <1>7, <1>11
  <2> QED
    BY <1>4, <2>1, <2>2
<1>12. CASE p < i
  <2>1. new[i] = available[i - 1] /\ new[j] = available[j - 1]
    <3>1. i \in (p + 1)..(Len(available) + 1) /\ j \in (p + 1)..(Len(available) + 1)
      BY <1>1, <1>7, <1>12
    <3> QED
      BY <1>2, <3>1
  <2>2. i - 1 \in 1..Len(available) /\ j - 1 \in 1..Len(available) /\ i - 1 < j - 1
    BY <1>1, <1>7, <1>12
  <2> QED
    BY <1>4, <2>1, <2>2
<1> QED
  BY <1>1, <1>7, <1>8, <1>9, <1>10, <1>11, <1>12

(***************************************************************************)
(* The invariant survives an offer made by the callback.                   *)
(***************************************************************************)
LEMMA OfferInv ==
  ASSUME SolveInv, NEW v \in Versions, NEW deps \in DependencyLists, Offer(v, deps)
  PROVE  SolveInv'
<1> DEFINE available == packages[cur].available
           ver == [version |-> v, dependencies |-> Reverse(deps)]
<1> USE DEF SolveInv
<1>1. /\ packages \in Seq(Package)
      /\ Len(packages) \in Nat
      /\ DOMAIN packages = 1..Len(packages)
      /\ pc = "callback"
      /\ cur \in DOMAIN packages
      /\ ~IsChosen(packages[cur])
      /\ packages[cur] \in Package
      /\ available \in Seq(Versioned)
  BY ListType DEF Offer, Progress, TypeOK
<1>2. ver \in Versioned /\ ver.version = v
  BY DEF Versioned
<1>3. PICK p \in 1..(Len(available) + 1) :
        /\ StopsAt(available, v, p)
        /\ \/ /\ GoesBefore(available, v, p)
              /\ packages' = [packages EXCEPT ![cur].available =
                                InsertAt(available, p, ver)]
              /\ UNCHANGED pc
           \/ pc' = "aborted" /\ UNCHANGED packages
  BY DEF Offer
<1>4. UNCHANGED <<solved, cur, dep, roots>>
  BY DEF Offer
<1>5. CASE pc' = "aborted" /\ UNCHANGED packages
  <2>1. TypeOK'
    BY <1>4, <1>5 DEF TypeOK
  <2>2. Progress'
    BY <1>1, <1>4, <1>5 DEF Progress
  <2>3. DependenciesListed' /\ EveryPackageNeeded'
    BY <1>4, <1>5 DEF DependenciesListed, EveryPackageNeeded, ListedNames
  <2> QED
    BY <1>5, <2>1, <2>2, <2>3 DEF ListsSorted, ChosenIsFirst, OneVersionPerName
<1>6. CASE /\ GoesBefore(available, v, p)
           /\ packages' = [packages EXCEPT ![cur].available = InsertAt(available, p, ver)]
           /\ UNCHANGED pc
  <2> DEFINE new == InsertAt(available, p, ver)
  <2>1. new \in Seq(Versioned)
    BY <1>1, <1>2, InsertAtProperties
  <2>2. Sorted(new)
    <3>1. Sorted(available)
      BY <1>1 DEF ListsSorted
    <3> QED
      BY <1>1, <1>2, <1>3, <1>6, <3>1, InsertionKeepsOrder
  <2> HIDE DEF new
  <2>3. packages' = [packages EXCEPT ![cur] = [packages[cur] EXCEPT !.available = new]]
    BY <1>6 DEF new
  <2>4. [packages[cur] EXCEPT !.available = new] \in Package
    BY <1>1, <2>1 DEF Package
  <2>5. /\ packages' \in Seq(Package)
        /\ Len(packages') = Len(packages)
        /\ DOMAIN packages' = DOMAIN packages
    BY <1>1, <2>3, <2>4, ExceptSeq, LenProperties
  <2>6. \A k \in DOMAIN packages : k # cur => packages'[k] = packages[k]
    BY <1>1, <2>3
  <2>7. /\ packages'[cur].name = packages[cur].name
        /\ packages'[cur].chosen = packages[cur].chosen
        /\ packages'[cur].available = new
    BY <1>1, <2>3 DEF Package
  <2>8. \A k \in DOMAIN packages : /\ packages'[k].name = packages[k].name
                                   /\ packages'[k].chosen = packages[k].chosen
    BY <2>6, <2>7
  <2>9. ListedNames' = ListedNames
    BY <2>5, <2>8 DEF ListedNames
  <2>10. TypeOK'
    BY <1>4, <1>6, <2>5 DEF TypeOK
  <2>11. Progress'
    BY <1>1, <1>4, <1>6, <2>5, <2>6, <2>8 DEF Progress, IsFresh, IsChosen
  <2>12. ListsSorted'
    BY <2>2, <2>5, <2>6, <2>7 DEF ListsSorted
  <2>13. ChosenIsFirst'
    BY <1>1, <2>5, <2>6, <2>7 DEF ChosenIsFirst, IsChosen
  <2>14. DependenciesListed'
    BY <1>1, <1>4, <1>6, <2>5, <2>8, <2>9 DEF DependenciesListed
  <2>15. EveryPackageNeeded'
    <3>1. ASSUME NEW k \in DOMAIN packages
          PROVE  \/ packages'[k].name \in roots
                 \/ \E j \in 1..(k - 1) : Needs(packages'[j], packages'[k].name)
      <4>1. \A j \in 1..(k - 1) : j \in DOMAIN packages
        BY <1>1
      <4> QED
        BY <2>8, <4>1 DEF EveryPackageNeeded, Needs, IsChosen
    <3> QED
      BY <1>4, <2>5, <3>1 DEF EveryPackageNeeded, Needs, IsChosen
  <2>16. OneVersionPerName'
    BY <2>5, <2>8 DEF OneVersionPerName
  <2> QED
    BY <2>10, <2>11, <2>12, <2>13, <2>14, <2>15, <2>16
<1> QED
  BY <1>3, <1>5, <1>6

(***************************************************************************)
(* The invariant survives solve_run's choice for the current package.      *)
(***************************************************************************)
LEMMA ChooseInv ==
  ASSUME SolveInv, Choose
  PROVE  SolveInv'
<1> DEFINE first == packages[cur].available[1]
<1> USE DEF SolveInv
<1>1. /\ packages \in Seq(Package)
      /\ Len(packages) \in Nat
      /\ DOMAIN packages = 1..Len(packages)
      /\ pc = "callback"
      /\ cur \in DOMAIN packages
      /\ ~IsChosen(packages[cur])
      /\ packages[cur] \in Package
      /\ packages[cur].available \in Seq(Versioned)
      /\ packages[cur].available # <<>>
  BY ListType DEF Choose, Progress, TypeOK
<1>2. first \in Versioned
  BY <1>1, EmptySeq, ElementOfSeq
<1>3. first # NoVersion
  BY <1>2, NoVersionAssumption
<1>4. /\ packages' = [packages EXCEPT ![cur] = [packages[cur] EXCEPT !.chosen = first]]
      /\ dep' = 1
      /\ pc' = "deps"
      /\ UNCHANGED <<solved, cur, roots>>
  BY DEF Choose
<1>5. first.dependencies \in Seq(Names) /\ Len(first.dependencies) \in Nat
  BY <1>2, VersionedType, LenProperties
<1> HIDE DEF first
<1>6. [packages[cur] EXCEPT !.chosen = first] \in Package
  BY <1>1, <1>2 DEF Package
<1>7. /\ packages' \in Seq(Package)
      /\ Len(packages') = Len(packages)
      /\ DOMAIN packages' = DOMAIN packages
  BY <1>1, <1>4, <1>6, ExceptSeq, LenProperties
<1>8. \A k \in DOMAIN packages : k # cur => packages'[k] = packages[k]
  BY <1>1, <1>4
<1>9. /\ packages'[cur].name = packages[cur].name
      /\ packages'[cur].chosen = first
      /\ packages'[cur].available = packages[cur].available
  BY <1>1, <1>4 DEF Package
<1>10. IsChosen(packages'[cur])
  BY <1>3, <1>9 DEF IsChosen
<1>11. \A k \in DOMAIN packages : packages'[k].name = packages[k].name
  BY <1>8, <1>9
<1>12. ListedNames' = ListedNames
  BY <1>7, <1>11 DEF ListedNames
<1>13. TypeOK'
  BY <1>4, <1>7 DEF TypeOK
<1>14. Progress'
  BY <1>1, <1>4, <1>5, <1>7, <1>8, <1>9, <1>10 DEF Progress, IsFresh, IsChosen
<1>15. ListsSorted'
  BY <1>7, <1>8, <1>9 DEF ListsSorted
<1>16. ChosenIsFirst'
  BY <1>1, <1>7, <1>8, <1>9 DEF ChosenIsFirst, IsChosen, first
<1>17. DependenciesListed'
  <2>1. (roots \subseteq ListedNames)'
    BY <1>4, <1>12 DEF DependenciesListed
  <2>2. (\A k \in DOMAIN packages : k < cur =>
           ToSet(packages[k].chosen.dependencies) \subseteq ListedNames)'
    BY <1>1, <1>4, <1>7, <1>8, <1>12 DEF DependenciesListed
  <2> QED
    BY <1>4, <2>1, <2>2 DEF DependenciesListed
<1>18. EveryPackageNeeded'
  <2>1. \A k \in DOMAIN packages, n \in Names :
          Needs(packages[k], n) => Needs(packages'[k], n)
    BY <1>1, <1>8 DEF Needs
  <2>2. \A k \in DOMAIN packages : packages[k].name \in Names
    BY ListType
  <2>3. ASSUME NEW k \in DOMAIN packages
        PROVE  \/ packages'[k].name \in roots
               \/ \E j \in 1..(k - 1) : Needs(packages'[j], packages'[k].name)
    <3>1. \A j \in 1..(k - 1) : j \in DOMAIN packages
      BY <1>1
    <3> QED
      BY <1>11, <2>1, <2>2, <3>1 DEF EveryPackageNeeded
  <2> QED
    BY <1>4, <1>7, <2>3 DEF EveryPackageNeeded, Needs, IsChosen
<1>19. OneVersionPerName'
  BY <1>7, <1>11 DEF OneVersionPerName
<1> QED
  BY <1>13, <1>14, <1>15, <1>16, <1>17, <1>18, <1>19

(***************************************************************************)
(* The invariant survives the steps that move control and touch no package.*)
(***************************************************************************)
LEMMA ControlInv ==
  ASSUME SolveInv,
         Run \/ CallGetPkt \/ NextPackage \/ Finish \/ NoneAvailable
           \/ CallbackFails \/ AddDependencyFails
  PROVE  SolveInv'
<1> USE DEF SolveInv
<1>1. UNCHANGED <<packages, dep, roots>>
  BY DEF Run, CallGetPkt, NextPackage, Finish, NoneAvailable, CallbackFails,
         AddDependencyFails, Fail
<1>2. Len(packages) \in Nat /\ DOMAIN packages = 1..Len(packages)
  BY ListType
<1>3. ListsSorted' /\ ChosenIsFirst' /\ EveryPackageNeeded' /\ OneVersionPerName'
  BY <1>1 DEF ListsSorted, ChosenIsFirst, EveryPackageNeeded, OneVersionPerName
<1>4. ListedNames' = ListedNames
  BY <1>1 DEF ListedNames
<1>5. CASE Run
  <2>1. TypeOK' /\ Progress'
    BY <1>1, <1>2, <1>5 DEF Run, TypeOK, Progress
  <2>2. DependenciesListed'
    BY <1>1, <1>2, <1>4, <1>5 DEF Run, DependenciesListed
  <2> QED
    BY <1>3, <2>1, <2>2
<1>6. CASE CallGetPkt
  <2>1. TypeOK' /\ Progress'
    BY <1>1, <1>2, <1>6 DEF CallGetPkt, TypeOK, Progress, IsFresh
  <2>2. DependenciesListed'
    BY <1>1, <1>4, <1>6 DEF CallGetPkt, DependenciesListed
  <2> QED
    BY <1>3, <2>1, <2>2
<1>7. CASE Finish
  <2>1. TypeOK' /\ Progress'
    BY <1>1, <1>2, <1>7 DEF Finish, TypeOK, Progress
  <2>2. DependenciesListed'
    BY <1>1, <1>4, <1>7 DEF Finish, DependenciesListed
  <2> QED
    BY <1>3, <2>1, <2>2
<1>8. CASE NoneAvailable \/ CallbackFails \/ AddDependencyFails
  <2>1. pc # "client" /\ pc' = "returned" /\ solved' = -1 /\ UNCHANGED cur
    BY <1>8 DEF NoneAvailable, CallbackFails, AddDependencyFails, Fail
  <2>2. TypeOK' /\ Progress'
    BY <1>1, <1>2, <2>1 DEF TypeOK, Progress
  <2>3. DependenciesListed'
    BY <1>1, <1>4, <2>1 DEF DependenciesListed
  <2> QED
    BY <1>3, <2>2, <2>3
<1>9. CASE NextPackage
  <2> DEFINE deps == packages[cur].chosen.dependencies
  <2>1. /\ cur \in DOMAIN packages
        /\ IsChosen(packages[cur])
        /\ deps \in Seq(Names)
        /\ Len(deps) \in Nat
        /\ dep > Len(deps)
        /\ dep \in Nat
    BY <1>9, ListType DEF NextPackage, Progress, TypeOK
  <2>2. TypeOK' /\ Progress'
    <3>1. TypeOK'
      BY <1>1, <1>2, <1>9 DEF NextPackage, TypeOK
    <3>2. (\A k \in DOMAIN packages :
             /\ k < cur => IsChosen(packages[k])
             /\ k > cur => IsFresh(packages[k]))'
      BY <1>1, <1>2, <1>9, <2>1 DEF NextPackage, Progress
    <3>3. (pc = "loop" /\ cur \in DOMAIN packages => IsFresh(packages[cur]))'
      BY <1>1, <1>2, <1>9, <2>1 DEF NextPackage, Progress
    <3> QED
      BY <1>1, <1>2, <1>9, <2>1, <3>1, <3>2, <3>3 DEF NextPackage, Progress
  <2>3. ToSet(deps) \subseteq ListedNames
    <3>1. \A d \in 1..Len(deps) : deps[d] \in ListedNames
      BY <1>9, <2>1 DEF NextPackage, DependenciesListed
    <3> QED
      BY <2>1, <3>1, LenProperties DEF ToSet
  <2>4. DependenciesListed'
    <3>1. ASSUME NEW k \in DOMAIN packages, k < cur + 1
          PROVE  ToSet(packages[k].chosen.dependencies) \subseteq ListedNames
      <4>1. k < cur \/ k = cur
        BY <1>2, <2>1, <3>1
      <4> QED
        BY <2>3, <4>1 DEF DependenciesListed
    <3> QED
      BY <1>1, <1>4, <1>9, <3>1 DEF NextPackage, DependenciesListed
  <2> QED
    BY <1>3, <2>2, <2>4
<1> QED
  BY <1>5, <1>6, <1>7, <1>8, <1>9

LEMMA InitInv == Init => SolveInv
<1> SUFFICES ASSUME Init PROVE SolveInv
  OBVIOUS
<1>1. packages = <<>> /\ DOMAIN packages = {} /\ Len(packages) = 0
  BY EmptySeq DEF Init
<1>2. TypeOK
  BY EmptySeq DEF Init, TypeOK
<1>3. Progress
  BY <1>1 DEF Init, Progress
<1> QED
  BY <1>1, <1>2, <1>3 DEF Init, SolveInv, ListsSorted, ChosenIsFirst,
       DependenciesListed, EveryPackageNeeded, OneVersionPerName

LEMMA NextInv == SolveInv /\ [Next]_vars => SolveInv'
<1> SUFFICES ASSUME SolveInv, [Next]_vars
             PROVE  SolveInv'
  OBVIOUS
<1>1. CASE \E n \in Names : ConstraintAdd(n)
  BY <1>1, ConstraintAddInv
<1>2. CASE \E v \in Versions, deps \in DependencyLists : Offer(v, deps)
  BY <1>2, OfferInv
<1>3. CASE Choose
  BY <1>3, ChooseInv
<1>4. CASE AddDependency
  BY <1>4, AddDependencyInv
<1>5. CASE Run \/ CallGetPkt \/ NextPackage \/ Finish \/ NoneAvailable
             \/ CallbackFails \/ AddDependencyFails
  BY <1>5, ControlInv
<1>6. CASE UNCHANGED vars
  <2> USE <1>6 DEF vars, SolveInv
  <2>1. TypeOK'
    BY DEF TypeOK
  <2>2. Progress'
    BY DEF Progress
  <2>3. DependenciesListed'
    BY DEF DependenciesListed, ListedNames
  <2>4. EveryPackageNeeded'
    BY DEF EveryPackageNeeded
  <2>5. ListsSorted' /\ ChosenIsFirst' /\ OneVersionPerName'
    BY DEF ListsSorted, ChosenIsFirst, OneVersionPerName
  <2> QED
    BY <2>1, <2>2, <2>3, <2>4, <2>5
<1> QED
  BY <1>1, <1>2, <1>3, <1>4, <1>5, <1>6 DEF Next, Proceed

(***************************************************************************)
(* The inductive invariant holds in every state the solver reaches.        *)
(***************************************************************************)
THEOREM SolverInvariant == Spec => []SolveInv
<1>1. Init => SolveInv
  BY InitInv
<1>2. SolveInv /\ [Next]_vars => SolveInv'
  BY NextInv
<1> QED
  BY <1>1, <1>2, PTL DEF Spec

(***************************************************************************)
(* The state of the solver is always well typed.                           *)
(***************************************************************************)
THEOREM TypeCorrect == Spec => []TypeOK
<1>1. SolveInv => TypeOK
  BY DEF SolveInv
<1> QED
  BY <1>1, SolverInvariant, PTL

(***************************************************************************)
(* When solve_run returns 0 the answer is complete and closed under        *)
(* dependencies, whatever the repository holds.                            *)
(***************************************************************************)
THEOREM SolutionIsClosed == Spec => []SolutionClosed
<1>1. SolveInv => SolutionClosed
  <2> SUFFICES ASSUME SolveInv, solved = 1
               PROVE  /\ roots \subseteq ListedNames
                      /\ \A k \in DOMAIN packages :
                           /\ IsChosen(packages[k])
                           /\ ToSet(packages[k].chosen.dependencies) \subseteq ListedNames
    BY DEF SolutionClosed
  <2>1. Len(packages) \in Nat /\ DOMAIN packages = 1..Len(packages)
    BY ListType DEF SolveInv
  <2>2. \A k \in DOMAIN packages : k < cur
    BY <2>1 DEF SolveInv, Progress
  <2> QED
    BY <2>2 DEF SolveInv, Progress, DependenciesListed
<1> QED
  BY <1>1, SolverInvariant, PTL

(***************************************************************************)
(* Every listed package goes back, through earlier choices, to a name the  *)
(* client asked for.                                                       *)
(***************************************************************************)
THEOREM NothingUnneeded == Spec => []EveryPackageNeeded
<1>1. SolveInv => EveryPackageNeeded
  BY DEF SolveInv
<1> QED
  BY <1>1, SolverInvariant, PTL

(***************************************************************************)
(* No name is ever listed twice, so none is given two versions.            *)
(***************************************************************************)
THEOREM NamesListedOnce == Spec => []OneVersionPerName
<1>1. SolveInv => OneVersionPerName
  BY DEF SolveInv
<1> QED
  BY <1>1, SolverInvariant, PTL

(***************************************************************************)
(* The chosen version beats every other version that was offered.          *)
(***************************************************************************)
THEOREM NewestIsChosen == Spec => []ChosenIsNewest
<1>1. SolveInv => ChosenIsNewest
  <2> SUFFICES ASSUME SolveInv,
                      NEW k \in DOMAIN packages, IsChosen(packages[k]),
                      NEW q \in DOMAIN packages[k].available
               PROVE  \/ packages[k].available[q] = packages[k].chosen
                      \/ Beats(packages[k].chosen.version,
                               packages[k].available[q].version)
    BY DEF ChosenIsNewest
  <2>1. /\ DOMAIN packages[k].available = 1..Len(packages[k].available)
        /\ Len(packages[k].available) \in Nat
    BY ListType DEF SolveInv
  <2>2. packages[k].chosen = packages[k].available[1]
    BY DEF SolveInv, ChosenIsFirst
  <2>3. CASE q = 1
    BY <2>2, <2>3
  <2>4. CASE q # 1
    BY <2>1, <2>2, <2>4 DEF SolveInv, ListsSorted, Sorted
  <2> QED
    BY <2>3, <2>4
<1> QED
  BY <1>1, SolverInvariant, PTL

(***************************************************************************)
(* No step of the solver, and no offer a callback makes, moves an entry of *)
(* the list or touches one that has been decided.                          *)
(***************************************************************************)
THEOREM DecisionsAreFinal == Spec => DecisionsStand
<1> DEFINE Step == /\ Len(packages') >= Len(packages)
                   /\ \A k \in DOMAIN packages :
                        /\ packages'[k].name = packages[k].name
                        /\ IsChosen(packages[k]) => packages'[k] = packages[k]
<1>1. SolveInv /\ [Next]_vars => [Step]_vars
  <2> SUFFICES ASSUME SolveInv, Next PROVE Step
    BY DEF Step
  <2>1. /\ packages \in Seq(Package)
        /\ Len(packages) \in Nat
        /\ DOMAIN packages = 1..Len(packages)
        /\ \A k \in DOMAIN packages : packages[k] \in Package
    BY ListType DEF SolveInv, TypeOK
  <2>2. ASSUME UNCHANGED packages PROVE Step
    BY <2>1, <2>2
  <2>3. ASSUME NEW n \in Names, packages' = PkgAdd(packages, n) PROVE Step
    <3>1. /\ Len(packages') \in Nat
          /\ Len(packages) <= Len(packages')
          /\ \A k \in DOMAIN packages : packages'[k] = packages[k]
      BY <2>3, PkgAddPreserves
    <3> QED
      BY <2>1, <3>1
  <2>4. CASE \E n \in Names : ConstraintAdd(n)
    BY <2>3, <2>4 DEF ConstraintAdd
  <2>5. CASE AddDependency
    <3>1. /\ packages[cur].chosen.dependencies \in Seq(Names)
          /\ dep \in 1..Len(packages[cur].chosen.dependencies)
      BY <2>5, ListType DEF AddDependency, SolveInv, Progress, TypeOK
    <3>2. packages[cur].chosen.dependencies[dep] \in Names
      BY <3>1, ElementOfSeq
    <3>3. packages' = PkgAdd(packages, packages[cur].chosen.dependencies[dep])
      BY <2>5 DEF AddDependency
    <3> QED
      BY <2>3, <3>2, <3>3
  <2>6. ASSUME NEW new, pc = "callback",
               packages' = [packages EXCEPT ![cur] = new],
               new.name = packages[cur].name
        PROVE  Step
    <3>1. cur \in DOMAIN packages /\ ~IsChosen(packages[cur])
      BY <2>6 DEF SolveInv, Progress
    <3>2. Len(packages') = Len(packages)
      BY <2>1, <2>6, <3>1
    <3> QED
      BY <2>1, <2>6, <3>1, <3>2
  <2>7. CASE \E v \in Versions, deps \in DependencyLists : Offer(v, deps)
    <3>1. PICK v \in Versions, deps \in DependencyLists : Offer(v, deps)
      BY <2>7
    <3> DEFINE ver == [version |-> v, dependencies |-> Reverse(deps)]
               inserted(p) == InsertAt(packages[cur].available, p, ver)
    <3>2. pc = "callback"
      BY <3>1 DEF Offer
    <3>3. \/ UNCHANGED packages
          \/ \E p \in 1..(Len(packages[cur].available) + 1) :
               packages' = [packages EXCEPT ![cur].available = inserted(p)]
      BY <3>1 DEF Offer
    <3> HIDE DEF inserted
    <3>4. ASSUME NEW p, packages' = [packages EXCEPT ![cur].available = inserted(p)]
          PROVE  Step
      <4> DEFINE new == [packages[cur] EXCEPT !.available = inserted(p)]
      <4>1. packages' = [packages EXCEPT ![cur] = new]
        BY <3>4
      <4>2. packages[cur] \in Package
        BY <2>1, <3>2 DEF SolveInv, Progress
      <4>3. new.name = packages[cur].name
        BY <4>2 DEF Package
      <4> QED
        BY <2>6, <3>2, <4>1, <4>3
    <3> QED
      BY <2>2, <3>3, <3>4
  <2>8. CASE Choose
    <3> DEFINE new == [packages[cur] EXCEPT !.chosen = packages[cur].available[1]]
    <3>1. pc = "callback" /\ packages' = [packages EXCEPT ![cur] = new]
      BY <2>8 DEF Choose
    <3>2. packages[cur] \in Package
      BY <2>1, <3>1 DEF SolveInv, Progress
    <3>3. new.name = packages[cur].name
      BY <3>2 DEF Package
    <3> QED
      BY <2>6, <3>1, <3>3
  <2>9. CASE Run \/ CallGetPkt \/ NextPackage \/ Finish \/ NoneAvailable
               \/ CallbackFails \/ AddDependencyFails
    <3>1. UNCHANGED packages
      BY <2>9 DEF Run, CallGetPkt, NextPackage, Finish, NoneAvailable,
           CallbackFails, AddDependencyFails, Fail
    <3> QED
      BY <2>2, <3>1
  <2> QED
    BY <2>4, <2>5, <2>7, <2>8, <2>9 DEF Next, Proceed
<1> QED
  BY <1>1, SolverInvariant, PTL DEF Spec, DecisionsStand

(***************************************************************************)
(* solve.c aborts only when a version is offered that compares equal to a  *)
(* differently spelled one: the lookup before the insertion catches every  *)
(* version that has been offered before.                                   *)
(***************************************************************************)
THEOREM AbortsForCause == Spec => AbortsOverSpellings
<1> DEFINE Cause ==
             \E v \in Versions, k \in DOMAIN packages[cur].available :
                 LET w == packages[cur].available[k].version
                 IN  v # w /\ VerCmp[<<v, w>>] = "EQ"
           Step == pc' = "aborted" /\ pc # "aborted" => Cause
<1>1. SolveInv /\ [Next]_vars => [Step]_vars
  <2> SUFFICES ASSUME SolveInv, Next, pc' = "aborted", pc # "aborted"
               PROVE  Cause
    BY DEF vars
  <2>1. CASE \E v \in Versions, deps \in DependencyLists : Offer(v, deps)
    <3>1. PICK v \in Versions, deps \in DependencyLists : Offer(v, deps)
      BY <2>1
    <3>2. PICK p \in 1..(Len(packages[cur].available) + 1) :
              /\ p <= Len(packages[cur].available)
              /\ VerCmp[<<v, packages[cur].available[p].version>>] = "EQ"
      BY <3>1 DEF Offer
    <3>3. cur \in DOMAIN packages /\ packages[cur] \in Package
      BY <3>1, ElementOfSeq DEF Offer, SolveInv, TypeOK, Progress
    <3>4. packages[cur].available \in Seq(Versioned)
      BY <3>3 DEF Package
    <3>5. p \in DOMAIN packages[cur].available
      BY <3>2, <3>4, LenProperties
    <3>6. packages[cur].available[p].version # v
      BY <3>1, <3>5 DEF Offer, IsOffered
    <3> QED
      BY <3>2, <3>5, <3>6
  <2>2. CASE \E n \in Names : ConstraintAdd(n)
    BY <2>2 DEF ConstraintAdd
  <2>3. CASE Run \/ CallbackFails \/ AddDependencyFails \/ Proceed
    BY <2>3 DEF Run, CallbackFails, AddDependencyFails, Fail, Proceed, CallGetPkt,
       Choose, NoneAvailable, AddDependency, NextPackage, Finish
  <2> QED
    BY <2>1, <2>2, <2>3 DEF Next
<1> QED
  BY <1>1, SolverInvariant, PTL DEF Spec, AbortsOverSpellings

=============================================================================
