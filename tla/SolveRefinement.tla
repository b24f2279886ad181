-------------------------- MODULE SolveRefinement ---------------------------
(***************************************************************************)
(* Every behaviour of the solver is, seen through its refinement mapping,  *)
(* a behaviour of Resolution.                                              *)
(***************************************************************************)
EXTENDS SolveProofs

\* The list gains a name and no decision.
LEMMA PkgAddMapped ==
  ASSUME SolveInv, NEW n \in Names, packages' = PkgAdd(packages, n)
  PROVE  /\ decidedVersions' = decidedVersions
         /\ ListedNames' = ListedNames \cup {n}
<1>1. /\ Len(packages) \in Nat
      /\ DOMAIN packages = 1..Len(packages)
  BY ListType DEF SolveInv
<1>2. /\ DOMAIN packages' = 1..Len(packages')
      /\ Len(packages') \in Nat
      /\ \A k \in DOMAIN packages : k \in DOMAIN packages' /\ packages'[k] = packages[k]
      /\ \A k \in DOMAIN packages' : k > Len(packages) => packages'[k] = NewPackage(n)
      /\ ListedNames \subseteq ListedNames'
      /\ n \in ListedNames'
  BY PkgAddPreserves
<1>3. NewPackage(n).name = n /\ ~IsChosen(NewPackage(n))
  BY DEF NewPackage, IsChosen
<1>4. \A k \in DOMAIN packages' : k \notin DOMAIN packages => packages'[k] = NewPackage(n)
  BY <1>1, <1>2
<1> DEFINE chosenNow == {j \in DOMAIN packages : IsChosen(packages[j])}
<1>5. chosenNow' = chosenNow
  BY <1>2, <1>3, <1>4 DEF IsChosen
<1>6. \A k \in chosenNow : packages'[k] = packages[k]
  BY <1>2
<1> HIDE DEF chosenNow
<1>7. decidedVersions' = decidedVersions
  BY <1>5, <1>6 DEF decidedVersions, chosenNow
<1>8. ListedNames' \subseteq ListedNames \cup {n}
  BY <1>2, <1>3, <1>4 DEF ListedNames
<1> QED
  BY <1>2, <1>7, <1>8

LEMMA InitMapped == Init => Abstract!Init
<1> SUFFICES ASSUME Init PROVE Abstract!Init
  OBVIOUS
<1>1. DOMAIN packages = {}
  BY EmptySeq DEF Init
<1>2. ListedNames = {} /\ decidedVersions = {}
  BY <1>1 DEF ListedNames, decidedVersions
<1>3. wantedNames = {}
  BY <1>2 DEF wantedNames
<1>4. outcomeSoFar = "asking"
  BY DEF Init, outcomeSoFar
<1> QED
  BY <1>2, <1>3, <1>4 DEF Abstract!Init

\* What one more decision needs.
LEMMA NeedsOfOneMore ==
  ASSUME NEW D, NEW n, NEW c
  PROVE  UNION {NeededBy(d[2]) : d \in D \cup {<<n, c>>}}
           = (UNION {NeededBy(d[2]) : d \in D}) \cup NeededBy(c)
<1> DEFINE more == D \cup {<<n, c>>}
<1>1. <<n, c>>[2] = c
  OBVIOUS
<1>2. ASSUME NEW x \in UNION {NeededBy(d[2]) : d \in more}
      PROVE  x \in (UNION {NeededBy(d[2]) : d \in D}) \cup NeededBy(c)
  <2>1. PICK d \in more : x \in NeededBy(d[2])
    OBVIOUS
  <2>2. CASE d \in D
    BY <2>1, <2>2
  <2>3. CASE d = <<n, c>>
    BY <1>1, <2>1, <2>3
  <2> QED
    BY <2>1, <2>2, <2>3
<1>3. NeededBy(c) \subseteq UNION {NeededBy(d[2]) : d \in more}
  <2>1. <<n, c>> \in more
    OBVIOUS
  <2> HIDE DEF more
  <2>2. NeededBy(<<n, c>>[2]) \subseteq UNION {NeededBy(d[2]) : d \in more}
    BY <2>1
  <2> QED
    BY <1>1, <2>2
<1>4. UNION {NeededBy(d[2]) : d \in D} \subseteq UNION {NeededBy(d[2]) : d \in more}
  OBVIOUS
<1> QED
  BY <1>2, <1>3, <1>4

\* A choice is a decision on a wanted name that had none.
LEMMA ChooseMapped ==
  ASSUME SolveInv, Choose
  PROVE  \E n \in Names, c \in Versioned : Abstract!Decide(n, c)
<1> DEFINE name == packages[cur].name
           first == packages[cur].available[1]
           chosenNow == {j \in DOMAIN packages : IsChosen(packages[j])}
<1>1. /\ packages \in Seq(Package)
      /\ DOMAIN packages = 1..Len(packages)
      /\ cur \in DOMAIN packages
      /\ ~IsChosen(packages[cur])
      /\ packages[cur] \in Package
      /\ packages[cur].available \in Seq(Versioned)
      /\ packages[cur].available # <<>>
      /\ name \in Names
      /\ pc = "callback"
  BY ListType DEF Choose, SolveInv, Progress, TypeOK
<1>2. first \in Versioned /\ first # NoVersion
  BY <1>1, EmptySeq, ElementOfSeq, NoVersionAssumption
<1>3. /\ packages' = [packages EXCEPT ![cur] = [packages[cur] EXCEPT !.chosen = first]]
      /\ pc' = "deps"
  BY DEF Choose
<1> HIDE DEF first
<1>4. /\ DOMAIN packages' = DOMAIN packages
      /\ \A k \in DOMAIN packages : k # cur => packages'[k] = packages[k]
      /\ packages'[cur].name = name
      /\ packages'[cur].chosen = first
  BY <1>1, <1>3 DEF Package
<1>5. chosenNow' = chosenNow \cup {cur} /\ cur \notin chosenNow
  BY <1>1, <1>2, <1>4 DEF IsChosen
<1>6. \A k \in chosenNow : packages'[k] = packages[k]
  BY <1>4, <1>5
<1>7. decidedVersions' = decidedVersions \cup {<<name, first>>}
  <2> HIDE DEF chosenNow
  <2>1. decidedVersions' = {<<packages'[k].name, packages'[k].chosen>> : k \in chosenNow'}
    BY DEF decidedVersions, chosenNow
  <2>2. decidedVersions = {<<packages[k].name, packages[k].chosen>> : k \in chosenNow}
    BY DEF decidedVersions, chosenNow
  <2> QED
    BY <1>4, <1>5, <1>6, <2>1, <2>2
<1>8. ListedNames' = ListedNames
  BY <1>4 DEF ListedNames
<1>9. wantedNames' = wantedNames \cup NeededBy(first)
  <2> DEFINE D == decidedVersions
  <2>1. UNION {NeededBy(d[2]) : d \in D \cup {<<name, first>>}}
          = (UNION {NeededBy(d[2]) : d \in D}) \cup NeededBy(first)
    BY NeedsOfOneMore
  <2> QED
    BY <1>7, <1>8, <2>1 DEF wantedNames
<1>10. name \in wantedNames
  BY <1>1 DEF wantedNames, ListedNames
<1>11. name \notin {d[1] : d \in decidedVersions}
  BY <1>1 DEF decidedVersions, SolveInv, OneVersionPerName
<1>12. outcomeSoFar = "resolving" /\ outcomeSoFar' = "resolving"
  BY <1>1, <1>3 DEF outcomeSoFar
<1>13. Abstract!Decide(name, first)
  BY <1>7, <1>9, <1>10, <1>11, <1>12 DEF Abstract!Decide, Abstract!DecidedNames
<1> QED
  BY <1>1, <1>2, <1>13

\* An offer decides nothing; the one that aborts gives up.
LEMMA OfferMapped ==
  ASSUME SolveInv, NEW v \in Versions, NEW deps \in DependencyLists, Offer(v, deps)
  PROVE  Abstract!GiveUp \/ UNCHANGED Abstract!vars
<1> DEFINE ver == [version |-> v, dependencies |-> Reverse(deps)]
           inserted(p) == InsertAt(packages[cur].available, p, ver)
<1>1. /\ packages \in Seq(Package)
      /\ DOMAIN packages = 1..Len(packages)
      /\ cur \in DOMAIN packages
      /\ packages[cur] \in Package
      /\ pc = "callback"
      /\ UNCHANGED solved
  BY ListType DEF Offer, SolveInv, Progress, TypeOK
<1>2. \/ pc' = "aborted" /\ UNCHANGED packages
      \/ /\ UNCHANGED pc
         /\ \E p \in 1..(Len(packages[cur].available) + 1) :
              packages' = [packages EXCEPT ![cur].available = inserted(p)]
  BY DEF Offer
<1> HIDE DEF inserted
<1>3. CASE pc' = "aborted" /\ UNCHANGED packages
  <2>1. /\ ListedNames' = ListedNames
        /\ decidedVersions' = decidedVersions
        /\ wantedNames' = wantedNames
    BY <1>3 DEF ListedNames, decidedVersions, wantedNames
  <2>2. outcomeSoFar = "resolving" /\ outcomeSoFar' = "failed"
    BY <1>1, <1>3 DEF outcomeSoFar
  <2> QED
    BY <2>1, <2>2 DEF Abstract!GiveUp
<1>4. ASSUME NEW p, UNCHANGED pc,
             packages' = [packages EXCEPT ![cur].available = inserted(p)]
      PROVE  UNCHANGED Abstract!vars
  <2>1. /\ DOMAIN packages' = DOMAIN packages
        /\ \A k \in DOMAIN packages : /\ packages'[k].name = packages[k].name
                                      /\ packages'[k].chosen = packages[k].chosen
    BY <1>1, <1>4 DEF Package
  <2> DEFINE chosenNow == {j \in DOMAIN packages : IsChosen(packages[j])}
  <2>2. chosenNow' = chosenNow
    BY <2>1 DEF IsChosen
  <2>3. ListedNames' = ListedNames
    BY <2>1 DEF ListedNames
  <2>4. decidedVersions' = decidedVersions
    <3>1. \A k \in chosenNow : k \in DOMAIN packages
      OBVIOUS
    <3> HIDE DEF chosenNow
    <3>2. decidedVersions' = {<<packages'[k].name, packages'[k].chosen>> : k \in chosenNow'}
      BY DEF decidedVersions, chosenNow
    <3>3. decidedVersions = {<<packages[k].name, packages[k].chosen>> : k \in chosenNow}
      BY DEF decidedVersions, chosenNow
    <3> QED
      BY <2>1, <2>2, <3>1, <3>2, <3>3
  <2>5. wantedNames' = wantedNames
    BY <2>3, <2>4 DEF wantedNames
  <2>6. outcomeSoFar' = outcomeSoFar
    BY <1>1, <1>4 DEF outcomeSoFar
  <2> QED
    BY <2>4, <2>5, <2>6 DEF Abstract!vars
<1> QED
  BY <1>1, <1>2, <1>3, <1>4

\* A constraint asks for a name.
LEMMA ConstraintAddMapped ==
  ASSUME SolveInv, NEW n \in Names, ConstraintAdd(n)
  PROVE  Abstract!Ask(n)
<1>1. decidedVersions' = decidedVersions /\ ListedNames' = ListedNames \cup {n}
  BY PkgAddMapped DEF ConstraintAdd
<1>2. wantedNames' = wantedNames \cup {n}
  BY <1>1 DEF wantedNames
<1>3. outcomeSoFar = "asking" /\ outcomeSoFar' = "asking"
  BY DEF ConstraintAdd, outcomeSoFar
<1> QED
  BY <1>1, <1>2, <1>3 DEF Abstract!Ask

\* A dependency that gets listed was wanted since its package was decided.
LEMMA AddDependencyMapped ==
  ASSUME SolveInv, AddDependency
  PROVE  UNCHANGED Abstract!vars
<1> DEFINE deps == packages[cur].chosen.dependencies
<1>1. /\ pc = "deps"
      /\ cur \in DOMAIN packages
      /\ IsChosen(packages[cur])
      /\ deps \in Seq(Names)
      /\ dep \in 1..Len(deps)
  BY ListType DEF AddDependency, SolveInv, Progress, TypeOK
<1>2. deps[dep] \in Names /\ deps[dep] \in ToSet(deps)
  BY <1>1, ElementOfSeq, LenProperties DEF ToSet
<1>3. packages' = PkgAdd(packages, deps[dep]) /\ UNCHANGED <<solved, pc>>
  BY DEF AddDependency
<1>4. /\ decidedVersions' = decidedVersions
      /\ ListedNames' = ListedNames \cup {deps[dep]}
  BY <1>2, <1>3, PkgAddMapped
<1>5. <<packages[cur].name, packages[cur].chosen>> \in decidedVersions
  BY <1>1 DEF decidedVersions
<1>6. deps[dep] \in UNION {NeededBy(d[2]) : d \in decidedVersions}
  BY <1>2, <1>5 DEF NeededBy
<1> HIDE DEF deps
<1>7. wantedNames' = wantedNames
  BY <1>4, <1>6 DEF wantedNames
<1>8. outcomeSoFar' = outcomeSoFar
  BY <1>3 DEF outcomeSoFar
<1> QED
  BY <1>4, <1>7, <1>8 DEF Abstract!vars

\* At the end of the list what is wanted and what is decided is the same.
LEMMA FinishMapped ==
  ASSUME SolveInv, Finish
  PROVE  Abstract!Finish
<1>1. /\ Len(packages) \in Nat
      /\ DOMAIN packages = 1..Len(packages)
      /\ cur \in Nat
      /\ cur > Len(packages)
      /\ pc = "loop"
  BY ListType DEF Finish, SolveInv, TypeOK
<1>2. \A k \in DOMAIN packages : k < cur
  BY <1>1
<1>3. \A k \in DOMAIN packages : IsChosen(packages[k])
  BY <1>2 DEF SolveInv, Progress
<1>4. {d[1] : d \in decidedVersions} = ListedNames
  <2> DEFINE pair(k) == <<packages[k].name, packages[k].chosen>>
  <2>1. decidedVersions = {pair(k) : k \in DOMAIN packages}
    BY <1>3 DEF decidedVersions
  <2>2. \A k \in DOMAIN packages : pair(k)[1] = packages[k].name
    OBVIOUS
  <2> HIDE DEF pair
  <2> QED
    BY <2>1, <2>2 DEF ListedNames
<1>5. UNION {NeededBy(d[2]) : d \in decidedVersions} \subseteq ListedNames
  BY <1>2 DEF decidedVersions, NeededBy, SolveInv, DependenciesListed
<1>6. wantedNames = Abstract!DecidedNames
  BY <1>4, <1>5 DEF wantedNames, Abstract!DecidedNames
<1>7. /\ ListedNames' = ListedNames
      /\ decidedVersions' = decidedVersions
      /\ wantedNames' = wantedNames
  BY DEF Finish, ListedNames, decidedVersions, wantedNames
<1>8. outcomeSoFar = "resolving" /\ outcomeSoFar' = "solved"
  BY <1>1 DEF Finish, outcomeSoFar
<1> QED
  BY <1>6, <1>7, <1>8 DEF Abstract!Finish

LEMMA StepMapped ==
  ASSUME SolveInv, [Next]_vars
  PROVE  [Abstract!Next]_(Abstract!vars)
<1>1. ASSUME UNCHANGED packages
      PROVE  wantedNames' = wantedNames /\ decidedVersions' = decidedVersions
  BY <1>1 DEF ListedNames, decidedVersions, wantedNames
<1>2. CASE \E n \in Names : ConstraintAdd(n)
  BY <1>2, ConstraintAddMapped DEF Abstract!Next
<1>3. CASE \E v \in Versions, deps \in DependencyLists : Offer(v, deps)
  BY <1>3, OfferMapped DEF Abstract!Next
<1>4. CASE Choose
  BY <1>4, ChooseMapped DEF Abstract!Next
<1>5. CASE AddDependency
  BY <1>5, AddDependencyMapped
<1>6. CASE Finish
  BY <1>6, FinishMapped DEF Abstract!Next
<1>7. CASE Run
  <2>1. outcomeSoFar = "asking" /\ outcomeSoFar' = "resolving"
    BY <1>7 DEF Run, outcomeSoFar
  <2>2. Abstract!Begin
    BY <1>1, <1>7, <2>1 DEF Run, Abstract!Begin
  <2> QED
    BY <2>2 DEF Abstract!Next
<1>8. CASE CallGetPkt \/ NextPackage
  <2>1. outcomeSoFar = "resolving" /\ outcomeSoFar' = "resolving"
    BY <1>8 DEF CallGetPkt, NextPackage, outcomeSoFar
  <2> QED
    BY <1>1, <1>8, <2>1 DEF CallGetPkt, NextPackage, Abstract!vars
<1>9. CASE NoneAvailable \/ CallbackFails \/ AddDependencyFails
  <2>1. outcomeSoFar = "resolving" /\ outcomeSoFar' = "failed"
    BY <1>9 DEF NoneAvailable, CallbackFails, AddDependencyFails, Fail, outcomeSoFar
  <2>2. Abstract!GiveUp
    BY <1>1, <1>9, <2>1
       DEF NoneAvailable, CallbackFails, AddDependencyFails, Fail, Abstract!GiveUp
  <2> QED
    BY <2>2 DEF Abstract!Next
<1>10. CASE UNCHANGED vars
  <2>1. outcomeSoFar' = outcomeSoFar
    BY <1>10 DEF vars, outcomeSoFar
  <2> QED
    BY <1>1, <1>10, <2>1 DEF vars, Abstract!vars
<1> QED
  BY <1>2, <1>3, <1>4, <1>5, <1>6, <1>7, <1>8, <1>9, <1>10 DEF Next, Proceed

(***************************************************************************)
(* solve.c keeps the promise of Resolution: it answers "solved" only with  *)
(* one decision for every wanted name, whatever the callback does.         *)
(***************************************************************************)
THEOREM SolverImplementsResolution == Spec => ImplementsResolution
<1>1. Init => Abstract!Init
  BY InitMapped
<1>2. SolveInv /\ [Next]_vars => [Abstract!Next]_(Abstract!vars)
  BY StepMapped
<1> QED
  BY <1>1, <1>2, SolverInvariant, PTL DEF Spec, Abstract!Spec, ImplementsResolution

=============================================================================
