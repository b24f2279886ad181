------------------------------- MODULE Solve --------------------------------
(***************************************************************************)
(* tools/solve.c: the dependency solver shared by pkgsolve and withpkgs.   *)
(*                                                                         *)
(* A solve_problem is a linked list of packages.  A client adds constraints*)
(* (bare package names), then calls solve_run, which walks the list while  *)
(* appending to it: for each package it calls the get_pkt callback, which  *)
(* calls back into solve_package_version_add, takes the head of the        *)
(* version list that call keeps sorted, and adds the dependencies of the   *)
(* chosen version as further packages.                                     *)
(*                                                                         *)
(* One step is one call into the solver, one return of the callback, or    *)
(* one iteration of a loop of solve_run.  The callback is open: between    *)
(* its call and its return it may offer any versions, or fail.  As both    *)
(* get_pkt functions of the repository do, it offers versions only of the  *)
(* package it was asked for.                                               *)
(***************************************************************************)
EXTENDS Integers, Sequences, FiniteSets, SequencesExt

CONSTANTS
    Names,              \* package names
    Versions,           \* version strings, comparable or not
    DependencyLists,    \* run_depend lists a control file may carry
    VerCmp,             \* VerCmp[<<v, w>>] is version_cmp(v, w)
    NoVersion           \* the NULL of package->chosen

\* struct version, its dependencies in the order solve_run walks them.
Versioned == [version      : Versions,
              dependencies : {Reverse(deps) : deps \in DependencyLists}]

Beats(v, w) == VerCmp[<<v, w>>] = "GT"

ASSUME DependencyListsAssumption == DependencyLists \subseteq Seq(Names)

ASSUME NoVersionAssumption == NoVersion \notin Versioned

(***************************************************************************)
(* What solve.c needs of version_cmp; MCPkgVerCmp checks it of version.c.  *)
(***************************************************************************)
ASSUME VerCmpAssumption ==
    /\ VerCmp \in [Versions \X Versions -> {"LT", "EQ", "GT", "FAILED"}]
    /\ \A v, w \in Versions : VerCmp[<<v, w>>] = "LT" <=> Beats(w, v)
    /\ \A u, v, w \in Versions : Beats(u, v) /\ Beats(v, w) => Beats(u, w)

VARIABLES
    packages,   \* packages_first ... packages_last, in list order
    solved,     \* solve_problem.solved: 0, then 1 or -1
    pc,         \* where control is, see TypeOK
    cur,        \* position of pkg in solve_run's outer loop
    dep,        \* position of dep in solve_run's inner loop
    roots       \* history: the names given by solve_constraint_add's clients

vars == <<packages, solved, pc, cur, dep, roots>>

Package == [name      : Names,
            available : Seq(Versioned),
            chosen    : Versioned \cup {NoVersion}]

\* Fault (against TypeOK): the package is allocated, and its chosen points to no version.
NewPackageUncleared(n) == [name |-> n, available |-> <<>>, chosen |-> <<>>]

NewPackage(n) == [name |-> n, available |-> <<>>, chosen |-> NoVersion]

IsListed(pkgs, n) == \E k \in DOMAIN pkgs : pkgs[k].name = n

\* Fault (against OneVersionPerName): no lookup before the package is appended.
PkgAddBlindly(pkgs, n) == Append(pkgs, NewPackage(n))

\* pkg_add: look the name up, append it when it is new.
PkgAdd(pkgs, n) == IF IsListed(pkgs, n) THEN pkgs ELSE Append(pkgs, NewPackage(n))

IsChosen(pkg) == pkg.chosen # NoVersion

ChosenPositions == {k \in DOMAIN packages : IsChosen(packages[k])}

\* solve_result_package: the package that n packages with a chosen version precede.
solve_result_package(n) ==
    packages[CHOOSE k \in ChosenPositions :
                Cardinality({j \in ChosenPositions : j < k}) = n]

\* What it returns for 0, 1 ... until it returns -1.
ResultPackages ==
    [n \in 1..Cardinality(ChosenPositions) |-> solve_result_package(n - 1)]

\* Fault (against SolveInv): the version goes to the end of the available list.
StopsAtEnd(available, v, p) ==
    p = Len(available) + 1

\* Fault (against ChosenIsNewest): the loop passes greater entries, not smaller ones.
StopsAscending(available, v, p) ==
    /\ p \in 1..(Len(available) + 1)
    /\ \A q \in 1..(p - 1) : VerCmp[<<v, available[q].version>>] = "GT"
    /\ p <= Len(available) => VerCmp[<<v, available[p].version>>] # "GT"

(***************************************************************************)
(* The insertion loop of solve_package_version_add stops at position p of  *)
(* the available list for version v: every earlier entry is greater.       *)
(***************************************************************************)
StopsAt(available, v, p) ==
    /\ p \in 1..(Len(available) + 1)
    /\ \A q \in 1..(p - 1) : VerCmp[<<v, available[q].version>>] = "LT"
    /\ p <= Len(available) => VerCmp[<<v, available[p].version>>] # "LT"

\* What the loop found at p: it ran off the end, or broke out on a smaller entry.
GoesBefore(available, v, p) ==
    p <= Len(available) => Beats(v, available[p].version)

\* Fault (against AbortsOverSpellings): versions offered again are not looked for.
IsOfferedNever(available, v) == FALSE

IsOffered(available, v) == \E k \in DOMAIN available : available[k].version = v

-----------------------------------------------------------------------------

Init ==
    /\ packages = <<>>
    /\ solved = 0
    /\ pc = "client"
    /\ cur = 0
    /\ dep = 1
    /\ roots = {}

\* solve_constraint_add, called by the client before solve_run.
ConstraintAdd(n) ==
    /\ pc = "client"
    /\ packages' = PkgAdd(packages, n)
    /\ roots' = roots \cup {n}
    /\ UNCHANGED <<solved, pc, cur, dep>>

Fail ==
    /\ pc' = "returned"
    /\ solved' = -1
    /\ UNCHANGED <<packages, cur, dep, roots>>

\* solve_run is called: the outer loop starts at the head of the list.
Run ==
    /\ pc = "client"
    /\ solved = 0
    /\ cur' = 1
    /\ pc' = "loop"
    /\ UNCHANGED <<packages, solved, dep, roots>>

\* The outer loop has a package: get_pkt is called for it.
CallGetPkt ==
    /\ pc = "loop"
    /\ cur <= Len(packages)
    /\ pc' = "callback"
    /\ UNCHANGED <<packages, solved, cur, dep, roots>>

\* Fault (against ImplementsResolution): the loop stops at the last package.
FinishEarly ==
    /\ pc = "loop"
    /\ cur >= Len(packages)
    /\ pc' = "returned"
    /\ solved' = 1
    /\ UNCHANGED <<packages, cur, dep, roots>>

\* The outer loop has come to the end of the list.
Finish ==
    /\ pc = "loop"
    /\ cur > Len(packages)
    /\ pc' = "returned"
    /\ solved' = 1
    /\ UNCHANGED <<packages, cur, dep, roots>>

(***************************************************************************)
(* solve_package_version_add from inside the callback.  A version already  *)
(* listed, and one that cannot be compared (VER_FAILED) or allocated,      *)
(* leaves the problem as it was; two strings that compare equal abort the  *)
(* process.  The dependency list is built by prepending.                   *)
(***************************************************************************)
Offer(v, deps) ==
    LET available == packages[cur].available
        ver == [version |-> v, dependencies |-> Reverse(deps)]
    IN
    /\ pc = "callback"
    /\ ~IsOffered(available, v)
    /\ \E p \in 1..(Len(available) + 1) :
        /\ StopsAt(available, v, p)
        /\ \/ /\ GoesBefore(available, v, p)
              /\ packages' = [packages EXCEPT ![cur].available =
                                InsertAt(available, p, ver)]
              /\ UNCHANGED pc
           \/ /\ p <= Len(available)
              /\ VerCmp[<<v, available[p].version>>] = "EQ"
              /\ pc' = "aborted"
              /\ UNCHANGED packages
    /\ UNCHANGED <<solved, cur, dep, roots>>

\* get_pkt returned 0 and there is a version: choose the first.
Choose ==
    /\ pc = "callback"
    /\ packages[cur].available # <<>>
    /\ packages' = [packages EXCEPT ![cur].chosen = packages[cur].available[1]]
    /\ dep' = 1
    /\ pc' = "deps"
    /\ UNCHANGED <<solved, cur, roots>>

\* get_pkt returned 0 without offering anything, or returned an error.
NoneAvailable ==
    /\ pc = "callback"
    /\ packages[cur].available = <<>>
    /\ Fail

CallbackFails ==
    /\ pc = "callback"
    /\ Fail

\* Fault (against SolutionClosed): every other dependency is passed over.
AddDependencySkipping ==
    LET deps == packages[cur].chosen.dependencies IN
    /\ pc = "deps"
    /\ dep <= Len(deps)
    /\ packages' = PkgAdd(packages, deps[dep])
    /\ dep' = IF dep < Len(deps) THEN dep + 2 ELSE dep + 1
    /\ UNCHANGED <<solved, pc, cur, roots>>

\* Fault (against EveryPackageNeeded): the dependencies of the oldest version.
AddDependencyOfOldest ==
    LET deps == Last(packages[cur].available).dependencies IN
    /\ pc = "deps"
    /\ dep <= Len(deps)
    /\ packages' = PkgAdd(packages, deps[dep])
    /\ dep' = dep + 1
    /\ UNCHANGED <<solved, pc, cur, roots>>

\* Fault (against Termination): the loop does not advance dep.
AddDependencyInPlace ==
    LET deps == packages[cur].chosen.dependencies IN
    /\ pc = "deps"
    /\ dep <= Len(deps)
    /\ packages' = PkgAdd(packages, deps[dep])
    /\ UNCHANGED <<dep, solved, pc, cur, roots>>

\* One iteration of the loop over the dependencies of the chosen version.
AddDependency ==
    LET deps == packages[cur].chosen.dependencies IN
    /\ pc = "deps"
    /\ dep <= Len(deps)
    /\ packages' = PkgAdd(packages, deps[dep])
    /\ dep' = dep + 1
    /\ UNCHANGED <<solved, pc, cur, roots>>

\* solve_constraint_add fails for want of memory: only a new name allocates.
AddDependencyFails ==
    LET deps == packages[cur].chosen.dependencies IN
    /\ pc = "deps"
    /\ dep <= Len(deps)
    /\ ~IsListed(packages, deps[dep])
    /\ Fail

\* Fault (against DecisionsStand): new packages send the loop back to the head.
NextPackageFromHead ==
    /\ pc = "deps"
    /\ dep > Len(packages[cur].chosen.dependencies)
    /\ cur' = 1
    /\ pc' = "loop"
    /\ UNCHANGED <<packages, solved, dep, roots>>

NextPackage ==
    /\ pc = "deps"
    /\ dep > Len(packages[cur].chosen.dependencies)
    /\ cur' = cur + 1
    /\ pc' = "loop"
    /\ UNCHANGED <<packages, solved, dep, roots>>

\* The steps solve_run takes by itself once the callback has returned.
Proceed ==
    \/ CallGetPkt
    \/ Choose
    \/ NoneAvailable
    \/ AddDependency
    \/ NextPackage
    \/ Finish

Next ==
    \/ \E n \in Names : ConstraintAdd(n)
    \/ Run
    \/ \E v \in Versions, deps \in DependencyLists : Offer(v, deps)
    \/ CallbackFails
    \/ AddDependencyFails
    \/ Proceed

(***************************************************************************)
(* solve_run is a loop of one process, and a callback reads a finite       *)
(* directory and returns: control inside solve_run moves on.               *)
(***************************************************************************)
Fairness == WF_vars(Proceed)

Spec == Init /\ [][Next]_vars /\ Fairness

-----------------------------------------------------------------------------

\* Types of the solver's state.
TypeOK ==
    /\ packages \in Seq(Package)
    /\ solved \in {-1, 0, 1}
    /\ pc \in {"client", "loop", "callback", "deps", "returned", "aborted"}
    /\ cur \in Nat
    /\ dep \in Nat \ {0}
    /\ roots \in SUBSET Names

ListedNames == {packages[k].name : k \in DOMAIN packages}

Needs(pkg, n) == IsChosen(pkg) /\ n \in ToSet(pkg.chosen.dependencies)

(***************************************************************************)
(* When solve_run returns 0, the list is a closed answer: every name the   *)
(* client asked for is in it, each entry has a chosen version, and every   *)
(* dependency of every chosen version is in it too (solve.c:174-212).      *)
(***************************************************************************)
SolutionClosed ==
    solved = 1 =>
        /\ roots \subseteq ListedNames
        /\ \A k \in DOMAIN packages :
            /\ IsChosen(packages[k])
            /\ ToSet(packages[k].chosen.dependencies) \subseteq ListedNames

(***************************************************************************)
(* Nothing gets into the list without a reason that goes back to the       *)
(* client: each entry was asked for, or a version chosen EARLIER in the    *)
(* list needs it, so that no cycle of dependencies can keep itself in.     *)
(***************************************************************************)
EveryPackageNeeded ==
    \A k \in DOMAIN packages :
        \/ packages[k].name \in roots
        \/ \E j \in 1..(k - 1) : Needs(packages[j], packages[k].name)

(***************************************************************************)
(* A name has one entry, so one version: the lookup in pkg_add sees the    *)
(* packages that solve_run's own loop has appended so far.                 *)
(***************************************************************************)
OneVersionPerName ==
    \A j, k \in DOMAIN packages : packages[j].name = packages[k].name => j = k

(***************************************************************************)
(* Whatever order the callback offers versions in, the chosen one is       *)
(* greater than every other version offered (solve.c:131-158, 197-198).    *)
(***************************************************************************)
ChosenIsNewest ==
    \A k \in DOMAIN packages : IsChosen(packages[k]) =>
        \A q \in DOMAIN packages[k].available :
            LET ver == packages[k].available[q] IN
            ver = packages[k].chosen \/ Beats(packages[k].chosen.version, ver.version)

(***************************************************************************)
(* A step of the solver only appends to the list, and what it has decided  *)
(* for a package it neither changes nor undercuts with another offer: the  *)
(* pointers that solve_run's loops hold across the callback stay good.     *)
(***************************************************************************)
DecisionsStand ==
    [][/\ Len(packages') >= Len(packages)
       /\ \A k \in DOMAIN packages :
            /\ packages'[k].name = packages[k].name
            /\ IsChosen(packages[k]) => packages'[k] = packages[k]]_vars

(***************************************************************************)
(* The process aborts (solve.c:140) only over two spellings of one version *)
(* number: however often the callback offers the same version, also behind *)
(* others, the lookup at solve.c:102 keeps it from meeting itself.         *)
(***************************************************************************)
AbortsOverSpellings ==
    [][pc' = "aborted" /\ pc # "aborted" =>
        \E v \in Versions, k \in DOMAIN packages[cur].available :
            LET w == packages[cur].available[k].version
            IN  v # w /\ VerCmp[<<v, w>>] = "EQ"]_vars

(***************************************************************************)
(* solve_run ends, also when packages depend on each other in a circle:    *)
(* the loop grows the list it walks, but by each name only once.           *)
(***************************************************************************)
Termination ==
    pc \in {"loop", "callback", "deps"} ~> pc \in {"returned", "aborted"}

-----------------------------------------------------------------------------
(***************************************************************************)
(* The inductive invariant behind these properties, in named parts.        *)
(***************************************************************************)
IsFresh(pkg) == pkg.available = <<>> /\ ~IsChosen(pkg)

\* Where solve_run is: all decided before cur, nothing touched after it.
Progress ==
    /\ cur \in 0..(Len(packages) + 1)
    /\ \A k \in DOMAIN packages :
        /\ k < cur => IsChosen(packages[k])
        /\ k > cur => IsFresh(packages[k])
    /\ pc = "client" <=> cur = 0
    /\ pc = "loop" /\ cur \in DOMAIN packages => IsFresh(packages[cur])
    /\ pc = "callback" => cur \in DOMAIN packages /\ ~IsChosen(packages[cur])
    /\ pc = "deps" =>
        /\ cur \in DOMAIN packages
        /\ IsChosen(packages[cur])
        /\ dep <= Len(packages[cur].chosen.dependencies) + 1
    /\ solved = 0 <=> pc # "returned"
    /\ solved = 1 => cur = Len(packages) + 1

\* The available list is strictly descending.
Sorted(available) ==
    \A i, j \in DOMAIN available :
        i < j => Beats(available[i].version, available[j].version)

ListsSorted == \A k \in DOMAIN packages : Sorted(packages[k].available)

ChosenIsFirst ==
    \A k \in DOMAIN packages : IsChosen(packages[k]) =>
        /\ packages[k].available # <<>>
        /\ packages[k].chosen = packages[k].available[1]

\* Dependencies are listed up to where the two loops are.
DependenciesListed ==
    /\ roots \subseteq ListedNames
    /\ \A k \in DOMAIN packages : k < cur =>
        ToSet(packages[k].chosen.dependencies) \subseteq ListedNames
    /\ pc = "deps" => \A d \in 1..(dep - 1) :
        packages[cur].chosen.dependencies[d] \in ListedNames

(***************************************************************************)
(* All of it together: at every moment of solve_run the list is decided    *)
(* and closed up to the loop's position and untouched beyond it.           *)
(***************************************************************************)
SolveInv ==
    /\ TypeOK
    /\ Progress
    /\ ListsSorted
    /\ ChosenIsFirst
    /\ DependenciesListed
    /\ EveryPackageNeeded
    /\ OneVersionPerName

-----------------------------------------------------------------------------
(***************************************************************************)
(* The solver implements Resolution: names on the list, and those the      *)
(* chosen versions need and solve_run has not come round to listing, are   *)
(* wanted; a chosen version is a decision.                                 *)
(***************************************************************************)
NeededBy(ver) == ToSet(ver.dependencies)

decidedVersions ==
    {<<packages[k].name, packages[k].chosen>> :
        k \in {j \in DOMAIN packages : IsChosen(packages[j])}}

wantedNames == ListedNames \cup UNION {NeededBy(d[2]) : d \in decidedVersions}

outcomeSoFar ==
    CASE pc = "client"                    -> "asking"
      [] pc \in {"loop", "callback", "deps"}      -> "resolving"
      [] pc = "returned" /\ solved = 1    -> "solved"
      [] pc = "returned" /\ solved # 1    -> "failed"
      [] pc = "aborted"                   -> "failed"

Abstract == INSTANCE Resolution
    WITH Candidates <- Versioned, DependenciesOf <- NeededBy,
         wanted <- wantedNames, decided <- decidedVersions, outcome <- outcomeSoFar

\* The promise of the abstract specification holds of solve.c.
ImplementsResolution == Abstract!Spec

=============================================================================
