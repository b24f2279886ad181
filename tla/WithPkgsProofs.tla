--------------------------- MODULE WithPkgsProofs ---------------------------
(***************************************************************************)
(* Theorems about WithPkgs, for every repository, command line, order of   *)
(* readdir and comparison of versions.                                     *)
(***************************************************************************)
EXTENDS WithPkgs, SolveProofs, DataLemmas, FiniteSetTheorems

-----------------------------------------------------------------------------
(***************************************************************************)
(* The inductive invariant behind the properties of WithPkgs, in parts.     *)
(***************************************************************************)
\* Every token of a word, the ones that the programs name included.
Text == STRING \cup Dashed \cup {",", "/packages"}

Words == Seq(Text)

Options == [expects : {"", "-d", "-p", "-s"}, done : BOOLEAN, bad : BOOLEAN,
            dir : Words, constraints : Seq(Names), rest : Seq(Names)]

\* What main has collected from the command line.
OptionsTyped ==
    /\ IsScenario(prog, args, disk)
    /\ unread \in Seq(Names)
    /\ opts \in Options
    /\ todo \in Seq(Names)
    /\ stage \in {"options", "open", "constraints", "solve"} \cup Ended
    /\ starved \in BOOLEAN

\* Where main is says where solve_run is, and the other way round.
InStep ==
    /\ pc # "aborted"
    /\ stage \in {"options", "usage", "open", "constraints"} => pc = "client"
    /\ stage \in {"options", "open"} => packages = <<>> /\ cache = <<>>
    /\ stage \in {"solve", "segv", "exec", "success"} => pc # "client"
    /\ stage \in {"exec", "success"} => pc = "returned" /\ solved = 1
    /\ stage \in {"constraints", "solve", "segv", "exec", "success"} =>
        packagedir \in DOMAIN disk
    /\ pc \in {"client", "loop", "deps"} => at = 0
    /\ at \in 0..(Len(cache) + 1)

\* Every constraint is still to be given to the solver, or has been.
ConstraintsGiven ==
    /\ stage \in {"open", "constraints"} => Requested \subseteq roots \cup ToSet(todo)
    /\ stage \in {"solve", "exec", "success"} => Requested \subseteq roots

InRepository(name, version, depends) ==
    /\ name \in DOMAIN Repository
    /\ version \in ReadableVersions(name)
    /\ Repository[name][version] = depends

ReadVersion == [version : Versions, depends : DependencyLists]

\* The cache says what the repository says.
CacheTrue ==
    /\ cache \in Seq([name : Names, versions : Seq(ReadVersion)])
    /\ \A k \in DOMAIN cache : \A n \in DOMAIN cache[k].versions :
        InRepository(cache[k].name, cache[k].versions[n].version, cache[k].versions[n].depends)

\* The solver has heard of nothing that is not in the repository.
OffersTrue ==
    \A k \in DOMAIN packages : \A q \in DOMAIN packages[k].available :
        \E depends \in DependencyLists :
            /\ packages[k].available[q].dependencies = Reverse(depends)
            /\ InRepository(packages[k].name, packages[k].available[q].version, depends)

(***************************************************************************)
(* get_pkg's loop never gets past the first version: that one is offered   *)
(* again and again, and by the time pkg has left the cache it is there.    *)
(***************************************************************************)
OneVersionOffered ==
    LET available == packages[cur].available IN
    pc = "callback" =>
        /\ at = 0 \/ ver = NoVersion => available = <<>>
        /\ at # 0 /\ ver # NoVersion =>
            /\ ver \in ReadVersion
            /\ InRepository(Wanted, ver.version, ver.depends)
            /\ \A q \in DOMAIN available : available[q].version = ver.version
        /\ at # 0 /\ available = <<>> => at \in DOMAIN cache

\* Why solve_run has failed.
FailureHasCause ==
    pc = "returned" /\ solved # 1 /\ ~starved =>
        \E k \in DOMAIN packages : packages[k].name \notin DOMAIN Repository

\* What the program hands on once it is done.
OutputFromResult ==
    /\ stage = "exec" => prog = "withpkgs" /\ output = build_args
    /\ stage = "success" =>
        output = [n \in DOMAIN ResultPackages |->
                    [name    |-> ResultPackages[n].name,
                     version |-> ResultPackages[n].chosen.version]]

\* Where option is given in the first c arguments, with its value.
GivenWithin(option, c) == {m \in 1..(c - 1) : m % 2 = 1 /\ args[m] = <<option>>}

LastWithin(option, c) ==
    {args[m + 1] : m \in {m \in GivenWithin(option, c) :
                            \A k \in GivenWithin(option, c) : k <= m}}

\* e has what the first c arguments say, which are options and their values.
AsGiven(e, c) ==
    /\ e.work = LastWithin("-w", c)
    /\ e.cwd = LastWithin("-c", c)
    /\ ToSet(e.mounts) = {MountOf(args[m + 1]) : m \in GivenWithin("-m", c)}

\* Whose value argument c + 1 is: withpkgs' own, or withenv's.
ValueIsNext(o, e, c) ==
    \/ c % 2 = 0 /\ o.expects = "" /\ e.expects = ""
    \/ /\ c % 2 = 1 /\ args[c] \in {<<"-d">>, <<"-p">>}
       /\ o.expects = args[c][1] /\ e.expects = ""
    \/ /\ c % 2 = 1 /\ args[c] \in {<<"-c">>, <<"-m">>, <<"-w">>}
       /\ o.expects = "" /\ e.expects = args[c][1]

BeforeDashes(o, e, c) ==
    /\ ~o.done /\ ~e.ended /\ e.cmd = <<>>
    /\ AsGiven(e, c)
    /\ ValueIsNext(o, e, c)

BehindDashes(o, e, n, c) ==
    /\ o.done /\ o.expects = "" /\ e.ended /\ e.expects = ""
    /\ AsGiven(e, n - 1)
    /\ e.cmd = [j \in 1..(c - n) |-> args[n + j]]

AskedFor(o, n, c) ==
    \A m \in GivenWithin("-p", n - 1) : m < c => args[m + 1] \in ToSet(o.constraints)

\* Options o of withpkgs, and e of withenv, when c arguments are read and n is the "--".
LeftWith(o, e, n, c) ==
    /\ ~o.bad
    /\ ~e.bad /\ e.dir = {} /\ e.packages = <<>>
    /\ c < n => BeforeDashes(o, e, c)
    /\ c >= n => BehindDashes(o, e, n, c)
    /\ AskedFor(o, n, c)

(***************************************************************************)
(* Once withpkgs has read c of its arguments, with n its "--": what        *)
(* withenv will make of the arguments that are left for it so far.         *)
(***************************************************************************)
CommandLeft(n, c) == LeftWith(opts, ReadOptions(opts.rest), n, c)

CommandInv ==
    LET c == Len(args) - Len(unread) IN
    prog = "withpkgs" =>
        /\ c \in 0..Len(args)
        /\ \A i \in 1..Len(unread) : unread[i] = args[c + i]
        /\ stage \in {"open", "constraints", "solve", "exec"} => unread = <<>>
        /\ \A n \in DOMAIN args : EndsOptions(n) => CommandLeft(n, c)

WithInv ==
    /\ SolveInv
    /\ OptionsTyped
    /\ InStep
    /\ ConstraintsGiven
    /\ CacheTrue
    /\ OffersTrue
    /\ OneVersionOffered
    /\ FailureHasCause
    /\ FailsForCause
    /\ OutputFromResult

-----------------------------------------------------------------------------

LEMMA NamesAreWords == Names \subseteq Words /\ Word \subseteq Words
<1>1. STRING \subseteq Text
  BY DEF Text
<1> HIDE DEF Text
<1>2. Seq(STRING) \subseteq Seq(Text)
  BY <1>1, SeqMonotonic
<1> QED
  BY <1>2, NamesAssumption DEF Word, Words

(***************************************************************************)
(* Parsing an argument keeps the options' types.                           *)
(***************************************************************************)
LEMMA OptionTypes ==
  ASSUME NEW o \in Options, NEW arg \in Names
  PROVE  /\ WithpkgsOption(o, arg) \in Options
         /\ PkgsolveOption(o, arg) \in Options
<1>1. /\ <<arg>> \o o.constraints \in Seq(Names)
      /\ Append(o.constraints, arg) \in Seq(Names)
      /\ Append(o.rest, arg) \in Seq(Names)
  <2>1. o.constraints \in Seq(Names) /\ o.rest \in Seq(Names)
    BY DEF Options
  <2>2. <<arg>> \in Seq(Names)
    OBVIOUS
  <2> QED
    BY <2>1, <2>2, ConcatProperties, AppendProperties
<1>0. arg \in Words /\ (arg # <<>> => Tail(arg) \in Words)
  BY NamesAreWords, HeadAndTail DEF Words
<1>2. WithpkgsOption(o, arg) \in Options
  <2>1. ASSUME NEW x \in BOOLEAN
        PROVE  [o EXCEPT !.done = x, !.rest = Append(@, arg)] \in Options
    BY <1>1 DEF Options
  <2>2. [o EXCEPT !.constraints = <<arg>> \o @, !.expects = ""] \in Options
    BY <1>1 DEF Options
  <2>3. /\ [o EXCEPT !.dir = arg, !.expects = ""] \in Options
        /\ arg \in {<<"-d">>, <<"-p">>} => [o EXCEPT !.expects = arg[1]] \in Options
    <3>1. arg \in {<<"-d">>, <<"-p">>} => arg[1] \in {"-d", "-p"}
      OBVIOUS
    <3>2. \A x \in {"-d", "-p"} : [o EXCEPT !.expects = x] \in Options
      BY DEF Options
    <3>3. [o EXCEPT !.dir = arg, !.expects = ""] \in Options
      BY <1>0 DEF Options
    <3> QED
      BY <3>1, <3>2, <3>3
  <2>4. (o.done \/ arg = <<"--">>) \in BOOLEAN
    BY DEF Options
  <2> QED
    BY <2>1, <2>2, <2>3, <2>4 DEF WithpkgsOption
<1>3. PkgsolveOption(o, arg) \in Options
  <2>1. ASSUME NEW option, NEW value \in Words
        PROVE  PkgsolveValue(o, option, value) \in Options
    BY DEF Options, PkgsolveValue
  <2>2. [o EXCEPT !.constraints = Append(@, arg)] \in Options
    BY <1>1 DEF Options
  <2>3. /\ [o EXCEPT !.done = TRUE] \in Options
        /\ [o EXCEPT !.bad = TRUE] \in Options
        /\ arg[1] \in {"-d", "-s"} => [o EXCEPT !.expects = arg[1]] \in Options
    BY DEF Options
  <2>4. IsOption(arg) => arg # <<>>
    BY DEF IsOption
  <2> QED
    BY <1>0, <2>1, <2>2, <2>3, <2>4 DEF PkgsolveOption
<1> QED
  BY <1>2, <1>3

-----------------------------------------------------------------------------
(***************************************************************************)
(* The command line: nothing but the options changes.                      *)
(***************************************************************************)
LEMMA OptionsInv ==
  ASSUME WithInv, ParseArgument \/ OptionsParsed
  PROVE  WithInv'
<1> USE DEF WithInv
<1>1. /\ stage = "options"
      /\ UNCHANGED <<vars, prog, args, disk, output, repoVars, starved>>
      /\ UNCHANGED <<packages, solved, pc, cur, dep, roots, cache, at, ver>>
  BY DEF ParseArgument, OptionsParsed, repoVars, vars
<1>2. /\ pc = "client" /\ packages = <<>> /\ cache = <<>> /\ at = 0
      /\ DOMAIN packages = {} /\ DOMAIN cache = {}
  BY <1>1 DEF InStep
<1>3. stage' \in {"options", "usage", "open"}
  BY <1>1 DEF ParseArgument, OptionsParsed
<1>4. SolveInv'
  BY <1>1, NextInv
<1>5. OptionsTyped'
  <2>1. CASE ParseArgument
    <3>1. Head(unread) \in Names /\ Tail(unread) \in Seq(Names)
      BY <2>1, HeadAndTail DEF ParseArgument, OptionsTyped
    <3>2. opts' \in Options /\ unread' \in Seq(Names) /\ UNCHANGED <<stage, todo>>
      BY <2>1, <3>1, OptionTypes DEF ParseArgument, OptionsTyped
    <3> QED
      BY <1>1, <3>2 DEF OptionsTyped
  <2>2. CASE OptionsParsed
    BY <1>1, <1>3, <2>2 DEF OptionsParsed, OptionsTyped, Options, Ended
  <2> QED
    BY <2>1, <2>2
<1>6. InStep'
  BY <1>1, <1>2, <1>3 DEF InStep
<1>7. ConstraintsGiven'
  <2>1. CASE ParseArgument
    BY <1>1, <2>1 DEF ParseArgument, ConstraintsGiven
  <2>2. CASE OptionsParsed
    <3>1. Requested' = ToSet(todo')
      BY <2>2 DEF OptionsParsed, Requested
    <3> QED
      BY <1>3, <3>1 DEF ConstraintsGiven
  <2> QED
    BY <2>1, <2>2
<1>8. CacheTrue'
  BY <1>1, <1>2, EmptySeq DEF CacheTrue
<1>9. OffersTrue'
  BY <1>1, <1>2 DEF OffersTrue
<1> QED
  BY <1>1, <1>2, <1>3, <1>4, <1>5, <1>6, <1>7, <1>8, <1>9
     DEF OneVersionOffered, FailureHasCause, FailsForCause, OutputFromResult

(***************************************************************************)
(* The repository is opened, or is not there.                              *)
(***************************************************************************)
LEMMA OpenInv ==
  ASSUME WithInv, OpenRepository
  PROVE  WithInv'
<1> USE DEF WithInv
<1>1. /\ stage = "open"
      /\ UNCHANGED <<vars, prog, args, disk, unread, opts, todo, output, starved>>
      /\ UNCHANGED <<packages, solved, pc, cur, dep, roots, cache, at, ver>>
      /\ stage' = IF packagedir \in DOMAIN disk THEN "constraints" ELSE "failure"
  BY DEF OpenRepository, Exit, repoVars, vars
<1>2. pc = "client" /\ packages = <<>> /\ DOMAIN packages = {} /\ cache = <<>> /\ DOMAIN cache = {}
  BY <1>1 DEF InStep
<1>3. packagedir' = packagedir /\ Requested' = Requested
  BY <1>1 DEF packagedir, Requested
<1>4. SolveInv'
  BY <1>1, NextInv
<1>5. OptionsTyped'
  BY <1>1 DEF OptionsTyped, Ended
<1>6. InStep'
  BY <1>1, <1>2, <1>3 DEF InStep
<1>7. ConstraintsGiven'
  BY <1>1, <1>3 DEF ConstraintsGiven
<1>8. CacheTrue' /\ OffersTrue'
  BY <1>1, <1>2, EmptySeq DEF CacheTrue, OffersTrue
<1>9. FailsForCause'
  BY <1>1, <1>3 DEF FailsForCause
<1> QED
  BY <1>1, <1>2, <1>4, <1>5, <1>6, <1>7, <1>8, <1>9
     DEF OneVersionOffered, FailureHasCause, OutputFromResult

(***************************************************************************)
(* What is said of the cache stays true while neither it, the repository   *)
(* nor the options change.                                                 *)
(***************************************************************************)
LEMMA RepositoryKept ==
  ASSUME UNCHANGED <<disk, opts>>
  PROVE  /\ packagedir' = packagedir /\ Repository' = Repository /\ Requested' = Requested
         /\ CacheTrue /\ UNCHANGED cache => CacheTrue'
         /\ OffersTrue /\ UNCHANGED packages => OffersTrue'
<1>1. packagedir' = packagedir /\ Repository' = Repository /\ Requested' = Requested
  BY DEF packagedir, Repository, Requested
<1>2. ASSUME NEW name, NEW version, NEW depends
      PROVE  InRepository(name, version, depends)' = InRepository(name, version, depends)
  BY <1>1 DEF InRepository, ReadableVersions
<1>3. ASSUME CacheTrue, UNCHANGED cache
      PROVE  CacheTrue'
  BY <1>2, <1>3 DEF CacheTrue
<1>4. ASSUME OffersTrue, UNCHANGED packages
      PROVE  OffersTrue'
  BY <1>2, <1>4 DEF OffersTrue
<1> QED
  BY <1>1, <1>3, <1>4

(***************************************************************************)
(* A name added to the list brings no offer with it.                       *)
(***************************************************************************)
LEMMA AddedWithoutOffers ==
  ASSUME SolveInv, OffersTrue, UNCHANGED <<disk, opts>>,
         NEW n \in Names, packages' = PkgAdd(packages, n)
  PROVE  OffersTrue'
<1>1. /\ DOMAIN packages = 1..Len(packages) /\ Len(packages) \in Nat
      /\ DOMAIN packages' = 1..Len(packages')
      /\ \A k \in DOMAIN packages : packages'[k] = packages[k]
      /\ \A k \in DOMAIN packages' : k > Len(packages) => packages'[k] = NewPackage(n)
  BY PkgAddPreserves, ListType DEF SolveInv
<1>2. NewPackage(n).available = <<>> /\ DOMAIN <<>> = {}
  BY DEF NewPackage
<1>3. Repository' = Repository
  BY RepositoryKept
<1>4. SUFFICES ASSUME NEW k \in DOMAIN packages', NEW q \in DOMAIN packages'[k].available
               PROVE  \E depends \in DependencyLists :
                        /\ packages'[k].available[q].dependencies = Reverse(depends)
                        /\ InRepository(packages[k].name, packages[k].available[q].version,
                                        depends)'
  BY DEF OffersTrue
<1>5. k \in DOMAIN packages /\ packages'[k] = packages[k]
  BY <1>1, <1>2
<1> QED
  BY <1>3, <1>5 DEF OffersTrue, InRepository, ReadableVersions


(***************************************************************************)
(* A constraint is handed over, and then solve_run is called.              *)
(***************************************************************************)
LEMMA ConstraintsInv ==
  ASSUME WithInv, AddConstraint \/ CallSolveRun
  PROVE  WithInv'
<1> USE DEF WithInv
<1>1. /\ stage = "constraints"
      /\ UNCHANGED <<prog, args, disk, unread, opts, output, starved, cache, at, ver>>
  BY DEF AddConstraint, CallSolveRun, Exit, repoVars
<1>2. pc = "client" /\ at = 0 /\ packagedir \in DOMAIN disk
  BY <1>1 DEF InStep
<1>3. packagedir' = packagedir /\ Requested' = Requested /\ CacheTrue'
  BY <1>1, RepositoryKept
<1>4. CASE AddConstraint
  <2> DEFINE n == Head(todo)
  <2>1. /\ n \in Names /\ Tail(todo) \in Seq(Names)
        /\ ToSet(todo) = {n} \cup ToSet(Tail(todo))
    BY <1>4, HeadAndTail DEF AddConstraint, OptionsTyped
  <2>2. /\ ConstraintAdd(n)
        /\ packages' = PkgAdd(packages, n)
        /\ roots' = roots \cup {n}
        /\ UNCHANGED <<pc, solved>>
        /\ todo' = Tail(todo)
        /\ stage' = stage
    BY <1>4 DEF AddConstraint, ConstraintAdd
  <2>3. SolveInv'
    BY <2>1, <2>2, NextInv DEF Next
  <2>4. OptionsTyped'
    BY <1>1, <2>1, <2>2 DEF OptionsTyped
  <2>5. InStep'
    BY <1>1, <1>2, <1>3, <2>2 DEF InStep
  <2>6. ConstraintsGiven'
    BY <1>1, <1>3, <2>1, <2>2 DEF ConstraintsGiven
  <2>7. OffersTrue'
    BY <1>1, <2>1, <2>2, AddedWithoutOffers
  <2> QED
    BY <1>1, <1>2, <1>3, <2>2, <2>3, <2>4, <2>5, <2>6, <2>7
       DEF OneVersionOffered, FailureHasCause, FailsForCause, OutputFromResult
<1>5. CASE CallSolveRun
  <2>1. /\ Run
        /\ stage' = "solve" /\ pc' = "loop"
        /\ UNCHANGED <<packages, roots, todo>>
        /\ todo = <<>>
    BY <1>5 DEF CallSolveRun, Run, Exit
  <2>2. SolveInv'
    BY <2>1, NextInv DEF Next
  <2>3. OptionsTyped'
    BY <1>1, <2>1 DEF OptionsTyped
  <2>4. InStep'
    BY <1>1, <1>2, <1>3, <2>1 DEF InStep
  <2>5. ToSet(todo) = {}
    BY <2>1 DEF ToSet
  <2>6. ConstraintsGiven'
    BY <1>1, <1>3, <2>1, <2>5 DEF ConstraintsGiven
  <2>7. OffersTrue'
    BY <1>1, <2>1, RepositoryKept
  <2> QED
    BY <1>1, <1>2, <1>3, <2>1, <2>2, <2>3, <2>4, <2>6, <2>7
       DEF OneVersionOffered, FailureHasCause, FailsForCause, OutputFromResult
<1> QED
  BY <1>4, <1>5

-----------------------------------------------------------------------------
(***************************************************************************)
(* What readdir may give of a directory, in any order, is true of it.      *)
(***************************************************************************)
LEMMA DirectoryRead ==
  ASSUME OptionsTyped, packagedir \in DOMAIN disk,
         NEW name \in DOMAIN Repository,
         NEW S \in SUBSET ReadableVersions(name), NEW order \in SetToSeqs(S),
         NEW read,
         read = [n \in DOMAIN order |-> [version |-> order[n],
                                          depends |-> Repository[name][order[n]]]]
  PROVE  /\ read \in Seq(ReadVersion)
         /\ \A n \in DOMAIN read : InRepository(name, read[n].version, read[n].depends)
<1> DEFINE N == Cardinality(S)
<1>1. /\ IsFiniteSet(DOMAIN Repository[name])
      /\ \A v \in DOMAIN Repository[name] :
           v \in Versions /\ Repository[name][v] \in DependencyLists \cup {Unreadable}
  BY DEF OptionsTyped, IsScenario, Repository
<1>2. S \subseteq DOMAIN Repository[name]
  BY DEF ReadableVersions
<1>3. N \in Nat
  BY <1>1, <1>2, FS_Subset, FS_CardinalityType
<1>4. order \in [1..N -> S]
  BY DEF SetToSeqs
<1>5. \A v \in S : v \in Versions /\ Repository[name][v] \in DependencyLists
  BY <1>1, <1>2 DEF ReadableVersions
<1> HIDE DEF N
<1>6. read \in [1..N -> ReadVersion]
  BY <1>4, <1>5 DEF ReadVersion
<1>7. read \in Seq(ReadVersion)
  BY <1>3, <1>6
<1>8. \A n \in DOMAIN read : InRepository(name, read[n].version, read[n].depends)
  BY <1>4, <1>6 DEF InRepository
<1> QED
  BY <1>7, <1>8

CacheEntry == [name : Names, versions : Seq(ReadVersion)]

(***************************************************************************)
(* repo_package_get finds the package in the cache, or puts it there with  *)
(* some of the versions that can be read.                                  *)
(***************************************************************************)
ReadsSome == \E S \in SUBSET ReadableVersions(Wanted) : ReadDirectory(S)

LEMMA RepoPackageGetInv ==
  ASSUME WithInv, FoundInCache \/ ReadsSome, starved' \in BOOLEAN
  PROVE  WithInv'
<1> USE DEF WithInv
<1>1. /\ stage = "solve" /\ pc = "callback" /\ at = 0
      /\ UNCHANGED <<vars, prog, args, disk, mainVars>>
      /\ UNCHANGED <<packages, solved, pc, cur, dep, roots>>
      /\ UNCHANGED <<stage, unread, opts, todo, output>>
  BY DEF FoundInCache, ReadsSome, ReadDirectory, ReadsDirectory, vars, mainVars
<1>2. /\ cur \in DOMAIN packages /\ Wanted \in Names
      /\ packages[cur].available = <<>>
      /\ packagedir \in DOMAIN disk
      /\ cache \in Seq(CacheEntry) /\ Len(cache) \in Nat /\ DOMAIN cache = 1..Len(cache)
  BY <1>1, ListType, LenProperties
     DEF SolveInv, Progress, Wanted, OneVersionOffered, InStep, CacheTrue, CacheEntry
<1>3. /\ packagedir' = packagedir /\ Repository' = Repository /\ Requested' = Requested
      /\ OffersTrue'
  BY <1>1, RepositoryKept
<1> DEFINE Found ==
        /\ CacheTrue'
        /\ at' \in DOMAIN cache' /\ Len(cache') \in Nat /\ DOMAIN cache' = 1..Len(cache')
        /\ cache'[at'].name = Wanted
        /\ ver' = IF cache'[at'].versions = <<>> THEN NoVersion ELSE Head(cache'[at'].versions)
<1>4. Found
  <2>1. CASE \E k \in DOMAIN cache : cache[k].name = Wanted /\ PointTo(cache, k)
    <3>1. cache' = cache
      BY <2>1 DEF PointTo
    <3>2. CacheTrue'
      BY <1>1, <3>1, RepositoryKept
    <3> QED
      BY <1>2, <2>1, <3>1, <3>2 DEF PointTo
  <2>2. ASSUME Wanted \in DOMAIN Repository,
               NEW S \in SUBSET ReadableVersions(Wanted), NEW order \in SetToSeqs(S),
               NEW read,
               read = [n \in DOMAIN order |-> [version |-> order[n],
                                                depends |-> Repository[Wanted][order[n]]]],
               PointTo(<<[name |-> Wanted, versions |-> read]>> \o cache, 1)
        PROVE  Found
    <3> DEFINE e == [name |-> Wanted, versions |-> read]
    <3>1. /\ read \in Seq(ReadVersion)
          /\ \A n \in DOMAIN read : InRepository(Wanted, read[n].version, read[n].depends)
      BY <1>2, <2>2, DirectoryRead
    <3>2. e \in CacheEntry
      BY <1>2, <3>1 DEF CacheEntry
    <3> HIDE DEF e
    <3>3. <<e>> \in Seq(CacheEntry) /\ Len(<<e>>) = 1 /\ <<e>>[1] = e
      BY <3>2
    <3>4. /\ <<e>> \o cache \in Seq(CacheEntry)
          /\ Len(<<e>> \o cache) = Len(cache) + 1
          /\ (<<e>> \o cache)[1] = e
          /\ \A i \in 2..(Len(cache) + 1) : (<<e>> \o cache)[i] = cache[i - 1]
      BY <1>2, <3>3, ConcatProperties
    <3>5. /\ cache' = <<e>> \o cache
          /\ at' = 1
          /\ ver' = IF e.versions = <<>> THEN NoVersion ELSE Head(e.versions)
      BY <2>2, <3>4 DEF PointTo, e
    <3>6. DOMAIN cache' = 1..(Len(cache) + 1) /\ Len(cache') = Len(cache) + 1
      BY <1>2, <3>4, <3>5, LenProperties
    <3>7. e.name = Wanted /\ e.versions = read
      BY DEF e
    <3>8. \A k \in DOMAIN cache' : \A n \in DOMAIN cache'[k].versions :
            InRepository(cache'[k].name, cache'[k].versions[n].version,
                         cache'[k].versions[n].depends)
      <4> SUFFICES ASSUME NEW k \in DOMAIN cache', NEW n \in DOMAIN cache'[k].versions
                   PROVE  InRepository(cache'[k].name, cache'[k].versions[n].version,
                                       cache'[k].versions[n].depends)
        OBVIOUS
      <4>1. CASE k = 1
        BY <3>1, <3>4, <3>5, <3>7, <4>1
      <4>2. CASE k # 1
        <5>1. k - 1 \in DOMAIN cache /\ cache'[k] = cache[k - 1]
          BY <1>2, <3>4, <3>5, <3>6, <4>2
        <5> QED
          BY <5>1 DEF CacheTrue
      <4> QED
        BY <4>1, <4>2
    <3>9. CacheTrue'
      <4>1. cache' \in Seq([name : Names, versions : Seq(ReadVersion)])
        BY <3>4, <3>5 DEF CacheEntry, ReadVersion
      <4>2. UNCHANGED <<packagedir, Repository>>
        BY <1>3
      <4> QED
        BY <3>8, <4>1, <4>2 DEF CacheTrue, InRepository, ReadableVersions
    <3> QED
      BY <1>2, <3>4, <3>5, <3>6, <3>7, <3>9
  <2> QED
    BY <2>1, <2>2 DEF FoundInCache, ReadsSome, ReadDirectory, ReadsDirectory
<1>5. Wanted' = Wanted
  BY <1>1 DEF Wanted
<1>6. OneVersionOffered'
  <2>1. cache'[at'] \in CacheEntry
    BY <1>4, ElementOfSeq DEF CacheTrue, CacheEntry, ReadVersion
  <2>2. CASE cache'[at'].versions = <<>>
    BY <1>1, <1>2, <1>4, <2>2 DEF OneVersionOffered
  <2>3. CASE cache'[at'].versions # <<>>
    <3>1. /\ ver' = cache'[at'].versions[1]
          /\ 1 \in DOMAIN cache'[at'].versions
          /\ ver' \in ReadVersion
      BY <1>4, <2>1, <2>3, LenProperties, EmptySeq, ElementOfSeq DEF CacheEntry
    <3>2. InRepository(Wanted, ver.version, ver.depends)'
      BY <1>4, <1>5, <3>1 DEF CacheTrue
    <3> QED
      BY <1>1, <1>2, <1>4, <3>1, <3>2 DEF OneVersionOffered, ReadVersion
  <2> QED
    BY <2>2, <2>3
<1>7. SolveInv'
  BY <1>1, NextInv
<1>8. OptionsTyped' /\ ConstraintsGiven'
  BY <1>1, <1>3 DEF OptionsTyped, ConstraintsGiven
<1>9. InStep'
  BY <1>1, <1>2, <1>3, <1>4 DEF InStep
<1> QED
  BY <1>1, <1>3, <1>4, <1>6, <1>7, <1>8, <1>9
     DEF FailureHasCause, FailsForCause, OutputFromResult


\* Inserting into an empty list.
LEMMA InsertFirst ==
  ASSUME NEW S, NEW s \in Seq(S), NEW e \in S
  PROVE  Len(s) = 0 =>
           /\ InsertAt(s, 1, e) \in Seq(S) /\ Len(InsertAt(s, 1, e)) = 1
           /\ InsertAt(s, 1, e)[1] = e /\ InsertAt(s, 1, e) # <<>>
<1>1. ASSUME NEW p \in 1..(Len(s) + 1)
      PROVE  /\ InsertAt(s, p, e) \in Seq(S)
             /\ Len(InsertAt(s, p, e)) = Len(s) + 1
             /\ InsertAt(s, p, e)[p] = e
  BY InsertAtProperties
<1>2. Len(s) = 0 => 1 \in 1..(Len(s) + 1)
  OBVIOUS
<1> QED
  BY <1>1, <1>2, LenProperties, EmptySeq

(***************************************************************************)
(* An iteration of get_pkg's loop: the version is offered the first time,  *)
(* when there is no other, and is there the other times.                   *)
(***************************************************************************)
LEMMA AddVersionInv ==
  ASSUME WithInv, AddVersion
  PROVE  WithInv'
<1> USE DEF WithInv
<1> DEFINE available == packages[cur].available
           new == [version |-> ver.version, dependencies |-> Reverse(ver.depends)]
<1>1. /\ stage = "solve" /\ pc = "callback" /\ at \in DOMAIN cache /\ ver # NoVersion
      /\ UNCHANGED <<prog, args, disk, stage, unread, opts, todo, output, cache, ver, starved>>
      /\ at' = at + 1
  BY DEF AddVersion, mainVars
<1>2. /\ cur \in DOMAIN packages /\ DOMAIN packages = 1..Len(packages)
      /\ packages \in Seq(Package) /\ packages[cur] \in Package
      /\ available \in Seq(Versioned) /\ DOMAIN available = 1..Len(available)
      /\ Len(available) \in Nat
  BY <1>1, ListType DEF SolveInv, Progress, TypeOK
<1>3. /\ at \in 1..Len(cache) /\ Len(cache) \in Nat /\ packagedir \in DOMAIN disk
  BY <1>1, LenProperties DEF InStep, CacheTrue
<1>4. /\ ver.version \in Versions /\ ver.depends \in DependencyLists
      /\ InRepository(Wanted, ver.version, ver.depends)
      /\ \A q \in DOMAIN available : available[q].version = ver.version
  BY <1>1, <1>3 DEF OneVersionOffered, ReadVersion
<1>5. /\ packagedir' = packagedir /\ Repository' = Repository /\ Requested' = Requested
      /\ CacheTrue'
  BY <1>1, RepositoryKept
<1>6. CASE IsOffered(available, ver.version) /\ UNCHANGED vars
  <2>1. /\ UNCHANGED <<packages, solved, pc, cur, dep, roots>>
        /\ available # <<>>
    BY <1>2, <1>6 DEF IsOffered, vars
  <2>2. SolveInv'
    BY <1>6, NextInv
  <2>3. OptionsTyped' /\ ConstraintsGiven'
    BY <1>1, <1>5, <2>1 DEF OptionsTyped, ConstraintsGiven
  <2>4. InStep'
    BY <1>1, <1>3, <1>5, <2>1 DEF InStep
  <2>5. OffersTrue'
    BY <1>1, <2>1, RepositoryKept
  <2>6. OneVersionOffered'
    BY <1>1, <1>3, <1>5, <2>1
       DEF OneVersionOffered, InRepository, ReadableVersions, Wanted
  <2> QED
    BY <1>1, <1>5, <2>1, <2>2, <2>3, <2>4, <2>5, <2>6
       DEF FailureHasCause, FailsForCause, OutputFromResult
<1>7. CASE Offer(ver.version, ver.depends)
  <2>1. available = <<>> /\ Len(available) = 0
    <3>1. ~IsOffered(available, ver.version)
      BY <1>7 DEF Offer
    <3>2. \A q \in DOMAIN available : FALSE
      BY <1>4, <3>1 DEF IsOffered
    <3>3. 1 \notin 1..Len(available)
      BY <1>2, <3>2
    <3>4. Len(available) = 0
      BY <1>2, <3>3
    <3> QED
      BY <1>2, <3>4, EmptySeq
  <2>2. /\ packages' = [packages EXCEPT ![cur].available = InsertAt(available, 1, new)]
        /\ UNCHANGED <<pc, solved, cur, dep, roots>>
    BY <1>7, <2>1 DEF Offer
  <2>3. new \in Versioned
    BY <1>4 DEF Versioned
  <2> DEFINE offered == InsertAt(available, 1, new)
  <2>4. /\ offered \in Seq(Versioned) /\ Len(offered) = 1 /\ DOMAIN offered = 1..1
        /\ offered[1] = new /\ offered # <<>>
    <3>0. available \in Seq(Versioned)
      BY <1>2
    <3> HIDE DEF available, new
    <3>1. Len(available) = 0 =>
            /\ InsertAt(available, 1, new) \in Seq(Versioned)
            /\ Len(InsertAt(available, 1, new)) = 1
            /\ InsertAt(available, 1, new)[1] = new /\ InsertAt(available, 1, new) # <<>>
      BY <2>3, <3>0, InsertFirst
    <3>2. DOMAIN InsertAt(available, 1, new) = 1..Len(InsertAt(available, 1, new))
      BY <2>1, <3>1, LenProperties
    <3> QED
      BY <2>1, <3>1, <3>2
  <2>5. packages'[cur] = [packages[cur] EXCEPT !.available = offered]
    BY <1>2, <2>2
  <2> HIDE DEF offered
  <2>6. /\ DOMAIN packages' = DOMAIN packages
        /\ packages'[cur].available = offered /\ packages'[cur].name = packages[cur].name
        /\ \A k \in DOMAIN packages : k # cur => packages'[k] = packages[k]
    BY <1>2, <2>2, <2>5 DEF Package
  <2>7. SolveInv'
    BY <1>4, <1>7, NextInv DEF Next
  <2>8. OptionsTyped' /\ ConstraintsGiven'
    BY <1>1, <1>5, <2>2 DEF OptionsTyped, ConstraintsGiven
  <2>9. InStep'
    BY <1>1, <1>3, <1>5, <2>2 DEF InStep
  <2>10. Wanted' = Wanted
    BY <2>2, <2>6 DEF Wanted
  <2>11. new.version = ver.version /\ new.dependencies = Reverse(ver.depends)
    OBVIOUS
  <2> HIDE DEF new
  <2>12. \A name, v, d : InRepository(name, v, d) => InRepository(name, v, d)'
    BY <1>5 DEF InRepository, ReadableVersions
  <2>13. OffersTrue'
    <3> SUFFICES ASSUME NEW k \in DOMAIN packages, NEW q \in DOMAIN packages'[k].available
                 PROVE  \E depends \in DependencyLists :
                          /\ packages'[k].available[q].dependencies = Reverse(depends)
                          /\ InRepository(packages[k].name, packages[k].available[q].version,
                                          depends)'
      BY <2>6 DEF OffersTrue
    <3>1. CASE k = cur
      <4>1. packages'[k].available[q] = new
        BY <2>4, <2>6, <3>1
      <4> QED
        BY <1>4, <2>6, <2>11, <2>12, <3>1, <4>1 DEF Wanted
    <3>2. CASE k # cur
      <4>1. packages'[k] = packages[k]
        BY <2>6, <3>2
      <4>2. PICK depends \in DependencyLists :
                /\ packages[k].available[q].dependencies = Reverse(depends)
                /\ InRepository(packages[k].name, packages[k].available[q].version, depends)
        BY <4>1 DEF OffersTrue
      <4> QED
        BY <2>12, <4>1, <4>2
    <3> QED
      BY <3>1, <3>2
  <2>14. OneVersionOffered'
    <3>1. InRepository(Wanted, ver.version, ver.depends)'
      BY <1>1, <1>4, <2>10, <2>12
    <3>2. \A q \in DOMAIN packages'[cur].available :
            packages'[cur].available[q].version = ver.version
      BY <2>4, <2>6, <2>11
    <3> QED
      BY <1>1, <1>3, <1>4, <2>2, <2>4, <2>6, <3>1, <3>2 DEF OneVersionOffered, ReadVersion
  <2> QED
    BY <1>1, <2>2, <2>7, <2>8, <2>9, <2>13, <2>14, <1>5
       DEF FailureHasCause, FailsForCause, OutputFromResult
<1> QED
  BY <1>6, <1>7 DEF AddVersion

(***************************************************************************)
(* get_pkg fails only for a package without a directory: there is never    *)
(* another version that the offered one could not be compared with.        *)
(***************************************************************************)
LEMMA GetPkgFailsInv ==
  ASSUME WithInv, GetPkgFails
  PROVE  WithInv'
<1> USE DEF WithInv
<1>1. /\ stage = "solve" /\ pc = "callback" /\ CallbackFails
      /\ pc' = "returned" /\ solved' = -1
      /\ UNCHANGED <<packages, cur, dep, roots>>
      /\ UNCHANGED <<prog, args, disk, stage, unread, opts, todo, output, cache, at, ver, starved>>
  BY DEF GetPkgFails, CallbackFails, Fail, mainVars, repoVars
<1>2. cur \in DOMAIN packages
  BY <1>1 DEF SolveInv, Progress
<1>3. /\ packagedir' = packagedir /\ Repository' = Repository /\ Requested' = Requested
      /\ CacheTrue' /\ OffersTrue'
  BY <1>1, RepositoryKept
<1>4. Wanted \notin DOMAIN Repository
  <2>1. ASSUME ver # NoVersion, at \in DOMAIN cache,
               ~IsOffered(packages[cur].available, ver.version),
               Incomparable(packages[cur].available, ver.version)
        PROVE  FALSE
    <3>1. at # 0
      BY <2>1, LenProperties DEF CacheTrue
    <3> QED
      BY <1>1, <2>1, <3>1 DEF OneVersionOffered, IsOffered, Incomparable
  <2> QED
    BY <2>1 DEF GetPkgFails
<1>5. SolveInv'
  BY <1>1, NextInv DEF Next
<1>6. OptionsTyped' /\ ConstraintsGiven'
  BY <1>1, <1>3 DEF OptionsTyped, ConstraintsGiven
<1>7. InStep'
  BY <1>1, <1>3 DEF InStep
<1>8. FailureHasCause'
  BY <1>1, <1>2, <1>3, <1>4 DEF FailureHasCause, Wanted
<1> QED
  BY <1>1, <1>3, <1>5, <1>6, <1>7, <1>8
     DEF OneVersionOffered, FailsForCause, OutputFromResult


(***************************************************************************)
(* When get_pkg returns there is a version to choose.                      *)
(***************************************************************************)
LEMMA GetPkgReturnsInv ==
  ASSUME WithInv, GetPkgReturns
  PROVE  WithInv'
<1> USE DEF WithInv
<1>1. /\ stage = "solve" /\ pc = "callback" /\ at > Len(cache) /\ at' = 0
      /\ UNCHANGED <<prog, args, disk, stage, unread, opts, todo, output, cache, ver, starved>>
  BY DEF GetPkgReturns, mainVars
<1>2. /\ Len(cache) \in Nat /\ DOMAIN cache = 1..Len(cache)
      /\ cur \in DOMAIN packages
      /\ \A k \in DOMAIN packages : packages[k] \in Package
      /\ packagedir \in DOMAIN disk
  BY <1>1, ListType, LenProperties DEF InStep, CacheTrue, SolveInv, Progress
<1>3. packages[cur].available # <<>>
  BY <1>1, <1>2 DEF OneVersionOffered
<1>4. Choose
  BY <1>3 DEF GetPkgReturns, NoneAvailable
<1>5. /\ packages' = [packages EXCEPT ![cur].chosen = packages[cur].available[1]]
      /\ pc' = "deps"
      /\ UNCHANGED <<solved, roots>>
  BY <1>4 DEF Choose
<1>6. /\ DOMAIN packages' = DOMAIN packages
      /\ \A k \in DOMAIN packages : /\ packages'[k].available = packages[k].available
                                    /\ packages'[k].name = packages[k].name
  BY <1>2, <1>5 DEF Package
<1>7. /\ packagedir' = packagedir /\ Repository' = Repository /\ Requested' = Requested
      /\ CacheTrue'
  BY <1>1, RepositoryKept
<1>8. OffersTrue'
  BY <1>6, <1>7 DEF OffersTrue, InRepository, ReadableVersions
<1>9. SolveInv'
  BY <1>4, NextInv DEF Next, Proceed
<1>10. OptionsTyped' /\ ConstraintsGiven'
  BY <1>1, <1>5, <1>7 DEF OptionsTyped, ConstraintsGiven
<1>11. InStep'
  BY <1>1, <1>2, <1>5, <1>7 DEF InStep
<1> QED
  BY <1>1, <1>5, <1>7, <1>8, <1>9, <1>10, <1>11
     DEF OneVersionOffered, FailureHasCause, FailsForCause, OutputFromResult

(***************************************************************************)
(* What solve_run does outside the callback.                               *)
(***************************************************************************)
LEMMA SolverStepInv ==
  ASSUME WithInv, SolverStep
  PROVE  WithInv'
<1> USE DEF WithInv
<1>1. /\ stage = "solve" /\ pc \in {"loop", "deps"} /\ at = 0
      /\ pc' \in {"loop", "deps", "callback", "returned"}
      /\ pc' = "returned" => solved' = 1
      /\ UNCHANGED <<prog, args, disk, stage, unread, opts, todo, output, cache, at, ver, starved>>
      /\ UNCHANGED roots
  BY DEF SolverStep, CallGetPkt, AddDependency, NextPackage, Finish, mainVars, repoVars, InStep
<1>2. Len(cache) \in Nat /\ packagedir \in DOMAIN disk
  BY <1>1, LenProperties DEF CacheTrue, InStep
<1>3. /\ packagedir' = packagedir /\ Repository' = Repository /\ Requested' = Requested
      /\ CacheTrue'
  BY <1>1, RepositoryKept
<1>4. SolveInv'
  BY NextInv DEF SolverStep, Next, Proceed
<1>5. OptionsTyped' /\ ConstraintsGiven'
  BY <1>1, <1>3 DEF OptionsTyped, ConstraintsGiven
<1>6. InStep'
  BY <1>1, <1>2, <1>3 DEF InStep
<1>7. OffersTrue'
  <2>1. CASE AddDependency
    <3> DEFINE deps == packages[cur].chosen.dependencies
    <3>1. pc = "deps" /\ dep <= Len(deps) /\ packages' = PkgAdd(packages, deps[dep])
      BY <2>1 DEF AddDependency
    <3>2. deps \in Seq(Names) /\ dep \in 1..Len(deps)
      BY <3>1, ListType DEF SolveInv, Progress, TypeOK
    <3>3. deps[dep] \in Names
      BY <3>2, ElementOfSeq
    <3> QED
      BY <1>1, <3>1, <3>3, AddedWithoutOffers
  <2>2. CASE CallGetPkt \/ NextPackage \/ Finish
    <3>1. UNCHANGED packages
      BY <2>2 DEF CallGetPkt, NextPackage, Finish
    <3> QED
      BY <1>1, <3>1, RepositoryKept
  <2> QED
    BY <2>1, <2>2 DEF SolverStep
<1>8. OneVersionOffered'
  <2>1. CASE CallGetPkt
    <3>1. pc = "loop" /\ cur <= Len(packages) /\ UNCHANGED <<packages, cur>>
      BY <2>1 DEF CallGetPkt
    <3>2. cur \in DOMAIN packages
      BY <3>1, ListType DEF SolveInv, Progress
    <3>3. packages[cur].available = <<>>
      BY <3>1, <3>2 DEF SolveInv, Progress, IsFresh
    <3> QED
      BY <1>1, <3>1, <3>3 DEF OneVersionOffered
  <2>2. CASE AddDependency \/ NextPackage \/ Finish
    <3>1. pc' # "callback"
      BY <2>2 DEF AddDependency, NextPackage, Finish
    <3> QED
      BY <3>1 DEF OneVersionOffered
  <2> QED
    BY <2>1, <2>2 DEF SolverStep
<1> QED
  BY <1>1, <1>3, <1>4, <1>5, <1>6, <1>7, <1>8
     DEF FailureHasCause, FailsForCause, OutputFromResult

-----------------------------------------------------------------------------
(***************************************************************************)
(* The ends of the program, which leave the solver's list as it is.        *)
(***************************************************************************)
LEMMA EndsWithInv ==
  ASSUME WithInv, NullVersion \/ SolveFailed \/ ExecWithenv \/ PrintSolution
  PROVE  WithInv'
<1> USE DEF WithInv
<1>1. /\ stage = "solve" /\ stage' \in {"segv", "failure", "exec", "success"}
      /\ UNCHANGED <<vars, prog, args, disk, unread, opts, todo, cache, at, ver, starved>>
      /\ UNCHANGED <<packages, solved, pc, cur, dep, roots>>
  BY DEF NullVersion, SolveFailed, ExecWithenv, PrintSolution, Exit, repoVars, vars
<1>2. /\ stage' = "failure" => pc = "returned" /\ solved # 1
      /\ stage' \in {"exec", "success"} => pc = "returned" /\ solved = 1
      /\ stage' = "exec" => prog = "withpkgs" /\ output' = build_args
      /\ stage' = "success" =>
            output' = [n \in DOMAIN ResultPackages |->
                        [name    |-> ResultPackages[n].name,
                         version |-> ResultPackages[n].chosen.version]]
  BY DEF NullVersion, SolveFailed, ExecWithenv, PrintSolution, Exit
<1>3. Len(cache) \in Nat /\ packagedir \in DOMAIN disk
  BY <1>1, LenProperties DEF CacheTrue, InStep
<1>4. /\ packagedir' = packagedir /\ Repository' = Repository /\ Requested' = Requested
      /\ CacheTrue' /\ OffersTrue'
  BY <1>1, RepositoryKept
<1>5. ResultPackages' = ResultPackages /\ build_args' = build_args
  BY <1>1, <1>4 DEF ResultPackages, solve_result_package, ChosenPositions, build_args
<1>6. SolveInv'
  BY <1>1, NextInv
<1>7. OptionsTyped' /\ ConstraintsGiven'
  BY <1>1, <1>4 DEF OptionsTyped, ConstraintsGiven, Ended
<1>8. InStep'
  BY <1>1, <1>2, <1>3, <1>4 DEF InStep
<1>9. OneVersionOffered'
  BY <1>1, <1>4 DEF OneVersionOffered, InRepository, ReadableVersions, Wanted
<1>10. FailureHasCause'
  BY <1>1, <1>4 DEF FailureHasCause
<1>11. FailsForCause'
  BY <1>1, <1>2, <1>4 DEF FailureHasCause, FailsForCause
<1>12. OutputFromResult'
  BY <1>1, <1>2, <1>5 DEF OutputFromResult
<1> QED
  BY <1>4, <1>6, <1>7, <1>8, <1>9, <1>10, <1>11, <1>12

(***************************************************************************)
(* A call that fails for want of memory, in main, get_pkg or the solver.   *)
(***************************************************************************)
LEMMA StarveInv ==
  ASSUME WithInv, Starve
  PROVE  WithInv'
<1>0. CASE ReadsSome
  <2>1. starved' \in BOOLEAN
    BY DEF Starve
  <2> QED
    BY <1>0, <2>1, RepoPackageGetInv
<1> SUFFICES ASSUME ~ReadsSome PROVE WithInv'
  BY <1>0
<1> USE DEF WithInv
<1>1. /\ starved' = TRUE
      /\ UNCHANGED <<prog, args, disk, unread, opts, todo, output, cache, at, ver>>
      /\ UNCHANGED <<packages, cur, dep, roots>>
  BY DEF Starve, Exit, CallbackFails, AddDependencyFails, Fail, mainVars, repoVars, vars, ReadsSome
<1>2. \/ /\ stage' = "failure" /\ stage \notin {"exec", "success"}
         /\ UNCHANGED <<vars, solved, pc>>
      \/ /\ stage' = stage /\ stage = "solve"
         /\ pc \in {"callback", "deps"} /\ pc' = "returned" /\ solved' = -1
         /\ CallbackFails \/ AddDependencyFails
  BY DEF Starve, MainAllocates, Exit, CallbackFails, AddDependencyFails, Fail, mainVars, vars, ReadsSome
<1>3. Len(cache) \in Nat /\ (stage = "solve" => packagedir \in DOMAIN disk)
  BY LenProperties DEF CacheTrue, InStep
<1>4. /\ packagedir' = packagedir /\ Repository' = Repository /\ Requested' = Requested
      /\ CacheTrue' /\ OffersTrue'
  BY <1>1, RepositoryKept
<1>5. SolveInv'
  BY <1>2, NextInv DEF Next
<1>6. OptionsTyped' /\ ConstraintsGiven'
  BY <1>1, <1>2, <1>4 DEF OptionsTyped, ConstraintsGiven, Ended
<1>7. InStep'
  BY <1>1, <1>2, <1>3, <1>4 DEF InStep
<1>8. OneVersionOffered'
  BY <1>1, <1>2, <1>4 DEF OneVersionOffered, InRepository, ReadableVersions, Wanted
<1>9. FailureHasCause' /\ FailsForCause'
  BY <1>1 DEF FailureHasCause, FailsForCause
<1>10. OutputFromResult'
  BY <1>1, <1>2 DEF OutputFromResult
<1> QED
  BY <1>4, <1>5, <1>6, <1>7, <1>8, <1>9, <1>10

LEMMA WithInitInv == WInit => WithInv
<1> SUFFICES ASSUME WInit PROVE WithInv
  OBVIOUS
<1>1. /\ packages = <<>> /\ pc = "client" /\ solved = 0 /\ DOMAIN packages = {}
      /\ stage = "options" /\ unread = args /\ opts = NoOptions /\ todo = <<>>
      /\ cache = <<>> /\ DOMAIN cache = {} /\ Len(cache) = 0 /\ at = 0 /\ starved = FALSE
  BY EmptySeq DEF WInit, Init
<1>2. IsScenario(prog, args, disk)
  <2>1. PICK s \in Scenarios : prog = s.prog /\ args = s.args /\ disk = s.disk
    BY DEF WInit
  <2> QED
    BY <2>1, ScenariosAssumption
<1>3. SolveInv
  BY InitInv DEF WInit
<1>4. OptionsTyped
  <2>0. <<"/packages">> \in Words
    <3>1. "/packages" \in Text
      BY DEF Text
    <3> HIDE DEF Text
    <3> QED
      BY <3>1 DEF Words
  <2>1. opts \in Options /\ todo \in Seq(Names)
    BY <1>1, <2>0, EmptySeq DEF NoOptions, Options
  <2>2. unread \in Seq(Names)
    BY <1>1, <1>2 DEF IsScenario
  <2> QED
    BY <1>1, <1>2, <2>1, <2>2 DEF OptionsTyped
<1>5. InStep
  BY <1>1 DEF InStep
<1>6. CacheTrue
  BY <1>1, EmptySeq DEF CacheTrue
<1> QED
  BY <1>1, <1>3, <1>4, <1>5, <1>6
     DEF WithInv, ConstraintsGiven, OffersTrue, OneVersionOffered, FailureHasCause,
         FailsForCause, OutputFromResult

LEMMA WithNextInv == WithInv /\ [WNext]_wvars => WithInv'
<1> SUFFICES ASSUME WithInv, [WNext]_wvars PROVE WithInv'
  OBVIOUS
<1>0. CASE RepoPackageGet
  <2>1. (FoundInCache \/ ReadsSome) /\ starved' \in BOOLEAN
    BY <1>0 DEF RepoPackageGet, ReadsSome, WithInv, OptionsTyped
  <2> QED
    BY <2>1, RepoPackageGetInv
<1>1. CASE Proceeds
  BY <1>0, <1>1, OptionsInv, OpenInv, ConstraintsInv, AddVersionInv,
     GetPkgFailsInv, GetPkgReturnsInv, SolverStepInv, EndsWithInv DEF Proceeds
<1>2. CASE Starve
  BY <1>2, StarveInv
<1>3. CASE UNCHANGED wvars
  <2> USE DEF WithInv
  <2>1. /\ UNCHANGED <<prog, args, disk, stage, unread, opts, todo, output, cache, at, ver,
                        starved>>
        /\ UNCHANGED vars
        /\ UNCHANGED <<packages, solved, pc, cur, dep, roots>>
    BY <1>3 DEF wvars, mainVars, repoVars, vars
  <2>2. /\ packagedir' = packagedir /\ Repository' = Repository /\ Requested' = Requested
        /\ CacheTrue' /\ OffersTrue'
    BY <2>1, RepositoryKept
  <2>3. SolveInv'
    BY <2>1, NextInv
  <2>4. OptionsTyped' /\ ConstraintsGiven'
    BY <2>1, <2>2 DEF OptionsTyped, ConstraintsGiven
  <2>5. InStep'
    BY <2>1, <2>2 DEF InStep
  <2>6. OneVersionOffered'
    BY <2>1, <2>2 DEF OneVersionOffered, InRepository, ReadableVersions, Wanted
  <2>7. FailureHasCause' /\ FailsForCause'
    BY <2>1, <2>2 DEF FailureHasCause, FailsForCause
  <2>8. ResultPackages' = ResultPackages /\ build_args' = build_args
    BY <2>1, <2>2 DEF ResultPackages, solve_result_package, ChosenPositions, build_args
  <2>9. OutputFromResult'
    BY <2>1, <2>8 DEF OutputFromResult
  <2> QED
    BY <2>2, <2>3, <2>4, <2>5, <2>6, <2>7, <2>9
<1> QED
  BY <1>1, <1>2, <1>3 DEF WNext

-----------------------------------------------------------------------------
(***************************************************************************)
(* The inductive invariant holds in every state the programs reach.        *)
(***************************************************************************)
THEOREM WithPkgsInvariant == WSpec => []WithInv
<1>1. WInit => WithInv
  BY WithInitInv
<1>2. WithInv /\ [WNext]_wvars => WithInv'
  BY WithNextInv
<1> QED
  BY <1>1, <1>2, PTL DEF WSpec

(***************************************************************************)
(* The state of main, of the repository and of the solver is well typed.   *)
(***************************************************************************)
THEOREM ProgramTypeCorrect == WSpec => []WTypeOK
<1>1. WithInv => WTypeOK
  <2> SUFFICES ASSUME WithInv PROVE WTypeOK
    OBVIOUS
  <2>1. TypeOK
    BY DEF WithInv, SolveInv
  <2>2. opts.rest \in Seq(Word)
    <3>1. opts.rest \in Seq(Names) /\ Names \subseteq Word
      BY NamesAssumption DEF WithInv, OptionsTyped, Options
    <3> QED
      BY <3>1, SeqMonotonic
  <2>3. \A k \in DOMAIN cache :
          /\ cache[k].name \in Names
          /\ \A n \in DOMAIN cache[k].versions :
              cache[k].versions[n] \in [version : Versions, depends : DependencyLists]
    <3> SUFFICES ASSUME NEW k \in DOMAIN cache
                 PROVE  /\ cache[k].name \in Names
                        /\ \A n \in DOMAIN cache[k].versions :
                             cache[k].versions[n] \in ReadVersion
      BY DEF ReadVersion
    <3>1. cache[k] \in CacheEntry
      BY LenProperties, ElementOfSeq DEF WithInv, CacheTrue, CacheEntry
    <3>2. cache[k].name \in Names /\ cache[k].versions \in Seq(ReadVersion)
      BY <3>1 DEF CacheEntry
    <3> QED
      BY <3>2, LenProperties, ElementOfSeq
  <2> QED
    BY <2>1, <2>2, <2>3 DEF WTypeOK, WithInv, OptionsTyped, InStep
<1> QED
  BY <1>1, WithPkgsInvariant, PTL

(***************************************************************************)
(* A run that has the memory it asks for fails only over a repository or a *)
(* package directory that is not there.                                    *)
(***************************************************************************)
THEOREM FailuresHaveCause == WSpec => []FailsForCause
<1>1. WithInv => FailsForCause
  BY DEF WithInv
<1> QED
  BY <1>1, WithPkgsInvariant, PTL

(***************************************************************************)
(* The command line tools use the solver as Solve allows a client to: each *)
(* of their steps is a step of Solve or leaves the solver alone.           *)
(***************************************************************************)
THEOREM ToolsDriveTheSolver == WSpec => Init /\ [][Next]_vars
<1>1. WInit => Init
  BY DEF WInit
<1>2. WithInv /\ [WNext]_wvars => [Next]_vars
  <2> SUFFICES ASSUME WithInv, [WNext]_wvars PROVE [Next]_vars
    OBVIOUS
  <2>1. CASE AddConstraint
    <3>1. Head(todo) \in Names
      BY <2>1, HeadAndTail DEF AddConstraint, WithInv, OptionsTyped
    <3> QED
      BY <2>1, <3>1 DEF AddConstraint, Next
  <2>2. CASE AddVersion
    <3>1. ver.version \in Versions /\ ver.depends \in DependencyLists
      <4>1. at # 0
        BY <2>2, LenProperties DEF AddVersion, WithInv, CacheTrue
      <4> QED
        BY <2>2, <4>1 DEF AddVersion, WithInv, OneVersionOffered, ReadVersion
    <3> QED
      BY <2>2, <3>1 DEF AddVersion, Next
  <2>3. CASE CallSolveRun \/ GetPkgFails \/ GetPkgReturns \/ SolverStep
    BY <2>3 DEF CallSolveRun, GetPkgFails, GetPkgReturns, SolverStep, Next, Proceed
  <2>0. FoundInCache \/ ReadsSome => UNCHANGED vars
    BY DEF FoundInCache, ReadsSome, ReadDirectory
  <2>4. CASE Starve
    <3>1. Starve => ReadsSome \/ CallbackFails \/ AddDependencyFails \/ UNCHANGED vars
      BY DEF Starve, ReadsSome
    <3> QED
      BY <2>0, <2>4, <3>1 DEF Next
  <2>5. CASE \/ ParseArgument \/ OptionsParsed \/ OpenRepository \/ RepoPackageGet
             \/ NullVersion \/ SolveFailed \/ ExecWithenv \/ PrintSolution
    <3>1. RepoPackageGet => FoundInCache \/ ReadsSome
      BY DEF RepoPackageGet, ReadsSome
    <3> QED
      BY <2>0, <2>5, <3>1 DEF ParseArgument, OptionsParsed, OpenRepository,
           NullVersion, SolveFailed, ExecWithenv, PrintSolution
  <2>6. CASE UNCHANGED wvars
    BY <2>6 DEF wvars
  <2> QED
    BY <2>1, <2>2, <2>3, <2>4, <2>5, <2>6 DEF WNext, Proceeds
<1> QED
  BY <1>1, <1>2, WithPkgsInvariant, PTL DEF WSpec

-----------------------------------------------------------------------------
(***************************************************************************)
(* When solve_run has returned 0 every listed package is a result package, *)
(* in the order of the list.                                               *)
(***************************************************************************)
LEMMA AllAreResults ==
  ASSUME SolveInv, solved = 1
  PROVE  /\ Len(packages) \in Nat
         /\ ResultPackages = [n \in 1..Len(packages) |-> packages[n]]
         /\ \A k \in 1..Len(packages) :
              /\ packages[k] \in Package
              /\ packages[k].chosen \in Versioned
              /\ packages[k].chosen = packages[k].available[1]
              /\ 1 \in DOMAIN packages[k].available
              /\ ToSet(packages[k].chosen.dependencies) \subseteq ListedNames
         /\ roots \subseteq ListedNames
<1> DEFINE N == Len(packages)
<1>1. /\ N \in Nat /\ DOMAIN packages = 1..N
      /\ \A k \in DOMAIN packages : packages[k] \in Package
  BY ListType DEF SolveInv
<1>2. \A k \in 1..N : k < cur
  BY <1>1 DEF SolveInv, Progress
<1>3. \A k \in 1..N : IsChosen(packages[k])
  BY <1>1, <1>2 DEF SolveInv, Progress
<1>4. \A k \in 1..N : /\ packages[k].chosen \in Versioned
                      /\ packages[k].chosen = packages[k].available[1]
                      /\ 1 \in DOMAIN packages[k].available
                      /\ ToSet(packages[k].chosen.dependencies) \subseteq ListedNames
  <2> SUFFICES ASSUME NEW k \in 1..N
               PROVE  /\ packages[k].chosen \in Versioned
                      /\ packages[k].chosen = packages[k].available[1]
                      /\ 1 \in DOMAIN packages[k].available
                      /\ ToSet(packages[k].chosen.dependencies) \subseteq ListedNames
    OBVIOUS
  <2>1. packages[k].chosen \in Versioned
    BY <1>1, <1>3 DEF Package, IsChosen
  <2>2. packages[k].available # <<>> /\ packages[k].chosen = packages[k].available[1]
    BY <1>1, <1>3 DEF SolveInv, ChosenIsFirst
  <2>3. packages[k].available \in Seq(Versioned)
    BY <1>1 DEF Package
  <2>4. 1 \in DOMAIN packages[k].available
    BY <2>2, <2>3, LenProperties, EmptySeq
  <2>5. ToSet(packages[k].chosen.dependencies) \subseteq ListedNames
    BY <1>1, <1>2 DEF SolveInv, DependenciesListed
  <2> QED
    BY <2>1, <2>2, <2>4, <2>5
<1>5. ChosenPositions = 1..N
  BY <1>1, <1>3 DEF ChosenPositions
<1>6. Cardinality(ChosenPositions) = N
  <2>1. N \in Nat
    BY <1>1
  <2> HIDE DEF N
  <2>2. Cardinality(1..N) = N
    BY <2>1, FS_Interval
  <2> QED
    BY <1>5, <2>2
<1>7. ASSUME NEW n \in 1..N PROVE solve_result_package(n - 1) = packages[n]
  <2>1. ASSUME NEW k \in 1..N PROVE Cardinality({j \in 1..N : j < k}) = k - 1
    <3>1. {j \in 1..N : j < k} = 1..(k - 1)
      BY <1>1
    <3>2. Cardinality(1..(k - 1)) = k - 1
      BY <1>1, FS_Interval
    <3> QED
      BY <3>1, <3>2
  <2> DEFINE k == CHOOSE k \in 1..N : Cardinality({j \in 1..N : j < k}) = n - 1
  <2>2. k \in 1..N /\ Cardinality({j \in 1..N : j < k}) = n - 1
    BY <2>1
  <2> HIDE DEF k
  <2>3. k - 1 = n - 1
    BY <2>1, <2>2
  <2>4. k = n
    BY <1>1, <2>2, <2>3
  <2> QED
    BY <1>5, <2>4 DEF solve_result_package, k
<1>8. ResultPackages = [n \in 1..N |-> packages[n]]
  BY <1>6, <1>7 DEF ResultPackages
<1>9. roots \subseteq ListedNames
  BY <1>1 DEF SolveInv, Progress, DependenciesListed
<1>0. N \in Nat /\ \A k \in 1..N : packages[k] \in Package
  BY <1>1
<1> HIDE DEF N
<1> QED
  BY <1>0, <1>4, <1>8, <1>9 DEF N

Chosen(pkg) == [name |-> pkg.name, version |-> pkg.chosen.version]

ChosenList == [n \in 1..Len(packages) |-> Chosen(packages[n])]

(***************************************************************************)
(* The chosen versions of the list are a solution that can be used.        *)
(***************************************************************************)
LEMMA ChosenAreUsable ==
  ASSUME WithInv, solved = 1, Requested \subseteq roots
  PROVE  /\ Requested \subseteq {ChosenList[n].name : n \in DOMAIN ChosenList}
         /\ \A n, m \in DOMAIN ChosenList : ChosenList[n].name = ChosenList[m].name => n = m
         /\ \A n \in DOMAIN ChosenList :
              /\ ChosenList[n].name \in DOMAIN Repository
              /\ ChosenList[n].version \in ReadableVersions(ChosenList[n].name)
              /\ ToSet(Repository[ChosenList[n].name][ChosenList[n].version])
                   \subseteq {ChosenList[m].name : m \in DOMAIN ChosenList}
<1> DEFINE N == Len(packages)
<1>1. /\ N \in Nat /\ DOMAIN packages = 1..N
      /\ \A k \in 1..N : /\ packages[k].chosen = packages[k].available[1]
                         /\ 1 \in DOMAIN packages[k].available
                         /\ ToSet(packages[k].chosen.dependencies) \subseteq ListedNames
      /\ roots \subseteq ListedNames
  BY AllAreResults, ListType DEF WithInv, SolveInv
<1>2. /\ DOMAIN ChosenList = 1..N
      /\ \A n \in 1..N : /\ ChosenList[n].name = packages[n].name
                         /\ ChosenList[n].version = packages[n].chosen.version
  BY DEF ChosenList, Chosen
<1>3. {ChosenList[n].name : n \in DOMAIN ChosenList} = ListedNames
  BY <1>1, <1>2 DEF ListedNames
<1>4. \A n, m \in 1..N : packages[n].name = packages[m].name => n = m
  BY <1>1 DEF WithInv, SolveInv, OneVersionPerName
<1>5. ASSUME NEW n \in 1..N
      PROVE  /\ packages[n].name \in DOMAIN Repository
             /\ packages[n].chosen.version \in ReadableVersions(packages[n].name)
             /\ ToSet(Repository[packages[n].name][packages[n].chosen.version])
                  \subseteq ListedNames
  <2>1. PICK depends \in DependencyLists :
            /\ packages[n].chosen.dependencies = Reverse(depends)
            /\ InRepository(packages[n].name, packages[n].chosen.version, depends)
    BY <1>1 DEF WithInv, OffersTrue
  <2>2. ToSet(Reverse(depends)) = ToSet(depends)
    BY DependencyListsAssumption, ReverseElements
  <2> QED
    BY <1>1, <2>1, <2>2 DEF InRepository
<1>6. Requested \subseteq {ChosenList[n].name : n \in DOMAIN ChosenList}
  BY <1>1, <1>3
<1>7. \A n, m \in DOMAIN ChosenList : ChosenList[n].name = ChosenList[m].name => n = m
  BY <1>2, <1>4
<1>8. ASSUME NEW n \in DOMAIN ChosenList
      PROVE  /\ ChosenList[n].name \in DOMAIN Repository
             /\ ChosenList[n].version \in ReadableVersions(ChosenList[n].name)
             /\ ToSet(Repository[ChosenList[n].name][ChosenList[n].version])
                  \subseteq ListedNames
  BY <1>2, <1>5
<1> QED
  BY <1>3, <1>6, <1>7, <1>8


-----------------------------------------------------------------------------
(***************************************************************************)
(* strchr finds the first place of a token, and what is cut there is made  *)
(* of the same tokens.                                                     *)
(***************************************************************************)
LEMMA FirstPlace ==
  ASSUME NEW S, NEW text \in Seq(S), NEW tok
  PROVE  /\ FirstOf(text, tok) \in 0..Len(text)
         /\ FirstOf(text, tok) # 0 => text[FirstOf(text, tok)] = tok
         /\ \A k \in 1..Len(text) : text[k] = tok =>
                FirstOf(text, tok) # 0 /\ FirstOf(text, tok) <= k
<1> DEFINE T == {k \in 1..Len(text) : text[k] = tok}
           m == Min(T)
<1>1. FirstOf(text, tok) = IF T # {} THEN m ELSE 0
  BY DEF FirstOf, SelectInSeq
<1>2. T \in SUBSET Nat /\ Len(text) \in Nat
  BY LenProperties
<1>3. T # {} => m \in T /\ \A k \in T : m <= k
  <2> HIDE DEF T
  <2>1. T # {} => \E x \in T : \A y \in T : x <= y
    BY <1>2, LeastOf
  <2> QED
    BY <2>1 DEF Min
<1> HIDE DEF m
<1>4. CASE T = {}
  <2>1. \A k \in 1..Len(text) : text[k] # tok
    BY <1>4
  <2> QED
    BY <1>1, <1>2, <1>4, <2>1
<1>5. CASE T # {}
  <2>1. m \in 1..Len(text) /\ text[m] = tok
    BY <1>3, <1>5
  <2>2. \A k \in 1..Len(text) : text[k] = tok => m <= k
    BY <1>3, <1>5
  <2>3. FirstOf(text, tok) = m
    BY <1>1, <1>5
  <2> HIDE DEF T
  <2> QED
    BY <1>2, <2>1, <2>2, <2>3
<1> QED
  BY <1>4, <1>5

LEMMA CutTyped ==
  ASSUME NEW S, NEW text \in Seq(S), NEW tok
  PROVE  Before(text, tok) \in Seq(S) /\ After(text, tok) \in Seq(S)
<1> DEFINE n == FirstOf(text, tok)
<1>1. n \in 0..Len(text) /\ Len(text) \in Nat /\ \A k \in 1..Len(text) : text[k] \in S
  BY FirstPlace, LenProperties, ElementOfSeq
<1> HIDE DEF n
<1>2. SubSeq(text, 1, n - 1) \in Seq(S)
  <2>1. 1 \in Int /\ n - 1 \in Int /\ \A k \in 1..(n - 1) : text[k] \in S
    BY <1>1
  <2> QED
    BY <2>1, SubSeqProperties
<1>3. SubSeq(text, n + 1, Len(text)) \in Seq(S)
  BY <1>1, RestOf
<1> QED
  BY <1>2, <1>3 DEF n, Before, After

(***************************************************************************)
(* Cut at the first separator, what was joined by one comes apart again.   *)
(***************************************************************************)
LEMMA JoinedBySeparator ==
  ASSUME NEW S, NEW name \in Seq(S), NEW v \in Seq(S), NEW sep \in S, FirstOf(name, sep) = 0
  PROVE  LET p == name \o <<sep>> \o v IN
         /\ p \in Seq(S) /\ FirstOf(p, sep) # 0
         /\ Before(p, sep) = name /\ After(p, sep) = v
<1> DEFINE one == <<sep>>
           front == name \o one
           p == front \o v
           a == Len(name)
           m == FirstOf(p, sep)
<1>4. one \in Seq(S) /\ Len(one) = 1 /\ one[1] = sep
  OBVIOUS
<1> HIDE DEF one
<1>5. /\ front \in Seq(S) /\ a \in Nat /\ Len(front) = a + 1 /\ front[a + 1] = sep
      /\ \A i \in 1..a : front[i] = name[i]
  <2>1. /\ front \in Seq(S) /\ Len(front) = a + Len(one) /\ a \in Nat
        /\ \A i \in 1..(a + Len(one)) :
             front[i] = IF i <= a THEN name[i] ELSE one[i - a]
    BY <1>4, ConcatProperties, LenProperties
  <2> HIDE DEF front, a
  <2>2. a + 1 \in 1..(a + 1) /\ ~(a + 1 <= a) /\ (a + 1) - a = 1
    BY <2>1
  <2> QED
    BY <1>4, <2>1, <2>2
<1>6. SubSeq(front, 1, a) = name /\ SubSeq(p, a + 2, Len(p)) = v
  <2>1. SubSeq(front, 1, a) = name
    BY <1>4, JoinedAndCut
  <2>2. Len(front) + 1 = a + 2
    BY <1>5
  <2> HIDE DEF front
  <2>3. SubSeq(p, Len(front) + 1, Len(p)) = v
    BY <1>5, JoinedAndCut
  <2> QED
    BY <2>1, <2>2, <2>3
<1> HIDE DEF front, a
<1>7. /\ p \in Seq(S) /\ Len(p) \in Nat /\ a + 1 \in 1..Len(p)
      /\ \A i \in 1..(a + 1) : p[i] = front[i]
  <2>1. /\ p \in Seq(S) /\ Len(p) = Len(front) + Len(v) /\ Len(v) \in Nat
        /\ \A i \in 1..(Len(front) + Len(v)) :
             p[i] = IF i <= Len(front) THEN front[i] ELSE v[i - Len(front)]
    BY <1>5, ConcatProperties, LenProperties
  <2> HIDE DEF p
  <2> QED
    BY <1>5, <2>1
<1>8. SubSeq(p, 1, a) = name
  <2>1. a \in 0..Len(p) /\ a \in 0..Len(front)
    BY <1>5, <1>7
  <2> DEFINE s == SubSeq(p, 1, a)
             t == SubSeq(front, 1, a)
  <2>2. s \in Seq(S) /\ Len(s) = a /\ \A i \in 1..a : s[i] = p[i]
    BY <1>7, <2>1, PrefixOf
  <2>3. t \in Seq(S) /\ Len(t) = a /\ \A i \in 1..a : t[i] = front[i]
    BY <1>5, <2>1, PrefixOf
  <2> HIDE DEF s, t
  <2>4. \A i \in 1..a : s[i] = t[i]
    BY <1>5, <1>7, <2>2, <2>3
  <2>5. s = t
    BY <2>2, <2>3, <2>4, SeqEqual
  <2> QED
    BY <1>6, <2>5 DEF s, t
<1> HIDE DEF p
<1>9. m = a + 1
  <2>1. /\ m \in 0..Len(p) /\ (m # 0 => p[m] = sep)
        /\ \A k \in 1..Len(p) : p[k] = sep => m # 0 /\ m <= k
    BY <1>7, FirstPlace
  <2>2. \A k \in 1..a : name[k] # sep
    <3>1. \A k \in 1..Len(name) : name[k] = sep => FirstOf(name, sep) # 0
      BY FirstPlace
    <3> QED
      BY <3>1 DEF a
  <2> HIDE DEF m
  <2>3. m # 0 /\ m <= a + 1 /\ p[m] = sep
    BY <1>5, <1>7, <2>1
  <2>4. m \notin 1..a
    BY <1>5, <1>7, <2>2, <2>3
  <2> QED
    BY <1>5, <1>7, <2>1, <2>3, <2>4
<1>10. Before(p, sep) = name /\ After(p, sep) = v
  <2>1. m - 1 = a /\ m + 1 = a + 2
    BY <1>5, <1>9
  <2> HIDE DEF m
  <2> QED
    BY <1>6, <1>8, <2>1 DEF Before, After, m
<1>11. p \in Seq(S) /\ m # 0
  BY <1>5, <1>7, <1>9
<1> QED
  BY <1>10, <1>11 DEF p, front, one

(***************************************************************************)
(* A pair of a package's name and a version can be taken apart again.      *)
(***************************************************************************)
LEMMA PairsComeApart ==
  ASSUME NEW name \in Words, NEW v \in Words, FirstOf(name, ",") = 0
  PROVE  /\ Pair(name, v) \in Words /\ FirstOf(Pair(name, v), ",") # 0
         /\ PackageOf(Pair(name, v)) = [name |-> name, version |-> v]
<1>1. "," \in Text
  BY DEF Text
<1> DEFINE p == name \o <<",">> \o v
<1>2. /\ p \in Seq(Text) /\ FirstOf(p, ",") # 0
      /\ Before(p, ",") = name /\ After(p, ",") = v
  <2> HIDE DEF Text
  <2>1. name \in Seq(Text) /\ v \in Seq(Text)
    BY Zenon DEF Words
  <2> QED
    BY <1>1, <2>1, JoinedBySeparator, Zenon
<1>3. PackageOf(p) = [name |-> name, version |-> v]
  BY <1>2, Zenon DEF PackageOf
<1> QED
  BY <1>2, <1>3, Zenon DEF Pair, Words

-----------------------------------------------------------------------------
(***************************************************************************)
(* withenv reads its arguments one after the other.                        *)
(***************************************************************************)
GivenPackage == [name : Words, version : Words]
GivenMount == [name : Words, hostdir : Words, ro : BOOLEAN]

Environments ==
    [expects : {"", "-c", "-d", "-m", "-p", "-w"}, ended : BOOLEAN, bad : BOOLEAN,
     dir : SUBSET Words, work : SUBSET Words, cwd : SUBSET Words,
     packages : Seq(GivenPackage), mounts : Seq(GivenMount), cmd : Seq(Words)]

LEMMA NoEnvironmentTyped == NoEnvironment \in Environments
<1>1. <<>> \in Seq(GivenPackage) /\ <<>> \in Seq(GivenMount) /\ <<>> \in Seq(Words)
  BY EmptySeq
<1> HIDE DEF GivenPackage, GivenMount, Words
<1> QED
  BY <1>1 DEF NoEnvironment, Environments

LEMMA GivenTyped ==
  ASSUME NEW value \in Words
  PROVE  PackageOf(value) \in GivenPackage /\ MountOf(value) \in GivenMount
<1> DEFINE dir == After(value, ":")
<1>1. /\ Before(value, ",") \in Words /\ After(value, ",") \in Words
      /\ Before(value, ":") \in Words /\ dir \in Words
  BY CutTyped DEF Words
<1> HIDE DEF dir
<1>2. Before(dir, ":") \in Words /\ After(dir, ":") \in Words
  BY <1>1, CutTyped DEF Words
<1>3. PackageOf(value) \in GivenPackage
  <2> HIDE DEF Words
  <2> QED
    BY <1>1 DEF PackageOf, GivenPackage
<1>4. MountOf(value) \in GivenMount
  <2> DEFINE h == IF FirstOf(dir, ":") = 0 THEN dir ELSE Before(dir, ":")
             r == FirstOf(dir, ":") # 0 /\ After(dir, ":") = <<"ro">>
             n == Before(value, ":")
  <2>1. h \in Words /\ r \in BOOLEAN /\ n \in Words
    BY <1>1, <1>2
  <2>2. MountOf(value) = [name |-> n, hostdir |-> h, ro |-> r]
    BY DEF MountOf, dir
  <2> HIDE DEF h, r, n, Words
  <2> QED
    BY <2>1, <2>2 DEF GivenMount
<1> QED
  BY <1>3, <1>4

\* What withenv makes of an option's value, option by option.
LEMMA ValueCases ==
  ASSUME NEW e, NEW option, NEW value
  PROVE  /\ option = "-d" => WithenvValue(e, option, value)
                               = [e EXCEPT !.dir = {value}, !.expects = ""]
         /\ option = "-w" => WithenvValue(e, option, value)
                               = [e EXCEPT !.work = {value}, !.expects = ""]
         /\ option = "-c" => WithenvValue(e, option, value)
                               = [e EXCEPT !.cwd = {value}, !.expects = ""]
         /\ option = "-p" /\ FirstOf(value, ",") # 0 =>
                WithenvValue(e, option, value)
                  = [e EXCEPT !.packages = <<PackageOf(value)>> \o @, !.expects = ""]
         /\ option = "-m" /\ IsMount(value) =>
                WithenvValue(e, option, value)
                  = [e EXCEPT !.mounts = <<MountOf(value)>> \o @, !.expects = ""]
         /\ \/ option \notin {"-c", "-d", "-m", "-p", "-w"}
            \/ option = "-p" /\ FirstOf(value, ",") = 0
            \/ option = "-m" /\ ~IsMount(value)
              => WithenvValue(e, option, value) = [e EXCEPT !.bad = TRUE, !.expects = ""]
<1> DEFINE comma == FirstOf(value, ",") # 0
           mount == IsMount(value)
<1>1. WithenvValue(e, option, value) =
        CASE option = "-d" -> [e EXCEPT !.dir = {value}, !.expects = ""]
          [] option = "-w" -> [e EXCEPT !.work = {value}, !.expects = ""]
          [] option = "-c" -> [e EXCEPT !.cwd = {value}, !.expects = ""]
          [] option = "-p" /\ comma ->
                [e EXCEPT !.packages = <<PackageOf(value)>> \o @, !.expects = ""]
          [] option = "-m" /\ mount ->
                [e EXCEPT !.mounts = <<MountOf(value)>> \o @, !.expects = ""]
          [] OTHER -> [e EXCEPT !.bad = TRUE, !.expects = ""]
  BY DEF WithenvValue
<1> HIDE DEF comma, mount
<1>2. option = "-d" => WithenvValue(e, option, value)
                               = [e EXCEPT !.dir = {value}, !.expects = ""]
  BY <1>1
<1>3. option = "-w" => WithenvValue(e, option, value)
                               = [e EXCEPT !.work = {value}, !.expects = ""]
  BY <1>1
<1>4. option = "-c" => WithenvValue(e, option, value)
                               = [e EXCEPT !.cwd = {value}, !.expects = ""]
  BY <1>1
<1>5. option = "-p" /\ comma =>
        WithenvValue(e, option, value)
          = [e EXCEPT !.packages = <<PackageOf(value)>> \o @, !.expects = ""]
  BY <1>1
<1>6. option = "-m" /\ mount =>
        WithenvValue(e, option, value)
          = [e EXCEPT !.mounts = <<MountOf(value)>> \o @, !.expects = ""]
  BY <1>1
<1>7. \/ option \notin {"-c", "-d", "-m", "-p", "-w"}
      \/ option = "-p" /\ ~comma
      \/ option = "-m" /\ ~mount
        => WithenvValue(e, option, value) = [e EXCEPT !.bad = TRUE, !.expects = ""]
  BY <1>1
<1> QED
  BY <1>2, <1>3, <1>4, <1>5, <1>6, <1>7 DEF comma, mount

LEMMA ValueTyped ==
  ASSUME NEW e \in Environments, NEW option, NEW value \in Words
  PROVE  WithenvValue(e, option, value) \in Environments
<1>1. /\ <<PackageOf(value)>> \o e.packages \in Seq(GivenPackage)
      /\ <<MountOf(value)>> \o e.mounts \in Seq(GivenMount)
  <2>1. PackageOf(value) \in GivenPackage /\ MountOf(value) \in GivenMount
    BY GivenTyped
  <2> HIDE DEF GivenPackage, GivenMount
  <2>2. e.packages \in Seq(GivenPackage) /\ e.mounts \in Seq(GivenMount)
    BY DEF Environments
  <2>3. <<PackageOf(value)>> \in Seq(GivenPackage) /\ <<MountOf(value)>> \in Seq(GivenMount)
    BY <2>1
  <2> QED
    BY <2>2, <2>3, ConcatProperties
<1> HIDE DEF GivenPackage, GivenMount, Words
<1>2. /\ [e EXCEPT !.dir = {value}, !.expects = ""] \in Environments
      /\ [e EXCEPT !.work = {value}, !.expects = ""] \in Environments
      /\ [e EXCEPT !.cwd = {value}, !.expects = ""] \in Environments
      /\ [e EXCEPT !.bad = TRUE, !.expects = ""] \in Environments
  BY DEF Environments
<1>3. [e EXCEPT !.packages = <<PackageOf(value)>> \o @, !.expects = ""] \in Environments
  BY <1>1 DEF Environments
<1>4. [e EXCEPT !.mounts = <<MountOf(value)>> \o @, !.expects = ""] \in Environments
  BY <1>1 DEF Environments
<1> DEFINE f == WithenvValue(e, option, value)
<1>5. \/ f = [e EXCEPT !.dir = {value}, !.expects = ""]
      \/ f = [e EXCEPT !.work = {value}, !.expects = ""]
      \/ f = [e EXCEPT !.cwd = {value}, !.expects = ""]
      \/ f = [e EXCEPT !.packages = <<PackageOf(value)>> \o @, !.expects = ""]
      \/ f = [e EXCEPT !.mounts = <<MountOf(value)>> \o @, !.expects = ""]
      \/ f = [e EXCEPT !.bad = TRUE, !.expects = ""]
  BY DEF WithenvValue
<1> HIDE DEF f
<1>6. f \in Environments
  BY <1>2, <1>3, <1>4, <1>5
<1> QED
  BY <1>6 DEF f

\* What withenv makes of an argument, case by case.
Known == {"-c", "-d", "-m", "-p", "-w"}

LEMMA ArgumentCases ==
  ASSUME NEW e \in Environments, NEW arg
  PROVE  LET next == WithenvOption(e, arg) IN
         /\ e.bad => next = e
         /\ ~e.bad /\ e.ended => next = [e EXCEPT !.cmd = Append(@, arg)]
         /\ ~e.bad /\ ~e.ended /\ e.expects # "" => next = WithenvValue(e, e.expects, arg)
         /\ ~e.bad /\ ~e.ended /\ e.expects = "" =>
              /\ ~IsOption(arg) => next = [e EXCEPT !.ended = TRUE, !.cmd = <<arg>>]
              /\ IsOption(arg) =>
                   /\ arg = <<"--">> => next = [e EXCEPT !.ended = TRUE]
                   /\ arg # <<"--">> =>
                        /\ arg[1] \notin Known => next = [e EXCEPT !.bad = TRUE]
                        /\ arg[1] \in Known =>
                             /\ Len(arg) = 1 => next = [e EXCEPT !.expects = arg[1]]
                             /\ Len(arg) # 1 => next = WithenvValue(e, arg[1], Tail(arg))
BY DEF WithenvOption, Known

LEMMA WithenvOptionTyped ==
  ASSUME NEW e \in Environments, NEW arg \in Words
  PROVE  WithenvOption(e, arg) \in Environments
<1>1. Append(e.cmd, arg) \in Seq(Words) /\ <<arg>> \in Seq(Words)
  <2>1. e.cmd \in Seq(Words)
    BY DEF Environments
  <2> HIDE DEF Words
  <2> QED
    BY <2>1, AppendProperties
<1>2. IsOption(arg) => Tail(arg) \in Words
  BY HeadAndTail DEF IsOption, Words
<1> HIDE DEF Words, GivenPackage, GivenMount
<1>3. /\ [e EXCEPT !.cmd = Append(@, arg)] \in Environments
      /\ [e EXCEPT !.ended = TRUE, !.cmd = <<arg>>] \in Environments
      /\ [e EXCEPT !.ended = TRUE] \in Environments
      /\ [e EXCEPT !.bad = TRUE] \in Environments
  BY <1>1 DEF Environments
<1>4. \A x \in Known : [e EXCEPT !.expects = x] \in Environments
  BY DEF Environments, Known
<1>5. WithenvValue(e, e.expects, arg) \in Environments
  BY ValueTyped
<1>6. IsOption(arg) => WithenvValue(e, arg[1], Tail(arg)) \in Environments
  BY <1>2, ValueTyped
<1> DEFINE f == WithenvOption(e, arg)
<1>7. \/ f = e
      \/ f = [e EXCEPT !.cmd = Append(@, arg)]
      \/ f = WithenvValue(e, e.expects, arg)
      \/ f = [e EXCEPT !.ended = TRUE, !.cmd = <<arg>>]
      \/ f = [e EXCEPT !.ended = TRUE]
      \/ f = [e EXCEPT !.bad = TRUE]
      \/ arg[1] \in Known /\ f = [e EXCEPT !.expects = arg[1]]
      \/ IsOption(arg) /\ f = WithenvValue(e, arg[1], Tail(arg))
  BY DEF WithenvOption, Known
<1> HIDE DEF f
<1>8. f \in Environments
  BY <1>3, <1>4, <1>5, <1>6, <1>7
<1> QED
  BY <1>8 DEF f

Reads(read, words) ==
    /\ read \in [0..Len(words) -> Environments]
    /\ read[0] = NoEnvironment
    /\ \A i \in 1..Len(words) : read[i] = WithenvOption(read[i - 1], words[i])
    /\ ReadOptions(words) = read[Len(words)]

(***************************************************************************)
(* What withenv makes of its arguments is where reading them leads.        *)
(***************************************************************************)
LEMMA ReadsExists ==
  ASSUME NEW words \in Seq(Words)
  PROVE  \E read : Reads(read, words)
<1> DEFINE n == Len(words)
           next == [p \in (1..n) \X Environments |-> WithenvOption(p[2], words[p[1]])]
           R == CHOOSE read : read = [i \in 0..n |-> IF i = 0 THEN NoEnvironment
                                                ELSE WithenvOption(read[i - 1], words[i])]
<1>1. n \in Nat /\ \A i \in 1..n : words[i] \in Words
  <2> HIDE DEF Words
  <2> QED
    BY LenProperties, ElementOfSeq
<1>2. NoEnvironment \in Environments
  BY NoEnvironmentTyped
<1>3. next \in NextValues(n, Environments)
  <2> HIDE DEF n
  <2>1. \A p \in (1..n) \X Environments : p[1] \in 1..n /\ p[2] \in Environments
    OBVIOUS
  <2>2. \A p \in (1..n) \X Environments : WithenvOption(p[2], words[p[1]]) \in Environments
    BY <1>1, <2>1, WithenvOptionTyped
  <2> QED
    BY <2>2 DEF NextValues
<1>4. PICK f : RecursFromZero(f, n, Environments, NoEnvironment, next)
  <2> HIDE DEF n, next
  <2> QED
    BY <1>1, <1>2, <1>3, RecursionFromZero
<1>5. f = [i \in 0..n |-> IF i = 0 THEN NoEnvironment ELSE WithenvOption(f[i - 1], words[i])]
  <2>1. f \in [0..n -> Environments] /\ f[0] = NoEnvironment
    BY <1>4 DEF RecursFromZero
  <2>2. ASSUME NEW i \in 0..n
        PROVE  f[i] = IF i = 0 THEN NoEnvironment ELSE WithenvOption(f[i - 1], words[i])
    <3>1. CASE i # 0
      <4>1. i - 1 \in 0..n /\ i \in 1..n
        BY <1>1, <3>1
      <4>2. f[i - 1] \in Environments /\ f[i] = next[<<i, f[i - 1]>>]
        BY <1>4, <2>1, <4>1 DEF RecursFromZero
      <4>3. next[<<i, f[i - 1]>>] = WithenvOption(f[i - 1], words[i])
        BY <4>1, <4>2
      <4> QED
        BY <3>1, <4>2, <4>3
    <3> QED
      BY <2>1, <3>1
  <2> QED
    BY <2>1, <2>2
<1>6. R = [i \in 0..n |-> IF i = 0 THEN NoEnvironment ELSE WithenvOption(R[i - 1], words[i])]
  BY <1>5
<1>7. ReadOptions(words) = R[n]
  BY DEF ReadOptions
<1> HIDE DEF R
<1>8. /\ R[0] = NoEnvironment
      /\ \A i \in 1..n : R[i] = WithenvOption(R[i - 1], words[i])
  <2>1. \A i \in 0..n : R[i] = IF i = 0 THEN NoEnvironment ELSE WithenvOption(R[i - 1], words[i])
    BY <1>6
  <2>2. 0 \in 0..n /\ \A i \in 1..n : i \in 0..n /\ i # 0
    BY <1>1
  <2> QED
    BY <2>1, <2>2
<1>9. R \in [0..n -> Environments]
  <2> DEFINE T == {i \in 1..n : R[i] \in Environments}
  <2>1. n >= 1 => 1 \in T
    <3> SUFFICES ASSUME n >= 1 PROVE 1 \in T
      OBVIOUS
    <3>1. 1 \in 1..n /\ 1 - 1 = 0
      BY <1>1
    <3>2. R[1] = WithenvOption(NoEnvironment, words[1])
      BY <1>8, <3>1
    <3> QED
      BY <1>1, <1>2, <3>1, <3>2, WithenvOptionTyped
  <2>2. ASSUME NEW i \in 1..n, i \in T, i # n PROVE i + 1 \in T
    <3>1. i + 1 \in 1..n /\ (i + 1) - 1 = i
      BY <1>1, <2>2
    <3>2. R[i] \in Environments /\ words[i + 1] \in Words
      BY <1>1, <2>2, <3>1
    <3>3. R[i + 1] = WithenvOption(R[i], words[i + 1])
      BY <1>8, <3>1
    <3> QED
      BY <3>1, <3>2, <3>3, WithenvOptionTyped
  <2>3. \A i \in 1..n : i \in T
    <3> HIDE DEF T
    <3> QED
      BY <1>1, <2>1, <2>2, InductionTo
  <2>4. DOMAIN R = 0..n /\ R = [i \in 0..n |-> R[i]]
    BY <1>6
  <2>5. \A i \in 0..n : i = 0 \/ i \in 1..n
    BY <1>1
  <2>6. \A i \in 0..n : R[i] \in Environments
    BY <1>2, <1>8, <2>3, <2>5
  <2> QED
    BY <2>4, <2>6
<1> QED
  BY <1>7, <1>8, <1>9 DEF Reads

(***************************************************************************)
(* No argument leaves everything unset; one more argument is one more step.*)
(***************************************************************************)
LEMMA NothingRead == ReadOptions(<<>>) = NoEnvironment
<1>1. <<>> \in Seq(Words) /\ Len(<<>>) = 0
  BY EmptySeq
<1>2. PICK read : Reads(read, <<>>)
  BY <1>1, ReadsExists
<1> QED
  BY <1>1, <1>2 DEF Reads

LEMMA OneMoreRead ==
  ASSUME NEW s \in Seq(Words), NEW w \in Words
  PROVE  /\ ReadOptions(s) \in Environments
         /\ ReadOptions(Append(s, w)) = WithenvOption(ReadOptions(s), w)
<1> DEFINE t == Append(s, w)
           n == Len(s)
<1> HIDE DEF Words
<1>1. /\ t \in Seq(Words) /\ n \in Nat /\ Len(t) = n + 1 /\ t[n + 1] = w
      /\ \A i \in 1..n : t[i] = s[i]
  BY AppendProperties, LenProperties
<1>2. PICK f : Reads(f, s)
  BY ReadsExists
<1> HIDE DEF t
<1>3. PICK g : Reads(g, t)
  BY <1>1, ReadsExists
<1>4. /\ f \in [0..n -> Environments] /\ f[0] = NoEnvironment /\ ReadOptions(s) = f[n]
      /\ \A i \in 1..n : f[i] = WithenvOption(f[i - 1], s[i])
  BY <1>2 DEF Reads
<1>5. /\ g[0] = NoEnvironment /\ ReadOptions(t) = g[n + 1]
      /\ \A i \in 1..(n + 1) : g[i] = WithenvOption(g[i - 1], t[i])
  BY <1>1, <1>3 DEF Reads
<1> HIDE DEF n
<1>6. g[n] = f[n]
  <2> DEFINE T == {i \in 1..n : g[i] = f[i]}
  <2>1. ASSUME NEW i \in 1..n, g[i - 1] = f[i - 1] PROVE i \in T
    <3>1. i \in 1..(n + 1)
      BY <1>1
    <3> QED
      BY <1>1, <1>4, <1>5, <2>1, <3>1
  <2>2. n >= 1 => 1 \in T
    <3>1. n >= 1 => 1 \in 1..n /\ 1 - 1 = 0
      BY <1>1
    <3> HIDE DEF T
    <3> QED
      BY <1>4, <1>5, <2>1, <3>1
  <2>3. ASSUME NEW i \in 1..n, i \in T, i # n PROVE i + 1 \in T
    <3>1. i + 1 \in 1..n /\ (i + 1) - 1 = i /\ g[i] = f[i]
      BY <1>1, <2>3
    <3> HIDE DEF T
    <3> QED
      BY <2>1, <3>1
  <2>4. \A i \in 1..n : i \in T
    <3> HIDE DEF T
    <3> QED
      BY <1>1, <2>2, <2>3, InductionTo
  <2>5. n = 0 \/ n \in 1..n
    BY <1>1
  <2> QED
    BY <1>4, <1>5, <2>4, <2>5
<1>7. n + 1 \in 1..(n + 1) /\ (n + 1) - 1 = n /\ n \in 0..n
  BY <1>1
<1>8. ReadOptions(t) = WithenvOption(f[n], w)
  BY <1>1, <1>5, <1>6, <1>7
<1> QED
  BY <1>4, <1>7, <1>8 DEF t

(***************************************************************************)
(* An environment with the packages of "list" behind its own, and the      *)
(* packages' directory when it has none.                                   *)
(***************************************************************************)
Joined(e, list) == [e EXCEPT !.dir = IF @ = {} THEN {packagedir} ELSE @,
                             !.packages = @ \o list]

\* Environments are their fields.
LEMMA SameEnvironment ==
  ASSUME NEW e \in Environments, NEW f \in Environments,
         e.expects = f.expects, e.ended = f.ended, e.bad = f.bad, e.dir = f.dir,
         e.work = f.work, e.cwd = f.cwd, e.packages = f.packages, e.mounts = f.mounts,
         e.cmd = f.cmd
  PROVE  e = f
<1> DEFINE Fields == {"expects", "ended", "bad", "dir", "work", "cwd", "packages", "mounts", "cmd"}
<1> HIDE DEF GivenPackage, GivenMount, Words
<1>1. ASSUME NEW x \in Environments PROVE x = [k \in Fields |-> x[k]]
  BY DEF Environments
<1>2. \A k \in Fields : e[k] = f[k]
  OBVIOUS
<1> HIDE DEF Fields
<1>3. [k \in Fields |-> e[k]] = [k \in Fields |-> f[k]]
  BY <1>2
<1>4. e = [k \in Fields |-> e[k]] /\ f = [k \in Fields |-> f[k]]
  BY <1>1
<1> QED
  BY <1>3, <1>4, Zenon

DirOr(dir) == IF dir = {} THEN {packagedir} ELSE dir

LEMMA JoinedFields ==
  ASSUME NEW e \in Environments, NEW list \in Seq(GivenPackage), packagedir \in Words
  PROVE  LET j == Joined(e, list) IN
         /\ j \in Environments
         /\ j.expects = e.expects /\ j.ended = e.ended /\ j.bad = e.bad
         /\ j.dir = DirOr(e.dir) /\ j.work = e.work /\ j.cwd = e.cwd
         /\ j.packages = e.packages \o list /\ j.mounts = e.mounts /\ j.cmd = e.cmd
<1> HIDE DEF GivenPackage, GivenMount, Words
<1>1. e.packages \in Seq(GivenPackage)
  BY DEF Environments
<1>2. e.packages \o list \in Seq(GivenPackage)
  BY <1>1, ConcatProperties
<1> DEFINE all == e.packages \o list
<1>3. DirOr(e.dir) \in SUBSET Words
  BY DEF Environments, DirOr
<1>4. Joined(e, list) = [e EXCEPT !.dir = DirOr(e.dir), !.packages = all]
  BY DEF Joined, DirOr
<1> HIDE DEF all
<1>5. LET j == Joined(e, list) IN
      /\ j \in Environments
      /\ j.expects = e.expects /\ j.ended = e.ended /\ j.bad = e.bad
      /\ j.dir = DirOr(e.dir) /\ j.work = e.work /\ j.cwd = e.cwd
      /\ j.packages = all /\ j.mounts = e.mounts /\ j.cmd = e.cmd
  BY <1>2, <1>3, <1>4 DEF Environments, all
<1> QED
  BY <1>5 DEF all

\* What an option's value changes, and what it leaves as it is.
LEMMA ValueFields ==
  ASSUME NEW e \in Environments, NEW option, NEW value \in Words
  PROVE  LET f == WithenvValue(e, option, value) IN
         /\ f.expects = "" /\ f.ended = e.ended /\ f.cmd = e.cmd
         /\ f.dir = IF option = "-d" THEN {value} ELSE e.dir
         /\ f.work = IF option = "-w" THEN {value} ELSE e.work
         /\ f.cwd = IF option = "-c" THEN {value} ELSE e.cwd
         /\ f.packages = IF option = "-p" /\ FirstOf(value, ",") # 0
                         THEN <<PackageOf(value)>> \o e.packages ELSE e.packages
         /\ f.mounts = IF option = "-m" /\ IsMount(value)
                       THEN <<MountOf(value)>> \o e.mounts ELSE e.mounts
         /\ f.bad = IF \/ option \in {"-c", "-d", "-w"}
                       \/ option = "-p" /\ FirstOf(value, ",") # 0
                       \/ option = "-m" /\ IsMount(value)
                    THEN e.bad ELSE TRUE
<1> DEFINE f == WithenvValue(e, option, value)
           isPackage == FirstOf(value, ",") # 0
           isMount == IsMount(value)
           one == <<PackageOf(value)>>
           mount == <<MountOf(value)>>
<1>1. f = CASE option = "-d" -> [e EXCEPT !.dir = {value}, !.expects = ""]
            [] option = "-w" -> [e EXCEPT !.work = {value}, !.expects = ""]
            [] option = "-c" -> [e EXCEPT !.cwd = {value}, !.expects = ""]
            [] option = "-p" /\ isPackage ->
                  [e EXCEPT !.packages = one \o @, !.expects = ""]
            [] option = "-m" /\ isMount ->
                  [e EXCEPT !.mounts = mount \o @, !.expects = ""]
            [] OTHER -> [e EXCEPT !.bad = TRUE, !.expects = ""]
  BY DEF WithenvValue
<1> HIDE DEF f, isPackage, isMount, one, mount, GivenPackage, GivenMount, Words
<1> DEFINE Good ==
             /\ f.expects = "" /\ f.ended = e.ended /\ f.cmd = e.cmd
             /\ f.dir = IF option = "-d" THEN {value} ELSE e.dir
             /\ f.work = IF option = "-w" THEN {value} ELSE e.work
             /\ f.cwd = IF option = "-c" THEN {value} ELSE e.cwd
             /\ f.packages = IF option = "-p" /\ isPackage THEN one \o e.packages
                             ELSE e.packages
             /\ f.mounts = IF option = "-m" /\ isMount THEN mount \o e.mounts
                           ELSE e.mounts
             /\ f.bad = IF \/ option \in {"-c", "-d", "-w"}
                           \/ option = "-p" /\ isPackage
                           \/ option = "-m" /\ isMount
                        THEN e.bad ELSE TRUE
<1>2. ASSUME option = "-d" PROVE Good
  <2>1. f = [e EXCEPT !.dir = {value}, !.expects = ""]
    BY <1>1, <1>2
  <2> QED
    BY <1>2, <2>1 DEF Environments
<1>3. ASSUME option = "-w" PROVE Good
  <2>1. f = [e EXCEPT !.work = {value}, !.expects = ""]
    BY <1>1, <1>3
  <2> QED
    BY <1>3, <2>1 DEF Environments
<1>4. ASSUME option = "-c" PROVE Good
  <2>1. f = [e EXCEPT !.cwd = {value}, !.expects = ""]
    BY <1>1, <1>4
  <2> QED
    BY <1>4, <2>1 DEF Environments
<1>5. ASSUME option = "-p" /\ isPackage PROVE Good
  <2>1. f = [e EXCEPT !.packages = one \o @, !.expects = ""]
    BY <1>1, <1>5
  <2> QED
    BY <1>5, <2>1 DEF Environments
<1>6. ASSUME option = "-m" /\ isMount PROVE Good
  <2>1. f = [e EXCEPT !.mounts = mount \o @, !.expects = ""]
    BY <1>1, <1>6
  <2> QED
    BY <1>6, <2>1 DEF Environments
<1>7. ASSUME option # "-d", option # "-w", option # "-c",
             ~(option = "-p" /\ isPackage), ~(option = "-m" /\ isMount)
      PROVE  Good
  <2>1. f = [e EXCEPT !.bad = TRUE, !.expects = ""]
    BY <1>1, <1>7
  <2>2. /\ f.expects = "" /\ f.ended = e.ended /\ f.cmd = e.cmd /\ f.dir = e.dir
        /\ f.work = e.work /\ f.cwd = e.cwd /\ f.packages = e.packages
        /\ f.mounts = e.mounts /\ f.bad = TRUE
    BY <2>1 DEF Environments
  <2> QED
    BY <1>7, <2>2
<1>8. Good
  <2>1. \/ option = "-d"
        \/ option = "-w"
        \/ option = "-c"
        \/ option = "-p" /\ isPackage
        \/ option = "-m" /\ isMount
        \/ /\ option # "-d" /\ option # "-w" /\ option # "-c"
           /\ ~(option = "-p" /\ isPackage) /\ ~(option = "-m" /\ isMount)
    OBVIOUS
  <2> HIDE DEF Good
  <2> QED
    BY <1>2, <1>3, <1>4, <1>5, <1>6, <1>7, <2>1
<1> QED
  BY <1>8 DEF f, isPackage, isMount, one, mount

LEMMA JoinedValue ==
  ASSUME NEW e \in Environments, NEW list \in Seq(GivenPackage), packagedir \in Words,
         NEW option, NEW value \in Words
  PROVE  WithenvValue(Joined(e, list), option, value)
           = Joined(WithenvValue(e, option, value), list)
<1> DEFINE j == Joined(e, list)
           one == <<PackageOf(value)>>
           mount == <<MountOf(value)>>
           isPackage == FirstOf(value, ",") # 0
           isMount == IsMount(value)
           f == WithenvValue(j, option, value)
           g == WithenvValue(e, option, value)
           h == Joined(g, list)
<1>1. one \in Seq(GivenPackage)
  <2>1. PackageOf(value) \in GivenPackage
    BY GivenTyped
  <2> HIDE DEF GivenPackage
  <2> QED
    BY <2>1
<1>2. one \o (e.packages \o list) = (one \o e.packages) \o list
  <2> HIDE DEF one, GivenPackage, GivenMount, Words
  <2>1. e.packages \in Seq(GivenPackage)
    BY DEF Environments
  <2> DEFINE own == e.packages
  <2> HIDE DEF own
  <2>2. one \o (own \o list) = (one \o own) \o list
    <3>1. own \in Seq(GivenPackage)
      BY <2>1 DEF own
    <3> QED
      BY <1>1, <3>1, ConcatAssociative
  <2> QED
    BY <2>2, Zenon DEF own
<1>3. f \in Environments /\ g \in Environments /\ j \in Environments /\ h \in Environments
  <2>1. j \in Environments
    BY JoinedFields
  <2> HIDE DEF j
  <2>2. f \in Environments /\ g \in Environments
    BY <2>1, ValueTyped
  <2> HIDE DEF f, g
  <2> QED
    BY <2>1, <2>2, JoinedFields
<1>4. /\ j.expects = e.expects /\ j.ended = e.ended /\ j.bad = e.bad
      /\ j.dir = DirOr(e.dir) /\ j.work = e.work /\ j.cwd = e.cwd
      /\ j.packages = e.packages \o list /\ j.mounts = e.mounts /\ j.cmd = e.cmd
  BY JoinedFields
<1>5. /\ h.expects = g.expects /\ h.ended = g.ended /\ h.bad = g.bad
      /\ h.dir = DirOr(g.dir) /\ h.work = g.work /\ h.cwd = g.cwd
      /\ h.packages = g.packages \o list /\ h.mounts = g.mounts /\ h.cmd = g.cmd
  <2> HIDE DEF g
  <2> QED
    BY <1>3, JoinedFields
<1>6. ASSUME NEW x \in Environments
      PROVE  LET y == WithenvValue(x, option, value) IN
             /\ y.expects = "" /\ y.ended = x.ended /\ y.cmd = x.cmd
             /\ y.dir = IF option = "-d" THEN {value} ELSE x.dir
             /\ y.work = IF option = "-w" THEN {value} ELSE x.work
             /\ y.cwd = IF option = "-c" THEN {value} ELSE x.cwd
             /\ y.packages = IF option = "-p" /\ isPackage THEN one \o x.packages
                             ELSE x.packages
             /\ y.mounts = IF option = "-m" /\ isMount THEN mount \o x.mounts
                           ELSE x.mounts
             /\ y.bad = IF \/ option \in {"-c", "-d", "-w"}
                           \/ option = "-p" /\ isPackage
                           \/ option = "-m" /\ isMount
                        THEN x.bad ELSE TRUE
  BY ValueFields
<1>7. DirOr({value}) = {value}
  BY DEF DirOr
<1> HIDE DEF isPackage, isMount, one, mount, GivenPackage, GivenMount, Words
<1>10. /\ f.expects = "" /\ f.ended = j.ended /\ f.cmd = j.cmd
       /\ f.dir = IF option = "-d" THEN {value} ELSE j.dir
       /\ f.work = IF option = "-w" THEN {value} ELSE j.work
       /\ f.cwd = IF option = "-c" THEN {value} ELSE j.cwd
       /\ f.packages = IF option = "-p" /\ isPackage THEN one \o j.packages ELSE j.packages
       /\ f.mounts = IF option = "-m" /\ isMount THEN mount \o j.mounts ELSE j.mounts
       /\ f.bad = IF \/ option \in {"-c", "-d", "-w"}
                     \/ option = "-p" /\ isPackage
                     \/ option = "-m" /\ isMount
                  THEN j.bad ELSE TRUE
  <2> HIDE DEF j
  <2> QED
    BY <1>3, <1>6
<1>11. /\ g.expects = "" /\ g.ended = e.ended /\ g.cmd = e.cmd
       /\ g.dir = IF option = "-d" THEN {value} ELSE e.dir
       /\ g.work = IF option = "-w" THEN {value} ELSE e.work
       /\ g.cwd = IF option = "-c" THEN {value} ELSE e.cwd
       /\ g.packages = IF option = "-p" /\ isPackage THEN one \o e.packages ELSE e.packages
       /\ g.mounts = IF option = "-m" /\ isMount THEN mount \o e.mounts ELSE e.mounts
       /\ g.bad = IF \/ option \in {"-c", "-d", "-w"}
                     \/ option = "-p" /\ isPackage
                     \/ option = "-m" /\ isMount
                  THEN e.bad ELSE TRUE
  BY <1>6
<1> HIDE DEF j, f, g, h, DirOr
<1>8. /\ f.expects = h.expects /\ f.ended = h.ended /\ f.bad = h.bad /\ f.dir = h.dir
      /\ f.work = h.work /\ f.cwd = h.cwd /\ f.packages = h.packages
      /\ f.mounts = h.mounts /\ f.cmd = h.cmd
  BY <1>2, <1>4, <1>5, <1>7, <1>10, <1>11
<1>9. f = h
  BY <1>3, <1>8, SameEnvironment
<1> QED
  BY <1>9 DEF f, g, h, j

(***************************************************************************)
(* Packages put behind those of the arguments read so far stay there, and  *)
(* the rest of the arguments is read as it would be without them.          *)
(***************************************************************************)
LEMMA JoinedArgument ==
  ASSUME NEW e \in Environments, NEW list \in Seq(GivenPackage), packagedir \in Words,
         NEW arg \in Words
  PROVE  WithenvOption(Joined(e, list), arg) = Joined(WithenvOption(e, arg), list)
<1> DEFINE j == Joined(e, list)
           f == WithenvOption(j, arg)
           g == WithenvOption(e, arg)
           h == Joined(g, list)
<1>1. /\ j \in Environments
      /\ j.expects = e.expects /\ j.ended = e.ended /\ j.bad = e.bad
      /\ j.dir = DirOr(e.dir) /\ j.work = e.work /\ j.cwd = e.cwd
      /\ j.packages = e.packages \o list /\ j.mounts = e.mounts /\ j.cmd = e.cmd
  BY JoinedFields
<1>2. /\ WithenvValue(j, e.expects, arg) = Joined(WithenvValue(e, e.expects, arg), list)
      /\ IsOption(arg) => WithenvValue(j, arg[1], Tail(arg))
                            = Joined(WithenvValue(e, arg[1], Tail(arg)), list)
  <2>1. IsOption(arg) => Tail(arg) \in Words
    BY HeadAndTail DEF IsOption, Words
  <2> QED
    BY <2>1, JoinedValue
<1> HIDE DEF j
<1>3. f \in Environments /\ g \in Environments
  BY <1>1, WithenvOptionTyped
<1>4. /\ h \in Environments
      /\ h.expects = g.expects /\ h.ended = g.ended /\ h.bad = g.bad
      /\ h.dir = DirOr(g.dir) /\ h.work = g.work /\ h.cwd = g.cwd
      /\ h.packages = g.packages \o list /\ h.mounts = g.mounts /\ h.cmd = g.cmd
  <2> HIDE DEF g
  <2> QED
    BY <1>3, JoinedFields
<1>5. ASSUME \/ f = j /\ g = e
             \/ f = WithenvValue(j, e.expects, arg) /\ g = WithenvValue(e, e.expects, arg)
             \/ /\ IsOption(arg) /\ f = WithenvValue(j, arg[1], Tail(arg))
                /\ g = WithenvValue(e, arg[1], Tail(arg))
      PROVE  f = h
  <2> HIDE DEF f, g
  <2> QED
    BY <1>2, <1>5 DEF j
<1> HIDE DEF j, f, g, h, DirOr, GivenPackage, GivenMount, Words
<1> DEFINE Alike == /\ f.expects = g.expects /\ f.ended = g.ended /\ f.bad = g.bad
                    /\ f.cmd = g.cmd /\ f.dir = j.dir /\ g.dir = e.dir
                    /\ f.work = j.work /\ g.work = e.work /\ f.cwd = j.cwd /\ g.cwd = e.cwd
                    /\ f.mounts = j.mounts /\ g.mounts = e.mounts
                    /\ f.packages = j.packages /\ g.packages = e.packages
<1>10. ASSUME Alike PROVE f = h
  <2>1. /\ f.expects = h.expects /\ f.ended = h.ended /\ f.bad = h.bad /\ f.dir = h.dir
        /\ f.work = h.work /\ f.cwd = h.cwd /\ f.packages = h.packages
        /\ f.mounts = h.mounts /\ f.cmd = h.cmd
    BY <1>1, <1>4, <1>10
  <2> QED
    BY <1>3, <1>4, <2>1, SameEnvironment
<1>11. ASSUME f = [j EXCEPT !.cmd = Append(@, arg)], g = [e EXCEPT !.cmd = Append(@, arg)]
       PROVE  f = h
  <2>1. /\ f.expects = j.expects /\ f.ended = j.ended /\ f.bad = j.bad
        /\ f.dir = j.dir /\ f.work = j.work /\ f.cwd = j.cwd
        /\ f.packages = j.packages /\ f.mounts = j.mounts /\ f.cmd = Append(j.cmd, arg)
    BY <1>1, <1>11 DEF Environments
  <2>2. /\ g.expects = e.expects /\ g.ended = e.ended /\ g.bad = e.bad
        /\ g.dir = e.dir /\ g.work = e.work /\ g.cwd = e.cwd
        /\ g.packages = e.packages /\ g.mounts = e.mounts /\ g.cmd = Append(e.cmd, arg)
    BY <1>1, <1>11 DEF Environments
  <2>3. Alike
    BY <1>1, <2>1, <2>2
  <2> HIDE DEF Alike
  <2> QED
    BY <1>10, <2>3
<1>12. ASSUME f = [j EXCEPT !.ended = TRUE, !.cmd = <<arg>>], g = [e EXCEPT !.ended = TRUE, !.cmd = <<arg>>]
       PROVE  f = h
  <2>1. /\ f.expects = j.expects /\ f.ended = TRUE /\ f.bad = j.bad
        /\ f.dir = j.dir /\ f.work = j.work /\ f.cwd = j.cwd
        /\ f.packages = j.packages /\ f.mounts = j.mounts /\ f.cmd = <<arg>>
    BY <1>1, <1>12 DEF Environments
  <2>2. /\ g.expects = e.expects /\ g.ended = TRUE /\ g.bad = e.bad
        /\ g.dir = e.dir /\ g.work = e.work /\ g.cwd = e.cwd
        /\ g.packages = e.packages /\ g.mounts = e.mounts /\ g.cmd = <<arg>>
    BY <1>1, <1>12 DEF Environments
  <2>3. Alike
    BY <1>1, <2>1, <2>2
  <2> HIDE DEF Alike
  <2> QED
    BY <1>10, <2>3
<1>13. ASSUME f = [j EXCEPT !.ended = TRUE], g = [e EXCEPT !.ended = TRUE]
       PROVE  f = h
  <2>1. /\ f.expects = j.expects /\ f.ended = TRUE /\ f.bad = j.bad
        /\ f.dir = j.dir /\ f.work = j.work /\ f.cwd = j.cwd
        /\ f.packages = j.packages /\ f.mounts = j.mounts /\ f.cmd = j.cmd
    BY <1>1, <1>13 DEF Environments
  <2>2. /\ g.expects = e.expects /\ g.ended = TRUE /\ g.bad = e.bad
        /\ g.dir = e.dir /\ g.work = e.work /\ g.cwd = e.cwd
        /\ g.packages = e.packages /\ g.mounts = e.mounts /\ g.cmd = e.cmd
    BY <1>1, <1>13 DEF Environments
  <2>3. Alike
    BY <1>1, <2>1, <2>2
  <2> HIDE DEF Alike
  <2> QED
    BY <1>10, <2>3
<1>14. ASSUME f = [j EXCEPT !.bad = TRUE], g = [e EXCEPT !.bad = TRUE]
       PROVE  f = h
  <2>1. /\ f.expects = j.expects /\ f.ended = j.ended /\ f.bad = TRUE
        /\ f.dir = j.dir /\ f.work = j.work /\ f.cwd = j.cwd
        /\ f.packages = j.packages /\ f.mounts = j.mounts /\ f.cmd = j.cmd
    BY <1>1, <1>14 DEF Environments
  <2>2. /\ g.expects = e.expects /\ g.ended = e.ended /\ g.bad = TRUE
        /\ g.dir = e.dir /\ g.work = e.work /\ g.cwd = e.cwd
        /\ g.packages = e.packages /\ g.mounts = e.mounts /\ g.cmd = e.cmd
    BY <1>1, <1>14 DEF Environments
  <2>3. Alike
    BY <1>1, <2>1, <2>2
  <2> HIDE DEF Alike
  <2> QED
    BY <1>10, <2>3
<1>15. ASSUME f = [j EXCEPT !.expects = arg[1]], g = [e EXCEPT !.expects = arg[1]]
       PROVE  f = h
  <2>1. /\ f.expects = arg[1] /\ f.ended = j.ended /\ f.bad = j.bad
        /\ f.dir = j.dir /\ f.work = j.work /\ f.cwd = j.cwd
        /\ f.packages = j.packages /\ f.mounts = j.mounts /\ f.cmd = j.cmd
    BY <1>1, <1>15 DEF Environments
  <2>2. /\ g.expects = arg[1] /\ g.ended = e.ended /\ g.bad = e.bad
        /\ g.dir = e.dir /\ g.work = e.work /\ g.cwd = e.cwd
        /\ g.packages = e.packages /\ g.mounts = e.mounts /\ g.cmd = e.cmd
    BY <1>1, <1>15 DEF Environments
  <2>3. Alike
    BY <1>1, <2>1, <2>2
  <2> HIDE DEF Alike
  <2> QED
    BY <1>10, <2>3
<1>16. f = h
  <2>1. \/ f = j /\ g = e
        \/ f = WithenvValue(j, e.expects, arg) /\ g = WithenvValue(e, e.expects, arg)
        \/ /\ IsOption(arg) /\ f = WithenvValue(j, arg[1], Tail(arg))
           /\ g = WithenvValue(e, arg[1], Tail(arg))
        \/ f = [j EXCEPT !.cmd = Append(@, arg)] /\ g = [e EXCEPT !.cmd = Append(@, arg)]
        \/ /\ f = [j EXCEPT !.ended = TRUE, !.cmd = <<arg>>]
           /\ g = [e EXCEPT !.ended = TRUE, !.cmd = <<arg>>]
        \/ f = [j EXCEPT !.ended = TRUE] /\ g = [e EXCEPT !.ended = TRUE]
        \/ f = [j EXCEPT !.bad = TRUE] /\ g = [e EXCEPT !.bad = TRUE]
        \/ f = [j EXCEPT !.expects = arg[1]] /\ g = [e EXCEPT !.expects = arg[1]]
    BY <1>1 DEF WithenvOption, f, g
  <2> QED
    BY <1>5, <1>11, <1>12, <1>13, <1>14, <1>15, <2>1
<1> QED
  BY <1>16 DEF f, g, h, j

(***************************************************************************)
(* Versions that were chosen are versions of the repository, and have text.*)
(***************************************************************************)
LEMMA ChosenVersions ==
  ASSUME WithInv, packagedir \in DOMAIN disk, solved = 1, NEW n \in 1..Len(packages)
  PROVE  /\ packages[n].name \in DOMAIN Repository
         /\ packages[n].name \in Words
         /\ packages[n].chosen.version \in Words
<1>1. /\ packages[n] \in Package
      /\ packages[n].chosen = packages[n].available[1]
      /\ 1 \in DOMAIN packages[n].available
      /\ n \in DOMAIN packages
  BY AllAreResults, ListType DEF WithInv, SolveInv
<1>2. /\ packages[n].name \in DOMAIN Repository
      /\ packages[n].chosen.version \in ReadableVersions(packages[n].name)
  BY <1>1 DEF WithInv, OffersTrue, InRepository
<1>3. packages[n].chosen.version \in Word
  BY <1>2 DEF WithInv, OptionsTyped, IsScenario, Repository, ReadableVersions
<1>4. packages[n].name \in Names
  BY <1>1 DEF Package
<1> QED
  BY <1>2, <1>3, <1>4, NamesAreWords

(***************************************************************************)
(* The argv that build_args builds, argument for argument.                 *)
(***************************************************************************)
LEMMA ArgvParts ==
  ASSUME WithInv, packagedir \in DOMAIN disk, solved = 1, PlainNames
  PROVE  /\ build_args \in Seq(Words)
         /\ packagedir \in Words /\ opts.rest \in Seq(Words)
         /\ Len(packages) \in Nat /\ Len(opts.rest) \in Nat
         /\ Len(build_args) = 2 + 2 * Len(packages) + Len(opts.rest)
         /\ build_args[1] = <<"-d">> /\ build_args[2] = packagedir
         /\ \A n \in 1..Len(packages) :
              /\ build_args[2 * n + 1] = <<"-p">>
              /\ build_args[2 * n + 2] = Pair(packages[n].name, packages[n].chosen.version)
         /\ \A n \in 1..Len(opts.rest) :
              build_args[2 + 2 * Len(packages) + n] = opts.rest[n]
<1> DEFINE N == Len(packages)
           L == Len(opts.rest)
           a == <<<<"-d">>, packagedir>>
           pairs == [n \in 1..N |-> <<<<"-p">>, Pair(packages[n].name,
                                                   packages[n].chosen.version)>>]
           b == FlattenSeq(pairs)
           c == opts.rest
<1>1. /\ N \in Nat /\ L \in Nat
      /\ c \in Seq(Words) /\ packagedir \in Words
  <2>1. opts.rest \in Seq(Names) /\ opts.dir \in Words
    BY DEF WithInv, OptionsTyped, Options
  <2>2. Names \subseteq Words
    BY NamesAreWords
  <2> HIDE DEF Words
  <2>3. opts.rest \in Seq(Words)
    BY <2>1, <2>2, SeqMonotonic
  <2> QED
    BY <2>1, <2>3, AllAreResults, LenProperties DEF WithInv, packagedir
<1>2. build_args = (a \o b) \o c
  <2>1. ResultPackages = [n \in 1..N |-> packages[n]]
    BY AllAreResults DEF WithInv
  <2>2. [n \in DOMAIN ResultPackages |->
            <<<<"-p">>, Pair(ResultPackages[n].name, ResultPackages[n].chosen.version)>>]
          = pairs
    BY <2>1
  <2> QED
    BY <1>1, <2>2 DEF build_args
<1>3. <<"-d">> \in Words /\ <<"-p">> \in Words
  BY DEF Words, Text, Dashed
<1>4. \A n \in 1..N : Pair(packages[n].name, packages[n].chosen.version) \in Words
  <2> SUFFICES ASSUME NEW n \in 1..N
               PROVE  Pair(packages[n].name, packages[n].chosen.version) \in Words
    OBVIOUS
  <2>1. /\ packages[n].name \in DOMAIN Repository /\ packages[n].name \in Words
        /\ packages[n].chosen.version \in Words
    BY ChosenVersions
  <2>2. FirstOf(packages[n].name, ",") = 0
    BY <2>1, Zenon DEF PlainNames
  <2> HIDE DEF Words
  <2> QED
    BY <2>1, <2>2, PairsComeApart, Zenon
<1> HIDE DEF Words
<1>5. a \in Seq(Words) /\ Len(a) = 2 /\ a[1] = <<"-d">> /\ a[2] = packagedir
  BY <1>1, <1>3
<1>6. /\ b \in Seq(Words) /\ Len(b) = 2 * N
      /\ \A n \in 1..N : /\ b[2 * n - 1] = <<"-p">>
                         /\ b[2 * n] = Pair(packages[n].name, packages[n].chosen.version)
  <2>1. \A n \in 1..N :
          <<<<"-p">>, Pair(packages[n].name, packages[n].chosen.version)>> \in Seq(Words)
    BY <1>3, <1>4
  <2>2. /\ pairs \in Seq(Seq(Words)) /\ Len(pairs) = N
        /\ \A n \in 1..N : /\ Len(pairs[n]) = 2
                           /\ pairs[n][1] = <<"-p">>
                           /\ pairs[n][2] = Pair(packages[n].name, packages[n].chosen.version)
    BY <1>1, <2>1
  <2> HIDE DEF pairs
  <2>3. \A n \in 1..Len(pairs) : Len(pairs[n]) = 2
    BY <2>2
  <2>4. /\ b \in Seq(Words) /\ Len(b) = 2 * Len(pairs)
        /\ \A n \in 1..Len(pairs) : b[2 * n - 1] = pairs[n][1] /\ b[2 * n] = pairs[n][2]
    BY <2>2, <2>3, FlattenPairs
  <2> HIDE DEF b
  <2> QED
    BY <2>2, <2>4
<1> HIDE DEF a, b, c, N, L
<1>7. /\ a \o b \in Seq(Words) /\ Len(a \o b) = 2 + 2 * N
      /\ (a \o b)[1] = <<"-d">> /\ (a \o b)[2] = packagedir
      /\ \A i \in 1..(2 * N) : (a \o b)[2 + i] = b[i]
  <2>1. /\ a \o b \in Seq(Words) /\ Len(a \o b) = Len(a) + Len(b)
        /\ \A i \in 1..(Len(a) + Len(b)) :
             (a \o b)[i] = IF i <= Len(a) THEN a[i] ELSE b[i - Len(a)]
    BY <1>5, <1>6, ConcatProperties
  <2> QED
    BY <1>1, <1>5, <1>6, <2>1
<1>8. /\ (a \o b) \o c \in Seq(Words) /\ Len((a \o b) \o c) = 2 + 2 * N + L
      /\ \A i \in 1..(2 + 2 * N) : ((a \o b) \o c)[i] = (a \o b)[i]
      /\ \A i \in 1..L : ((a \o b) \o c)[2 + 2 * N + i] = c[i]
  <2> DEFINE d == a \o b
  <2>1. d \in Seq(Words) /\ Len(d) = 2 + 2 * N /\ Len(c) = L
    BY <1>7 DEF c, L
  <2> HIDE DEF d
  <2>2. /\ d \o c \in Seq(Words) /\ Len(d \o c) = Len(d) + Len(c)
        /\ \A i \in 1..(Len(d) + Len(c)) :
             (d \o c)[i] = IF i <= Len(d) THEN d[i] ELSE c[i - Len(d)]
    BY <1>1, <2>1, ConcatProperties
  <2>3. /\ d \o c \in Seq(Words) /\ Len(d \o c) = 2 + 2 * N + L
        /\ \A i \in 1..(2 + 2 * N) : (d \o c)[i] = d[i]
        /\ \A i \in 1..L : (d \o c)[2 + 2 * N + i] = c[i]
    BY <1>1, <2>1, <2>2
  <2> QED
    BY <2>3 DEF d
<1>9. \A n \in 1..N : /\ 2 + (2 * n - 1) = 2 * n + 1 /\ 2 + 2 * n = 2 * n + 2
                      /\ 2 * n - 1 \in 1..(2 * N) /\ 2 * n \in 1..(2 * N)
                      /\ 2 * n + 1 \in 1..(2 + 2 * N) /\ 2 * n + 2 \in 1..(2 + 2 * N)
  BY <1>1
<1>10. \A n \in 1..N :
         /\ build_args[2 * n + 1] = <<"-p">>
         /\ build_args[2 * n + 2] = Pair(packages[n].name, packages[n].chosen.version)
  <2> SUFFICES ASSUME NEW n \in 1..N
               PROVE  /\ build_args[2 * n + 1] = <<"-p">>
                      /\ build_args[2 * n + 2]
                           = Pair(packages[n].name, packages[n].chosen.version)
    OBVIOUS
  <2>1. (a \o b)[2 * n + 1] = b[2 * n - 1] /\ (a \o b)[2 * n + 2] = b[2 * n]
    BY <1>7, <1>9
  <2> QED
    BY <1>2, <1>6, <1>8, <1>9, <2>1
<1>11. build_args[1] = <<"-d">> /\ build_args[2] = packagedir
  <2>1. 1 \in 1..(2 + 2 * N) /\ 2 \in 1..(2 + 2 * N)
    BY <1>1
  <2> QED
    BY <1>2, <1>7, <1>8, <2>1
<1> QED
  BY <1>1, <1>2, <1>8, <1>10, <1>11 DEF N, L, c

\* The first n packages as withenv has them: the last one given is the first one.
Chosens(n) == [k \in 1..n |-> Chosen(packages[n + 1 - k])]

LEMMA ChosensTyped ==
  ASSUME WithInv, packagedir \in DOMAIN disk, solved = 1, NEW n \in 0..Len(packages)
  PROVE  Chosens(n) \in Seq(GivenPackage) /\ Len(Chosens(n)) = n
<1>1. Len(packages) \in Nat
  BY AllAreResults DEF WithInv
<1>2. \A k \in 1..Len(packages) : Chosen(packages[k]) \in GivenPackage
  BY ChosenVersions DEF Chosen, GivenPackage
<1>3. \A k \in 1..n : n + 1 - k \in 1..Len(packages)
  BY <1>1
<1> HIDE DEF GivenPackage
<1> QED
  BY <1>1, <1>2, <1>3 DEF Chosens

\* What withenv has read when it is through with n of the packages.
ReadUpTo(e, n) ==
    /\ e \in Environments
    /\ e.expects = "" /\ e.ended = FALSE /\ e.bad = FALSE /\ e.dir = {packagedir}
    /\ e.work = {} /\ e.cwd = {} /\ e.packages = Chosens(n) /\ e.mounts = <<>> /\ e.cmd = <<>>

LEMMA DirectoryGiven ==
  ASSUME NEW e, NEW value
  PROVE  WithenvValue(e, "-d", value) = [e EXCEPT !.dir = {value}, !.expects = ""]
BY DEF WithenvValue

LEMMA PackageGiven ==
  ASSUME NEW e, NEW value, FirstOf(value, ",") # 0
  PROVE  WithenvValue(e, "-p", value)
           = [e EXCEPT !.packages = <<PackageOf(value)>> \o @, !.expects = ""]
<1> DEFINE isPackage == FirstOf(value, ",") # 0
           one == <<PackageOf(value)>>
<1> DEFINE f == WithenvValue(e, "-p", value)
           isMount == IsMount(value)
           mount == <<MountOf(value)>>
           option == "-p"
<1>1. f = CASE option = "-d" -> [e EXCEPT !.dir = {value}, !.expects = ""]
            [] option = "-w" -> [e EXCEPT !.work = {value}, !.expects = ""]
            [] option = "-c" -> [e EXCEPT !.cwd = {value}, !.expects = ""]
            [] option = "-p" /\ isPackage ->
                  [e EXCEPT !.packages = one \o @, !.expects = ""]
            [] option = "-m" /\ isMount ->
                  [e EXCEPT !.mounts = mount \o @, !.expects = ""]
            [] OTHER -> [e EXCEPT !.bad = TRUE, !.expects = ""]
  BY DEF WithenvValue
<1>2. isPackage
  OBVIOUS
<1> HIDE DEF isPackage, one, f, isMount, mount
<1> QED
  BY <1>1, <1>2 DEF f, one

\* An option without its value, and then the value.
LEMMA OptionThenValue ==
  ASSUME NEW e \in Environments, ~e.bad, ~e.ended, e.expects = "",
         NEW option \in Known, NEW value \in Words
  PROVE  LET f == WithenvOption(e, <<option>>)
             g == WithenvOption(f, value)
         IN  /\ f = [e EXCEPT !.expects = option]
             /\ g \in Environments
             /\ g = WithenvValue(f, option, value)
<1> DEFINE arg == <<option>>
           f == WithenvOption(e, arg)
           h == [e EXCEPT !.expects = option]
<1>1. arg # <<>> /\ arg[1] = option /\ Len(arg) = 1 /\ arg[1] \in Known
      /\ arg # <<"--">> /\ arg \in Words
  <2>1. arg # <<>> /\ arg[1] = option /\ Len(arg) = 1
    OBVIOUS
  <2>2. <<"--">>[1] = "--" /\ option # "--"
    BY DEF Known
  <2>3. option \in Text
    BY Zenon DEF Known, Text, Dashed
  <2>4. arg \in Words
    <3> HIDE DEF Text
    <3>1. <<option>> \in Seq(Text)
      BY ONLY <2>3
    <3> QED
      BY <3>1 DEF Words
  <2> QED
    BY <2>1, <2>2, <2>4
<1>2. IsOption(arg)
  BY <1>1 DEF IsOption, Dashed, Known
<1> HIDE DEF arg
<1>3. f = [e EXCEPT !.expects = arg[1]]
  BY <1>1, <1>2, ArgumentCases
<1>4. f = h
  BY <1>1, <1>3
<1>5. /\ h \in Environments /\ h.expects = option /\ h.bad = e.bad /\ h.ended = e.ended
  <2> HIDE DEF Words, GivenPackage, GivenMount
  <2> QED
    BY DEF Environments, Known
<1>6. option # ""
  BY DEF Known
<1> HIDE DEF f, h
<1>7. WithenvOption(f, value) = WithenvValue(f, f.expects, value)
  BY <1>4, <1>5, <1>6, ArgumentCases
<1>8. WithenvOption(f, value) \in Environments
  BY <1>4, <1>5, WithenvOptionTyped
<1> QED
  BY <1>4, <1>5, <1>7, <1>8, Zenon DEF f, h, arg

(***************************************************************************)
(* withenv reads the options it is given back as the list of packages that *)
(* was solved.                                                             *)
(***************************************************************************)
LEMMA PackagesReadBack ==
  ASSUME WithInv, packagedir \in DOMAIN disk, solved = 1, PlainNames,
         NEW read, Reads(read, build_args)
  PROVE  ReadUpTo(read[2 + 2 * Len(packages)], Len(packages))
<1> DEFINE N == Len(packages)
           argv == build_args
           Here(n) == ReadUpTo(read[2 + 2 * n], n)
<1>1. /\ N \in Nat /\ Len(opts.rest) \in Nat /\ Len(argv) = 2 + 2 * N + Len(opts.rest)
      /\ packagedir \in Words
      /\ argv[1] = <<"-d">> /\ argv[2] = packagedir
      /\ \A n \in 1..N : /\ argv[2 * n + 1] = <<"-p">>
                         /\ argv[2 * n + 2] = Pair(packages[n].name, packages[n].chosen.version)
  BY ArgvParts
<1>2. /\ read[0] = NoEnvironment
      /\ \A i \in 1..Len(argv) : read[i] = WithenvOption(read[i - 1], argv[i])
  BY DEF Reads
<1> HIDE DEF argv, N, Words
<1>3. \A i \in 1..(2 + 2 * N) : i \in 1..Len(argv)
  <2> DEFINE L == Len(argv)
             R == Len(opts.rest)
  <2>1. N \in Nat /\ R \in Nat /\ L = 2 + 2 * N + R
    BY <1>1
  <2> HIDE DEF L, R
  <2>2. \A i \in 1..(2 + 2 * N) : i \in 1..L
    BY <2>1
  <2> QED
    BY <2>2 DEF L
<1>4. \A i \in 1..(2 + 2 * N) : read[i] = WithenvOption(read[i - 1], argv[i])
  BY <1>2, <1>3
<1>5. Here(0)
  <2>1. 1 \in 1..(2 + 2 * N) /\ 2 \in 1..(2 + 2 * N) /\ 1 - 1 = 0 /\ 2 - 1 = 1 /\ 2 + 2 * 0 = 2
    BY <1>1
  <2> DEFINE f == read[1]
             g == read[2]
  <2>2. f = WithenvOption(NoEnvironment, <<"-d">>) /\ g = WithenvOption(f, packagedir)
    BY <1>1, <1>2, <1>4, <2>1
  <2>3. NoEnvironment \in Environments /\ "-d" \in Known
    BY NoEnvironmentTyped DEF Known
  <2>4. ~NoEnvironment.bad /\ ~NoEnvironment.ended /\ NoEnvironment.expects = ""
    BY DEF NoEnvironment
  <2>5. /\ f = [NoEnvironment EXCEPT !.expects = "-d"]
        /\ g \in Environments /\ g = WithenvValue(f, "-d", packagedir)
    <3> HIDE DEF f, g
    <3> QED
      BY <1>1, <2>2, <2>3, <2>4, OptionThenValue, Zenon
  <2>6. /\ f \in Environments /\ f.ended = FALSE /\ f.bad = FALSE
        /\ f.work = {} /\ f.cwd = {} /\ f.packages = <<>> /\ f.mounts = <<>> /\ f.cmd = <<>>
    <3> HIDE DEF g, GivenPackage, GivenMount
    <3>1. f \in Environments
      BY <2>3, <2>5 DEF Environments
    <3> QED
      BY <2>5, <3>1 DEF NoEnvironment
  <2> HIDE DEF f, g
  <2>7. g = [f EXCEPT !.dir = {packagedir}, !.expects = ""]
    BY <2>5, DirectoryGiven
  <2>8. /\ g.expects = "" /\ g.ended = FALSE /\ g.bad = FALSE /\ g.dir = {packagedir}
        /\ g.work = {} /\ g.cwd = {} /\ g.packages = <<>> /\ g.mounts = <<>> /\ g.cmd = <<>>
    <3> HIDE DEF GivenPackage, GivenMount
    <3> QED
      BY <2>6, <2>7 DEF Environments
  <2>9. Chosens(0) = <<>>
    BY DEF Chosens
  <2>10. ReadUpTo(g, 0)
    BY <2>5, <2>8, <2>9 DEF ReadUpTo
  <2> QED
    BY <2>1, <2>10 DEF g
<1>6. ASSUME NEW n \in 1..N, Here(n - 1) PROVE Here(n)
  <2> DEFINE name == packages[n].name
             v == packages[n].chosen.version
             p == Pair(name, v)
             e == read[2 * n]
             f == read[2 * n + 1]
             g == read[2 * n + 2]
  <2>1. /\ 2 * n + 1 \in 1..(2 + 2 * N) /\ 2 * n + 2 \in 1..(2 + 2 * N)
        /\ 2 + 2 * (n - 1) = 2 * n /\ (2 * n + 1) - 1 = 2 * n
        /\ (2 * n + 2) - 1 = 2 * n + 1 /\ 2 + 2 * n = 2 * n + 2
        /\ n \in 1..Len(packages)
    BY <1>1 DEF N
  <2>2. ReadUpTo(e, n - 1)
    BY <1>6, <2>1
  <2>3. f = WithenvOption(e, <<"-p">>) /\ g = WithenvOption(f, p)
    BY <1>1, <1>4, <2>1
  <2>4. /\ p \in Words /\ FirstOf(p, ",") # 0
        /\ PackageOf(p) = Chosen(packages[n])
    <3>1. name \in DOMAIN Repository /\ name \in Words /\ v \in Words
      BY <2>1, ChosenVersions
    <3>2. FirstOf(name, ",") = 0
      BY <3>1, Zenon DEF PlainNames
    <3>3. Chosen(packages[n]) = [name |-> name, version |-> v]
      BY DEF Chosen
    <3> HIDE DEF name, v
    <3> QED
      BY <3>1, <3>2, <3>3, PairsComeApart, Zenon
  <2> HIDE DEF e, f, g, p, name, v
  <2>5. e \in Environments /\ ~e.bad /\ ~e.ended /\ e.expects = "" /\ "-p" \in Known
    BY <2>2 DEF ReadUpTo, Known
  <2>6. /\ f = [e EXCEPT !.expects = "-p"]
        /\ g \in Environments /\ g = WithenvValue(f, "-p", p)
    BY <2>3, <2>4, <2>5, OptionThenValue, Zenon
  <2>7. /\ f \in Environments /\ f.ended = FALSE /\ f.bad = FALSE /\ f.dir = {packagedir}
        /\ f.work = {} /\ f.cwd = {} /\ f.packages = Chosens(n - 1) /\ f.mounts = <<>>
        /\ f.cmd = <<>>
    <3> HIDE DEF GivenPackage, GivenMount
    <3>1. f \in Environments
      BY <2>5, <2>6 DEF Environments
    <3>2. /\ f.ended = e.ended /\ f.bad = e.bad /\ f.dir = e.dir
          /\ f.work = e.work /\ f.cwd = e.cwd /\ f.packages = e.packages
          /\ f.mounts = e.mounts /\ f.cmd = e.cmd
      BY <2>5, <2>6 DEF Environments
    <3> QED
      BY <2>2, <3>1, <3>2 DEF ReadUpTo
  <2> DEFINE one == <<PackageOf(p)>>
  <2>8. g = [f EXCEPT !.packages = one \o @, !.expects = ""]
    BY <2>4, <2>6, PackageGiven, Zenon
  <2>9. one \o Chosens(n - 1) = Chosens(n)
    <3> DEFINE m == n - 1
               u == one \o Chosens(m)
    <3>1. m \in 0..Len(packages) /\ m + 1 = n
      BY <2>1
    <3>2. Chosens(m) \in Seq(GivenPackage) /\ Len(Chosens(m)) = m
      BY <3>1, ChosensTyped
    <3>3. one \in Seq(GivenPackage) /\ Len(one) = 1 /\ one[1] = Chosen(packages[n])
      <4>1. PackageOf(p) \in GivenPackage
        BY <2>4, GivenTyped
      <4> HIDE DEF GivenPackage
      <4>2. one \in Seq(GivenPackage) /\ Len(one) = 1 /\ one[1] = PackageOf(p)
        BY <4>1
      <4> QED
        BY <2>4, <4>2, Zenon
    <3>4. /\ u \in Seq(GivenPackage) /\ Len(u) = 1 + m
          /\ \A i \in 1..(1 + m) : u[i] = IF i <= 1 THEN one[i] ELSE Chosens(m)[i - 1]
      <4> DEFINE list == Chosens(m)
      <4>1. list \in Seq(GivenPackage) /\ Len(list) = m
        BY <3>2
      <4> HIDE DEF one, list, m, GivenPackage
      <4>2. /\ one \o list \in Seq(GivenPackage) /\ Len(one \o list) = Len(one) + Len(list)
            /\ \A i \in 1..(Len(one) + Len(list)) :
                 (one \o list)[i] = IF i <= Len(one) THEN one[i] ELSE list[i - Len(one)]
        BY <3>3, <4>1, ConcatProperties
      <4>3. /\ one \o list \in Seq(GivenPackage) /\ Len(one \o list) = 1 + m
            /\ \A i \in 1..(1 + m) :
                 (one \o list)[i] = IF i <= 1 THEN one[i] ELSE list[i - 1]
        BY <3>3, <4>1, <4>2
      <4> QED
        BY <4>3, Zenon DEF list
    <3> HIDE DEF u, one, m, GivenPackage
    <3>5. \A i \in 1..m : Chosens(m)[i] = Chosen(packages[m + 1 - i])
      BY DEF Chosens
    <3>6. \A i \in 1..n : u[i] = Chosen(packages[n + 1 - i])
      <4> SUFFICES ASSUME NEW i \in 1..n PROVE u[i] = Chosen(packages[n + 1 - i])
        OBVIOUS
      <4>1. CASE i = 1
        <5>1. n + 1 - i = n /\ i \in 1..(1 + m)
          BY <2>1, <3>1, <4>1
        <5> QED
          BY <3>3, <3>4, <4>1, <5>1
      <4>2. CASE i # 1
        <5>1. i \in 1..(1 + m) /\ i - 1 \in 1..m /\ ~(i <= 1) /\ m + 1 - (i - 1) = n + 1 - i
          BY <2>1, <3>1, <4>2
        <5> QED
          BY <3>4, <3>5, <5>1
      <4> QED
        BY <4>1, <4>2
    <3>7. u = Chosens(n)
      <4>1. u = [i \in 1..n |-> u[i]]
        BY <3>1, <3>4
      <4> QED
        BY <3>6, <4>1 DEF Chosens
    <3> QED
      BY <3>7 DEF u, m
  <2>10. /\ g.expects = "" /\ g.ended = FALSE /\ g.bad = FALSE /\ g.dir = {packagedir}
         /\ g.work = {} /\ g.cwd = {} /\ g.packages = one \o Chosens(n - 1)
         /\ g.mounts = <<>> /\ g.cmd = <<>>
    <3> HIDE DEF GivenPackage, GivenMount, one
    <3> QED
      BY <2>7, <2>8 DEF Environments
  <2>11. ReadUpTo(g, n)
    BY <2>6, <2>9, <2>10 DEF ReadUpTo
  <2> QED
    BY <2>1, <2>11 DEF g
<1>7. Here(N)
  <2>1. CASE N = 0
    BY <1>5, <2>1
  <2>2. CASE N # 0
    <3> DEFINE T == {n \in 1..N : Here(n)}
    <3>1. 1 \in T
      <4>1. 1 \in 1..N /\ 1 - 1 = 0
        BY <1>1, <2>2
      <4>2. Here(1)
        <5> HIDE DEF Here
        <5> QED
          BY <1>5, <1>6, <4>1
      <4> QED
        BY <4>1, <4>2
    <3>2. ASSUME NEW n \in 1..N, n \in T, n # N PROVE n + 1 \in T
      <4>1. n + 1 \in 1..N /\ (n + 1) - 1 = n /\ Here(n)
        BY <1>1, <3>2
      <4>2. Here(n + 1)
        <5> HIDE DEF Here
        <5> QED
          BY <1>6, <4>1
      <4> QED
        BY <4>1, <4>2
    <3>3. \A n \in 1..N : n \in T
      <4> HIDE DEF T
      <4> QED
        BY <1>1, <3>1, <3>2, InductionTo
    <3> QED
      BY <1>1, <2>2, <3>3
  <2> QED
    BY <2>1, <2>2
<1> QED
  BY <1>7 DEF N

(***************************************************************************)
(* The rest of the command line is read as it would be without them.       *)
(***************************************************************************)
LEMMA RestReadBack ==
  ASSUME WithInv, packagedir \in DOMAIN disk, solved = 1, PlainNames
  PROVE  ReadOptions(build_args) = Joined(ReadOptions(opts.rest), Chosens(Len(packages)))
<1> DEFINE F == 2 + 2 * Len(packages)
           L == Len(opts.rest)
           argv == build_args
           list == Chosens(Len(packages))
           rest == opts.rest
<1>1. /\ Len(packages) \in Nat /\ L \in Nat /\ Len(argv) = F + L
      /\ argv \in Seq(Words) /\ rest \in Seq(Words) /\ packagedir \in Words
      /\ \A n \in 1..L : argv[F + n] = rest[n]
  BY ArgvParts
<1>2. F \in Nat
  BY <1>1
<1>3. list \in Seq(GivenPackage)
  BY <1>1, ChosensTyped
<1>4. PICK read : Reads(read, argv)
  <2> HIDE DEF argv
  <2> QED
    BY <1>1, ReadsExists
<1>5. ReadUpTo(read[F], Len(packages))
  BY <1>4, PackagesReadBack
<1> HIDE DEF argv, list, rest
<1>6. PICK g : Reads(g, rest)
  BY <1>1, ReadsExists
<1>7. /\ g \in [0..L -> Environments] /\ g[0] = NoEnvironment /\ ReadOptions(rest) = g[L]
      /\ \A i \in 1..L : g[i] = WithenvOption(g[i - 1], rest[i])
  BY <1>6 DEF Reads, rest
<1>8. /\ ReadOptions(argv) = read[F + L]
      /\ \A i \in 1..(F + L) : read[i] = WithenvOption(read[i - 1], argv[i])
  BY <1>1, <1>4 DEF Reads
<1> HIDE DEF F, L
<1>9. read[F] = Joined(NoEnvironment, list)
  <2> DEFINE e == read[F]
             j == Joined(NoEnvironment, list)
  <2>1. /\ e \in Environments
        /\ e.expects = "" /\ e.ended = FALSE /\ e.bad = FALSE /\ e.dir = {packagedir}
        /\ e.work = {} /\ e.cwd = {} /\ e.packages = list /\ e.mounts = <<>> /\ e.cmd = <<>>
    BY <1>5 DEF ReadUpTo, list
  <2>2. NoEnvironment \in Environments
    BY NoEnvironmentTyped
  <2>3. /\ j \in Environments
        /\ j.expects = NoEnvironment.expects /\ j.ended = NoEnvironment.ended
        /\ j.bad = NoEnvironment.bad /\ j.dir = DirOr(NoEnvironment.dir)
        /\ j.work = NoEnvironment.work /\ j.cwd = NoEnvironment.cwd
        /\ j.packages = NoEnvironment.packages \o list
        /\ j.mounts = NoEnvironment.mounts /\ j.cmd = NoEnvironment.cmd
    BY <1>1, <1>3, <2>2, JoinedFields
  <2> HIDE DEF e, j
  <2>4. <<>> \o list = list
    BY <1>3, ConcatEmptySeq
  <2>5. /\ j.expects = "" /\ j.ended = FALSE /\ j.bad = FALSE /\ j.dir = {packagedir}
        /\ j.work = {} /\ j.cwd = {} /\ j.packages = list /\ j.mounts = <<>> /\ j.cmd = <<>>
    BY <2>3, <2>4 DEF NoEnvironment, DirOr
  <2>6. e = j
    BY <2>1, <2>3, <2>5, SameEnvironment
  <2> QED
    BY <2>6 DEF e, j
<1>10. ASSUME NEW i \in 1..L, read[F + i - 1] = Joined(g[i - 1], list)
       PROVE  read[F + i] = Joined(g[i], list)
  <2>1. i - 1 \in 0..L /\ F + i \in 1..(F + L) /\ (F + i) - 1 = F + i - 1
    BY <1>1, <1>2
  <2>2. g[i - 1] \in Environments /\ rest[i] \in Words
    <3> HIDE DEF Words
    <3>1. rest[i] \in Words
      BY <1>1, ElementOfSeq DEF L, rest
    <3> QED
      BY <1>7, <2>1, <3>1
  <2>3. read[F + i] = WithenvOption(Joined(g[i - 1], list), rest[i])
    BY <1>1, <1>8, <1>10, <2>1
  <2>4. WithenvOption(Joined(g[i - 1], list), rest[i])
          = Joined(WithenvOption(g[i - 1], rest[i]), list)
    BY <1>1, <1>3, <2>2, JoinedArgument, Zenon
  <2> QED
    BY <1>7, <2>3, <2>4
<1>11. read[F + L] = Joined(g[L], list)
  <2>1. CASE L = 0
    BY <1>2, <1>7, <1>9, <2>1
  <2>2. CASE L # 0
    <3> DEFINE T == {i \in 1..L : read[F + i] = Joined(g[i], list)}
    <3>1. 1 \in T
      <4>1. 1 \in 1..L /\ 1 - 1 = 0 /\ F + 1 - 1 = F
        BY <1>1, <1>2, <2>2
      <4>2. read[F + 1 - 1] = Joined(g[1 - 1], list)
        BY <1>7, <1>9, <4>1
      <4> QED
        BY <1>10, <4>1, <4>2
    <3>2. ASSUME NEW i \in 1..L, i \in T, i # L PROVE i + 1 \in T
      <4>1. i + 1 \in 1..L /\ (i + 1) - 1 = i /\ F + (i + 1) - 1 = F + i
        BY <1>1, <1>2, <3>2
      <4>2. read[F + (i + 1) - 1] = Joined(g[(i + 1) - 1], list)
        BY <3>2, <4>1
      <4> QED
        BY <1>10, <4>1, <4>2
    <3>3. \A i \in 1..L : i \in T
      <4> HIDE DEF T
      <4> QED
        BY <1>1, <3>1, <3>2, InductionTo
    <3>4. L \in 1..L
      BY <1>1, <2>2
    <3> QED
      BY <3>3, <3>4
  <2> QED
    BY <2>1, <2>2
<1> QED
  BY <1>7, <1>8, <1>11 DEF argv, list, rest

LEMMA EnvironmentTyped ==
  ASSUME NEW words \in Seq(Words)
  PROVE  LET e == ReadOptions(words) IN
         /\ e \in Environments
         /\ Environment(words) \in Environments
         /\ Environment(words).expects = e.expects /\ Environment(words).ended = e.ended
         /\ Environment(words).bad = (e.bad \/ e.expects # "" \/ e.cmd = <<>>)
         /\ Environment(words).dir = e.dir /\ Environment(words).work = e.work
         /\ Environment(words).cwd = e.cwd /\ Environment(words).packages = e.packages
         /\ Environment(words).mounts = e.mounts /\ Environment(words).cmd = e.cmd
<1> DEFINE e == ReadOptions(words)
<1>1. e \in Environments
  <2> HIDE DEF Words
  <2>1. PICK read : Reads(read, words)
    BY ReadsExists
  <2>2. Len(words) \in 0..Len(words)
    BY LenProperties
  <2> QED
    BY <2>1, <2>2 DEF Reads
<1>2. Environment(words) = [e EXCEPT !.bad = @ \/ e.expects # "" \/ e.cmd = <<>>]
  BY DEF Environment, Checked
<1> DEFINE b == e.bad \/ e.expects # "" \/ e.cmd = <<>>
<1> HIDE DEF e, GivenPackage, GivenMount, Words
<1>3. b \in BOOLEAN
  BY <1>1 DEF Environments
<1>4. Environment(words) = [e EXCEPT !.bad = b]
  BY <1>2
<1> HIDE DEF b
<1>5. /\ Environment(words) \in Environments
      /\ Environment(words).expects = e.expects /\ Environment(words).ended = e.ended
      /\ Environment(words).bad = b
      /\ Environment(words).dir = e.dir /\ Environment(words).work = e.work
      /\ Environment(words).cwd = e.cwd /\ Environment(words).packages = e.packages
      /\ Environment(words).mounts = e.mounts /\ Environment(words).cmd = e.cmd
  BY <1>1, <1>3, <1>4 DEF Environments
<1> QED
  BY <1>1, <1>5 DEF e, b

(***************************************************************************)
(* What withenv is given is what was passed through, and the solution.     *)
(***************************************************************************)
LEMMA EnvironmentReadBack ==
  ASSUME WithInv, packagedir \in DOMAIN disk, solved = 1, PlainNames
  PROVE  /\ PassedThrough \in Environments
         /\ Environment(build_args) = Joined(PassedThrough, Chosens(Len(packages)))
         /\ Environment(build_args).packages = PassedThrough.packages \o Chosens(Len(packages))
<1> DEFINE argv == build_args
           rest == opts.rest
           list == Chosens(Len(packages))
           r == ReadOptions(argv)
           s == ReadOptions(rest)
           e == Environment(argv)
           p == Environment(rest)
           j == Joined(p, list)
<1>1. argv \in Seq(Words) /\ rest \in Seq(Words) /\ packagedir \in Words
  BY ArgvParts
<1>2. list \in Seq(GivenPackage)
  <2>1. Len(packages) \in 0..Len(packages)
    BY ArgvParts
  <2> QED
    BY <2>1, ChosensTyped
<1>3. r = Joined(s, list)
  BY RestReadBack
<1> HIDE DEF argv, rest, list, Words, GivenPackage
<1>4. /\ r \in Environments /\ e \in Environments
      /\ e.expects = r.expects /\ e.ended = r.ended
      /\ e.bad = (r.bad \/ r.expects # "" \/ r.cmd = <<>>)
      /\ e.dir = r.dir /\ e.work = r.work /\ e.cwd = r.cwd /\ e.packages = r.packages
      /\ e.mounts = r.mounts /\ e.cmd = r.cmd
  BY <1>1, EnvironmentTyped
<1>5. /\ s \in Environments /\ p \in Environments
      /\ p.expects = s.expects /\ p.ended = s.ended
      /\ p.bad = (s.bad \/ s.expects # "" \/ s.cmd = <<>>)
      /\ p.dir = s.dir /\ p.work = s.work /\ p.cwd = s.cwd /\ p.packages = s.packages
      /\ p.mounts = s.mounts /\ p.cmd = s.cmd
  BY <1>1, EnvironmentTyped
<1> HIDE DEF r, s, e, p
<1>6. /\ r.expects = s.expects /\ r.ended = s.ended /\ r.bad = s.bad
      /\ r.dir = DirOr(s.dir) /\ r.work = s.work /\ r.cwd = s.cwd
      /\ r.packages = s.packages \o list /\ r.mounts = s.mounts /\ r.cmd = s.cmd
  BY <1>1, <1>2, <1>3, <1>5, JoinedFields
<1>7. /\ j \in Environments
      /\ j.expects = p.expects /\ j.ended = p.ended /\ j.bad = p.bad
      /\ j.dir = DirOr(p.dir) /\ j.work = p.work /\ j.cwd = p.cwd
      /\ j.packages = p.packages \o list /\ j.mounts = p.mounts /\ j.cmd = p.cmd
  BY <1>1, <1>2, <1>5, JoinedFields
<1> HIDE DEF j, DirOr
<1>8. /\ e.expects = j.expects /\ e.ended = j.ended /\ e.bad = j.bad /\ e.dir = j.dir
      /\ e.work = j.work /\ e.cwd = j.cwd /\ e.packages = j.packages
      /\ e.mounts = j.mounts /\ e.cmd = j.cmd
  BY <1>4, <1>5, <1>6, <1>7
<1>9. e = j
  BY <1>4, <1>7, <1>8, SameEnvironment
<1> QED
  BY <1>5, <1>7, <1>9 DEF e, p, j, argv, rest, list, PassedThrough

(***************************************************************************)
(* The solution, as it comes out of main, is the list that was chosen, or  *)
(* the list turned round.                                                  *)
(***************************************************************************)
LEMMA SolutionIsChosen ==
  ASSUME WithInv, stage \in {"exec", "success"}, PlainNames
  PROVE  /\ stage = "exec" => /\ Solution = Chosens(Len(packages))
                              /\ Environment(output) = Joined(PassedThrough, Solution)
         /\ stage = "success" => Solution = ChosenList
<1> DEFINE N == Len(packages)
<1>1. /\ solved = 1 /\ packagedir \in DOMAIN disk
  BY DEF WithInv, InStep
<1>2. ASSUME stage = "exec"
      PROVE  /\ Solution = Chosens(N)
             /\ Environment(output) = Joined(PassedThrough, Solution)
  <2>1. output = build_args
    BY <1>2 DEF WithInv, OutputFromResult
  <2> DEFINE list == Chosens(N)
             own == PassedThrough.packages
             given == Environment(build_args).packages
  <2>2. /\ PassedThrough \in Environments
        /\ Environment(build_args) = Joined(PassedThrough, list)
        /\ given = own \o list
    BY <1>1, EnvironmentReadBack
  <2>3. list \in Seq(GivenPackage) /\ own \in Seq(GivenPackage)
    <3>1. N \in 0..N
      BY <1>1, ArgvParts
    <3> QED
      BY <1>1, <2>2, <3>1, ChosensTyped DEF Environments
  <2>4. Solution = SubSeq(given, Len(own) + 1, Len(given))
    BY <1>2, <2>1 DEF Solution, Behind
  <2> HIDE DEF list, own, given, GivenPackage
  <2>5. SubSeq(own \o list, Len(own) + 1, Len(own \o list)) = list
    BY <2>3, JoinedAndCut
  <2>6. Solution = list
    BY <2>2, <2>4, <2>5, Zenon
  <2> QED
    BY <2>1, <2>2, <2>6 DEF list
<1>3. ASSUME stage = "success" PROVE Solution = ChosenList
  <2>1. output = [n \in 1..N |-> Chosen(packages[n])]
    <3>1. ResultPackages = [n \in 1..N |-> packages[n]]
      BY <1>1, AllAreResults DEF WithInv
    <3>2. output = [n \in DOMAIN ResultPackages |->
                      [name    |-> ResultPackages[n].name,
                       version |-> ResultPackages[n].chosen.version]]
      BY <1>3 DEF WithInv, OutputFromResult
    <3> QED
      BY <3>1, <3>2 DEF Chosen
  <2> QED
    BY <1>3, <2>1 DEF Solution, ChosenList
<1> QED
  BY <1>2, <1>3

\* Turning the list round changes nothing of what ChosenAreUsable says.
LEMMA SolutionUsable ==
  ASSUME WithInv, stage \in {"exec", "success"}, PlainNames
  PROVE  IsUsable(Solution)
<1> DEFINE N == Len(packages)
           Place(n) == IF stage = "exec" THEN N + 1 - n ELSE n
<1>1. /\ solved = 1 /\ packagedir \in DOMAIN disk /\ Requested \subseteq roots
  BY DEF WithInv, InStep, ConstraintsGiven
<1>2. N \in Nat
  BY <1>1, ArgvParts
<1>3. /\ DOMAIN Solution = 1..N
      /\ \A n \in 1..N : Solution[n] = ChosenList[Place(n)]
  <2>1. CASE stage = "exec"
    <3>1. Solution = Chosens(N)
      BY <2>1, SolutionIsChosen
    <3>2. \A n \in 1..N : N + 1 - n \in 1..N
      BY <1>2
    <3> QED
      BY <2>1, <3>1, <3>2 DEF Chosens, ChosenList
  <2>2. CASE stage = "success"
    <3>1. Solution = ChosenList /\ stage # "exec"
      BY <2>2, SolutionIsChosen
    <3> QED
      BY <3>1 DEF ChosenList
  <2> QED
    BY <2>1, <2>2
<1>4. /\ DOMAIN ChosenList = 1..N
      /\ \A n \in 1..N : Place(n) \in 1..N
      /\ \A n, m \in 1..N : Place(n) = Place(m) => n = m
      /\ \A n \in 1..N : \E m \in 1..N : Place(m) = n
  <2>1. DOMAIN ChosenList = 1..N
    BY DEF ChosenList
  <2>2. \A n \in 1..N : /\ N + 1 - n \in 1..N /\ N + 1 - (N + 1 - n) = n
    BY <1>2
  <2>3. \A n, m \in 1..N : N + 1 - n = N + 1 - m => n = m
    BY <1>2
  <2> QED
    BY <2>1, <2>2, <2>3
<1>5. /\ Requested \subseteq {ChosenList[n].name : n \in 1..N}
      /\ \A n, m \in 1..N : ChosenList[n].name = ChosenList[m].name => n = m
      /\ \A n \in 1..N :
           /\ ChosenList[n].name \in DOMAIN Repository
           /\ ChosenList[n].version \in ReadableVersions(ChosenList[n].name)
           /\ ToSet(Repository[ChosenList[n].name][ChosenList[n].version])
                \subseteq {ChosenList[m].name : m \in 1..N}
  BY <1>1, <1>4, ChosenAreUsable
<1> HIDE DEF Place, N
<1>6. NamesOf(Solution) = {ChosenList[n].name : n \in 1..N}
  <2>1. NamesOf(Solution) = {Solution[n].name : n \in 1..N}
    BY <1>3 DEF NamesOf
  <2>2. \A x \in NamesOf(Solution) : x \in {ChosenList[n].name : n \in 1..N}
    BY <1>3, <1>4, <2>1
  <2>3. ASSUME NEW n \in 1..N PROVE ChosenList[n].name \in NamesOf(Solution)
    <3>1. PICK m \in 1..N : Place(m) = n
      BY <1>4
    <3> QED
      BY <1>3, <2>1, <3>1
  <2> QED
    BY <2>2, <2>3
<1>7. ASSUME NEW n \in 1..N
      PROVE  /\ Solution[n].name \in DOMAIN Repository
             /\ Solution[n].version \in ReadableVersions(Solution[n].name)
             /\ ToSet(Repository[Solution[n].name][Solution[n].version]) \subseteq NamesOf(Solution)
  BY <1>3, <1>4, <1>5, <1>6
<1>8. ASSUME NEW n \in 1..N, NEW m \in 1..N, Solution[n].name = Solution[m].name
      PROVE  n = m
  <2>1. Place(n) \in 1..N /\ Place(m) \in 1..N
    BY <1>4
  <2>2. ChosenList[Place(n)].name = ChosenList[Place(m)].name
    BY <1>3, <1>8
  <2>3. Place(n) = Place(m)
    BY <1>5, <2>1, <2>2
  <2> QED
    BY <1>4, <2>3
<1> QED
  BY <1>3, <1>5, <1>6, <1>7, <1>8 DEF IsUsable

(***************************************************************************)
(* What pkgsolve prints, and what withenv reads from the arguments that    *)
(* withpkgs gives it beyond those it passes through, is a complete and     *)
(* consistent choice of versions that are in the repository; and withenv   *)
(* reads the arguments passed through as it would without.  Whatever the   *)
(* repository, as long as no package in it has a comma in its name, and    *)
(* whatever the command line.                                              *)
(***************************************************************************)
THEOREM SolutionsAreUsable == WSpec => []SolutionIsUsable
<1>1. WithInv => SolutionIsUsable
  <2> SUFFICES ASSUME WithInv, stage \in {"exec", "success"}, PlainNames
               PROVE  SolutionIsUsable
    BY DEF SolutionIsUsable
  <2>1. stage = "exec" =>
          Environment(output) =
              [PassedThrough EXCEPT !.dir = IF @ = {} THEN {packagedir} ELSE @,
                                    !.packages = @ \o Solution]
    BY SolutionIsChosen DEF Joined
  <2> QED
    BY <2>1, SolutionUsable DEF SolutionIsUsable
<1> QED
  BY <1>1, WithPkgsInvariant, PTL

-----------------------------------------------------------------------------
(***************************************************************************)
(* The arguments before the "--", one by one.                              *)
(***************************************************************************)
Five == {<<"-c">>, <<"-d">>, <<"-m">>, <<"-p">>, <<"-w">>}

LEMMA ArgumentsBefore ==
  ASSUME args \in Seq(Names), NEW n, EndsOptions(n)
  PROVE  /\ n \in 1..Len(args) /\ Len(args) \in Nat /\ args[n] = <<"--">> /\ n % 2 = 1
         /\ \A m \in 1..(n - 1) : m % 2 = 1 =>
              /\ args[m] \in Five
              /\ m + 1 \in 1..(n - 1)
              /\ args[m] \in {<<"-c">>, <<"-m">>, <<"-w">>} =>
                   args[m + 1] \notin {<<"-d">>, <<"-p">>, <<"--">>}
              /\ args[m] = <<"-m">> => IsMount(args[m + 1])
         /\ \A option :
              /\ ValuesOf(SubSeq(args, 1, n - 1), option)
                   = {args[m + 1] : m \in GivenWithin(option, n - 1)}
              /\ LastOf(SubSeq(args, 1, n - 1), option) = LastWithin(option, n - 1)
<1> DEFINE before == SubSeq(args, 1, n - 1)
           k == n - 1
<1>1. n \in 1..Len(args) /\ args[n] = <<"--">> /\ Len(args) \in Nat
  BY LenProperties DEF EndsOptions
<1>2. k \in 0..Len(args)
  BY <1>1
<1>3. /\ before \in Seq(Names) /\ Len(before) = k /\ DOMAIN before = 1..k
      /\ \A i \in 1..k : before[i] = args[i]
  <2> HIDE DEF k
  <2> DEFINE b == SubSeq(args, 1, k)
  <2>1. b \in Seq(Names) /\ Len(b) = k /\ \A i \in 1..k : b[i] = args[i]
    BY <1>2, PrefixOf
  <2> HIDE DEF b
  <2>2. DOMAIN b = 1..k
    BY <2>1, LenProperties
  <2> QED
    BY <2>1, <2>2 DEF b, k
<1>4. /\ k % 2 = 0
      /\ \A m \in 1..k : m % 2 = 1 => args[m] \in Five
  BY <1>3 DEF EndsOptions, AreOptionPairs, Five
<1>5. \A m \in 1..k : m % 2 = 1 => m + 1 \in 1..k /\ m \in 1..(k - 1)
  BY <1>1, <1>4
<1>6. ASSUME NEW option
      PROVE  GivenAt(before, option) = GivenWithin(option, k)
  <2> HIDE DEF before, k
  <2>1. \A m \in 1..(k - 1) : m \in 1..k
    BY <1>2
  <2> QED
    BY <1>3, <1>5, <2>1 DEF GivenAt, GivenWithin
<1>7. ASSUME NEW option, NEW m \in GivenWithin(option, k)
      PROVE  m \in 1..k /\ m % 2 = 1 /\ m + 1 \in 1..k /\ before[m + 1] = args[m + 1]
  <2> HIDE DEF before
  <2>1. m \in 1..(k - 1) /\ m % 2 = 1
    BY <1>7 DEF GivenWithin
  <2>2. m \in 1..k
    BY <1>2, <2>1
  <2> QED
    BY <1>3, <1>5, <2>1, <2>2
<1> HIDE DEF before, k
<1>8. ASSUME NEW option
      PROVE  ValuesOf(before, option) = {args[m + 1] : m \in GivenWithin(option, k)}
  <2>1. ValuesOf(before, option) = {before[m + 1] : m \in GivenWithin(option, k)}
    BY <1>6 DEF ValuesOf
  <2> QED
    BY <1>7, <2>1
<1>9. ASSUME NEW option
      PROVE  LastOf(before, option) = LastWithin(option, k)
  <2> DEFINE G == GivenWithin(option, k)
             last == {m \in G : \A i \in G : i <= m}
  <2>1. LastOf(before, option) = {before[m + 1] : m \in last}
    BY <1>6 DEF LastOf
  <2>2. LastWithin(option, k) = {args[m + 1] : m \in last}
    BY DEF LastWithin
  <2>3. \A m \in last : before[m + 1] = args[m + 1]
    BY <1>7
  <2> HIDE DEF last
  <2> QED
    BY <2>1, <2>2, <2>3
<1>10. \A m \in 1..k : m % 2 = 1 =>
         /\ args[m] \in {<<"-c">>, <<"-m">>, <<"-w">>} =>
              args[m + 1] \notin {<<"-d">>, <<"-p">>, <<"--">>}
         /\ args[m] = <<"-m">> => IsMount(args[m + 1])
  <2>1. /\ \A option \in {"-c", "-m", "-w"} :
             ValuesOf(before, option) \cap {<<"-d">>, <<"-p">>, <<"--">>} = {}
        /\ \A value \in ValuesOf(before, "-m") : IsMount(value)
    BY DEF EndsOptions, before, k
  <2>2. ASSUME NEW m \in 1..k, m % 2 = 1, NEW option, args[m] = <<option>>
        PROVE  args[m + 1] \in ValuesOf(before, option)
    <3>1. m \in GivenWithin(option, k)
      BY <1>5, <2>2 DEF GivenWithin
    <3> QED
      BY <1>8, <3>1
  <2> SUFFICES ASSUME NEW m \in 1..k, m % 2 = 1
               PROVE  /\ args[m] \in {<<"-c">>, <<"-m">>, <<"-w">>} =>
                           args[m + 1] \notin {<<"-d">>, <<"-p">>, <<"--">>}
                      /\ args[m] = <<"-m">> => IsMount(args[m + 1])
    OBVIOUS
  <2>3. ASSUME NEW option \in {"-c", "-m", "-w"}, args[m] = <<option>>
        PROVE  args[m + 1] \notin {<<"-d">>, <<"-p">>, <<"--">>}
    BY <2>1, <2>2, <2>3
  <2>4. args[m] = <<"-m">> => IsMount(args[m + 1])
    BY <2>1, <2>2
  <2>5. args[m] \in {<<"-c">>, <<"-m">>, <<"-w">>} =>
          \E option \in {"-c", "-m", "-w"} : args[m] = <<option>>
    OBVIOUS
  <2> QED
    BY <2>3, <2>4, <2>5
<1>11. n % 2 = 1
  BY <1>1, <1>4 DEF k
<1> QED
  BY <1>1, <1>4, <1>5, <1>8, <1>9, <1>10, <1>11 DEF before, k

(***************************************************************************)
(* What is given once another argument is read.                            *)
(***************************************************************************)
LEMMA OneMoreGiven ==
  ASSUME NEW c \in Nat, NEW option
  PROVE  /\ c % 2 = 0 \/ c = 0 \/ args[c] # <<option>> =>
              /\ GivenWithin(option, c + 1) = GivenWithin(option, c)
              /\ LastWithin(option, c + 1) = LastWithin(option, c)
         /\ c % 2 = 1 /\ args[c] = <<option>> =>
              /\ GivenWithin(option, c + 1) = GivenWithin(option, c) \cup {c}
              /\ LastWithin(option, c + 1) = {args[c + 1]}
<1>1. /\ (c + 1) - 1 = c
      /\ \A m : m \in 1..c <=> m \in 1..(c - 1) \/ (m = c /\ c # 0)
      /\ c % 2 = 0 => c % 2 # 1
  OBVIOUS
<1>2. ASSUME c % 2 = 0 \/ c = 0 \/ args[c] # <<option>>
      PROVE  /\ GivenWithin(option, c + 1) = GivenWithin(option, c)
             /\ LastWithin(option, c + 1) = LastWithin(option, c)
  <2>1. GivenWithin(option, c + 1) = GivenWithin(option, c)
    BY <1>1, <1>2 DEF GivenWithin
  <2> QED
    BY <2>1 DEF LastWithin
<1>3. ASSUME c % 2 = 1, args[c] = <<option>>
      PROVE  /\ GivenWithin(option, c + 1) = GivenWithin(option, c) \cup {c}
             /\ LastWithin(option, c + 1) = {args[c + 1]}
  <2> DEFINE G == GivenWithin(option, c + 1)
             last == {m \in G : \A i \in G : i <= m}
  <2>1. G = GivenWithin(option, c) \cup {c}
    BY <1>1, <1>3 DEF GivenWithin
  <2>2. c \in G /\ \A i \in G : i \in Nat /\ i <= c
    BY <1>1, <1>3 DEF GivenWithin
  <2>3. last = {c}
    <3> HIDE DEF G
    <3>1. ASSUME NEW m \in last PROVE m = c
      <4>1. m \in Nat /\ m <= c /\ c <= m
        BY <2>2
      <4> QED
        BY <4>1
    <3>2. c \in last
      BY <2>2
    <3> HIDE DEF last
    <3> QED
      BY <3>1, <3>2
  <2>4. LastWithin(option, c + 1) = {args[m + 1] : m \in last}
    BY DEF LastWithin
  <2> HIDE DEF last, G
  <2> QED
    BY <2>1, <2>3, <2>4 DEF G
<1> QED
  BY <1>2, <1>3

LEMMA AppendedTo ==
  ASSUME NEW S, NEW s \in Seq(S), NEW x \in S
  PROVE  /\ Append(s, x) \in Seq(S) /\ Len(s) \in Nat
         /\ Len(Append(s, x)) = Len(s) + 1
         /\ Append(s, x)[Len(s) + 1] = x
         /\ \A i \in 1..Len(s) : Append(s, x)[i] = s[i]
BY AppendProperties, LenProperties

\* What withpkgs makes of an argument, and what it leaves for withenv.
LEMMA OptionSteps ==
  ASSUME NEW o \in Options, NEW arg \in Names
  PROVE  LET next == WithpkgsOption(o, arg) IN
         /\ next.bad = o.bad
         /\ o.expects \in {"-d", "-p"} => next.rest = o.rest /\ next.done = o.done
         /\ o.expects = "" /\ ~o.done /\ arg \in {<<"-d">>, <<"-p">>} =>
              next.rest = o.rest /\ next.done = o.done
         /\ o.expects = "-d" => next.expects = "" /\ next.constraints = o.constraints
         /\ o.expects = "-p" => /\ next.expects = ""
                                /\ next.constraints = <<arg>> \o o.constraints
         /\ o.expects = "" /\ ~o.done /\ arg \in {<<"-d">>, <<"-p">>} =>
              next.expects = arg[1] /\ next.constraints = o.constraints
         /\ o.expects = "" /\ (o.done \/ arg \notin {<<"-d">>, <<"-p">>}) =>
              /\ next.rest = Append(o.rest, arg) /\ next.expects = ""
              /\ next.constraints = o.constraints
              /\ next.done = (o.done \/ arg = <<"--">>)
<1> DEFINE next == WithpkgsOption(o, arg)
           Good ==
             /\ next.bad = o.bad
             /\ o.expects \in {"-d", "-p"} => next.rest = o.rest /\ next.done = o.done
             /\ o.expects = "" /\ ~o.done /\ arg \in {<<"-d">>, <<"-p">>} =>
                  next.rest = o.rest /\ next.done = o.done
             /\ o.expects = "-d" => next.expects = "" /\ next.constraints = o.constraints
             /\ o.expects = "-p" => /\ next.expects = ""
                                    /\ next.constraints = <<arg>> \o o.constraints
             /\ o.expects = "" /\ ~o.done /\ arg \in {<<"-d">>, <<"-p">>} =>
                  next.expects = arg[1] /\ next.constraints = o.constraints
             /\ o.expects = "" /\ (o.done \/ arg \notin {<<"-d">>, <<"-p">>}) =>
                  /\ next.rest = Append(o.rest, arg) /\ next.expects = ""
                  /\ next.constraints = o.constraints
                  /\ next.done = (o.done \/ arg = <<"--">>)
<1> HIDE DEF Words
<1>1. ASSUME o.expects = "-d" PROVE Good
  <2>1. next = [o EXCEPT !.dir = arg, !.expects = ""]
    BY <1>1 DEF WithpkgsOption
  <2>2. /\ next.bad = o.bad /\ next.rest = o.rest /\ next.done = o.done
        /\ next.expects = "" /\ next.constraints = o.constraints
    BY <2>1 DEF Options
  <2> HIDE DEF next
  <2> QED
    BY <1>1, <2>2
<1>2. ASSUME o.expects = "-p" PROVE Good
  <2> DEFINE more == <<arg>> \o o.constraints
  <2>1. next = [o EXCEPT !.constraints = <<arg>> \o @, !.expects = ""]
    BY <1>2 DEF WithpkgsOption
  <2>2. next = [o EXCEPT !.constraints = more, !.expects = ""]
    BY <2>1
  <2> HIDE DEF more
  <2>3. /\ next.bad = o.bad /\ next.rest = o.rest /\ next.done = o.done
        /\ next.expects = "" /\ next.constraints = more
    BY <2>2 DEF Options
  <2> HIDE DEF next
  <2> QED
    BY <1>2, <2>3 DEF more
<1>3. ASSUME o.expects \notin {"-d", "-p"}, ~o.done, arg \in {<<"-d">>, <<"-p">>} PROVE Good
  <2>1. next = [o EXCEPT !.expects = arg[1]]
    BY <1>3 DEF WithpkgsOption
  <2>2. /\ next.bad = o.bad /\ next.rest = o.rest /\ next.done = o.done
        /\ next.expects = arg[1] /\ next.constraints = o.constraints
    BY <2>1 DEF Options
  <2> HIDE DEF next
  <2> QED
    BY <1>3, <2>2
<1>4. ASSUME o.expects \notin {"-d", "-p"}, o.done \/ arg \notin {<<"-d">>, <<"-p">>} PROVE Good
  <2> DEFINE more == Append(o.rest, arg)
             d == o.done \/ arg = <<"--">>
  <2>1. next = [o EXCEPT !.done = @ \/ arg = <<"--">>, !.rest = Append(@, arg)]
    BY <1>4 DEF WithpkgsOption
  <2>2. next = [o EXCEPT !.done = d, !.rest = more]
    BY <2>1
  <2> HIDE DEF more, d
  <2>3. /\ next.bad = o.bad /\ next.rest = more /\ next.done = d
        /\ next.expects = o.expects /\ next.constraints = o.constraints
    BY <2>2 DEF Options
  <2> HIDE DEF next
  <2> QED
    BY <1>4, <2>3 DEF more, d
<1> HIDE DEF Good
<1>5. Good
  BY <1>1, <1>2, <1>3, <1>4
<1> QED
  BY <1>5 DEF Good, next

\* What is left depends on the arguments and the options, and on nothing else.
LEMMA LeftUntouched ==
  ASSUME args' = args
  PROVE  \A o, e, n, c : LeftWith(o, e, n, c)' <=> LeftWith(o, e, n, c)
<1>1. ASSUME NEW option, NEW d
      PROVE  GivenWithin(option, d)' = GivenWithin(option, d)
  BY DEF GivenWithin
<1>2. ASSUME NEW option, NEW d
      PROVE  LastWithin(option, d)' = LastWithin(option, d)
  BY <1>1 DEF LastWithin
<1>3. ASSUME NEW e, NEW d
      PROVE  AsGiven(e, d)' <=> AsGiven(e, d)
  BY <1>1, <1>2 DEF AsGiven
<1>4. ASSUME NEW o, NEW e, NEW d
      PROVE  BeforeDashes(o, e, d)' <=> BeforeDashes(o, e, d)
  BY <1>3 DEF BeforeDashes, ValueIsNext
<1>5. ASSUME NEW o, NEW e, NEW n, NEW d
      PROVE  BehindDashes(o, e, n, d)' <=> BehindDashes(o, e, n, d)
  BY <1>3 DEF BehindDashes
<1>6. ASSUME NEW o, NEW n, NEW d
      PROVE  AskedFor(o, n, d)' <=> AskedFor(o, n, d)
  BY <1>1 DEF AskedFor
<1> QED
  BY <1>4, <1>5, <1>6 DEF LeftWith

\* The value of an option that withpkgs passes through.
LEMMA PassedValue ==
  ASSUME NEW e \in Environments, NEW option \in {"-c", "-m", "-w"}, NEW value \in Words,
         option = "-m" => IsMount(value)
  PROVE  LET f == WithenvValue(e, option, value) IN
         /\ f.expects = "" /\ f.ended = e.ended /\ f.cmd = e.cmd /\ f.dir = e.dir
         /\ f.work = IF option = "-w" THEN {value} ELSE e.work
         /\ f.cwd = IF option = "-c" THEN {value} ELSE e.cwd
         /\ f.packages = e.packages
         /\ f.mounts = IF option = "-m" THEN <<MountOf(value)>> \o e.mounts ELSE e.mounts
         /\ f.bad = e.bad
<1> DEFINE f == WithenvValue(e, option, value)
           isPackage == FirstOf(value, ",") # 0
           isMount == IsMount(value)
           one == <<PackageOf(value)>>
           mount == <<MountOf(value)>>
<1>1. /\ f.expects = "" /\ f.ended = e.ended /\ f.cmd = e.cmd
      /\ f.dir = IF option = "-d" THEN {value} ELSE e.dir
      /\ f.work = IF option = "-w" THEN {value} ELSE e.work
      /\ f.cwd = IF option = "-c" THEN {value} ELSE e.cwd
      /\ f.packages = IF option = "-p" /\ isPackage THEN one \o e.packages ELSE e.packages
      /\ f.mounts = IF option = "-m" /\ isMount THEN mount \o e.mounts ELSE e.mounts
      /\ f.bad = IF \/ option \in {"-c", "-d", "-w"}
                    \/ option = "-p" /\ isPackage
                    \/ option = "-m" /\ isMount
                 THEN e.bad ELSE TRUE
  BY ValueFields, Zenon
<1>2. option # "-d" /\ option # "-p" /\ (option = "-m" => isMount)
  OBVIOUS
<1> HIDE DEF f, isPackage, isMount, one, mount
<1>3. /\ f.expects = "" /\ f.ended = e.ended /\ f.cmd = e.cmd /\ f.dir = e.dir
      /\ f.work = IF option = "-w" THEN {value} ELSE e.work
      /\ f.cwd = IF option = "-c" THEN {value} ELSE e.cwd
      /\ f.packages = e.packages
      /\ f.mounts = IF option = "-m" THEN mount \o e.mounts ELSE e.mounts
      /\ f.bad = e.bad
  BY <1>1, <1>2
<1> QED
  BY <1>3 DEF f, mount

\* What the arguments before and behind "--" do to what withenv has read.
LEMMA PlainSteps ==
  ASSUME NEW e, NEW arg, ~e.bad
  PROVE  /\ e.ended => WithenvOption(e, arg) = [e EXCEPT !.cmd = Append(@, arg)]
         /\ ~e.ended /\ e.expects # "" => WithenvOption(e, arg) = WithenvValue(e, e.expects, arg)
BY DEF WithenvOption

(***************************************************************************)
(* One more argument read leaves for withenv what it should.               *)
(***************************************************************************)
LEMMA ParsingKeepsCommand ==
  ASSUME args \in Seq(Names), NEW o \in Options,
         NEW n, EndsOptions(n), NEW c \in 0..(Len(args) - 1),
         LeftWith(o, ReadOptions(o.rest), n, c)
  PROVE  LET next == WithpkgsOption(o, args[c + 1])
         IN  LeftWith(next, ReadOptions(next.rest), n, c + 1)
<1> DEFINE arg == args[c + 1]
           next == WithpkgsOption(o, arg)
           e == ReadOptions(o.rest)
           f == ReadOptions(next.rest)
           d == c + 1
           Good == LeftWith(next, f, n, d)
<1>1. /\ n \in 1..Len(args) /\ Len(args) \in Nat /\ args[n] = <<"--">> /\ n % 2 = 1
      /\ \A m \in 1..(n - 1) : m % 2 = 1 =>
           /\ args[m] \in Five
           /\ m + 1 \in 1..(n - 1)
           /\ args[m] \in {<<"-c">>, <<"-m">>, <<"-w">>} =>
                args[m + 1] \notin {<<"-d">>, <<"-p">>, <<"--">>}
           /\ args[m] = <<"-m">> => IsMount(args[m + 1])
  BY ArgumentsBefore
<1>2. /\ c \in Nat /\ d \in 1..Len(args) /\ d \in Nat /\ d - 1 = c /\ d = c + 1
      /\ n \in Nat /\ n >= 1
  BY <1>1
<1>3. arg \in Names /\ arg \in Words
  <2>1. arg \in Names
    BY <1>2, ElementOfSeq
  <2> QED
    BY <2>1, NamesAreWords
<1>4. o.rest \in Seq(Words) /\ e \in Environments
  <2>1. o.rest \in Seq(Names)
    BY DEF Options
  <2>2. Names \subseteq Words
    BY NamesAreWords
  <2> HIDE DEF Words
  <2>3. o.rest \in Seq(Words)
    BY <2>1, <2>2, SeqMonotonic
  <2> QED
    BY <2>3, EnvironmentTyped
<1>5. /\ next.rest = o.rest => f = e
      /\ next.rest = Append(o.rest, arg) => f = WithenvOption(e, arg)
  <2> HIDE DEF Words, arg, next
  <2> QED
    BY <1>3, <1>4, OneMoreRead
<1>6. /\ ~o.bad /\ ~e.bad /\ e.dir = {} /\ e.packages = <<>>
      /\ c < n => BeforeDashes(o, e, c)
      /\ c >= n => BehindDashes(o, e, n, c)
      /\ AskedFor(o, n, c)
  BY DEF LeftWith
<1>7. /\ next.bad = o.bad
      /\ o.expects \in {"-d", "-p"} => next.rest = o.rest /\ next.done = o.done
      /\ o.expects = "" /\ ~o.done /\ arg \in {<<"-d">>, <<"-p">>} =>
           next.rest = o.rest /\ next.done = o.done
      /\ o.expects = "-d" => next.expects = "" /\ next.constraints = o.constraints
      /\ o.expects = "-p" => /\ next.expects = ""
                             /\ next.constraints = <<arg>> \o o.constraints
      /\ o.expects = "" /\ ~o.done /\ arg \in {<<"-d">>, <<"-p">>} =>
           next.expects = arg[1] /\ next.constraints = o.constraints
      /\ o.expects = "" /\ (o.done \/ arg \notin {<<"-d">>, <<"-p">>}) =>
           /\ next.rest = Append(o.rest, arg) /\ next.expects = ""
           /\ next.constraints = o.constraints
           /\ next.done = (o.done \/ arg = <<"--">>)
  <2> HIDE DEF arg, Options
  <2> QED
    BY <1>3, OptionSteps, Zenon
<1> HIDE DEF next, e, f, arg, Words, GivenPackage, GivenMount
\* Behind the "--", every argument is a word of the command.
<1>8. ASSUME c >= n PROVE Good
  <2>1. /\ o.done /\ o.expects = "" /\ e.ended /\ e.expects = ""
        /\ AsGiven(e, n - 1)
        /\ e.cmd = [j \in 1..(c - n) |-> args[n + j]]
    BY <1>6, <1>8 DEF BehindDashes
  <2>2. /\ next.done /\ next.expects = "" /\ next.constraints = o.constraints
        /\ next.rest = Append(o.rest, arg)
    BY <1>7, <2>1
  <2>3. f = [e EXCEPT !.cmd = Append(@, arg)]
    <3>1. f = WithenvOption(e, arg)
      BY <1>5, <2>2
    <3> QED
      BY <1>6, <2>1, <3>1, PlainSteps, Zenon
  <2> DEFINE more == Append(e.cmd, arg)
  <2>4. f = [e EXCEPT !.cmd = more]
    BY <2>3
  <2> HIDE DEF more
  <2>5. /\ f.bad = e.bad /\ f.dir = e.dir /\ f.packages = e.packages /\ f.ended = e.ended
        /\ f.expects = e.expects /\ f.work = e.work /\ f.cwd = e.cwd /\ f.mounts = e.mounts
        /\ f.cmd = more
    BY <1>4, <2>4 DEF Environments
  <2>6. more = [j \in 1..(d - n) |-> args[n + j]]
    <3> DEFINE k == c - n
               cmd == [j \in 1..k |-> args[n + j]]
               longer == [j \in 1..(k + 1) |-> args[n + j]]
    <3>1. k \in Nat /\ d - n = k + 1 /\ n + (k + 1) = c + 1
      BY <1>2, <1>8
    <3>2. \A j \in 1..(k + 1) : args[n + j] \in Names
      <4>1. \A j \in 1..(k + 1) : n + j \in 1..Len(args)
        BY <1>1, <1>2, <3>1
      <4> QED
        BY <4>1, ElementOfSeq
    <3>3. cmd \in Seq(Names) /\ longer \in Seq(Names) /\ Len(cmd) = k /\ Len(longer) = k + 1
      <4>1. \A j \in 1..k : j \in 1..(k + 1)
        BY <3>1
      <4> HIDE DEF k
      <4> QED
        BY <3>1, <3>2, <4>1
    <3> DEFINE app == Append(cmd, arg)
    <3>4. /\ \A j \in 1..k : cmd[j] = args[n + j]
          /\ \A j \in 1..(k + 1) : longer[j] = args[n + j]
      OBVIOUS
    <3> HIDE DEF k, cmd, longer
    <3>5. /\ app \in Seq(Names) /\ Len(app) = k + 1 /\ app[k + 1] = arg
          /\ \A j \in 1..k : app[j] = cmd[j]
      BY <1>3, <3>3, AppendedTo
    <3> HIDE DEF app
    <3>6. \A j \in 1..(k + 1) : app[j] = longer[j]
      <4>1. arg = args[n + (k + 1)]
        BY <3>1 DEF arg
      <4>2. \A j \in 1..(k + 1) : j = k + 1 \/ j \in 1..k
        BY <3>1
      <4> QED
        BY <3>4, <3>5, <4>1, <4>2
    <3>7. app = longer
      BY <3>3, <3>5, <3>6, SeqEqual
    <3>8. more = app
      BY <2>1 DEF more, app, cmd, k
    <3> QED
      BY <3>1, <3>7, <3>8 DEF longer
  <2>7. AsGiven(f, n - 1)
    BY <2>1, <2>5 DEF AsGiven
  <2>8. BehindDashes(next, f, n, d)
    BY <2>1, <2>2, <2>5, <2>6, <2>7 DEF BehindDashes
  <2>9. AskedFor(next, n, d)
    <3>1. \A m \in GivenWithin("-p", n - 1) : m < c
      BY <1>1, <1>2, <1>8 DEF GivenWithin
    <3> QED
      BY <1>6, <2>2, <3>1 DEF AskedFor
  <2>10. ~(d < n)
    BY <1>1, <1>2, <1>8
  <2> QED
    BY <1>6, <1>7, <2>5, <2>8, <2>9, <2>10 DEF LeftWith
\* Argument n itself.
<1>9. ASSUME d = n PROVE Good
  <2>1. c % 2 = 0 /\ c % 2 # 1 /\ c < n /\ arg = <<"--">> /\ n - 1 = c
    BY <1>1, <1>2, <1>9, Parity DEF arg
  <2>2. /\ ~o.done /\ ~e.ended /\ e.cmd = <<>> /\ AsGiven(e, c)
        /\ o.expects = "" /\ e.expects = ""
    BY <1>6, <2>1 DEF BeforeDashes, ValueIsNext
  <2>3. arg \notin {<<"-d">>, <<"-p">>} /\ arg # <<>> /\ IsOption(arg)
    <3>1. <<"--">>[1] = "--" /\ <<"--">> # <<>> /\ <<"-d">>[1] = "-d" /\ <<"-p">>[1] = "-p"
      OBVIOUS
    <3> QED
      BY <2>1, <3>1 DEF IsOption, Dashed
  <2>4. /\ next.done /\ next.expects = "" /\ next.constraints = o.constraints
        /\ next.rest = Append(o.rest, arg)
    BY <1>7, <2>1, <2>2, <2>3
  <2>5. f = [e EXCEPT !.ended = TRUE]
    BY <1>4, <1>5, <1>6, <2>1, <2>2, <2>3, <2>4, ArgumentCases
  <2>6. /\ f.bad = e.bad /\ f.dir = e.dir /\ f.packages = e.packages /\ f.ended = TRUE
        /\ f.expects = e.expects /\ f.work = e.work /\ f.cwd = e.cwd /\ f.mounts = e.mounts
        /\ f.cmd = e.cmd
    BY <1>4, <2>5 DEF Environments
  <2>7. AsGiven(f, n - 1)
    BY <2>1, <2>2, <2>6 DEF AsGiven
  <2>8. f.cmd = [j \in 1..(d - n) |-> args[n + j]]
    <3>1. d - n = 0
      BY <1>1, <1>9
    <3>2. [j \in 1..0 |-> args[n + j]] = <<>>
      OBVIOUS
    <3> QED
      BY <2>2, <2>6, <3>1, <3>2
  <2>9. BehindDashes(next, f, n, d)
    BY <2>2, <2>4, <2>6, <2>7, <2>8 DEF BehindDashes
  <2>10. AskedFor(next, n, d)
    <3>1. \A m \in 1..(n - 1 - 1) : m < c
      BY <1>2, <1>9
    <3>2. \A m \in GivenWithin("-p", n - 1) : m < c
      BY <3>1 DEF GivenWithin
    <3> QED
      BY <1>6, <2>4, <3>2 DEF AskedFor
  <2>11. ~(d < n)
    BY <1>1, <1>9
  <2> QED
    BY <1>6, <1>7, <2>6, <2>9, <2>10, <2>11 DEF LeftWith
\* What one more argument before the "--" has to keep.
<1>10. ASSUME d < n, ~next.done, ~f.ended, f.cmd = <<>>, ~f.bad, f.dir = {}, f.packages = <<>>,
              AsGiven(f, d), ValueIsNext(next, f, d), AskedFor(next, n, d)
       PROVE  Good
  <2>1. ~(d >= n)
    BY <1>1, <1>2, <1>10
  <2> QED
    BY <1>6, <1>7, <1>10, <2>1 DEF LeftWith, BeforeDashes
\* An option.
<1>11. ASSUME d < n, c % 2 = 0 PROVE Good
  <2>1. /\ c < n /\ d % 2 = 1 /\ d \in 1..(n - 1) /\ d % 2 # 0
    BY <1>1, <1>2, <1>11, Parity
  <2>2. arg \in Five
    BY <1>1, <2>1 DEF arg
  <2>3. /\ ~o.done /\ ~e.ended /\ e.cmd = <<>> /\ AsGiven(e, c)
        /\ o.expects = "" /\ e.expects = ""
    BY <1>6, <1>11, <2>1, Parity DEF BeforeDashes, ValueIsNext
  <2>4. AsGiven(e, d)
    <3>1. \A option : /\ GivenWithin(option, d) = GivenWithin(option, c)
                      /\ LastWithin(option, d) = LastWithin(option, c)
      BY <1>2, <1>11, OneMoreGiven
    <3> QED
      BY <2>3, <3>1 DEF AsGiven
  <2>5. AskedFor(o, n, d)
    <3>1. \A m \in GivenWithin("-p", n - 1) : m \in Nat /\ m % 2 = 1
      BY <1>1 DEF GivenWithin
    <3>2. \A m \in GivenWithin("-p", n - 1) : m < d => m < c
      <4>1. c % 2 # 1
        BY <1>11
      <4>2. \A m \in Nat : m < d => m < c \/ m = c
        BY <1>2
      <4> QED
        BY <3>1, <4>1, <4>2
    <3> QED
      BY <1>6, <3>2 DEF AskedFor
  <2>6. ASSUME arg \in {<<"-d">>, <<"-p">>} PROVE Good
    <3>1. /\ next.rest = o.rest /\ next.done = o.done /\ next.expects = arg[1]
          /\ next.constraints = o.constraints
      BY <1>7, <2>3, <2>6
    <3>2. f = e
      BY <1>5, <3>1
    <3>3. ValueIsNext(next, f, d)
      BY <2>1, <2>3, <2>6, <3>1, <3>2 DEF ValueIsNext, arg
    <3>4. AskedFor(next, n, d)
      BY <2>5, <3>1 DEF AskedFor
    <3> QED
      BY <1>6, <1>10, <1>11, <2>3, <2>4, <3>1, <3>2, <3>3, <3>4
  <2>7. ASSUME arg \in {<<"-c">>, <<"-m">>, <<"-w">>} PROVE Good
    <3>1. /\ arg \notin {<<"-d">>, <<"-p">>} /\ arg # <<"--">> /\ arg # <<>> /\ Len(arg) = 1
          /\ arg[1] \in {"-c", "-m", "-w"}
      <4>1. /\ <<"-c">>[1] = "-c" /\ <<"-m">>[1] = "-m" /\ <<"-w">>[1] = "-w"
            /\ <<"-d">>[1] = "-d" /\ <<"-p">>[1] = "-p" /\ <<"--">>[1] = "--"
            /\ Len(<<"-c">>) = 1 /\ Len(<<"-m">>) = 1 /\ Len(<<"-w">>) = 1
            /\ <<"-c">> # <<>> /\ <<"-m">> # <<>> /\ <<"-w">> # <<>>
        OBVIOUS
      <4> QED
        BY <2>7, <4>1
    <3>2. IsOption(arg) /\ arg[1] \in Known
      BY <3>1 DEF IsOption, Dashed, Known
    <3>3. /\ next.rest = Append(o.rest, arg) /\ ~next.done /\ next.expects = ""
          /\ next.constraints = o.constraints
      BY <1>7, <2>3, <3>1
    <3>4. f = [e EXCEPT !.expects = arg[1]]
      <4>1. f = WithenvOption(e, arg)
        BY <1>5, <3>3
      <4> QED
        <5>1. arg = <<arg[1]>>
          BY <2>7, <3>1
        <5> DEFINE option == arg[1]
        <5>2. WithenvOption(e, <<option>>) = [e EXCEPT !.expects = option]
          <6> HIDE DEF option
          <6>1. option \in Known
            BY <3>2 DEF option
          <6> QED
            BY <1>3, <1>4, <1>6, <2>3, <6>1, OptionThenValue, Zenon
        <5> QED
          BY <4>1, <5>1, <5>2, Zenon
    <3>5. /\ f.bad = e.bad /\ f.dir = e.dir /\ f.packages = e.packages /\ f.ended = e.ended
          /\ f.expects = arg[1] /\ f.work = e.work /\ f.cwd = e.cwd /\ f.mounts = e.mounts
          /\ f.cmd = e.cmd
      BY <1>4, <3>4 DEF Environments
    <3>6. ValueIsNext(next, f, d)
      BY <2>1, <2>3, <2>7, <3>3, <3>5 DEF ValueIsNext, arg
    <3>7. AsGiven(f, d)
      BY <2>4, <3>5 DEF AsGiven
    <3>8. AskedFor(next, n, d)
      BY <2>5, <3>3 DEF AskedFor
    <3> QED
      BY <1>6, <1>10, <1>11, <2>3, <3>3, <3>5, <3>6, <3>7, <3>8
  <2> QED
    BY <2>2, <2>6, <2>7 DEF Five
\* The value of an option.
<1>12. ASSUME d < n, c % 2 = 1 PROVE Good
  <2>1. /\ c < n /\ d % 2 = 0 /\ c \in 1..(n - 1) /\ c % 2 # 0 /\ d = c + 1
    <3>1. d % 2 = 0 /\ c % 2 # 0
      BY <1>2, <1>12, Parity
    <3>2. c < n /\ c <= n - 1
      BY <1>2, <1>12
    <3>3. c # 0
      BY <3>1
    <3> QED
      BY <1>2, <3>1, <3>2, <3>3
  <2>2. args[c] \in Five
    BY <1>1, <1>12, <2>1
  <2>3. /\ ~o.done /\ ~e.ended /\ e.cmd = <<>> /\ AsGiven(e, c) /\ ValueIsNext(o, e, c)
    BY <1>6, <2>1 DEF BeforeDashes
  <2>4. ASSUME next.constraints = o.constraints, args[c] # <<"-p">>
        PROVE  AskedFor(next, n, d)
    <3>1. \A m \in GivenWithin("-p", n - 1) : m \in Nat /\ m # c
      BY <1>1, <2>4 DEF GivenWithin
    <3>2. \A m \in GivenWithin("-p", n - 1) : m < d => m < c
      <4>1. \A m \in Nat : m < d => m < c \/ m = c
        BY <1>2
      <4> QED
        BY <3>1, <4>1
    <3> QED
      BY <1>6, <2>4, <3>2 DEF AskedFor
  <2>5. ASSUME args[c] \in {<<"-d">>, <<"-p">>} PROVE Good
    <3>1. /\ args[c] \notin {<<"-c">>, <<"-m">>, <<"-w">>}
          /\ args[c][1] \in {"-d", "-p"}
          /\ args[c] = <<"-d">> => args[c][1] = "-d" /\ args[c] # <<"-p">>
          /\ args[c] = <<"-p">> => args[c][1] = "-p"
      <4>1. /\ <<"-c">>[1] = "-c" /\ <<"-m">>[1] = "-m" /\ <<"-w">>[1] = "-w"
            /\ <<"-d">>[1] = "-d" /\ <<"-p">>[1] = "-p"
        OBVIOUS
      <4> QED
        BY <2>5, <4>1
    <3>2. o.expects = args[c][1] /\ e.expects = ""
      BY <2>1, <2>3, <3>1 DEF ValueIsNext
    <3>3. next.rest = o.rest /\ next.done = o.done /\ next.expects = ""
      BY <1>7, <3>1, <3>2
    <3>4. f = e
      BY <1>5, <3>3
    <3>5. AsGiven(f, d)
      <4>1. \A option \in {"-c", "-m", "-w"} : /\ GivenWithin(option, d) = GivenWithin(option, c)
                                               /\ LastWithin(option, d) = LastWithin(option, c)
        <5>1. \A option \in {"-c", "-m", "-w"} : args[c] # <<option>>
          BY <3>1
        <5> QED
          BY <1>2, <2>1, <5>1, OneMoreGiven
      <4> QED
        BY <2>3, <3>4, <4>1 DEF AsGiven
    <3>6. ValueIsNext(next, f, d)
      BY <2>1, <3>2, <3>3, <3>4 DEF ValueIsNext
    <3>7. AskedFor(next, n, d)
      <4>1. CASE args[c] = <<"-d">>
        <5>1. next.constraints = o.constraints
          BY <1>7, <3>1, <3>2, <4>1
        <5> QED
          BY <2>4, <3>1, <4>1, <5>1
      <4>2. CASE args[c] = <<"-p">>
        <5>1. next.constraints = <<arg>> \o o.constraints
          BY <1>7, <3>1, <3>2, <4>2
        <5>2. ToSet(next.constraints) = {arg} \cup ToSet(o.constraints)
          <6>1. <<arg>> \in Seq(Names) /\ o.constraints \in Seq(Names) /\ ToSet(<<arg>>) = {arg}
            <7>1. o.constraints \in Seq(Names)
              BY DEF Options
            <7> QED
              BY <1>3, <7>1 DEF ToSet
          <6> DEFINE one == <<arg>>
                     old == o.constraints
          <6>3. one \in Seq(Names) /\ old \in Seq(Names)
            BY <6>1
          <6> HIDE DEF one, old
          <6>2. ToSet(one \o old) = ToSet(one) \cup ToSet(old)
            BY <6>3, ConcatElements
          <6> QED
            BY <5>1, <6>1, <6>2 DEF one, old
        <5>3. \A m \in GivenWithin("-p", n - 1) : m < d => m < c \/ args[m + 1] = arg
          <6>1. \A m \in GivenWithin("-p", n - 1) : m \in Nat
            BY <1>1 DEF GivenWithin
          <6>2. \A m \in Nat : m < d => m < c \/ m = c
            BY <1>2
          <6> QED
            BY <6>1, <6>2 DEF arg
        <5> QED
          BY <1>6, <5>2, <5>3 DEF AskedFor
      <4> QED
        BY <2>5, <4>1, <4>2
    <3> QED
      BY <1>6, <1>10, <1>12, <2>3, <3>3, <3>4, <3>5, <3>6, <3>7
  <2>6. ASSUME args[c] \in {<<"-c">>, <<"-m">>, <<"-w">>} PROVE Good
    <3> DEFINE option == args[c][1]
    <3>1. /\ args[c] \notin {<<"-d">>, <<"-p">>}
          /\ option \in {"-c", "-m", "-w"}
          /\ args[c] = <<option>>
          /\ option # "" /\ option \notin {"-d", "-p"}
          /\ \A x : args[c] = <<x>> <=> x = option
      <4>1. /\ <<"-c">>[1] = "-c" /\ <<"-m">>[1] = "-m" /\ <<"-w">>[1] = "-w"
            /\ <<"-d">>[1] = "-d" /\ <<"-p">>[1] = "-p"
        OBVIOUS
      <4>2. PICK x \in {"-c", "-m", "-w"} : args[c] = <<x>>
        BY <2>6
      <4>3. option = x
        BY <4>2
      <4>4. \A y : <<x>> = <<y>> <=> y = x
        <5>1. ASSUME NEW y, <<x>> = <<y>> PROVE y = x
          <6>1. <<x>>[1] = x /\ <<y>>[1] = y
            OBVIOUS
          <6> QED
            BY <5>1, <6>1, Zenon
        <5> QED
          BY <5>1
      <4>5. args[c] \notin {<<"-d">>, <<"-p">>}
        BY <2>6, <4>1
      <4> HIDE DEF option
      <4> QED
        BY <4>2, <4>3, <4>4, <4>5
    <3>2. o.expects = "" /\ e.expects = option
      BY <2>1, <2>3, <3>1 DEF ValueIsNext
    <3>3. arg \notin {<<"-d">>, <<"-p">>, <<"--">>}
      BY <1>1, <1>12, <2>1, <2>6 DEF arg
    <3>4. /\ next.rest = Append(o.rest, arg) /\ ~next.done /\ next.expects = ""
          /\ next.constraints = o.constraints
      BY <1>7, <2>3, <3>2, <3>3
    <3> HIDE DEF option
    <3>5. f = WithenvValue(e, option, arg)
      <4>1. f = WithenvOption(e, arg)
        BY <1>5, <3>4
      <4>2. e.expects # ""
        BY <3>1, <3>2
      <4>3. WithenvOption(e, arg) = WithenvValue(e, e.expects, arg)
        BY <1>6, <2>3, <4>2, PlainSteps, Zenon
      <4> QED
        BY <3>2, <4>1, <4>3
    <3>6. option = "-m" => IsMount(arg)
      BY <1>1, <1>12, <2>1, <3>1 DEF arg
    <3> DEFINE mount == <<MountOf(arg)>>
    <3>7. /\ f.expects = "" /\ f.ended = e.ended /\ f.cmd = e.cmd /\ f.dir = e.dir
          /\ f.work = IF option = "-w" THEN {arg} ELSE e.work
          /\ f.cwd = IF option = "-c" THEN {arg} ELSE e.cwd
          /\ f.packages = e.packages
          /\ f.mounts = IF option = "-m" THEN mount \o e.mounts ELSE e.mounts
          /\ f.bad = e.bad
      <4> DEFINE g == WithenvValue(e, option, arg)
      <4>1. /\ g.expects = "" /\ g.ended = e.ended /\ g.cmd = e.cmd /\ g.dir = e.dir
            /\ g.work = IF option = "-w" THEN {arg} ELSE e.work
            /\ g.cwd = IF option = "-c" THEN {arg} ELSE e.cwd
            /\ g.packages = e.packages
            /\ g.mounts = IF option = "-m" THEN mount \o e.mounts ELSE e.mounts
            /\ g.bad = e.bad
        <5>1. option \in {"-c", "-m", "-w"}
          BY <3>1
        <5> QED
          BY ONLY <1>3, <1>4, <3>6, <5>1, PassedValue, Zenon
      <4>2. f = g
        BY <3>5
      <4> HIDE DEF g, mount
      <4> QED
        BY ONLY <4>1, <4>2
    <3>8. AsGiven(f, d)
      <4>1. f.work = LastWithin("-w", d)
        <5>1. CASE option = "-w"
          <6>1. LastWithin("-w", d) = {args[d]}
            BY <1>2, <1>12, <3>1, <5>1, OneMoreGiven
          <6> QED
            BY <3>7, <5>1, <6>1 DEF arg
        <5>2. CASE option # "-w"
          <6>1. LastWithin("-w", d) = LastWithin("-w", c)
            BY <1>2, <3>1, <5>2, OneMoreGiven
          <6> QED
            BY <2>3, <3>7, <5>2, <6>1 DEF AsGiven
        <5> QED
          BY <5>1, <5>2
      <4>2. f.cwd = LastWithin("-c", d)
        <5>1. CASE option = "-c"
          <6>1. LastWithin("-c", d) = {args[d]}
            BY <1>2, <1>12, <3>1, <5>1, OneMoreGiven
          <6> QED
            BY <3>7, <5>1, <6>1 DEF arg
        <5>2. CASE option # "-c"
          <6>1. LastWithin("-c", d) = LastWithin("-c", c)
            BY <1>2, <3>1, <5>2, OneMoreGiven
          <6> QED
            BY <2>3, <3>7, <5>2, <6>1 DEF AsGiven
        <5> QED
          BY <5>1, <5>2
      <4>3. ToSet(f.mounts) = {MountOf(args[m + 1]) : m \in GivenWithin("-m", d)}
        <5>1. CASE option = "-m"
          <6>1. GivenWithin("-m", d) = GivenWithin("-m", c) \cup {c}
            BY <1>2, <1>12, <3>1, <5>1, OneMoreGiven
          <6>2. ToSet(f.mounts) = {MountOf(arg)} \cup ToSet(e.mounts)
            <7>1. mount \in Seq(GivenMount) /\ ToSet(mount) = {MountOf(arg)}
              <8>1. MountOf(arg) \in GivenMount
                BY <1>3, GivenTyped
              <8> QED
                BY <8>1 DEF ToSet
            <7>2. e.mounts \in Seq(GivenMount)
              BY <1>4 DEF Environments
            <7> DEFINE old == e.mounts
            <7> HIDE DEF mount, old
            <7>3. ToSet(mount \o old) = ToSet(mount) \cup ToSet(old)
              BY <7>1, <7>2, ConcatElements DEF old
            <7>4. f.mounts = mount \o old
              BY <3>7, <5>1 DEF old
            <7> QED
              BY <7>1, <7>3, <7>4 DEF old
          <6>3. ToSet(e.mounts) = {MountOf(args[m + 1]) : m \in GivenWithin("-m", c)}
            BY <2>3 DEF AsGiven
          <6>4. MountOf(arg) = MountOf(args[c + 1])
            BY DEF arg
          <6> QED
            BY <6>1, <6>2, <6>3, <6>4
        <5>2. CASE option # "-m"
          <6>1. GivenWithin("-m", d) = GivenWithin("-m", c)
            BY <1>2, <3>1, <5>2, OneMoreGiven
          <6> QED
            BY <2>3, <3>7, <5>2, <6>1 DEF AsGiven
        <5> QED
          BY <5>1, <5>2
      <4> QED
        BY <4>1, <4>2, <4>3 DEF AsGiven
    <3>9. ValueIsNext(next, f, d)
      BY <2>1, <3>4, <3>7 DEF ValueIsNext
    <3>10. AskedFor(next, n, d)
      BY <2>4, <3>1, <3>4
    <3> QED
      BY <1>6, <1>10, <1>12, <2>3, <3>4, <3>7, <3>8, <3>9, <3>10
  <2> QED
    BY <2>2, <2>5, <2>6 DEF Five
<1>13. Good
  <2>1. c >= n \/ d = n \/ d < n
    BY <1>1, <1>2
  <2>2. c % 2 = 0 \/ c % 2 = 1
    BY <1>2, Parity
  <2> HIDE DEF Good
  <2> QED
    BY <1>8, <1>9, <1>11, <1>12, <2>1, <2>2
<1> QED
  BY <1>13 DEF next, f, e, arg

LEMMA CommandInitInv == WInit => CommandInv
<1> SUFFICES ASSUME WInit, prog = "withpkgs"
             PROVE  /\ Len(args) - Len(unread) \in 0..Len(args)
                    /\ \A i \in 1..Len(unread) : unread[i] = args[(Len(args) - Len(unread)) + i]
                    /\ stage \notin {"open", "constraints", "solve", "exec"}
                    /\ \A n \in DOMAIN args :
                         EndsOptions(n) => CommandLeft(n, Len(args) - Len(unread))
  BY DEF CommandInv
<1>1. args \in Seq(Names) /\ unread = args /\ opts = NoOptions /\ stage = "options"
  BY ScenariosAssumption DEF WInit, IsScenario
<1>2. Len(args) \in Nat /\ Len(args) - Len(unread) = 0
  BY <1>1, LenProperties
<1>3. \A n \in DOMAIN args : CommandLeft(n, 0)
  <2> SUFFICES ASSUME NEW n \in 1..Len(args) PROVE CommandLeft(n, 0)
    BY <1>1, LenProperties
  <2> DEFINE e == ReadOptions(opts.rest)
  <2>1. 0 < n /\ ~(0 >= n) /\ 0 % 2 = 0 /\ \A m \in 1..(n - 1 - 1) : ~(m < 0)
    BY <1>2
  <2>2. ~opts.bad /\ ~opts.done /\ opts.expects = "" /\ opts.rest = <<>>
    BY <1>1 DEF NoOptions
  <2>3. e = NoEnvironment
    BY <2>2, NothingRead
  <2> HIDE DEF e
  <2>4. /\ ~e.bad /\ e.dir = {} /\ e.packages = <<>> /\ ~e.ended /\ e.cmd = <<>>
        /\ e.expects = "" /\ e.work = {} /\ e.cwd = {} /\ e.mounts = <<>>
    BY <2>3 DEF NoEnvironment
  <2>5. \A option : GivenWithin(option, 0) = {} /\ LastWithin(option, 0) = {}
    <3>1. \A m \in 1..(0 - 1) : FALSE
      OBVIOUS
    <3>2. \A option : GivenWithin(option, 0) = {}
      BY <3>1 DEF GivenWithin
    <3> QED
      BY <3>2 DEF LastWithin
  <2>6. ToSet(e.mounts) = {}
    <3>1. ToSet(<<>>) = {}
      BY DEF ToSet
    <3> QED
      BY <2>4, <3>1, Zenon
  <2>7. AsGiven(e, 0)
    BY <2>4, <2>5, <2>6 DEF AsGiven
  <2>8. AskedFor(opts, n, 0)
    BY <2>1 DEF AskedFor, GivenWithin
  <2>9. ValueIsNext(opts, e, 0)
    BY <2>1, <2>2, <2>4 DEF ValueIsNext
  <2> QED
    BY <2>1, <2>2, <2>4, <2>7, <2>8, <2>9 DEF CommandLeft, LeftWith, BeforeDashes, e
<1> QED
  BY <1>1, <1>2, <1>3

\* A step that reads no argument leaves it as it is.
LEMMA CommandUntouched ==
  ASSUME CommandInv, UNCHANGED <<prog, args, unread, opts>>,
         prog = "withpkgs" /\ stage' \in {"open", "constraints", "solve", "exec"}
           => unread = <<>>
  PROVE  CommandInv'
<1>1. ASSUME NEW n, NEW c, CommandLeft(n, c) PROVE CommandLeft(n, c)'
  <2>1. PICK o, e : o = opts /\ e = ReadOptions(opts.rest)
    OBVIOUS
  <2>2. LeftWith(o, e, n, c)
    BY <1>1, <2>1 DEF CommandLeft
  <2>3. LeftWith(o, e, n, c)'
    BY <2>2, LeftUntouched
  <2> QED
    BY <2>1, <2>3 DEF CommandLeft
<1>2. ASSUME NEW n PROVE EndsOptions(n)' <=> EndsOptions(n)
  BY DEF EndsOptions
<1> QED
  BY <1>1, <1>2 DEF CommandInv

LEMMA CommandNextInv == WithInv /\ CommandInv /\ [WNext]_wvars => CommandInv'
<1> SUFFICES ASSUME WithInv, CommandInv, [WNext]_wvars PROVE CommandInv'
  OBVIOUS
<1>1. CASE ParseArgument
  <2>1. /\ stage = "options" /\ stage' = stage /\ prog' = prog /\ args' = args
        /\ unread # <<>> /\ unread' = Tail(unread)
        /\ prog = "withpkgs" => opts' = WithpkgsOption(opts, Head(unread))
    BY <1>1 DEF ParseArgument
  <2>2. args \in Seq(Names) /\ unread \in Seq(Names) /\ opts \in Options
    BY DEF WithInv, OptionsTyped, IsScenario
  <2> SUFFICES ASSUME prog = "withpkgs" PROVE CommandInv'
    BY <2>1 DEF CommandInv
  <2>3. PICK c : c = Len(args) - Len(unread)
    OBVIOUS
  <2>4. /\ c \in 0..Len(args) /\ \A i \in 1..Len(unread) : unread[i] = args[c + i]
        /\ \A n \in DOMAIN args : EndsOptions(n) => CommandLeft(n, c)
    BY <2>3 DEF CommandInv
  <2>5. /\ Len(args) \in Nat /\ Len(unread) \in Nat \ {0} /\ Head(unread) = unread[1]
        /\ Len(Tail(unread)) = Len(unread) - 1
        /\ \A i \in 1..(Len(unread) - 1) : Tail(unread)[i] = unread[i + 1]
    BY <2>1, <2>2, LenProperties, HeadTailProperties, EmptySeq
  <2>6. /\ c \in 0..(Len(args) - 1) /\ c + 1 \in 0..Len(args)
        /\ Len(args) - Len(Tail(unread)) = c + 1
        /\ Head(unread) = args[c + 1]
    BY <2>3, <2>4, <2>5
  <2>7. \A i \in 1..Len(Tail(unread)) : Tail(unread)[i] = args[(c + 1) + i]
    BY <2>3, <2>4, <2>5
  <2>8. ASSUME NEW n \in DOMAIN args, EndsOptions(n) PROVE CommandLeft(n, c + 1)'
    <3>1. PICK o, x, e : /\ o = opts /\ x = WithpkgsOption(opts, args[c + 1])
                         /\ e = ReadOptions(x.rest)
      OBVIOUS
    <3>2. LeftWith(o, ReadOptions(o.rest), n, c) /\ o \in Options
      BY <2>2, <2>4, <2>8, <3>1 DEF CommandLeft
    <3>3. x = WithpkgsOption(o, args[c + 1])
      BY <3>1
    <3>4. LeftWith(x, e, n, c + 1)
      BY <2>2, <2>6, <2>8, <3>1, <3>2, <3>3, ParsingKeepsCommand
    <3>5. LeftWith(x, e, n, c + 1)'
      BY <2>1, <3>4, LeftUntouched
    <3>6. opts' = x
      BY <2>1, <2>6, <3>1
    <3> QED
      BY <3>1, <3>5, <3>6 DEF CommandLeft
  <2>9. ASSUME NEW n PROVE EndsOptions(n)' <=> EndsOptions(n)
    BY <2>1 DEF EndsOptions
  <2>10. (Len(args) - Len(unread))' = c + 1
    BY <2>1, <2>6
  <2> QED
    BY <2>1, <2>6, <2>7, <2>8, <2>9, <2>10 DEF CommandInv
<1>2. ASSUME UNCHANGED <<prog, args, unread, opts>>,
             \/ unread = <<>>
             \/ stage' \notin {"open", "constraints", "solve", "exec"}
             \/ stage \in {"open", "constraints", "solve", "exec"}
      PROVE  CommandInv'
  BY <1>2, CommandUntouched DEF CommandInv
<1>3. CASE OptionsParsed
  BY <1>2, <1>3 DEF OptionsParsed, repoVars
<1>4. CASE OpenRepository \/ AddConstraint \/ CallSolveRun
  BY <1>2, <1>4 DEF OpenRepository, AddConstraint, CallSolveRun, Exit
<1>5. ASSUME FoundInCache \/ \E S : ReadDirectory(S) PROVE CommandInv'
  BY <1>2, <1>5 DEF FoundInCache, ReadDirectory, ReadsDirectory, mainVars
<1>6. CASE RepoPackageGet
  BY <1>5, <1>6 DEF RepoPackageGet
<1>7. CASE AddVersion \/ GetPkgFails \/ GetPkgReturns \/ SolverStep
  BY <1>2, <1>7 DEF AddVersion, GetPkgFails, GetPkgReturns, SolverStep, mainVars
<1>8. CASE NullVersion \/ SolveFailed \/ ExecWithenv \/ PrintSolution
  BY <1>2, <1>8 DEF NullVersion, SolveFailed, ExecWithenv, PrintSolution, Exit
<1>9. CASE Starve
  <2>1. CASE \E S : ReadDirectory(S)
    BY <1>5, <2>1
  <2>2. CASE \/ Exit("failure") /\ UNCHANGED <<prog, args, disk>>
             \/ stage = "solve" /\ UNCHANGED <<prog, args, mainVars>>
    BY <1>2, <2>2 DEF Exit, mainVars
  <2> QED
    BY <1>9, <2>1, <2>2 DEF Starve
<1>10. CASE UNCHANGED wvars
  BY <1>10, CommandUntouched DEF wvars, mainVars, CommandInv
<1> QED
  BY <1>1, <1>3, <1>4, <1>6, <1>7, <1>8, <1>9, <1>10 DEF WNext, Proceeds

-----------------------------------------------------------------------------
(***************************************************************************)
(* With "--" before the command, withenv gets the command word for word,   *)
(* the options that were meant for it, and no packages but the solution,   *)
(* which has those asked for, whatever they and the repository are.        *)
(***************************************************************************)
THEOREM CommandsAreKept == WSpec => []CommandKept
<1>1. WithInv /\ CommandInv => CommandKept
  <2> SUFFICES ASSUME WithInv, CommandInv, stage = "exec", PlainNames,
                      NEW n \in DOMAIN args, EndsOptions(n), n < Len(args)
               PROVE  HasCommand(Environment(output), SubSeq(args, 1, n - 1),
                                 SubSeq(args, n + 1, Len(args)))
    BY DEF CommandKept
  <2> DEFINE command == SubSeq(args, n + 1, Len(args))
             before == SubSeq(args, 1, n - 1)
             e == Environment(output)
             r == ReadOptions(opts.rest)
  <2>1. /\ solved = 1 /\ packagedir \in DOMAIN disk
        /\ prog = "withpkgs" /\ args \in Seq(Names)
        /\ output = build_args
    BY DEF WithInv, InStep, OutputFromResult, OptionsTyped, IsScenario
  <2>2. Len(args) \in Nat /\ n \in 1..Len(args) /\ DOMAIN args = 1..Len(args)
    BY <2>1, LenProperties
  <2>3. /\ command \in Seq(Names) /\ Len(command) = Len(args) - n
        /\ \A m \in 1..(Len(args) - n) : command[m] = args[n + m]
    <3>1. n \in 0..Len(args)
      BY <2>2
    <3> HIDE DEF command
    <3> QED
      BY <2>1, <3>1, RestOf DEF command
  <2>4. /\ \A option :
             /\ ValuesOf(before, option) = {args[m + 1] : m \in GivenWithin(option, n - 1)}
             /\ LastOf(before, option) = LastWithin(option, n - 1)
    BY <2>1, ArgumentsBefore
  <2> HIDE DEF command, before
  <2>5. LeftWith(opts, r, n, Len(args))
    <3>1. unread = <<>> /\ Len(unread) = 0
      BY <2>1 DEF CommandInv
    <3>2. Len(args) - Len(unread) = Len(args)
      BY <2>2, <3>1
    <3>3. CommandLeft(n, Len(args) - Len(unread))
      BY <2>1 DEF CommandInv
    <3> QED
      BY <3>2, <3>3 DEF CommandLeft
  <2>6. /\ ~r.bad /\ r.dir = {} /\ r.packages = <<>>
        /\ BehindDashes(opts, r, n, Len(args))
        /\ AskedFor(opts, n, Len(args))
    <3>1. Len(args) >= n
      BY <2>2
    <3> HIDE DEF r
    <3> QED
      BY <2>5, <3>1 DEF LeftWith
  <2>7. /\ r.expects = "" /\ AsGiven(r, n - 1)
        /\ r.cmd = [j \in 1..(Len(args) - n) |-> args[n + j]]
    <3> HIDE DEF r
    <3> QED
      BY <2>6 DEF BehindDashes
  <2>8. r.cmd = command
    <3>1. command = [j \in 1..(Len(args) - n) |-> command[j]]
      BY <2>3
    <3> QED
      BY <2>3, <2>7, <3>1
  <2>9. command # <<>>
    BY <2>2, <2>3
  <2> DEFINE p == PassedThrough
             list == Solution
  <2>10. /\ p \in Environments /\ p.bad = (r.bad \/ r.expects # "" \/ r.cmd = <<>>)
         /\ p.dir = r.dir /\ p.work = r.work /\ p.cwd = r.cwd /\ p.packages = r.packages
         /\ p.mounts = r.mounts /\ p.cmd = r.cmd
    <3>1. opts.rest \in Seq(Words)
      BY <2>1, ArgvParts
    <3> HIDE DEF Words
    <3> QED
      BY <3>1, EnvironmentTyped DEF PassedThrough
  <2>11. e = Joined(p, list) /\ list \in Seq(GivenPackage) /\ packagedir \in Words
    <3>1. Solution = Chosens(Len(packages)) /\ Environment(output) = Joined(PassedThrough, Solution)
      BY SolutionIsChosen
    <3>2. Len(packages) \in 0..Len(packages) /\ packagedir \in Words
      BY <2>1, ArgvParts
    <3> QED
      BY <2>1, <3>1, <3>2, ChosensTyped
  <2> HIDE DEF e, r, p, list, Words, GivenPackage, GivenMount
  <2>12. /\ e.bad = p.bad /\ e.dir = DirOr(p.dir) /\ e.work = p.work /\ e.cwd = p.cwd
         /\ e.packages = p.packages \o list /\ e.mounts = p.mounts /\ e.cmd = p.cmd
    BY <2>10, <2>11, JoinedFields
  <2>13. <<>> \o list = list
    BY <2>11, ConcatEmptySeq
  <2>14. /\ ~e.bad /\ e.cmd = command /\ e.dir = {packagedir} /\ e.packages = Solution
    BY <2>6, <2>7, <2>8, <2>9, <2>10, <2>12, <2>13 DEF DirOr, list
  <2>15. e.work = LastOf(before, "-w") /\ e.cwd = LastOf(before, "-c")
    BY <2>4, <2>7, <2>10, <2>12 DEF AsGiven
  <2>16. ToSet(e.mounts) = {MountOf(value) : value \in ValuesOf(before, "-m")}
    <3>1. ToSet(e.mounts) = {MountOf(args[m + 1]) : m \in GivenWithin("-m", n - 1)}
      BY <2>7, <2>10, <2>12 DEF AsGiven
    <3>2. ValuesOf(before, "-m") = {args[m + 1] : m \in GivenWithin("-m", n - 1)}
      BY <2>4
    <3> QED
      BY <3>1, <3>2
  <2>17. ValuesOf(before, "-p") \subseteq NamesOf(e.packages)
    <3>1. \A m \in GivenWithin("-p", n - 1) : m < Len(args)
      BY <2>2 DEF GivenWithin
    <3>2. \A m \in GivenWithin("-p", n - 1) : args[m + 1] \in Requested
      BY <2>6, <3>1 DEF AskedFor, Requested
    <3>3. ValuesOf(before, "-p") \subseteq Requested
      BY <2>4, <3>2
    <3>4. Requested \subseteq NamesOf(Solution)
      BY SolutionUsable DEF IsUsable
    <3> QED
      BY <2>14, <3>3, <3>4
  <2> QED
    BY <2>14, <2>15, <2>16, <2>17 DEF HasCommand, e, command, before
<1>2. WInit => WithInv /\ CommandInv
  BY WithInitInv, CommandInitInv
<1>3. WithInv /\ CommandInv /\ [WNext]_wvars => WithInv' /\ CommandInv'
  BY WithNextInv, CommandNextInv
<1> QED
  BY <1>1, <1>2, <1>3, PTL DEF WSpec

=============================================================================
