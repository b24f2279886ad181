------------------------------ MODULE WithPkgs ------------------------------
(***************************************************************************)
(* tools/withpkgs.c and tools/pkgsolve.c from their arguments to their     *)
(* result, with the solver of Solve and the repository of tools/repo.c.    *)
(*                                                                         *)
(* pkgsolve prints the solution; withpkgs hands it to withenv as options,  *)
(* followed by the arguments it did not take for itself.  Both have the    *)
(* same get_pkg callback, which reads the repository through a cache.      *)
(***************************************************************************)
EXTENDS Solve, Separators

CONSTANT Scenarios  \* initial choices of [prog, args, disk]

Unreadable == <<"unreadable">>      \* no control file, or one that does not parse

(***************************************************************************)
(* A word - an argument, a name, a directory - is a sequence of tokens: the *)
(* characters "," and ":", an option letter with the dash before it, and    *)
(* runs of all the others.  Any argument may be the name of a package.      *)
(***************************************************************************)
Word == Seq(STRING)

ASSUME NamesAssumption == Names \subseteq Word

\* A directory has finitely many entries, and an entry has a name.
IsScenario(p, line, repositories) ==
    /\ p \in {"withpkgs", "pkgsolve"}
    /\ line \in Seq(Names)
    /\ \A dir \in DOMAIN repositories : \A name \in DOMAIN repositories[dir] :
        LET versions == repositories[dir][name] IN
        /\ IsFiniteSet(DOMAIN versions)
        /\ \A v \in DOMAIN versions :
            /\ v \in Versions \cap (Word \ {<<>>})
            /\ versions[v] \in DependencyLists \cup {Unreadable}

ASSUME ScenariosAssumption ==
    \A s \in Scenarios : IsScenario(s.prog, s.args, s.disk)

VARIABLES
    prog,           \* "withpkgs" or "pkgsolve"
    args,           \* the command line without argv[0]
    disk,           \* disk[dir][name][version]: a run_depend list or Unreadable
    stage,          \* where main is, see WTypeOK
    unread,         \* arguments still to be parsed
    opts,           \* what parsing has collected, see NoOptions
    todo,           \* constraints still to be given to the solver
    cache,          \* repo->packages, most recent first
    at,             \* get_pkg: position of pkg in cache, 0 before repo_package_get
    ver,            \* get_pkg: the version pointer, NoVersion when NULL
    output,         \* packages printed by pkgsolve, or the arguments given to withenv
    starved         \* history: an allocation or the exec failed

mainVars == <<stage, unread, opts, todo, output>>
repoVars == <<cache, at, ver>>
wvars == <<vars, prog, args, disk, mainVars, repoVars, starved>>

packagedir == opts.dir

Repository == disk[packagedir]

\* Fault (against WTypeOK): a version that could not be read is kept.
AllVersions(name) == DOMAIN Repository[name]

\* Names with a dot in front are passed over (repo.c:71).
ReadableVersions(name) ==
    {v \in DOMAIN Repository[name] : v[1] # "." /\ Repository[name][v] # Unreadable}

-----------------------------------------------------------------------------
(***************************************************************************)
(* Command lines.  "expects" is the option whose value comes next;         *)
(* "constraints" is withpkgs' list "packages" or pkgsolve's operands, and  *)
(* "rest" what withpkgs leaves in argv for withenv.                        *)
(***************************************************************************)
\* "-x" stands for the letters that no program knows.
Dashed == {"-c", "-d", "-m", "-p", "-s", "-w", "-x", "--"}

\* What getopt takes for options; a lone "-" and the empty word are operands.
IsOption(arg) == arg # <<>> /\ arg[1] \in Dashed

NoOptions == [expects |-> "", done |-> FALSE, bad |-> FALSE, dir |-> <<"/packages">>,
              constraints |-> <<>>, rest |-> <<>>]

\* Fault (against CommandKept): "--" does not end withpkgs' own options.
WithpkgsOptionAnywhere(o, arg) ==
    IF o.expects = "-d" THEN [o EXCEPT !.dir = arg, !.expects = ""]
    ELSE IF o.expects = "-p" THEN [o EXCEPT !.constraints = <<arg>> \o @, !.expects = ""]
    ELSE IF arg \in {<<"-d">>, <<"-p">>} THEN [o EXCEPT !.expects = arg[1]]
    ELSE [o EXCEPT !.rest = Append(@, arg)]

\* withpkgs.c:parse_opts: takes -d and -p wherever they are before "--".
WithpkgsOption(o, arg) ==
    IF o.expects = "-d" THEN [o EXCEPT !.dir = arg, !.expects = ""]
    ELSE IF o.expects = "-p" THEN [o EXCEPT !.constraints = <<arg>> \o @, !.expects = ""]
    ELSE IF ~o.done /\ arg \in {<<"-d">>, <<"-p">>} THEN [o EXCEPT !.expects = arg[1]]
    ELSE [o EXCEPT !.done = @ \/ arg = <<"--">>, !.rest = Append(@, arg)]

PkgsolveValue(o, option, value) ==
    IF option = "-d" THEN [o EXCEPT !.dir = value, !.expects = ""]
    ELSE [o EXCEPT !.expects = ""]

\* pkgsolve.c:parse_params: getopt(argc, argv, "d:s:"), operands permuted to the end.
PkgsolveOption(o, arg) ==
    IF o.bad THEN o
    ELSE IF o.expects # "" THEN PkgsolveValue(o, o.expects, arg)
    ELSE IF o.done \/ ~IsOption(arg) THEN [o EXCEPT !.constraints = Append(@, arg)]
    ELSE IF arg = <<"--">> THEN [o EXCEPT !.done = TRUE]
    ELSE IF arg[1] \notin {"-d", "-s"} THEN [o EXCEPT !.bad = TRUE]
    ELSE IF Len(arg) = 1 THEN [o EXCEPT !.expects = arg[1]]
    ELSE PkgsolveValue(o, arg[1], Tail(arg))

\* asprintf("%s,%s", name, version)
Pair(name, version) == name \o <<",">> \o version

(***************************************************************************)
(* What withenv makes of its arguments: getopt(argc, argv, "+d:w:p:c:m:")  *)
(* up to the first operand or the first mistake, then the command          *)
(* (withenv.c:84-167).  dir, work and cwd are {} until they are set, and   *)
(* what is given last goes to the front of packages and mounts.            *)
(***************************************************************************)
NoEnvironment ==
    [expects |-> "", ended |-> FALSE, bad |-> FALSE, dir |-> {}, work |-> {}, cwd |-> {},
     packages |-> <<>>, mounts |-> <<>>, cmd |-> <<>>]

\* NAME:HOSTDIR[:ro|:rw]
IsMount(value) ==
    LET dir == After(value, ":") IN
    /\ FirstOf(value, ":") # 0
    /\ FirstOf(dir, ":") # 0 => After(dir, ":") \in {<<"ro">>, <<"rw">>}

MountOf(value) ==
    LET dir == After(value, ":") IN
    [name    |-> Before(value, ":"),
     hostdir |-> IF FirstOf(dir, ":") = 0 THEN dir ELSE Before(dir, ":"),
     ro      |-> FirstOf(dir, ":") # 0 /\ After(dir, ":") = <<"ro">>]

PackageOf(value) == [name |-> Before(value, ","), version |-> After(value, ",")]

WithenvValue(e, option, value) ==
    CASE option = "-d" -> [e EXCEPT !.dir = {value}, !.expects = ""]
      [] option = "-w" -> [e EXCEPT !.work = {value}, !.expects = ""]
      [] option = "-c" -> [e EXCEPT !.cwd = {value}, !.expects = ""]
      [] option = "-p" /\ FirstOf(value, ",") # 0 ->
            [e EXCEPT !.packages = <<PackageOf(value)>> \o @, !.expects = ""]
      [] option = "-m" /\ IsMount(value) ->
            [e EXCEPT !.mounts = <<MountOf(value)>> \o @, !.expects = ""]
      [] OTHER -> [e EXCEPT !.bad = TRUE, !.expects = ""]

WithenvOption(e, arg) ==
    IF e.bad THEN e
    ELSE IF e.ended THEN [e EXCEPT !.cmd = Append(@, arg)]
    ELSE IF e.expects # "" THEN WithenvValue(e, e.expects, arg)
    ELSE IF ~IsOption(arg) THEN [e EXCEPT !.ended = TRUE, !.cmd = <<arg>>]
    ELSE IF arg = <<"--">> THEN [e EXCEPT !.ended = TRUE]
    ELSE IF arg[1] \notin {"-c", "-d", "-m", "-p", "-w"} THEN [e EXCEPT !.bad = TRUE]
    ELSE IF Len(arg) = 1 THEN [e EXCEPT !.expects = arg[1]]
    ELSE WithenvValue(e, arg[1], Tail(arg))

ReadOptions(words) ==
    LET read[n \in 0..Len(words)] ==
            IF n = 0 THEN NoEnvironment ELSE WithenvOption(read[n - 1], words[n])
    IN  read[Len(words)]

\* A value or a command that is missing is a mistake, too.
Checked(e) == [e EXCEPT !.bad = @ \/ e.expects # "" \/ e.cmd = <<>>]

Environment(words) == Checked(ReadOptions(words))

-----------------------------------------------------------------------------
WInit ==
    /\ Init
    /\ \E s \in Scenarios : prog = s.prog /\ args = s.args /\ disk = s.disk
    /\ stage = "options"
    /\ unread = args
    /\ opts = NoOptions
    /\ todo = <<>>
    /\ cache = <<>>
    /\ at = 0
    /\ ver = NoVersion
    /\ output = <<>>
    /\ starved = FALSE

Exit(how) ==
    /\ stage' = how
    /\ UNCHANGED <<unread, opts, todo, output>>

\* One argument of parse_opts or parse_params.
ParseArgument ==
    /\ stage = "options"
    /\ unread # <<>>
    /\ opts' = IF prog = "withpkgs" THEN WithpkgsOption(opts, Head(unread))
               ELSE PkgsolveOption(opts, Head(unread))
    /\ unread' = Tail(unread)
    /\ UNCHANGED <<vars, prog, args, disk, stage, todo, output, repoVars, starved>>

\* The options are read, or an option was unknown or lacked its value.
OptionsParsed ==
    /\ stage = "options"
    /\ unread = <<>>
    /\ stage' = IF opts.bad \/ opts.expects # "" THEN "usage" ELSE "open"
    /\ todo' = opts.constraints
    /\ UNCHANGED <<vars, prog, args, disk, unread, opts, output, repoVars, starved>>

\* repo_init and solve_init.
OpenRepository ==
    /\ stage = "open"
    /\ Exit(IF packagedir \in DOMAIN disk THEN "constraints" ELSE "failure")
    /\ UNCHANGED <<vars, prog, args, disk, repoVars, starved>>

\* One iteration of add_constraints, or of pkgsolve's loop over its operands.
AddConstraint ==
    /\ stage = "constraints"
    /\ todo # <<>>
    /\ ConstraintAdd(Head(todo))
    /\ todo' = Tail(todo)
    /\ UNCHANGED <<prog, args, disk, stage, unread, opts, output, repoVars, starved>>

CallSolveRun ==
    /\ stage = "constraints"
    /\ todo = <<>>
    /\ Run
    /\ Exit("solve")
    /\ UNCHANGED <<prog, args, disk, repoVars, starved>>

-----------------------------------------------------------------------------
\* get_pkg, called for the package at cur.
Wanted == packages[cur].name

Cached(name) == \E k \in DOMAIN cache : cache[k].name = name

PointTo(pkgs, k) ==
    /\ cache' = pkgs
    /\ at' = k
    /\ ver' = IF pkgs[k].versions = <<>> THEN NoVersion ELSE Head(pkgs[k].versions)

\* get_pkg has called repo_package_get, which opens the package's directory.
ReadsDirectory ==
    /\ stage = "solve" /\ pc = "callback" /\ at = 0
    /\ ~Cached(Wanted)
    /\ Wanted \in DOMAIN Repository

\* The directory is read, in whatever order readdir has, and the versions in S are kept.
ReadDirectory(S) ==
    /\ ReadsDirectory
    /\ \E order \in SetToSeqs(S) :
        LET read == [n \in DOMAIN order |->
                        [version |-> order[n], depends |-> Repository[Wanted][order[n]]]]
        IN  PointTo(<<[name |-> Wanted, versions |-> read]>> \o cache, 1)
    /\ UNCHANGED <<vars, prog, args, disk, mainVars>>

FoundInCache ==
    /\ stage = "solve" /\ pc = "callback" /\ at = 0
    /\ \E k \in DOMAIN cache : cache[k].name = Wanted /\ PointTo(cache, k)
    /\ UNCHANGED <<vars, prog, args, disk, mainVars>>

(***************************************************************************)
(* repo_package_get finds the package in its cache, or reads its           *)
(* directory, leaving out the versions it cannot read.  get_pkg then       *)
(* points pkg at it and ver at its first version.                          *)
(***************************************************************************)
RepoPackageGet ==
    /\ FoundInCache \/ ReadDirectory(ReadableVersions(Wanted))
    /\ UNCHANGED starved

\* Fault (against EveryRunEnds): the loop advances nothing.
AddVersionAgain ==
    /\ stage = "solve" /\ pc = "callback"
    /\ at \in DOMAIN cache
    /\ ver # NoVersion
    /\ \/ Offer(ver.version, ver.depends)
       \/ IsOffered(packages[cur].available, ver.version) /\ UNCHANGED vars
    /\ UNCHANGED <<prog, args, disk, mainVars, repoVars, starved>>

\* One iteration of get_pkg's loop.  It advances pkg, along the cache, and not ver.
AddVersion ==
    /\ stage = "solve" /\ pc = "callback"
    /\ at \in DOMAIN cache
    /\ ver # NoVersion
    /\ \/ Offer(ver.version, ver.depends)
       \/ IsOffered(packages[cur].available, ver.version) /\ UNCHANGED vars
    /\ at' = at + 1
    /\ UNCHANGED <<prog, args, disk, mainVars, cache, ver, starved>>

\* ver->control with a NULL ver.
NullVersion ==
    /\ stage = "solve" /\ pc = "callback"
    /\ at \in DOMAIN cache
    /\ ver = NoVersion
    /\ Exit("segv")
    /\ UNCHANGED <<vars, prog, args, disk, repoVars, starved>>

\* get_pkg returns -1: there is no such package, or its version does not compare.
Incomparable(available, v) ==
    \E p \in DOMAIN available :
        StopsAt(available, v, p) /\ VerCmp[<<v, available[p].version>>] = "FAILED"

\* Fault (against FailsForCause): one unreadable version fails the package.
GetPkgFailsUnread ==
    /\ stage = "solve" /\ pc = "callback"
    /\ at = 0 /\ ~Cached(Wanted)
    /\ Wanted \in DOMAIN Repository => ReadableVersions(Wanted) # DOMAIN Repository[Wanted]
    /\ CallbackFails
    /\ UNCHANGED <<prog, args, disk, mainVars, repoVars, starved>>

GetPkgFails ==
    /\ stage = "solve" /\ pc = "callback"
    /\ \/ at = 0 /\ ~Cached(Wanted) /\ Wanted \notin DOMAIN Repository
       \/ /\ at \in DOMAIN cache
          /\ ver # NoVersion
          /\ ~IsOffered(packages[cur].available, ver.version)
          /\ Incomparable(packages[cur].available, ver.version)
    /\ CallbackFails
    /\ UNCHANGED <<prog, args, disk, mainVars, repoVars, starved>>

\* get_pkg returns 0.
GetPkgReturns ==
    /\ stage = "solve" /\ pc = "callback"
    /\ at > Len(cache)
    /\ Choose \/ NoneAvailable
    /\ at' = 0
    /\ UNCHANGED <<prog, args, disk, mainVars, cache, ver, starved>>

\* The steps of solve_run outside the callback.
SolverStep ==
    /\ stage = "solve"
    /\ CallGetPkt \/ AddDependency \/ NextPackage \/ Finish
    /\ UNCHANGED <<prog, args, disk, mainVars, repoVars, starved>>

-----------------------------------------------------------------------------
SolveFailed ==
    /\ stage = "solve" /\ pc = "returned" /\ solved # 1
    /\ Exit("failure")
    /\ UNCHANGED <<vars, prog, args, disk, repoVars, starved>>

\* Fault (against SolutionIsUsable): the first result package is left out.
build_argsFromSecond ==
    <<<<"-d">>, packagedir>>
        \o FlattenSeq([n \in 1..(Len(ResultPackages) - 1) |->
                <<<<"-p">>, Pair(ResultPackages[n + 1].name,
                               ResultPackages[n + 1].chosen.version)>>])
        \o opts.rest

\* build_args: withenv's arguments, from the result packages and what is left of argv.
build_args ==
    <<<<"-d">>, packagedir>>
        \o FlattenSeq([n \in DOMAIN ResultPackages |->
                <<<<"-p">>, Pair(ResultPackages[n].name, ResultPackages[n].chosen.version)>>])
        \o opts.rest

ExecWithenv ==
    /\ stage = "solve" /\ pc = "returned" /\ solved = 1
    /\ prog = "withpkgs"
    /\ output' = build_args
    /\ stage' = "exec"
    /\ UNCHANGED <<unread, opts, todo>>
    /\ UNCHANGED <<vars, prog, args, disk, repoVars, starved>>

\* A line for each package; the separator and the layout are left out.
PrintSolution ==
    /\ stage = "solve" /\ pc = "returned" /\ solved = 1
    /\ prog = "pkgsolve"
    /\ output' = [n \in DOMAIN ResultPackages |->
                    [name    |-> ResultPackages[n].name,
                     version |-> ResultPackages[n].chosen.version]]
    /\ stage' = "success"
    /\ UNCHANGED <<unread, opts, todo>>
    /\ UNCHANGED <<vars, prog, args, disk, repoVars, starved>>

(***************************************************************************)
(* An allocation fails in main, in get_pkg or repo.c, or in the solver; or *)
(* withenv cannot be executed.  When it is control_parsefd that lacks the  *)
(* memory, repo_package_get passes the version over (repo.c:93-100).       *)
(***************************************************************************)
MainAllocates ==
    \/ stage = "options" /\ prog = "withpkgs" /\ opts.expects = "-p" /\ unread # <<>>
    \/ stage = "open"
    \/ /\ stage = "constraints"
       /\ todo # <<>>
       /\ ~IsListed(packages, Head(todo))
    \/ stage = "solve" /\ pc = "returned" /\ solved = 1 /\ prog = "withpkgs"

GetPkgAllocates ==
    \/ at = 0 /\ ~Cached(Wanted)
    \/ /\ at \in DOMAIN cache
       /\ ver # NoVersion
       /\ ver.depends # <<>> \/ ~IsOffered(packages[cur].available, ver.version)

Starve ==
    /\ \/ MainAllocates /\ Exit("failure") /\ UNCHANGED <<vars, repoVars>>
       \/ stage = "solve" /\ CallbackFails /\ GetPkgAllocates /\ UNCHANGED <<mainVars, repoVars>>
       \/ stage = "solve" /\ AddDependencyFails /\ UNCHANGED <<mainVars, repoVars>>
       \/ /\ ReadsDirectory
          /\ \E S \in SUBSET ReadableVersions(Wanted) :
                S # ReadableVersions(Wanted) /\ ReadDirectory(S)
    /\ starved' = TRUE
    /\ UNCHANGED <<prog, args, disk>>

Proceeds ==
    \/ ParseArgument
    \/ OptionsParsed
    \/ OpenRepository
    \/ AddConstraint
    \/ CallSolveRun
    \/ RepoPackageGet
    \/ AddVersion
    \/ NullVersion
    \/ GetPkgFails
    \/ GetPkgReturns
    \/ SolverStep
    \/ SolveFailed
    \/ ExecWithenv
    \/ PrintSolution

WNext == Proceeds \/ Starve

\* One process that never waits for another.
WSpec == WInit /\ [][WNext]_wvars /\ WF_wvars(Proceeds)

-----------------------------------------------------------------------------

Ended == {"exec", "success", "usage", "failure", "segv"}

\* Types of the program's own state.
WTypeOK ==
    /\ TypeOK
    /\ stage \in {"options", "open", "constraints", "solve"} \cup Ended
    /\ todo \in Seq(Names) /\ opts.rest \in Seq(Word)
    /\ \A k \in DOMAIN cache :
        /\ cache[k].name \in Names
        /\ \A n \in DOMAIN cache[k].versions :
            cache[k].versions[n] \in [version : Versions, depends : DependencyLists]
    /\ at \in 0..(Len(cache) + 1)
    /\ starved \in BOOLEAN

\* The packages the program adds: as printed, or as withenv puts them behind its own.
PassedThrough == Environment(opts.rest)

Behind(given, own) == SubSeq(given, Len(own) + 1, Len(given))

Solution ==
    CASE stage = "exec" -> Behind(Environment(output).packages, PassedThrough.packages)
      [] stage = "success" -> output
      [] OTHER -> <<>>

NamesOf(list) == {list[n].name : n \in DOMAIN list}

Requested == ToSet(opts.constraints)

\* No package has a name that withenv would cut in two.
PlainNames == \A name \in DOMAIN Repository : FirstOf(name, ",") = 0

\* All that was asked for, once, readable, with what it depends on.
IsUsable(list) ==
    /\ Requested \subseteq NamesOf(list)
    /\ \A n, m \in DOMAIN list : list[n].name = list[m].name => n = m
    /\ \A n \in DOMAIN list :
        /\ list[n].name \in DOMAIN Repository
        /\ list[n].version \in ReadableVersions(list[n].name)
        /\ ToSet(Repository[list[n].name][list[n].version]) \subseteq NamesOf(list)

(***************************************************************************)
(* What withpkgs adds to the arguments it passes through is the solution   *)
(* and the directory it is in: withenv reads the rest - command, mounts,   *)
(* directories, packages named to withenv itself, mistakes - as it would   *)
(* without.  And the solution, as withenv takes it apart or as pkgsolve    *)
(* prints it, can be used as it stands: it has every requested package, no *)
(* package twice, and for each a version that is in the repository with    *)
(* all its dependencies.  A package that the user names to withenv, as     *)
(* NAME,VERSION behind "--", is mounted too and is not solved for.         *)
(***************************************************************************)
SolutionIsUsable ==
    stage \in {"exec", "success"} /\ PlainNames =>
        /\ stage = "exec" =>
            Environment(output) =
                [PassedThrough EXCEPT !.dir = IF @ = {} THEN {packagedir} ELSE @,
                                      !.packages = @ \o Solution]
        /\ IsUsable(Solution)

(***************************************************************************)
(* Memory permitting, a run fails only when the repository is not there or *)
(* a package it came to need has no directory in it: a version that cannot *)
(* be read is passed over, it does not fail the run (repo.c:75-100).       *)
(***************************************************************************)
FailsForCause ==
    stage = "failure" /\ ~starved =>
        \/ packagedir \notin DOMAIN disk
        \/ \E k \in DOMAIN packages : packages[k].name \notin DOMAIN Repository

\* Options of withpkgs and of withenv, each with its value in a word of its own.
AreOptionPairs(line) ==
    /\ Len(line) % 2 = 0
    /\ \A n \in DOMAIN line :
        n % 2 = 1 => line[n] \in {<<"-c">>, <<"-d">>, <<"-m">>, <<"-p">>, <<"-w">>}

GivenAt(line, option) == {n \in DOMAIN line : n % 2 = 1 /\ line[n] = <<option>>}

ValuesOf(line, option) == {line[n + 1] : n \in GivenAt(line, option)}

LastOf(line, option) ==
    {line[n + 1] : n \in {m \in GivenAt(line, option) : \A k \in GivenAt(line, option) : k <= m}}

(***************************************************************************)
(* Argument n is a "--" with nothing but options and their values before   *)
(* it.  withpkgs does not know -w, -c and -m, and takes -d, -p or "--"     *)
(* after them for its own.                                                 *)
(***************************************************************************)
EndsOptions(n) ==
    LET before == SubSeq(args, 1, n - 1) IN
    /\ n \in DOMAIN args /\ args[n] = <<"--">>
    /\ AreOptionPairs(before)
    /\ \A option \in {"-c", "-m", "-w"} :
        ValuesOf(before, option) \cap {<<"-d">>, <<"-p">>, <<"--">>} = {}
    /\ \A value \in ValuesOf(before, "-m") : IsMount(value)

\* What withenv reads: the command and all options, as given.
HasCommand(e, before, command) ==
    /\ ~e.bad
    /\ e.cmd = command
    /\ e.dir = {packagedir}
    /\ e.work = LastOf(before, "-w")
    /\ e.cwd = LastOf(before, "-c")
    /\ ToSet(e.mounts) = {MountOf(value) : value \in ValuesOf(before, "-m")}
    /\ e.packages = Solution
    /\ ValuesOf(before, "-p") \subseteq NamesOf(e.packages)

(***************************************************************************)
(* With "--" between the options and the command, withenv gets the command *)
(* word for word, also when it has -p and -d of its own, and the options   *)
(* that were meant for withenv, of -w and -c the last ones; packages come  *)
(* from the directory they were solved in, and there are none but those    *)
(* (withpkgs.c:112-118, 206-225).                                          *)
(***************************************************************************)
CommandKept ==
    stage = "exec" /\ PlainNames =>
        \A n \in DOMAIN args :
            EndsOptions(n) /\ n < Len(args) =>
                HasCommand(Environment(output), SubSeq(args, 1, n - 1), SubSeq(args, n + 1, Len(args)))

(***************************************************************************)
(* Every run ends, whatever cycles the repository's dependencies have and  *)
(* however the cache grows under get_pkg's loop.                           *)
(***************************************************************************)
EveryRunEnds == (stage = "options") ~> (stage \in Ended \/ pc = "aborted")

-----------------------------------------------------------------------------
(***************************************************************************)
(* solve_run means to "choose first available version" (solve.c:197) of a  *)
(* list that solve_package_version_add sorts, newest first: no readable    *)
(* version in the repository is newer than the one chosen, memory          *)
(* permitting.                                                             *)
(***************************************************************************)
FirstAvailableChosen ==
    stage \in {"exec", "success"} /\ ~starved =>
        \A n \in DOMAIN Solution :
            \A v \in ReadableVersions(Solution[n].name) : ~Beats(v, Solution[n].version)

(***************************************************************************)
(* A package without a usable version is reported, "no versions for        *)
(* package" (solve.c:191-194), memory permitting; it does not crash the     *)
(* program.                                                                *)
(***************************************************************************)
NoVersionsReported == ~starved => stage # "segv"

=============================================================================
