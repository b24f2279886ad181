# static-distro: specifications

TLA+ models of static-distro, the properties its code should have, TLC runs that
check them on small instances, and TLAPS proofs, for every instance, about the
dependency solver, version comparison, withpkgs and its repository, containers, the
control file tools and the bootstrap scripts. `src/...` below are paths of the repository. `PROJECT.json` maps every
definition to the lines it models and lists runs, findings, hazards and theorems.

## The system

static-distro builds statically linked packages and runs commands in containers
that hold a chosen subset of them. Packages live under `/packages/NAME/VERSION`,
each with a `control` file that names its run-time dependencies.

```
 bootstrap/stageN.sh --> pkgbuild --> newns --> withpkgs --> withenv --> a command
        |                   |                   |    |          |
   pkgvercmp, srccontrol   gencontrol        solve.c repo.c   link_tree
                                                |
                                             version.c        pkgsolve = withpkgs that prints
```

| Component | State | Operations | Interacts with | What is hard |
|---|---|---|---|---|
| solver `tools/solve.c` | list of packages, each with a version list and a chosen version | `solve_constraint_add`, `solve_run`, `solve_package_version_add` (from the callback) | its client's callback; `version_cmp` | the loop walks a list it appends to and holds pointers across a callback that calls back in; cycles |
| versions `tools/version.c` | none | `version_validate`, `version_cmp` | solver, pkgvercmp | `strtoull` on part of a string, signs, overflow, the `~` order |
| `tools/pkgvercmp.c` | operands, mode, best so far | the whole program | version.c | one pass is right only if the order is transitive |
| repository `tools/repo.c` | cache of packages | `repo_package_get` | withpkgs, pkgsolve | readdir order; versions that cannot be read |
| `tools/withpkgs.c`, `pkgsolve.c` | options, constraints, the callback's cursor | parse, solve, build argv or print | solver, repository, withenv | two getopt passes over one argv; a loop that advances the wrong pointer |
| `tools/withenv.c` | mounts, directories, merged tree, path buffer | options, mounts, `link_packages`, exec | withpkgs, kernel | recursion with a shared buffer, entries in any order, conflicts, partial failure |
| `tools/newns.c` | three processes and their statuses | fork, unshare, fork, exec, two waits | pkgbuild, withenv | signals to any of them, statuses passed through two parents |
| `tools/pkgbuild.c` | work directory | unpack, build, gencontrol | scripts of packages; newns | fail-stop, `linkat` that refuses to replace |
| `bootstrap/*.sh` | prefix with `.done` marks; a repository per stage | four stages, run in order, again after a stop | pkgbuild, srccontrol, pkgvercmp | stops at any step and restarts; what is skipped |
| recipes `packages/`, `distfiles/fetch.sh` | dependencies, sources | data for the above | bootstrap | order of the lists, sources that are not fetched |
| control files `tools/controlparse.c`, `control.c` | paragraphs of fields, grown at tail pointers; the record made of them | parse a line, parse a field | repository, the three tools below | comments, blanks and continuations in any order; missing or repeated fields; dependencies of a source added to each of its packages |
| `tools/gencontrol.c`, `srccontrol.c`, `pkgcontrol.c` | options, the output file | parse options, print | pkgbuild, the scripts; each reads what the other writes | the output is emptied while options are parsed; write errors; NULL for a missing field |
| `.travis_test.sh` | files on a remote host | upload per stage | bootstrap | out of scope (pure I/O) |

What makes each correct: a **solution** is closed under dependencies, has each
name once, contains nothing unneeded and the newest version offered; the
**version order** is an order and the one its comments mean; **withpkgs** hands on
exactly that solution and the command as given; a **container** shows the union of
its packages, read-only, and reports success only for a command that succeeded; a
**control file** loses no dependency on its way from a source to a repository, and
what a failed gencontrol leaves is not taken for one;
a **bootstrap** that is stopped and restarted skips only what is complete and
gets to its end.

## Modules

| Module | Models | Extends / composes |
|---|---|---|
| `Resolution` | abstract: what resolution promises, without lists or callbacks | |
| `Solve` | solve.c, one action per call, callback return and loop iteration; the callback is open | implements `Resolution` (INSTANCE in `Solve`) |
| `SolveProofs`, `SolveRefinement` | theorems about `Solve` | `Solve`, TLAPS |
| `DataLemmas` | lemmas about sequences and recursive functions, for the proofs below | TLAPS |
| `Version` | version.c and what it uses of libc, as operators on character sequences | |
| `PkgVerCmp` | pkgvercmp.c; `Older` is the reference order | `Version` |
| `VersionProofs` | theorems about the comparison and pkgvercmp | `PkgVerCmp`, `DataLemmas` |
| `Separators` | strchr, and the halves of a string cut at what it finds | |
| `WithPkgs` | withpkgs.c, pkgsolve.c, repo.c, withenv's option parser (all its options, also with the value in the same argument) | `Separators`; `Solve`: `AddVersion` is its `Offer`, `GetPkgReturns` its return |
| `WithPkgsProofs` | theorems about the two programs on top of the solver | `WithPkgs`, `SolveProofs`, `DataLemmas` |
| `LinkTree` | link_packages, link_package_tree, link_tree; frames are the recursion | |
| `WithEnv` | withenv.c's run_child: mounts, links, exec | `LinkTree` |
| `ControlParse` | controlparse.c, one action per kind of line | `Separators` |
| `Control` | control.c: from paragraphs to the record, one action per field | `ControlParse` |
| `ControlTools` | gencontrol.c, srccontrol.c, pkgcontrol.c and their files; after gencontrol, pkgcontrol reads its output | `Control` |
| `ControlProofs` | theorems about them | `ControlTools`, TLAPS |
| `NewNs` | newns.c's three processes | |
| `Container` | newns whose process 1 is withenv and then the command | `NewNs`, `WithEnv` |
| `ContainerProofs` | theorems about the processes of a container, withenv and link_packages | `Container`, `DataLemmas` |
| `PkgBuild` | pkgbuild.c in a work directory | |
| `Bootstrap` | stage0.sh to stage3_inner.sh, faults and restarts | `PkgBuild` |
| `BootstrapProofs` | theorems about the scripts | `Bootstrap`, TLAPS |
| `Recipes` | the control files, stage lists and fetch.sh as data | used by `MCBootstrap` |
| `MC*` | instances for TLC | |

State and code correspond by name: `packages`, `solved`, `cur` (the outer loop's
`pkg`) and `dep` of `Solve` are the fields and locals of `solve_run`;
`frames` and `src_path` of `LinkTree` are link_tree's activations and the buffer they
share; `proc` and `status` of `NewNs` are the processes and what `waitpid` gives, `ignored` is an
initial choice: newns has inherited an ignored SIGCHLD, so that its waits find nothing (`WaitFailed`);
`repo[n]` of `Bootstrap` is `stageN_packages`, `work[dir]` a `build-PKG` directory,
`done` the `.done` files. `paras` and `in_break` of
`ControlParse` are `struct controlparse`, `c` of `Control` the record under construction, whose
NULL strings are empty ones; `made` of `ControlTools` remembers what gencontrol was asked for.
`pc`, `stage` and `at` say where the code is. Variables commented
"history" (`starved`, `torn`) only record that a fault has happened.
Operators commented "Fault (against P)" are bugs a programmer could make in the
definition below them; replacing that definition by the fault makes TLC report P.

## Runs

| Run | Shows | Bounds, and why they are enough |
|---|---|---|
| `solve` | the inductive invariant, closure, need, uniqueness, newest version, stable decisions, when the process aborts, termination, refinement of `Resolution` | three names, cyclic and self dependencies, four version strings (smaller, equal but different, incomparable); every loop is entered zero, one and more times. The proofs remove the bound. |
| `pkgvercmp` | no abort, extremes, antisymmetry, agreement with the reference order | all pairs up to length 3 over an alphabet with each kind of character, a blank that strtoul skips included; triples of a pool of longer ones, three of which are not ordered transitively (see Findings). Integers have 4 bits (epoch: 2), so two digits overflow. |
| `pkgvercmp_revision` (violation) | the comment at version.c:226 is wrong: `m-1` compares greater than `m-2` | as above |
| `withpkgs` | solutions are usable, failures have a cause, commands survive two getopts, runs end | all repositories of three packages with two versions (readable or not), in every readdir order; all short command lines of -d, -p, -w, `--` and words, and up to two options for withenv (-c, -m in each form, -p NAME,VERSION, values attached to their option, mistakes) with `--` before, behind or nowhere; hidden entries; every allocation may fail |
| `withpkgs_newest`, `withpkgs_no_versions` (violations) | an older version is chosen; NULL is dereferenced | as above |
| `control` | the parser's lists, what it makes of a file by a count that knows no parser state, which files control.c takes, that no name, version or dependency is lost or made up, no crash on complete files, gencontrol read back by pkgcontrol, failures that are seen | a source control file like those of `packages/`, with each line deleted, swapped or one of 14 odd lines inserted, read by gencontrol for either of its packages; all source files of four and all binary ones of three odd lines, for srccontrol and pkgcontrol; 15 command lines of gencontrol, mistakes included, with one fault (kill, also between fclose and exit; memory; an output file that cannot be opened; write error) at any step |
| `container` | union, read-only links, failure causes, exit status, end | two packages in all shapes of two directories, with a link back to the enclosing one, or with a third directory, whose file has a path of exactly PATH_MAX; or many options, `-m ...:ro` among them, with three versions; PATH_MAX of five components lets a cycle be entered and left; every call may fail, every process be killed, and SIGCHLD may have been ignored from the start |
| `container_tmp` (violation) | the directory in /tmp stays, against withenv.c:288 | as above |
| `bootstrap` | what restarts redo, skip and never break; containers resolve; the chain ends | the real lists and recipes (25 packages) with one fault at any step, and a short plan with two; a repository copy that is cut short lacks `MaxLost` = 1 package version |
| `bootstrap_skip` (violation) | a half-copied package is skipped for good, against stage1.sh:38 | as above |
| `bootstrap_fetch` (violation) | stage 3 needs musl-1.1.14.tar.gz, which fetch.sh does not fetch | real lists, no faults |

`CHECK_DEADLOCK FALSE` in every cfg: each of these programs ends.

**Fairness.** `Solve`, `WithPkgs`: weak fairness of the program's own step, as a process that
waits for nobody is scheduled; in `Solve` it includes the callback's return, since neither
callback of the repository loops for ever (`EveryRunEnds` checks that, callback
included). `Container`: weak fairness for each process; none for signals or for failing
system calls; the command is assumed to end. `Bootstrap`: weak fairness of the
running script, and of somebody starting it again. The number of faults is finite
(`budget`), none of them has to happen. `control` checks no liveness: its programs are loops
over finite input.

## Proofs

**Solver** (`SolveProofs`, `SolveRefinement`). For all constants that satisfy

- `DependencyListsAssumption`: dependency lists are sequences of names,
- `NoVersionAssumption`: NULL is not a version,
- `VerCmpAssumption`: the comparison is total on the strings, LT and GT are
  converses, GT is transitive (nothing about EQ, and it may fail). `ComparisonSuitsSolver`
  proves this of version.c's comparison, except for strings that are a revision only,

TLAPS checks `SolverInvariant`, and from it `TypeCorrect`, `SolutionIsClosed`,
`NothingUnneeded`, `NamesListedOnce`, `NewestIsChosen`, `DecisionsAreFinal` and
`AbortsForCause`; and `SolverImplementsResolution`.

The invariant `SolveInv` is needed because none of the properties is inductive.
`SolutionClosed` says something only at the end; what carries it is that the list is
*decided and closed up to the loop's position and untouched behind it*
(`Progress`, `DependenciesListed`: for packages before `cur`, and in the inner loop for
dependencies before `dep`). `ChosenIsNewest` follows from `ListsSorted` and `ChosenIsFirst`;
that the insertion keeps a list strictly descending
(`InsertionKeepsOrder`) is where transitivity is used, with incomparable or equal
entries excluded because the code fails or aborts on them. Each action has a lemma
(`OfferInv`, `ChooseInv`, `AddDependencyInv`, ...), and `NextInv` combines them. The
refinement maps `wanted` to the listed names plus those the chosen versions need: a step of
the inner loop is then a stutter, and `Choose` is `Decide`. `AbortsForCause` is about a step: the
abort is reached only behind the lookup of the same string, so the entry that compares
equal is another one.

**Versions** (`VersionProofs`). For strings of any length and integers of any width
(`WidthAssumption`: unsigned is not wider than unsigned long long; `CommandLinesAssumption`:
arguments are strings of the model's characters without NUL):

- `VersionsAreOrdered`: on what version_validate takes, version_cmp never fails, is reflexive, and
  gives opposite answers for opposite questions; among versions that are not a revision only
  (`LacksUpstream`) LT, EQ and GT are transitive. The argument is about three-way
  comparisons in general: `Consistent(x, y, z)` says that there can be an order in which a and b
  compare as x, b and c as y, a and c as z. Comparing by rank is consistent, and so is comparing
  by two consistent comparisons in turn, or by the first difference of two sequences of
  them. cmp_verstr is of that form once its loop's positions are functions of the iteration
  (`Starts`), with one exception: an iteration in which one string is used up still calls
  strtoull for it, which reads on behind the part. There the character that follows decides
  (NUL, or the '-' before a revision), and only a '-' behind an empty upstream version does harm.
- `ComparisonSuitsSolver`: so Solve's assumption holds, also with invalid names among the versions.
- `PkgVerCmpInvariant`, and from it `PkgVerCmpNeverAborts`, `ExtremesArePrinted` and
  `AnswersAreAntisymmetric`: the scan's best operand is no worse than all before `next`, which
  transitivity carries from one operand to the next.

**withpkgs, pkgsolve, repository** (`WithPkgsProofs`). For all repositories, command lines,
orders of readdir and failures of malloc (`NamesAssumption`, `ScenariosAssumption`: arguments and
names of entries are sequences of tokens, the characters the parsers look at and runs of all
others; dependency lists are sequences of names; and the solver's assumptions):

- `ToolsDriveTheSolver`: a behaviour of `WithPkgs` is one of `Solve`: get_pkg keeps to what a
  callback may do. All that is proved of the solver holds in the two programs, and `SolveInv`
  is part of `WithInv`.
- `WithPkgsInvariant`: `WithInv` relates the four stages of a program. The cache has each name once and
  holds what the disk has of it (`CacheTrue`); what the solver was offered is in the cache
  (`OffersTrue`), and as get_pkg never moves on to a second version it was offered one version per
  package (`OneVersionOffered`); `FailureHasCause` and `OutputFromResult` carry this to the exit.
- `FailuresHaveCause` and `ProgramTypeCorrect` follow. solve_result_package's
  n-th package is the n-th chosen one because the positions before it are counted.
- `SolutionsAreUsable` says of the arguments that build_args makes that withenv reads them as it would
  read the passed-through ones alone, with the directory and the solution added, and of the
  solution that it can be used. withenv cuts NAME,VERSION at the first comma, so it needs
  names without one (`PlainNames`). Packages that the user names to withenv behind `--` are mounted
  as they are: nobody solves for them, and the property says so by adding the solution to
  them (`Environment(output)`, against `PassedThrough`). withenv's parser is a recursive function of
  the number of arguments (`OneMoreRead` is its step); `JoinedFields`, `JoinedValue` and
  `JoinedArgument` undo the commas that build_args puts between a name and its version,
  `PackagesReadBack` reads the generated prefix, and `RestReadBack` shows that what
  follows does the same to whatever has been read before it.
- `CommandsAreKept`: `CommandInv` says of the first parser what it has kept so far of an argument list
  of any length. Then the values of -w, -c, -m and -p that reach withenv are those that were given.

**Container** (`ContainerProofs`). For any packages, trees, options and PATH_MAX >= 2
(`PathMaxAssumption`; `ScenariosAssumption`: packages and directories have the kinds of entries
`IsContents` names):

- `ProcessesInvariant` and `StatusIsPassedOn`. `StatusInv` has four parts besides types: who can be
  alive when (`Lineage`), that a success at any level comes from the command
  (`SuccessIsTheCommands`), and that an unharmed parent ends after its child, with its status
  unless waitpid could not tell it because SIGCHLD is ignored (`ParentsWait`). Every way to end is one lemma, `EndsInv`, with what the code guarantees of
  that process as hypotheses.
- `ContainerInvariant`: `EnvInv` adds withenv's stages and link_tree. Its activations are a path through
  one package's tree, each with the path it was called for as a prefix of the shared buffer, and
  what each has still to visit is a suffix of its directory (`FramesTrue`); the merged tree is the
  union of what packages done with and activations past have (`MergedTrue`), where an entry is
  *waiting* while an activation on its path has not come to it. A step visits one
  entry, so that exactly the paths below it stop waiting.
- `CommandsSeeTheUnion`, `LinksAreReadOnly`, `FailuresOfWithenvHaveCause`, `ContainerTypeCorrect`.
  A cycle of directories ends because a path that is too long fails; the proof needs no bound on
  the depth other than PATH_MAX.

**Control files** (`ControlProofs`). For all words (`WordsAssumption`: they are strings, and
nothing else), files, command lines, operands and faults (`ToolsAssumption`: files are lists of
lines, options have text as their arguments, the labels gencontrol prints are words, and the
option that pkgcontrol is given is one it has):

- `ListsStayLinked`: the invariant `LinkedInv` says that each paragraph is a non-empty sequence
  of fields with non-empty sequences of lines. What the sequences hold is left open (some
  set): `FieldLine` appends to a paragraph that it may have just opened, which is the one
  moment a paragraph is empty, and `AppendShape` and `OnLastShape` say what that does.
- `ToolsKeepTypes`: `TypeInv` adds that the loop's paragraph and its binary package have the same
  number, and that a field is parsed only into a record that has it.
- `LinesAreCounted`: the specification counts (a line's paragraph is the number of paragraphs begun by
  then), the code appends. `Fits(ps, lines, n)` says that the parser's lists are what the first n lines
  say: each field has the texts of those of its lines that are among the first n, in order, where order
  is said by ranks (`AtPositions` takes the position of rank k as its k-th), so that one more line
  adds one element at the end (`TextsAtMore`). Whether a break is pending is whether one came behind the
  last line with text (`Broken`). There are lemmas for a line without text (`FitsSkipping`), one that
  opens a paragraph (`FitsOpened`), begins a field (`FitsField`) or continues one (`FitsContinuation`).
- `WellFormedIsAccepted`, `RecordsSayAll`: `Halfway` says of the loop over fields that what lines before
  field F of paragraph P say (`DoneIn`) fits, and is what the record has (`TargetSays`), with the
  binary packages behind complete, their source's dependencies included (`BinsSay`). A member
  that is not empty has been set by an earlier field of the same name, which is why the code's
  test of the record finds the repeated fields that `Malformed` counts (`FieldRefused`, and `FitIn`
  for the other direction). `Complete` is what is left at the end, and `FailInv` says that what
  failed was malformed.
- `CompleteFilesDoNotCrash`: `Complete` over a file with the required fields leaves no string unset
  (`SourceSaid`, `BinarySaid`), and lists never hold an empty one.
- `WhatIsPrintedIsRead` composes the others with what gencontrol prints. `Sheet` says of the printed
  lines what the reading looks at: which begin a field of which name, which continue it, and
  the trimmed text of each (`FileIsSheet`; `AroundSeparator` and `TrimBehind` undo the label, the
  space and the indentation). From it follow the reading of every field (`SheetReading`,
  `SheetSays`) and that the file is well formed (`SheetFits`), so `FailInv` leaves pkgcontrol no
  reason to refuse it and `Complete` says what its record is (`SheetRecord`). The texts from the
  source's file need no assumption, trimming has left them without spaces around (`SourceClean`);
  those of the command line do, which is `IsPrintable`. The invariant `RoundInv` carries the file from
  the step that prints it (`OutputWritten`) to the reader, stage by stage (`OutputIsRead`).
- `FailuresAreSeen`: once `-o` has opened its file, a run that fails leaves nothing in it that a
  reader accepts, with one exception: a kill between fclose and exit leaves the whole file
  that was asked for (`AskedFor`). The invariant `FailureInv` says that the file is empty until it is
  written whole, in the step before the exit (`EmptyUntilWritten`), and stays as it is for the
  reader (`EmptyForReaders`), whose parser has no paragraph of an empty one to make a
  record of (`NothingToParse`). A failing fopen ends the run at once (`OutputFailed`) and leaves what was
  there before, so that nothing can be promised of it; nor of a write that was cut short.

**Bootstrap** (`BootstrapProofs`). For all lists, recipes, numbers of faults and restarts that
satisfy `PlansAssumption` (lists are sequences of packages with recipes; no recipe names a
source twice; `NamesAreTelling`: the first binary package of a recipe bears its name, no two
recipes make the same one, versions tell stages apart, and one list has the tools, once), for
any number of stops. TLC evaluates the assumption on the real lists and recipes.

- `PrefixStaysInOrder`: `OrderInv` says that the rest of the list is a suffix of it, that what is
  before it is installed, and that `.done` marks only what is installed. The last survives a
  stop in the middle of an installation because what is being installed is not marked.
- `NoLinkIsInTheWay`: `LinksInv` says that a pkgbuild that is about to unpack has an empty
  directory, and that what is left to link is not there yet; the second pkgbuild of stage 2
  works in the first one's directory, but does not unpack.
- `StagesDoDeliver`: `ContentsInv` says that a repository has all of a package or nothing of it,
  unless it is being copied or was cut short, and that a package whose name is not there has nothing
  complete. That makes the scripts' test for one directory a test for all of them
  (`SkipsTell`). `CopyInv` carries it through the copying of one binary package after the other,
  for which `BuildInv` says that pkgbuild has made them all, with control files. `BehindInv` says of
  the lists' entries behind the running script that they are complete or cut short. A copy of
  the previous repository has nothing of the new stage (`ContentsOfNew`), as versions tell the
  stages apart.
- `WholePackagesStayWhole`: what is about to be written is not complete, and writes go to no
  other key; `BootstrapTypeCorrect`.

Recursive definitions are written as recursive functions, of which `DataLemmas` shows that they
satisfy their equation (`RecursionExists`, `RecursionFromZero`) and what follows by induction
(`InductionTo`, from `LeastOf`, a least counterexample): the library's induction theorems cannot be
instantiated by the provers, sets of numbers without a least element can.

Only model-checked: every liveness property (fairness and ENABLED are out of the prover's
reach); `AgreesWithReference`, whose reference cuts strings into runs in another way (`FlattenSeq`, a
fold over operators); `ContainersResolve`, which is true of the repository's lists and recipes and
not of others, and goes over the sets of packages recursively.

## Findings

Five disagreements between the code and its own comments, and one of the
scripts with fetch.sh; each is a violation run above and is quoted in `PROJECT.json`.
The proof of the order turned up more of the one at version.c:226: version_cmp is not transitive on
versions that consist of a revision only (1:-1 is older than 1:-2, 1:-2 older than
1:18446744073709551615, and 1:-1 equals the latter), so that `PrintedIsExtreme` and the solver's sorted list are only
good without them; the pool of run `pkgvercmp` has such versions. `CommandKept` was false too as first
written: withpkgs takes a `-p`, `-d` or `--` that is the value of withenv's -w for its own.
Seen while reading, without a run: README.md:10 gives `-p mksh sbase` to withpkgs, whose -p takes
one package, so that withenv runs sbase as the command (`CommandKept` in run `withpkgs` says
what does hold: with `--`, or without stray words); gencontrol looks at no result of fprintf and
fclose and exits 0 over a file that is cut short (`WriteCutShort`); parse_source
(control.c:432) frees a string twice when memory runs out in it (`FreesTwice`); README.md:50 runs stage1.sh twice and stage2.sh never,
although line 52 promises stage2_packages; README.md:44 has a make target that does not
exist; README.md:58 promises version constraints, which the tools do not have.

## Abstractions

- Names, versions (outside of `Version`) and file contents are opaque values.
- `getopt` permutes as glibc's does; musl's stops at the first operand.
- PATH_MAX is counted in path components, not in characters.
- A package's own links lead into that package, as those of the recipes do (mksh, musl-dynamic,
  binutils). One that led to /bin, /lib or /include would be what has been merged there so far.
- stage0.sh:61 loops over what srccontrol prints, like stage1.sh:54: when srccontrol fails there, tar
  finds nothing to unpack and the build stops (`StopsBetween`), so it has no action of its own.
- Two hazards are listed without a property. A copy of a repository that is cut short
  (stage2.sh:14) and a loop over the output of a srccontrol that failed (stage1.sh:54) do go
  wrong in the code; they are actions of `Bootstrap`, and what they hit is excepted (`torn`).
- The kernel is modelled as far as withenv depends on it: existing paths, missing
  sources, mounts. Mount propagation to a host with shared mounts is not.
- Control files: a line is a sequence of tokens, the characters the tools look at and words of
  all others. A file is smaller than stdio's buffer, and a write error cuts it at the end of
  a line. puts(NULL) and strcmp(NULL, ...) crash, fprintf of NULL prints "(null)".
- The scripts of packages either leave what they should or are a fault. Merge conflicts
  between real packages are `Container`'s subject, with invented contents.
- The `-~~stage1` directories of `packages/` are symbolic links to the newest recipe;
  `Recipes` takes them to have its control file.
- Memory that is freed at the end (`solve_destroy`, `repo_destroy`) has no action.

## Not modelled, and the plan

Done, in the order of what everything else rests on: the solver with its proofs; versions;
withpkgs and repository; container; pkgbuild and bootstrap; control files and their tools;
proofs about all of them. Left:

1. wget -nc in fetch.sh, which keeps the remains of an interrupted download. (What a bootstrap
   makes of them is up to tar and gzip, and looks like a fault of an unpack script.)
2. An abstract specification of a bootstrap (a set of packages that only grows, each built from
   those before it) that `Bootstrap` implements while no copy is cut short; `BootstrapInv` has
   what the step proof needs.

`PkgBuild` and `WithPkgs` still take a control file to be there, readable or not, and are not
composed with `ControlTools`: that would multiply their states by contents they do not look at.
What they assume is what `control` checks: a file that gencontrol has written is readable and
has the dependencies of its source, and one that it has opened and failed to write is not readable.
One that it failed to open stays as it was; pkgbuild calls it in a directory in which there is
none yet.

Left out for good: CI (`.travis_test.sh`, uploads by scp), the recipes' build scripts and
patches (other projects' build systems), the Makefile.
