------------------------------ MODULE PkgBuild ------------------------------
(***************************************************************************)
(* tools/pkgbuild.c: in a work directory, link the sources of a package,   *)
(* run its unpack script and its build script, and have gencontrol write a *)
(* control file for each binary package; the first failure ends it.        *)
(*                                                                         *)
(* The scripts of the packages are external.  Their success is what they   *)
(* leave in the work directory; what makes them fail is left to the module *)
(* that runs pkgbuild, except for what pkgbuild itself decides.            *)
(***************************************************************************)
EXTENDS Integers, Sequences, FiniteSets, SequencesExt

VARIABLES
    recipes,    \* recipes[pkg]: what control.c reads from a source control file
    distfiles,  \* the files in the directory of -d
    repo,       \* repo[n]: the package directory of stage n, <<name, version>> |-> state
    call,       \* the parameters of the running pkgbuild
    step,       \* what it does now: a member of Steps
    left,       \* sources still to link, or binary packages without control file
    work        \* work[dir]: the work directories there are

Steps == {"none", "start", "unpack", "build", "gencontrol", "exit 0", "exit 1"}

\* The empty work directory, with the control file and the scripts only.
FreshWork == [sources |-> {}, unpacked |-> FALSE, built |-> {}, controls |-> {}]

\* A copy of a package may have a name only, or lack its control file or other files.
PartlyCopied == {"name", "bare", "control"}

(***************************************************************************)
(* withpkgs can use a package that has a version with a control file.      *)
(***************************************************************************)
Readable(r, name) ==
    \E key \in DOMAIN r : key[1] = name /\ r[key] \in {"control", "whole"}

(***************************************************************************)
(* names and all they depend on, which is what the solver chooses:         *)
(* gencontrol gives each binary package the run-time dependencies of its   *)
(* source.                                                                 *)
(***************************************************************************)
RunDepends(found) ==
    UNION {recipes[q].run : q \in {q \in DOMAIN recipes :
        recipes[q].run # {} /\ ToSet(recipes[q].bins) \cap found # {}}}

Needed(names) ==
    LET Names == names \cup UNION {recipes[q].run : q \in DOMAIN recipes}
        Closure[found \in SUBSET Names] ==
            LET more == found \cup RunDepends(found) IN
            IF more = found THEN found ELSE Closure[more]
    IN Closure[names]

Resolves(n, names) == \A name \in Needed(names) : Readable(repo[n], name)

-----------------------------------------------------------------------------
\* The host's tools, in place of -p and a package directory.
Host == 0

StepAfter(s) ==
    IF s = "start" /\ call.do_unpack THEN "unpack"
    ELSE IF s \in {"start", "unpack"} /\ call.do_build THEN "build"
    ELSE IF s # "gencontrol" /\ call.do_gencontrol THEN "gencontrol"
    ELSE "exit 0"

\* What the next step has to go through.
LeftFor(s) ==
    CASE s = "unpack"     -> recipes[call.pkg].sources
      [] s = "gencontrol" -> recipes[call.pkg].bins
      [] OTHER            -> <<>>

ContinueAfter(s) ==
    /\ step' = StepAfter(s)
    /\ left' = LeftFor(step')

PkgbuildFails ==
    /\ step' = "exit 1"
    /\ left' = <<>>
    /\ UNCHANGED <<call, work>>

\* main, up to its first step.
Main ==
    /\ step = "start"
    /\ ContinueAfter("start")
    /\ UNCHANGED <<call, work>>

WorkDir == work[call.dir]

\* copy_file: linkat, which makes no link where there is a file already.
CopyFile ==
    /\ step = "unpack"
    /\ left # <<>>
    /\ \/ /\ Head(left) \in distfiles
          /\ Head(left) \notin WorkDir.sources
          /\ work' = [work EXCEPT ![call.dir].sources = @ \cup {Head(left)}]
          /\ left' = Tail(left)
          /\ UNCHANGED <<call, step>>
       \/ /\ Head(left) \notin distfiles \/ Head(left) \in WorkDir.sources
          /\ PkgbuildFails

\* run_exec, or run_exec_env with the packages that the script depends on.
Runs(names) == IF call.pkg_dir = Host THEN TRUE ELSE Resolves(call.pkg_dir, names)

RunUnpack ==
    /\ step = "unpack"
    /\ left = <<>>
    /\ \/ /\ Runs(recipes[call.pkg].unpack)
          /\ work' = [work EXCEPT ![call.dir].unpacked = TRUE]
          /\ ContinueAfter("unpack")
          /\ UNCHANGED call
       \/ ~Runs(recipes[call.pkg].unpack) /\ PkgbuildFails

\* build.sh installs a directory for each binary package.
RunBuild ==
    /\ step = "build"
    /\ \/ /\ Runs(recipes[call.pkg].build)
          /\ WorkDir.unpacked
          /\ work' = [work EXCEPT ![call.dir].built = ToSet(recipes[call.pkg].bins)]
          /\ ContinueAfter("build")
          /\ UNCHANGED call
       \/ ~(Runs(recipes[call.pkg].build) /\ WorkDir.unpacked) /\ PkgbuildFails

Gencontrol ==
    /\ step = "gencontrol"
    /\ \/ /\ left # <<>>
          /\ Head(left) \in WorkDir.built
          /\ work' = [work EXCEPT ![call.dir].controls = @ \cup {Head(left)}]
          /\ left' = Tail(left)
          /\ UNCHANGED <<call, step>>
       \/ /\ left # <<>>
          /\ Head(left) \notin WorkDir.built
          /\ PkgbuildFails
       \/ /\ left = <<>>
          /\ ContinueAfter("gencontrol")
          /\ UNCHANGED <<call, work>>

Pkgbuild ==
    /\ Main \/ CopyFile \/ RunUnpack \/ RunBuild \/ Gencontrol
    /\ UNCHANGED <<recipes, distfiles, repo>>

=============================================================================
