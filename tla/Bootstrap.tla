----------------------------- MODULE Bootstrap ------------------------------
(***************************************************************************)
(* bootstrap/stage0.sh to stage3.sh, run one after the other while each    *)
(* succeeds: each builds a list of packages, and skips those it finds done.*)
(* Stage 0 installs into a prefix and marks what it has built with .done;  *)
(* the others have pkgbuild build in a work directory, copy the binary     *)
(* packages into the repository of their stage, and take a package for     *)
(* done when its directory is there.                                       *)
(*                                                                         *)
(* Any step may be the last one: something in it fails (the scripts run    *)
(* under set -e), or it is killed.  Then somebody starts the chain again.  *)
(***************************************************************************)
EXTENDS PkgBuild, FiniteSets, FiniteSetsExt

CONSTANTS
    Plans,      \* initial choices of [recipes, distfiles, lists, faults]
    MaxLost     \* bound on what a copy of a repository that is cut short lacks

(***************************************************************************)
(* Lists are sequences of packages there are recipes for, and no recipe    *)
(* names a source twice.                                                   *)
(***************************************************************************)
IsPlan(rs, ls) ==
    /\ \A n \in 0..3 :
        /\ ls[n] \in Seq(ToSet(ls[n]))
        /\ \A entry \in ToSet(ls[n]) : entry[1] \in DOMAIN rs
    /\ \A pkg \in DOMAIN rs :
        /\ rs[pkg].sources \in Seq(ToSet(rs[pkg].sources))
        /\ IsInjective(rs[pkg].sources)

Tools == "staticdistro-tools"

(***************************************************************************)
(* What the scripts' test for a finished package relies on: a recipe's     *)
(* first binary package bears its name, no other recipe makes any of them, *)
(* and the versions of stages 1 to 3 end in the name of the stage; for the *)
(* tools, of which any version counts, that only one list has them, once.  *)
(***************************************************************************)
NamesAreTelling(rs, ls) ==
    /\ \A pkg \in DOMAIN rs :
        /\ rs[pkg].bins \in Seq(ToSet(rs[pkg].bins)) \ {<<>>}
        /\ IsInjective(rs[pkg].bins)
        /\ Head(rs[pkg].bins) = pkg
        /\ \A other \in DOMAIN rs \ {pkg} : ToSet(rs[pkg].bins) \cap ToSet(rs[other].bins) = {}
    /\ \A n, m \in 1..3 : \A entry \in ToSet(ls[n]), other \in ToSet(ls[m]) :
        /\ entry[2] = other[2] => n = m
        /\ entry[1] = Tools /\ other[1] = Tools => n = m /\ entry[2] = other[2]

ASSUME PlansAssumption ==
    \A p \in Plans : /\ IsPlan(p.recipes, p.lists)
                     /\ NamesAreTelling(p.recipes, p.lists)
                     /\ p.faults \in Nat

VARIABLES
    lists,      \* lists[n]: what stage n builds, pairs <<package, pass>>
    budget,     \* bound on the faults still to come
    stage,      \* the running script
    pc,         \* where it is
    rest,       \* what is left of its list, the first being built
    bins,       \* binary packages still to be copied
    done,       \* the passes of stage 0 marked with .done
    installed,  \* the passes of stage 0 that the prefix has all of
    torn        \* <<stage, package>> whose copying was cut short; "all": the repository's

scriptVars == <<stage, pc, rest, bins, done, installed, torn>>
buildVars == <<call, step, left, work>>
plan == <<recipes, distfiles, lists>>
bvars == <<plan, budget, scriptVars, buildVars, repo>>

Begin(n) == stage' = n /\ pc' = "begin" /\ rest' = <<>> /\ bins' = <<>>

BInit ==
    /\ \E p \in Plans :
        /\ recipes = p.recipes /\ distfiles = p.distfiles
        /\ lists = p.lists /\ budget = p.faults
    /\ stage = 0 /\ pc = "begin" /\ rest = <<>> /\ bins = <<>>
    /\ done = {} /\ installed = {} /\ torn = {}
    /\ repo = <<>>
    /\ call = [pkg |-> Tools] /\ step = "none" /\ left = <<>>
    /\ work = <<>>

-----------------------------------------------------------------------------
\* The list of the script; a stage's repository is made when it is not there.
ListStarts == pc' = "package" /\ rest' = lists[stage] /\ UNCHANGED <<stage, bins>>

Copied == IF stage = 1 THEN <<>> ELSE repo[stage - 1]

\* stage3.sh: its inner script runs in a container itself.
Stage3Runs == stage = 3 => Resolves(2, {"mksh", "sbase", Tools})

BeginStage ==
    /\ pc = "begin"
    /\ Stage3Runs
    /\ ListStarts
    /\ repo' = IF stage > Len(repo) THEN Append(repo, Copied) ELSE repo
    /\ UNCHANGED <<plan, budget, done, installed, torn, buildVars>>

StageCannotBegin ==
    /\ pc = "begin"
    /\ ~Stage3Runs
    /\ pc' = "stopped"
    /\ UNCHANGED <<plan, budget, stage, rest, bins, done, installed, torn, buildVars, repo>>

\* Fault (against BTypeOK): the chain goes on after the last stage.
EndStageAndGoOn ==
    /\ pc = "package"
    /\ rest = <<>>
    /\ Begin(stage + 1)
    /\ UNCHANGED <<plan, budget, done, installed, torn, buildVars, repo>>

EndStage ==
    /\ pc = "package"
    /\ rest = <<>>
    /\ IF stage = 3 THEN pc' = "finished" /\ UNCHANGED <<stage, rest, bins>>
                    ELSE Begin(stage + 1)
    /\ UNCHANGED <<plan, budget, done, installed, torn, buildVars, repo>>

Pkg == Head(rest)[1]
Pass == Head(rest)[2]

\* Fault (against WholeStaysWhole): all binary packages are looked for, not one.
IsThereWithAll(pkg, pass) ==
    \A b \in ToSet(recipes[pkg].bins) : <<b, pass>> \in DOMAIN repo[stage]

\* The directory of a version; of the tools, whose version is the date, of any version.
IsThere(pkg, pass) ==
    IF pkg = Tools THEN \E key \in DOMAIN repo[stage] : key[1] = pkg
    ELSE <<pkg, pass>> \in DOMAIN repo[stage] /\ repo[stage][<<pkg, pass>>] # "name"

\* Fault (against PrefixInOrder): a build directory is taken for a finished build.
SkipsBuildDir ==
    IF stage = 0 THEN <<stage, Head(rest)>> \in DOMAIN work ELSE IsThere(Pkg, Pass)

Skips == IF stage = 0 THEN Head(rest) \in done ELSE IsThere(Pkg, Pass)

\* Fault (against BootstrapFinishes): "exit" in place of "return".
SkipExits ==
    /\ pc = "package"
    /\ rest # <<>>
    /\ Skips
    /\ pc' = "stopped"
    /\ UNCHANGED <<plan, budget, stage, rest, bins, done, installed, torn, buildVars, repo>>

Skip ==
    /\ pc = "package"
    /\ rest # <<>>
    /\ Skips
    /\ rest' = Tail(rest)
    /\ UNCHANGED <<plan, budget, stage, pc, bins, done, installed, torn, buildVars, repo>>

\* The build directory, which may be left from before, is removed and made anew.
BuildDir == <<stage, Head(rest)>>

\* Fault (against NoOldLinkInTheWay): no rm -rf of the build directory.
KeptWork ==
    [dir \in DOMAIN work \cup {BuildDir} |->
        IF dir = BuildDir /\ dir \notin DOMAIN work THEN FreshWork ELSE work[dir]]

CleanWork ==
    [dir \in DOMAIN work \cup {BuildDir} |-> IF dir = BuildDir THEN FreshWork ELSE work[dir]]

\* The one pkgbuild of stages 1 and 3, or the first of stage 2, which only unpacks.
PkgbuildCall ==
    [pkg |-> Pkg, dir |-> BuildDir, pkg_dir |-> IF stage = 3 THEN 3 ELSE Host,
     do_unpack |-> TRUE, do_build |-> stage # 2, do_gencontrol |-> stage # 2]

\* Fault (against StagesDeliver): the second call has -C as well.
SecondCallNoControl == [call EXCEPT !.do_unpack = FALSE, !.do_build = TRUE, !.pkg_dir = 2]

SecondCall == [call EXCEPT !.do_unpack = FALSE, !.do_build = TRUE,
                           !.do_gencontrol = TRUE, !.pkg_dir = 2]

Prepare ==
    /\ pc = "package"
    /\ rest # <<>>
    /\ ~Skips
    /\ work' = CleanWork
    /\ IF stage = 0 THEN pc' = "build" /\ UNCHANGED <<call, step>>
                    ELSE pc' = "pkgbuild" /\ call' = PkgbuildCall /\ step' = "start"
    /\ UNCHANGED <<plan, budget, stage, rest, bins, done, installed, torn, left, repo>>

-----------------------------------------------------------------------------
\* build_s0_pkg: distfiles, unpack and build scripts, which install into the prefix.
BuildStage0 ==
    /\ pc = "build"
    /\ IF ToSet(recipes[Pkg].sources) \subseteq distfiles
       THEN pc' = "touch" /\ installed' = installed \cup {Head(rest)}
       ELSE pc' = "stopped" /\ UNCHANGED installed
    /\ UNCHANGED <<plan, budget, stage, rest, bins, done, torn, buildVars, repo>>

TouchDone ==
    /\ pc = "touch"
    /\ done' = done \cup {Head(rest)}
    /\ rest' = Tail(rest)
    /\ pc' = "package"
    /\ UNCHANGED <<plan, budget, stage, bins, installed, torn, buildVars, repo>>

RunPkgbuild ==
    /\ pc = "pkgbuild"
    /\ Pkgbuild
    /\ UNCHANGED <<lists, budget, scriptVars>>

\* pkgbuild exits; the list srccontrol -p prints says what to copy.
PkgbuildExits ==
    /\ pc = "pkgbuild"
    /\ \/ /\ step = "exit 0" /\ ~call.do_build
          /\ call' = SecondCall /\ step' = "start"
          /\ UNCHANGED <<pc, bins>>
       \/ /\ step = "exit 0" /\ call.do_build
          /\ pc' = "copy" /\ bins' = recipes[Pkg].bins /\ step' = "none"
          /\ UNCHANGED call
       \/ /\ step = "exit 1"
          /\ pc' = "stopped" /\ step' = "none"
          /\ UNCHANGED <<bins, call>>
    /\ UNCHANGED <<plan, budget, stage, rest, done, installed, torn, left, work, repo>>

\* The repository after binary package b has got into the given state.
With(b, state) ==
    [repo EXCEPT ![stage] = [key \in DOMAIN @ \cup {<<b, Pass>>} |->
                                IF key = <<b, Pass>> THEN state ELSE @[key]]]

CopyBin ==
    /\ pc = "copy"
    /\ bins # <<>>
    /\ Head(bins) \in work[BuildDir].built
    /\ repo' = With(Head(bins), IF Head(bins) \in work[BuildDir].controls
                                THEN "whole" ELSE "bare")
    /\ bins' = Tail(bins)
    /\ UNCHANGED <<plan, budget, stage, pc, rest, done, installed, torn, buildVars>>

CopyEnds ==
    /\ pc = "copy"
    /\ bins = <<>>
    /\ rest' = Tail(rest)
    /\ pc' = "package"
    /\ UNCHANGED <<plan, budget, stage, bins, done, installed, torn, buildVars, repo>>

-----------------------------------------------------------------------------
Stops ==
    /\ budget > 0
    /\ pc \notin {"stopped", "finished"}
    /\ budget' = budget - 1
    /\ pc' = "stopped"
    /\ step' = "none"
    /\ UNCHANGED <<plan, stage, rest, bins, done, call, left, work>>

\* A fault that leaves what it hits as it was, or in a work directory.
StopsBetween ==
    /\ Stops
    /\ torn' = IF pc = "copy" /\ bins # <<>> /\ bins # recipes[Pkg].bins
               THEN torn \cup {<<stage, Pkg>>} ELSE torn
    /\ UNCHANGED <<installed, repo>>

\* In the scripts of stage 0: what they install is partly there.
StopsInStage0 ==
    /\ Stops
    /\ pc = "build"
    /\ installed' = installed \ {Head(rest)}
    /\ UNCHANGED <<torn, repo>>

\* In cp of a binary package.
StopsInCopy ==
    /\ Stops
    /\ pc = "copy"
    /\ bins # <<>>
    /\ \E state \in PartlyCopied : repo' = With(Head(bins), state)
    /\ torn' = torn \cup {<<stage, Pkg>>}
    /\ UNCHANGED installed

\* In cp of the repository of the stage before.
StopsInRepository ==
    /\ Stops
    /\ pc = "begin"
    /\ stage > Max({Len(repo), 1})
    /\ \E lost \in [1..MaxLost -> DOMAIN Copied] :
        repo' = Append(repo, [key \in DOMAIN Copied \ {lost[k] : k \in 1..MaxLost} |-> Copied[key]])
    /\ torn' = torn \cup {<<stage, "all">>}
    /\ UNCHANGED installed

\* srccontrol -p fails: a for loop over its output does not notice.  (Nor does that over
\* srccontrol -s in stage 0, where tar then finds nothing to unpack: StopsBetween.)
SrccontrolFails ==
    /\ budget > 0
    /\ pc = "copy"
    /\ Pkg # Tools
    /\ bins = recipes[Pkg].bins
    /\ budget' = budget - 1
    /\ bins' = <<>>
    /\ torn' = torn \cup {<<stage, Pkg>>}
    /\ UNCHANGED <<plan, stage, pc, rest, done, installed, buildVars, repo>>

Fault ==
    \/ StopsBetween
    \/ StopsInStage0
    \/ StopsInCopy
    \/ StopsInRepository
    \/ SrccontrolFails

\* Somebody starts the scripts again.
Restart ==
    /\ pc = "stopped"
    /\ Begin(0)
    /\ UNCHANGED <<plan, budget, done, installed, torn, buildVars, repo>>

ScriptStep ==
    \/ BeginStage \/ StageCannotBegin \/ EndStage
    \/ Skip \/ Prepare
    \/ BuildStage0 \/ TouchDone
    \/ RunPkgbuild \/ PkgbuildExits
    \/ CopyBin \/ CopyEnds

BNext == ScriptStep \/ Fault \/ Restart

\* A script runs on, and one that has stopped is started again some time.
BSpec == BInit /\ [][BNext]_bvars /\ WF_bvars(ScriptStep) /\ WF_bvars(Restart)

-----------------------------------------------------------------------------
\* Types of the scripts' and pkgbuild's state.
BTypeOK ==
    /\ stage \in 0..3
    /\ pc \in {"begin", "package", "build", "touch", "pkgbuild", "copy", "stopped", "finished"}
    /\ step \in Steps
    /\ budget \in Nat
    /\ done \subseteq ToSet(lists[0])
    /\ installed \subseteq ToSet(lists[0])
    /\ \A n \in DOMAIN repo : \A key \in DOMAIN repo[n] :
        repo[n][key] \in PartlyCopied \cup {"whole"}
    /\ \A dir \in DOMAIN work : work[dir].unpacked \in BOOLEAN

\* All of what stage n is to build is in its repository.
Delivered(n, entry) ==
    \A b \in ToSet(recipes[entry[1]].bins) :
        <<b, entry[2]>> \in DOMAIN repo[n] /\ repo[n][<<b, entry[2]>>] = "whole"

\* A stage's script has exited with success, in this run of the chain.
Exited(n) == stage > n \/ (stage = n /\ pc = "finished")

(***************************************************************************)
(* A stage that ends well has delivered all it was to build: what earlier  *)
(* runs left, in whatever way they stopped, is either redone or complete,  *)
(* except where a copy into the repository was cut short.                  *)
(***************************************************************************)
StagesDeliver ==
    \A n \in 1..3 : Exited(n) =>
        \A entry \in ToSet(lists[n]) :
            <<n, entry[1]>> \notin torn => Delivered(n, entry)

(***************************************************************************)
(* Whenever a script is run in a container, the repository has all the     *)
(* packages it needs, with theirs: the order of the lists is right for     *)
(* the recipes, also after restarts that skip, as long as no copy was cut  *)
(* short.                                                                  *)
(***************************************************************************)
ContainersResolve ==
    pc = "pkgbuild" /\ call.pkg_dir # Host /\ torn = {} =>
        /\ step = "unpack" => Resolves(call.pkg_dir, recipes[Pkg].unpack)
        /\ step = "build" => Resolves(call.pkg_dir, recipes[Pkg].build)

(***************************************************************************)
(* copy_file never finds an old link in its way: each attempt at a package *)
(* has a clean work directory, however the one before stopped, and of the  *)
(* two pkgbuilds of stage 2 only one links.                                *)
(***************************************************************************)
NoOldLinkInTheWay ==
    pc = "pkgbuild" /\ step = "unpack" /\ left # <<>> => Head(left) \notin WorkDir.sources

(***************************************************************************)
(* Stage 0 builds a pass only when all passes before it are installed, and *)
(* stage 1 begins only when all are: .done stands for a complete install   *)
(* and the restarts keep the order.                                        *)
(***************************************************************************)
PrefixInOrder ==
    /\ stage = 0 /\ pc = "build" =>
        \A k \in DOMAIN lists[0] :
            k <= Len(lists[0]) - Len(rest) => lists[0][k] \in installed
    /\ stage > 0 => ToSet(lists[0]) \subseteq installed

(***************************************************************************)
(* What is in a repository stays whole: no later run writes over a         *)
(* complete package, so that no fault can break one.                       *)
(***************************************************************************)
WholeStaysWhole ==
    [][\A n \in DOMAIN repo : \A key \in DOMAIN repo[n] :
        repo[n][key] = "whole" => repo'[n][key] = "whole"]_bvars

(***************************************************************************)
(* When faults cease the chain gets to its end, unless one of them has cut *)
(* a copy short.                                                           *)
(***************************************************************************)
BootstrapFinishes == <>(pc = "finished" \/ torn # {})

-----------------------------------------------------------------------------
(***************************************************************************)
(* "make sure it's not completed yet" (stage1.sh:38, stage2.sh:42,         *)
(* stage3_inner.sh:40): a package is skipped only when it is complete.     *)
(***************************************************************************)
SkippedAreComplete ==
    pc = "package" /\ stage > 0 /\ rest # <<>> /\ Skips => Delivered(stage, Head(rest))

(***************************************************************************)
(* fetch.sh stage3 names what it fetches for: "binutils m4 gmp mpfr mpc    *)
(* musl-dynamic perl texinfo bison flex patch gcc" (fetch.sh:30).          *)
(***************************************************************************)
DistfilesAreThere ==
    pc = "pkgbuild" /\ step = "unpack" /\ left # <<>> => Head(left) \in distfiles

=============================================================================
