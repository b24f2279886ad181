-------------------------- MODULE BootstrapProofs ---------------------------
(***************************************************************************)
(* Theorems about the bootstrap scripts, for all plans, faults and         *)
(* restarts: stage 0 installs in order, no link is in the way of           *)
(* pkgbuild's, each stage delivers what it is to build, and what is whole  *)
(* in a repository stays whole.                                            *)
(***************************************************************************)
EXTENDS Bootstrap, SequenceTheorems, TLAPS

AtWork == pc \in {"package", "build", "touch", "pkgbuild", "copy"}

\* A running script is somewhere in the list of its stage.
ListInv ==
    /\ IsPlan(recipes, lists)
    /\ stage \in 0..3
    /\ AtWork => rest \in Seq(ToSet(lists[stage]))
    /\ pc \in {"build", "touch", "pkgbuild", "copy"} => rest # <<>>

(***************************************************************************)
(* The inductive invariant behind PrefixInOrder.  Its heart is that .done  *)
(* is neither there before a pass is installed nor, when the scripts that  *)
(* install it stop half-way, for a pass that is being installed again.     *)
(***************************************************************************)
Passed == Len(lists[0]) - Len(rest)

OrderInv ==
    /\ pc \in {"build", "touch"} => stage = 0
    /\ pc \in {"pkgbuild", "copy"} => stage > 0
    /\ pc = "build" => Head(rest) \notin done
    /\ pc = "touch" => Head(rest) \in installed
    /\ done \subseteq installed
    /\ stage = 0 /\ pc \in {"package", "build", "touch"} =>
        /\ Len(rest) <= Len(lists[0])
        /\ \A k \in 1..Len(rest) : rest[k] = lists[0][Passed + k]
        /\ \A k \in 1..Passed : lists[0][k] \in installed
    /\ stage > 0 => ToSet(lists[0]) \subseteq installed

(***************************************************************************)
(* The inductive invariant behind NoOldLinkInTheWay: only a call that has  *)
(* a fresh directory unpacks, and what is left to link is not there yet.   *)
(***************************************************************************)
CallShaped ==
    /\ DOMAIN call = {"pkg", "dir", "pkg_dir", "do_unpack", "do_build", "do_gencontrol"}
    /\ call.pkg \in DOMAIN recipes
    /\ call.dir \in DOMAIN work
    /\ DOMAIN work[call.dir] = {"sources", "unpacked", "built", "controls"}

LinksInv ==
    pc = "pkgbuild" =>
        /\ CallShaped
        /\ step = "start" /\ call.do_unpack => WorkDir.sources = {}
        /\ step = "unpack" =>
            /\ left \in Seq(ToSet(left))
            /\ IsInjective(left)
            /\ ToSet(left) \cap WorkDir.sources = {}

(***************************************************************************)
(* What the scripts and pkgbuild leave in their variables is of its type,  *)
(* and the names stay as the plan has them.                                *)
(***************************************************************************)
TypeInv ==
    /\ NamesAreTelling(recipes, lists)
    /\ pc \in {"begin", "package", "build", "touch", "pkgbuild", "copy", "stopped", "finished"}
    /\ budget \in Nat
    /\ done \subseteq ToSet(lists[0])
    /\ installed \subseteq ToSet(lists[0])
    /\ \A dir \in DOMAIN work : work[dir].unpacked \in BOOLEAN

(***************************************************************************)
(* pkgbuild, when it builds, leaves each binary package with its control   *)
(* file in the directory of the script's current package.                  *)
(***************************************************************************)
Bins(pkg) == ToSet(recipes[pkg].bins)

BuildInv ==
    /\ step \in Steps
    /\ pc = "pkgbuild" =>
        /\ call.pkg = Pkg /\ call.dir = BuildDir
        /\ call.do_build = call.do_gencontrol
        /\ step = "build" => call.do_build
        /\ step = "gencontrol" =>
            /\ call.do_gencontrol
            /\ left \in Seq(Bins(Pkg))
            /\ Bins(Pkg) \subseteq WorkDir.built
            /\ Bins(Pkg) \subseteq WorkDir.controls \cup ToSet(left)
        /\ step = "exit 0" /\ call.do_build =>
            Bins(Pkg) \subseteq WorkDir.built \cap WorkDir.controls
    /\ pc = "copy" =>
        Bins(Pkg) \subseteq work[BuildDir].built \cap work[BuildDir].controls

(***************************************************************************)
(* There is a repository for each stage begun, and those before.           *)
(***************************************************************************)
RepoInv ==
    /\ \E S : repo \in Seq(S)
    /\ Len(repo) <= 3
    /\ Len(repo) >= stage - 1
    /\ AtWork \/ pc = "finished" => Len(repo) >= stage

(***************************************************************************)
(* What a repository holds of an entry of the lists.                       *)
(***************************************************************************)
Absent(n, entry) == \A b \in Bins(entry[1]) : <<b, entry[2]>> \notin DOMAIN repo[n]

NothingWhole(n, entry) ==
    \A b \in Bins(entry[1]) :
        <<b, entry[2]>> \in DOMAIN repo[n] => repo[n][<<b, entry[2]>>] # "whole"

\* The first binary package, which has the name the scripts look for, is there.
IsNamed(n, entry) ==
    entry \in DOMAIN repo[n] /\ repo[n][entry] # "name"

Torn(n, entry) == <<n, entry[1]>> \in torn

IsCurrent(n, entry) == pc = "copy" /\ n = stage /\ entry[1] = Pkg /\ entry[2] = Pass

\* Nothing else got into the repository of stage n than what the stages up to n build.
HasOrigin(n, key) ==
    \E m \in 1..n : \E entry \in ToSet(lists[m]) : \E b \in Bins(entry[1]) :
        key = <<b, entry[2]>>

(***************************************************************************)
(* A package is in a repository with all of its binary packages, or with   *)
(* none, unless it is being copied or its copying was cut short; and when  *)
(* its name is not there, none of it is complete.                          *)
(***************************************************************************)
EntryInv(n, entry) ==
    /\ Absent(n, entry) \/ Delivered(n, entry) \/ Torn(n, entry) \/ IsCurrent(n, entry)
    /\ IsNamed(n, <<entry[1], entry[2]>>) \/ NothingWhole(n, entry)

KeysInv(n) ==
    \A key \in DOMAIN repo[n] :
        repo[n][key] \in PartlyCopied \cup {"whole"} /\ HasOrigin(n, key)

ContentsInv ==
    \A n \in 1..Len(repo) : KeysInv(n) /\ \A entry \in ToSet(lists[n]) : EntryInv(n, entry)

\* What is left to copy is not there yet, and the rest of the package is.
CopyInv ==
    /\ pc = "pkgbuild" =>
        /\ NothingWhole(stage, Head(rest))
        /\ Absent(stage, Head(rest)) \/ Torn(stage, Head(rest))
    /\ pc = "copy" =>
        /\ bins \in Seq(Bins(Pkg)) /\ IsInjective(bins)
        /\ \/ bins \in {<<>>, recipes[Pkg].bins}
           \/ Pkg \notin ToSet(bins) /\ IsNamed(stage, <<Pkg, Pass>>)
        /\ \A b \in Bins(Pkg) :
            LET key == <<b, Pass>> IN
            /\ b \in ToSet(bins) /\ key \in DOMAIN repo[stage] => repo[stage][key] # "whole"
            /\ \/ Torn(stage, Head(rest))
               \/ b \in ToSet(bins) /\ key \notin DOMAIN repo[stage]
               \/ b \notin ToSet(bins) /\ key \in DOMAIN repo[stage] /\ repo[stage][key] = "whole"

\* Entry k of the list of stage n is done with.
IsDealtWith(n, k) == Delivered(n, lists[n][k]) \/ Torn(n, lists[n][k])

(***************************************************************************)
(* The inductive invariant behind StagesDeliver: what the running script   *)
(* and those before it have left behind them.                              *)
(***************************************************************************)
BehindInv ==
    /\ \A n \in 1..3 : Exited(n) => \A k \in 1..Len(lists[n]) : IsDealtWith(n, k)
    /\ stage > 0 /\ AtWork =>
        /\ Len(rest) <= Len(lists[stage])
        /\ \A k \in 1..Len(rest) : rest[k] = lists[stage][(Len(lists[stage]) - Len(rest)) + k]
        /\ \A k \in 1..(Len(lists[stage]) - Len(rest)) : IsDealtWith(stage, k)

-----------------------------------------------------------------------------
\* The head and the tail of a list that is not empty.
LEMMA OffTheList ==
  ASSUME NEW s, NEW S, s \in Seq(S), s # <<>>
  PROVE  /\ Len(s) \in Nat \ {0} /\ DOMAIN s = 1..Len(s)
         /\ Head(s) = s[1] /\ s[1] \in S
         /\ Tail(s) \in Seq(S) /\ Len(Tail(s)) = Len(s) - 1
         /\ DOMAIN Tail(s) = 1..(Len(s) - 1)
         /\ \A k \in 1..(Len(s) - 1) : Tail(s)[k] = s[k + 1]
<1>1. Len(s) \in Nat \ {0} /\ DOMAIN s = 1..Len(s)
  BY EmptySeq, LenProperties
<1>2. Head(s) = s[1] /\ s[1] \in S
  BY <1>1, ElementOfSeq, HeadTailProperties
<1>3. /\ Tail(s) \in Seq(S) /\ Len(Tail(s)) = Len(s) - 1
      /\ \A k \in 1..Len(Tail(s)) : Tail(s)[k] = s[k + 1]
  BY HeadTailProperties
<1>4. DOMAIN Tail(s) = 1..(Len(s) - 1)
  BY <1>3, LenProperties
<1> QED
  BY <1>1, <1>2, <1>3, <1>4

\* The package and pass at hand are those of an entry of the list.
LEMMA AnEntry ==
  ASSUME ListInv, AtWork, rest # <<>>
  PROVE  Pkg \in DOMAIN recipes /\ Tail(rest) \in Seq(ToSet(lists[stage]))
<1>1. rest \in Seq(ToSet(lists[stage])) /\ stage \in 0..3 /\ IsPlan(recipes, lists)
  BY DEF ListInv
<1>2. Head(rest) \in ToSet(lists[stage]) /\ Tail(rest) \in Seq(ToSet(lists[stage]))
  BY <1>1, OffTheList
<1> QED
  BY <1>1, <1>2 DEF IsPlan, Pkg

LEMMA ListStep ==
  ASSUME ListInv, [BNext]_bvars
  PROVE  ListInv'
<1> USE DEF AtWork
<1>1. IsPlan(recipes, lists)'
  <2>1. UNCHANGED <<recipes, lists>>
    BY DEF BNext, ScriptStep, Fault, Restart, BeginStage, StageCannotBegin, EndStage, Skip, Prepare,
           BuildStage0, TouchDone, RunPkgbuild, Pkgbuild, PkgbuildExits, CopyBin, CopyEnds,
           StopsBetween, StopsInStage0, StopsInCopy, StopsInRepository, Stops, SrccontrolFails,
           plan, bvars
  <2> QED
    BY <2>1 DEF ListInv
<1>2. CASE UNCHANGED bvars
  BY <1>1, <1>2 DEF bvars, scriptVars, plan, ListInv
<1>3. CASE BeginStage
  BY <1>1, <1>3 DEF BeginStage, ListStarts, ListInv, IsPlan, plan
<1>4. CASE StageCannotBegin
  BY <1>1, <1>4 DEF StageCannotBegin, ListInv
<1>5. CASE EndStage
  BY <1>1, <1>5 DEF EndStage, Begin, ListInv
<1>6. CASE Skip \/ TouchDone
  BY <1>1, <1>6, AnEntry DEF Skip, TouchDone, ListInv, plan
<1>7. CASE Prepare
  BY <1>1, <1>7 DEF Prepare, ListInv, plan
<1>8. CASE BuildStage0
  BY <1>1, <1>8 DEF BuildStage0, ListInv, plan
<1>9. CASE RunPkgbuild
  BY <1>1, <1>9 DEF RunPkgbuild, scriptVars, ListInv
<1>10. CASE PkgbuildExits
  BY <1>1, <1>10 DEF PkgbuildExits, ListInv, plan
<1>11. CASE CopyBin
  BY <1>1, <1>11 DEF CopyBin, ListInv, plan
<1>12. CASE CopyEnds
  BY <1>1, <1>12, AnEntry DEF CopyEnds, ListInv, plan
<1>13. CASE StopsBetween \/ StopsInStage0 \/ StopsInCopy \/ StopsInRepository
  BY <1>1, <1>13 DEF StopsBetween, StopsInStage0, StopsInCopy, StopsInRepository, Stops, ListInv
<1>14. CASE SrccontrolFails
  BY <1>1, <1>14 DEF SrccontrolFails, ListInv, plan
<1>15. CASE Restart
  BY <1>1, <1>15 DEF Restart, Begin, ListInv
<1> QED
  BY <1>2, <1>3, <1>4, <1>5, <1>6, <1>7, <1>8, <1>9, <1>10, <1>11, <1>12, <1>13, <1>14, <1>15
     DEF BNext, ScriptStep, Fault

-----------------------------------------------------------------------------
LEMMA OrderStep ==
  ASSUME ListInv, OrderInv, [BNext]_bvars
  PROVE  OrderInv'
<1> USE DEF OrderInv, Passed
<1>1. /\ UNCHANGED lists
      /\ stage \in 0..3
      /\ lists[0] \in Seq(ToSet(lists[0]))
      /\ Len(lists[0]) \in Nat /\ DOMAIN lists[0] = 1..Len(lists[0])
  <2>1. UNCHANGED lists
    BY DEF BNext, ScriptStep, Fault, Restart, BeginStage, StageCannotBegin, EndStage, Skip, Prepare,
           BuildStage0, TouchDone, RunPkgbuild, Pkgbuild, PkgbuildExits, CopyBin, CopyEnds,
           StopsBetween, StopsInStage0, StopsInCopy, StopsInRepository, Stops, SrccontrolFails,
           plan, bvars
  <2>2. lists[0] \in Seq(ToSet(lists[0])) /\ stage \in 0..3
    BY DEF ListInv, IsPlan
  <2> QED
    BY <2>1, <2>2, LenProperties
<1>2. ASSUME pc \in {"package", "touch"}, stage = 0, rest # <<>>, Head(rest) \in installed,
             rest' = Tail(rest), pc' = "package",
             UNCHANGED <<stage, installed>>, done' \subseteq installed
      PROVE  OrderInv'
  <2>1. rest \in Seq(ToSet(lists[0]))
    BY <1>2 DEF ListInv, AtWork
  <2>2. /\ Len(rest) \in Nat \ {0}
        /\ Head(rest) = rest[1]
        /\ Len(rest') = Len(rest) - 1
        /\ \A k \in 1..(Len(rest) - 1) : rest'[k] = rest[k + 1]
    BY <1>2, <2>1, OffTheList
  <2>3. Passed' = Passed + 1 /\ Passed \in Nat
    BY <1>1, <1>2, <2>2
  <2>4. \A k \in 1..Len(rest') : rest'[k] = lists'[0][Passed' + k]
    <3> TAKE k \in 1..Len(rest')
    <3>0. k \in 1..(Len(rest) - 1)
      BY <2>2
    <3>1. k + 1 \in 1..Len(rest) /\ Passed + (k + 1) = (Passed + 1) + k
      <4> HIDE DEF Passed
      <4> QED
        BY <2>2, <2>3, <3>0
    <3>2. rest'[k] = rest[k + 1]
      BY <2>2, <3>0
    <3>3. rest[k + 1] = lists[0][Passed + (k + 1)]
      BY <1>2, <3>1
    <3> QED
      BY <1>1, <2>3, <3>1, <3>2, <3>3
  <2>5. \A k \in 1..Passed' : lists'[0][k] \in installed'
    <3> TAKE k \in 1..Passed'
    <3>1. CASE k \in 1..Passed
      BY <1>1, <1>2, <3>1
    <3>2. CASE k = Passed + 1
      <4>1. rest[1] = lists[0][Passed + 1]
        BY <1>2, <2>2
      <4> QED
        BY <1>1, <1>2, <2>2, <3>2, <4>1
    <3>3. k \in 1..Passed \/ k = Passed + 1
      BY <2>3
    <3> QED
      BY <3>1, <3>2, <3>3
  <2> QED
    BY <1>1, <1>2, <2>2, <2>4, <2>5
<1>3. ASSUME stage > 0, ~(pc' \in {"build", "touch"}),
             UNCHANGED <<stage, done, installed>>
      PROVE  OrderInv'
  BY <1>1, <1>3
<1>4. ASSUME pc' \in {"stopped", "finished", "begin", "pkgbuild", "copy"},
             pc' \in {"pkgbuild", "copy"} => pc \in {"pkgbuild", "copy"},
             UNCHANGED <<stage, done, installed>>
      PROVE  OrderInv'
  BY <1>1, <1>4
<1>5. CASE UNCHANGED bvars
  BY <1>1, <1>5 DEF bvars, scriptVars, plan
<1>6. CASE BeginStage
  <2>1. CASE stage = 0
    BY <1>1, <1>6, <2>1 DEF BeginStage, ListStarts
  <2>2. CASE stage > 0
    BY <1>3, <1>6, <2>2 DEF BeginStage, ListStarts
  <2> QED
    BY <1>1, <2>1, <2>2
<1>7. CASE StageCannotBegin
  BY <1>4, <1>7 DEF StageCannotBegin
<1>8. CASE EndStage
  <2>1. CASE stage = 0
    <3>1. rest = <<>> /\ Len(rest) = 0 /\ pc = "package"
      BY <1>8 DEF EndStage
    <3>2. \A k \in 1..Len(lists[0]) : lists[0][k] \in installed
      BY <1>1, <2>1, <3>1
    <3>3. ToSet(lists[0]) \subseteq installed
      BY <1>1, <3>2 DEF ToSet
    <3> QED
      BY <1>1, <1>8, <2>1, <3>3 DEF EndStage, Begin
  <2>2. CASE stage > 0
    BY <1>1, <1>8, <2>2 DEF EndStage, Begin
  <2> QED
    BY <1>1, <2>1, <2>2
<1>9. CASE Skip
  <2>1. CASE stage = 0
    <3>1. Head(rest) \in installed
      BY <1>9, <2>1 DEF Skip, Skips
    <3> QED
      BY <1>2, <1>9, <2>1, <3>1 DEF Skip
  <2>2. CASE stage > 0
    BY <1>3, <1>9, <2>2 DEF Skip
  <2> QED
    BY <1>1, <2>1, <2>2
<1>10. CASE Prepare
  <2>1. CASE stage = 0
    BY <1>1, <1>10, <2>1 DEF Prepare, Skips
  <2>2. CASE stage > 0
    BY <1>3, <1>10, <2>2 DEF Prepare
  <2> QED
    BY <1>1, <2>1, <2>2
<1>11. CASE BuildStage0
  BY <1>1, <1>11 DEF BuildStage0
<1>12. CASE TouchDone
  <2>1. rest # <<>>
    BY <1>12 DEF TouchDone, ListInv
  <2> QED
    BY <1>2, <1>12, <2>1 DEF TouchDone
<1>13. CASE RunPkgbuild
  BY <1>4, <1>13 DEF RunPkgbuild, scriptVars
<1>14. CASE PkgbuildExits
  BY <1>4, <1>14 DEF PkgbuildExits
<1>15. CASE CopyBin
  BY <1>4, <1>15 DEF CopyBin
<1>16. CASE CopyEnds
  <2>1. stage > 0
    BY <1>16 DEF CopyEnds
  <2> QED
    BY <1>3, <1>16, <2>1 DEF CopyEnds
<1>17. CASE StopsBetween \/ StopsInCopy \/ StopsInRepository
  BY <1>4, <1>17 DEF StopsBetween, StopsInCopy, StopsInRepository, Stops
<1>18. CASE StopsInStage0
  <2>1. /\ pc = "build" /\ stage = 0 /\ Head(rest) \notin done
        /\ UNCHANGED <<stage, rest, done>> /\ pc' = "stopped"
        /\ installed' = installed \ {Head(rest)}
    BY <1>18 DEF StopsInStage0, Stops
  <2> QED
    BY <1>1, <2>1
<1>19. CASE SrccontrolFails
  BY <1>4, <1>19 DEF SrccontrolFails
<1>20. CASE Restart
  BY <1>1, <1>20 DEF Restart, Begin
<1> QED
  BY <1>5, <1>6, <1>7, <1>8, <1>9, <1>10, <1>11, <1>12, <1>13, <1>14, <1>15, <1>16, <1>17, <1>18,
     <1>19, <1>20
     DEF BNext, ScriptStep, Fault

(***************************************************************************)
(* Stage 0 builds a pass only on top of all passes before it, and stage 1  *)
(* begins only on top of all, whatever the lists are, wherever the scripts *)
(* stop and how often they are started again (bootstrap/stage0.sh).        *)
(***************************************************************************)
THEOREM PrefixStaysInOrder == BSpec => []PrefixInOrder
<1>1. BInit => ListInv /\ OrderInv
  BY PlansAssumption DEF BInit, ListInv, OrderInv, AtWork
<1>2. ListInv /\ OrderInv /\ [BNext]_bvars => (ListInv /\ OrderInv)'
  BY ListStep, OrderStep
<1>3. ListInv /\ OrderInv => PrefixInOrder
  <2>1. SUFFICES ASSUME ListInv, OrderInv PROVE PrefixInOrder
    OBVIOUS
  <2>2. CASE stage = 0 /\ pc = "build"
    <3>1. lists[0] \in Seq(ToSet(lists[0])) /\ rest \in Seq(ToSet(lists[0]))
      BY <2>1, <2>2 DEF ListInv, IsPlan, AtWork
    <3>2. Len(lists[0]) \in Nat /\ DOMAIN lists[0] = 1..Len(lists[0]) /\ Len(rest) \in Nat
      BY <3>1, LenProperties
    <3> QED
      BY <2>1, <2>2, <3>2 DEF OrderInv, Passed, PrefixInOrder
  <2> QED
    BY <2>1, <2>2 DEF OrderInv, PrefixInOrder
<1> QED
  BY <1>1, <1>2, <1>3, PTL DEF BSpec

-----------------------------------------------------------------------------
\* What is left to link, after the first of it has been linked.
LEMMA LinkOne ==
  ASSUME NEW s, s \in Seq(ToSet(s)), IsInjective(s), s # <<>>,
         NEW there, ToSet(s) \cap there = {}
  PROVE  /\ Tail(s) \in Seq(ToSet(Tail(s))) /\ IsInjective(Tail(s))
         /\ ToSet(Tail(s)) \cap (there \cup {Head(s)}) = {}
<1>1. /\ Len(s) \in Nat \ {0} /\ DOMAIN s = 1..Len(s)
      /\ Head(s) = s[1]
      /\ Tail(s) \in Seq(ToSet(s)) /\ Len(Tail(s)) = Len(s) - 1
      /\ DOMAIN Tail(s) = 1..(Len(s) - 1)
      /\ \A k \in 1..(Len(s) - 1) : Tail(s)[k] = s[k + 1]
  BY OffTheList
<1>2. \A k \in 1..(Len(s) - 1) : k + 1 \in DOMAIN s /\ k + 1 # 1
  BY <1>1
<1>3. IsInjective(Tail(s))
  <2> SUFFICES ASSUME NEW i \in 1..(Len(s) - 1), NEW j \in 1..(Len(s) - 1),
                      Tail(s)[i] = Tail(s)[j]
               PROVE  i = j
    BY <1>1 DEF IsInjective
  <2>1. s[i + 1] = s[j + 1]
    BY <1>1
  <2>2. i + 1 = j + 1
    BY <1>2, <2>1 DEF IsInjective
  <2> QED
    BY <2>2
<1>4. ToSet(Tail(s)) \subseteq ToSet(s) \ {Head(s)}
  <2> SUFFICES ASSUME NEW k \in 1..(Len(s) - 1)
               PROVE  Tail(s)[k] \in ToSet(s) /\ Tail(s)[k] # Head(s)
    BY <1>1 DEF ToSet
  <2>1. Tail(s)[k] = s[k + 1] /\ 1 \in DOMAIN s
    BY <1>1
  <2> QED
    BY <1>1, <1>2, <2>1 DEF ToSet, IsInjective
<1>5. Tail(s) \in Seq(ToSet(Tail(s)))
  <2>1. Tail(s) \in [1..(Len(s) - 1) -> ToSet(s)]
    BY <1>1, LenProperties
  <2>2. Tail(s) \in [1..(Len(s) - 1) -> ToSet(Tail(s))]
    BY <1>1, <2>1 DEF ToSet
  <2>3. Len(s) - 1 \in Nat
    BY <1>1
  <2> QED
    BY <2>2, <2>3, SeqDef
<1> QED
  BY <1>3, <1>4, <1>5

(***************************************************************************)
(* The steps of pkgbuild, in a work directory of its own.                  *)
(***************************************************************************)
LEMMA PkgbuildLinks ==
  ASSUME ListInv, LinksInv, RunPkgbuild
  PROVE  LinksInv'
<1> USE DEF LinksInv, CallShaped, WorkDir
<1>1. /\ pc = "pkgbuild" /\ CallShaped
      /\ UNCHANGED <<pc, recipes>>
      /\ Main \/ CopyFile \/ RunUnpack \/ RunBuild \/ Gencontrol
  BY DEF RunPkgbuild, Pkgbuild, scriptVars
<1>2. StepAfter("start") = "unpack" => call.do_unpack
  BY DEF StepAfter
<1>3. StepAfter("unpack") # "unpack" /\ StepAfter("build") # "unpack"
      /\ StepAfter("gencontrol") # "unpack"
  BY DEF StepAfter
<1>4. \A t : StepAfter(t) # "start"
  BY DEF StepAfter
<1>5. ASSUME UNCHANGED call, step' \notin {"start", "unpack"},
             \/ UNCHANGED work
             \/ \E u : work' = [work EXCEPT ![call.dir].unpacked = u]
             \/ \E b : work' = [work EXCEPT ![call.dir].built = b]
             \/ \E cs : work' = [work EXCEPT ![call.dir].controls = cs]
      PROVE  LinksInv'
  <2>1. call.dir \in DOMAIN work' /\ DOMAIN work'[call.dir] = DOMAIN work[call.dir]
    BY <1>1, <1>5
  <2> QED
    BY <1>1, <1>5, <2>1
<1>6. CASE Main
  <2>1. /\ step = "start" /\ UNCHANGED <<call, work>>
        /\ step' = StepAfter("start") /\ left' = LeftFor(step')
    BY <1>6 DEF Main, ContinueAfter
  <2>2. CASE step' = "unpack"
    <3>1. left' = recipes[call.pkg].sources /\ call.do_unpack
      BY <1>2, <2>1, <2>2 DEF LeftFor
    <3>2. left' \in Seq(ToSet(left')) /\ IsInjective(left')
      BY <1>1, <3>1 DEF ListInv, IsPlan
    <3>3. WorkDir.sources = {}
      BY <1>1, <2>1, <3>1
    <3> QED
      BY <1>1, <2>1, <2>2, <3>2, <3>3
  <2>3. CASE step' # "unpack"
    BY <1>4, <1>5, <2>1, <2>3
  <2> QED
    BY <2>2, <2>3
<1>7. CASE CopyFile
  <2>1. /\ step = "unpack" /\ left # <<>>
        /\ left \in Seq(ToSet(left)) /\ IsInjective(left) /\ ToSet(left) \cap WorkDir.sources = {}
    BY <1>1, <1>7 DEF CopyFile
  <2>2. CASE PkgbuildFails
    BY <1>5, <2>2 DEF PkgbuildFails
  <2>3. CASE /\ work' = [work EXCEPT ![call.dir].sources = @ \cup {Head(left)}]
             /\ left' = Tail(left)
             /\ UNCHANGED <<call, step>>
    <3>1. /\ DOMAIN work' = DOMAIN work
          /\ DOMAIN work'[call.dir] = DOMAIN work[call.dir]
          /\ work'[call.dir].sources = work[call.dir].sources \cup {Head(left)}
      BY <1>1, <2>3
    <3>2. /\ Tail(left) \in Seq(ToSet(Tail(left))) /\ IsInjective(Tail(left))
          /\ ToSet(Tail(left)) \cap (WorkDir.sources \cup {Head(left)}) = {}
      BY <2>1, LinkOne
    <3> QED
      BY <1>1, <2>1, <2>3, <3>1, <3>2
  <2> QED
    BY <1>7, <2>2, <2>3 DEF CopyFile
<1>8. CASE RunUnpack
  BY <1>3, <1>4, <1>5, <1>8 DEF RunUnpack, ContinueAfter, PkgbuildFails
<1>9. CASE RunBuild
  BY <1>3, <1>4, <1>5, <1>9 DEF RunBuild, ContinueAfter, PkgbuildFails
<1>10. CASE Gencontrol
  <2>1. /\ UNCHANGED call /\ step' \notin {"start", "unpack"}
        /\ UNCHANGED work \/ \E cs : work' = [work EXCEPT ![call.dir].controls = cs]
    BY <1>3, <1>4, <1>10 DEF Gencontrol, ContinueAfter, PkgbuildFails
  <2> QED
    BY <1>5, <2>1
<1> QED
  BY <1>1, <1>6, <1>7, <1>8, <1>9, <1>10

LEMMA LinksStep ==
  ASSUME ListInv, LinksInv, [BNext]_bvars
  PROVE  LinksInv'
<1>1. ASSUME pc' # "pkgbuild" PROVE LinksInv'
  BY <1>1 DEF LinksInv
<1>2. CASE UNCHANGED bvars
  BY <1>2 DEF bvars, scriptVars, buildVars, plan, LinksInv, CallShaped, WorkDir
<1>3. CASE BeginStage \/ StageCannotBegin \/ EndStage \/ Skip \/ BuildStage0 \/ TouchDone
  BY <1>1, <1>3 DEF BeginStage, ListStarts, StageCannotBegin, EndStage, Begin, Skip, BuildStage0,
                    TouchDone
<1>4. CASE Prepare
  <2>1. CASE stage = 0
    BY <1>1, <1>4, <2>1 DEF Prepare
  <2>2. CASE stage # 0
    <3>1. Pkg \in DOMAIN recipes
      BY <1>4, AnEntry DEF Prepare, AtWork
    <3>2. /\ step' = "start" /\ call' = PkgbuildCall /\ work' = CleanWork
          /\ UNCHANGED recipes
      BY <1>4, <2>2 DEF Prepare, plan
    <3>3. /\ DOMAIN call' = {"pkg", "dir", "pkg_dir", "do_unpack", "do_build", "do_gencontrol"}
          /\ call'.pkg = Pkg /\ call'.dir = BuildDir
      BY <3>2 DEF PkgbuildCall
    <3>4. BuildDir \in DOMAIN work' /\ work'[BuildDir] = FreshWork
      BY <3>2 DEF CleanWork
    <3>5. FreshWork.sources = {} /\ DOMAIN FreshWork = {"sources", "unpacked", "built", "controls"}
      BY DEF FreshWork
    <3> QED
      BY <3>1, <3>2, <3>3, <3>4, <3>5 DEF LinksInv, CallShaped, WorkDir
  <2> QED
    BY <2>1, <2>2
<1>5. CASE RunPkgbuild
  BY <1>5, PkgbuildLinks
<1>6. CASE PkgbuildExits
  <2>1. CASE pc' = "pkgbuild"
    <3>1. /\ pc = "pkgbuild" /\ call' = SecondCall /\ step' = "start"
          /\ UNCHANGED <<recipes, work>>
      BY <1>6, <2>1 DEF PkgbuildExits, plan
    <3>2. CallShaped
      BY <3>1 DEF LinksInv
    <3>3. /\ DOMAIN call' = DOMAIN call /\ call'.pkg = call.pkg /\ call'.dir = call.dir
          /\ call'.do_unpack = FALSE
      BY <3>1, <3>2 DEF SecondCall, CallShaped
    <3> QED
      BY <3>1, <3>2, <3>3 DEF LinksInv, CallShaped, WorkDir
  <2> QED
    BY <1>1, <2>1
<1>7. CASE CopyBin \/ CopyEnds
  BY <1>1, <1>7 DEF CopyBin, CopyEnds
<1>8. CASE Fault \/ Restart
  BY <1>1, <1>8 DEF Fault, StopsBetween, StopsInStage0, StopsInCopy, StopsInRepository, Stops,
                    SrccontrolFails, Restart, Begin
<1> QED
  BY <1>2, <1>3, <1>4, <1>5, <1>6, <1>7, <1>8 DEF BNext, ScriptStep

(***************************************************************************)
(* copy_file's linkat never meets a file of an attempt that was stopped,   *)
(* or of the first pkgbuild of stage 2 (pkgbuild.c, copy_file; the rm -rf  *)
(* of the scripts), as long as no recipe names a source twice.             *)
(***************************************************************************)
THEOREM NoLinkIsInTheWay == BSpec => []NoOldLinkInTheWay
<1>1. BInit => ListInv /\ LinksInv
  BY PlansAssumption DEF BInit, ListInv, LinksInv, AtWork
<1>2. ListInv /\ LinksInv /\ [BNext]_bvars => (ListInv /\ LinksInv)'
  BY ListStep, LinksStep
<1>3. LinksInv => NoOldLinkInTheWay
  <2> SUFFICES ASSUME LinksInv, pc = "pkgbuild", step = "unpack", left # <<>>
               PROVE  Head(left) \notin WorkDir.sources
    BY DEF NoOldLinkInTheWay
  <2>1. left \in Seq(ToSet(left)) /\ ToSet(left) \cap WorkDir.sources = {}
    BY DEF LinksInv
  <2>2. Head(left) \in ToSet(left)
    BY <2>1, OffTheList
  <2> QED
    BY <2>1, <2>2
<1> QED
  BY <1>1, <1>2, <1>3, PTL DEF BSpec
-----------------------------------------------------------------------------
\* No step changes the plan.
LEMMA PlanStays ==
  ASSUME [BNext]_bvars
  PROVE  UNCHANGED <<recipes, distfiles, lists>>
BY DEF BNext, ScriptStep, Fault, Restart, BeginStage, StageCannotBegin, EndStage, Skip, Prepare,
       BuildStage0, TouchDone, RunPkgbuild, Pkgbuild, PkgbuildExits, CopyBin, CopyEnds,
       StopsBetween, StopsInStage0, StopsInCopy, StopsInRepository, Stops, SrccontrolFails,
       plan, bvars

\* The steps of pkgbuild write into the work directory of the call only.
LEMMA PkgbuildWorks ==
  ASSUME ListInv, LinksInv, TypeInv, RunPkgbuild
  PROVE  \A dir \in DOMAIN work' : work'[dir].unpacked \in BOOLEAN
<1>1. /\ DOMAIN work[call.dir] = {"sources", "unpacked", "built", "controls"}
      /\ call.dir \in DOMAIN work
  BY DEF RunPkgbuild, LinksInv, CallShaped
<1>2. \/ UNCHANGED work
      \/ work' = [work EXCEPT ![call.dir].unpacked = TRUE]
      \/ \E x : work' = [work EXCEPT ![call.dir].sources = x]
      \/ \E x : work' = [work EXCEPT ![call.dir].built = x]
      \/ \E x : work' = [work EXCEPT ![call.dir].controls = x]
  BY DEF RunPkgbuild, Pkgbuild, Main, CopyFile, RunUnpack, RunBuild, Gencontrol, PkgbuildFails,
         ContinueAfter
<1>3. DOMAIN work' = DOMAIN work
  BY <1>2
<1>4. \A dir \in DOMAIN work : dir # call.dir => work'[dir] = work[dir]
  BY <1>2
<1>5. work'[call.dir].unpacked \in {TRUE, work[call.dir].unpacked}
  <2>1. CASE UNCHANGED work
    BY <2>1
  <2>2. CASE work' = [work EXCEPT ![call.dir].unpacked = TRUE]
    BY <1>1, <2>2
  <2>3. CASE \E x : work' = [work EXCEPT ![call.dir].sources = x]
    BY <1>1, <2>3
  <2>4. CASE \E x : work' = [work EXCEPT ![call.dir].built = x]
    BY <1>1, <2>4
  <2>5. CASE \E x : work' = [work EXCEPT ![call.dir].controls = x]
    BY <1>1, <2>5
  <2> QED
    BY <1>2, <2>1, <2>2, <2>3, <2>4, <2>5
<1> QED
  BY <1>1, <1>3, <1>4, <1>5 DEF TypeInv

LEMMA TypeStep ==
  ASSUME ListInv, OrderInv, LinksInv, TypeInv, [BNext]_bvars
  PROVE  TypeInv'
<1> USE DEF TypeInv
<1>1. UNCHANGED <<recipes, distfiles, lists>>
  BY PlanStays
<1>2. NamesAreTelling(recipes, lists)'
  BY <1>1 DEF NamesAreTelling
<1>3. ASSUME UNCHANGED work PROVE \A dir \in DOMAIN work' : work'[dir].unpacked \in BOOLEAN
  BY <1>3
<1>4. ASSUME stage = 0, AtWork, rest # <<>> PROVE Head(rest) \in ToSet(lists[0])
  BY <1>4, OffTheList DEF ListInv
<1>5. CASE UNCHANGED bvars
  BY <1>1, <1>2, <1>3, <1>5 DEF bvars, scriptVars, buildVars
<1>6. CASE BeginStage \/ StageCannotBegin \/ EndStage \/ Skip \/ Restart
  BY <1>1, <1>2, <1>3, <1>6
     DEF BeginStage, ListStarts, StageCannotBegin, EndStage, Begin, Skip, Restart, buildVars
<1>7. CASE Prepare
  <2>1. work' = CleanWork /\ FreshWork.unpacked = FALSE
    BY <1>7 DEF Prepare, FreshWork
  <2>2. \A dir \in DOMAIN work' : work'[dir].unpacked \in BOOLEAN
    BY <2>1 DEF CleanWork
  <2> QED
    BY <1>1, <1>2, <1>7, <2>2 DEF Prepare
<1>8. CASE BuildStage0
  <2>1. Head(rest) \in ToSet(lists[0])
    BY <1>4, <1>8 DEF BuildStage0, OrderInv, ListInv, AtWork
  <2> QED
    BY <1>1, <1>2, <1>3, <1>8, <2>1 DEF BuildStage0, buildVars
<1>9. CASE TouchDone
  <2>1. Head(rest) \in ToSet(lists[0])
    BY <1>4, <1>9 DEF TouchDone, OrderInv, ListInv, AtWork
  <2> QED
    BY <1>1, <1>2, <1>3, <1>9, <2>1 DEF TouchDone, buildVars
<1>10. CASE RunPkgbuild
  <2>1. \A dir \in DOMAIN work' : work'[dir].unpacked \in BOOLEAN
    BY <1>10, PkgbuildWorks
  <2> QED
    BY <1>1, <1>2, <1>10, <2>1 DEF RunPkgbuild, scriptVars
<1>11. CASE PkgbuildExits \/ CopyBin \/ CopyEnds
  BY <1>1, <1>2, <1>3, <1>11 DEF PkgbuildExits, CopyBin, CopyEnds, buildVars
<1>12. CASE StopsBetween \/ StopsInStage0 \/ StopsInCopy \/ StopsInRepository
  <2>1. Stops /\ installed' \subseteq installed
    BY <1>12 DEF StopsBetween, StopsInStage0, StopsInCopy, StopsInRepository
  <2>2. budget' \in Nat
    BY <2>1 DEF Stops
  <2> QED
    BY <1>1, <1>2, <1>3, <2>1, <2>2 DEF Stops
<1>13. CASE SrccontrolFails
  BY <1>1, <1>2, <1>3, <1>13 DEF SrccontrolFails, buildVars
<1> QED
  BY <1>5, <1>6, <1>7, <1>8, <1>9, <1>10, <1>11, <1>12, <1>13 DEF BNext, ScriptStep, Fault

-----------------------------------------------------------------------------
\* The head of a list is all that its tail lacks.
LEMMA HeadOrTail ==
  ASSUME NEW s, NEW S, s \in Seq(S), s # <<>>
  PROVE  /\ ToSet(s) = {Head(s)} \cup ToSet(Tail(s))
         /\ IsInjective(s) => Head(s) \notin ToSet(Tail(s)) /\ IsInjective(Tail(s))
<1>1. /\ Len(s) \in Nat \ {0} /\ DOMAIN s = 1..Len(s)
      /\ Head(s) = s[1]
      /\ DOMAIN Tail(s) = 1..(Len(s) - 1)
      /\ \A k \in 1..(Len(s) - 1) : Tail(s)[k] = s[k + 1]
  BY OffTheList
<1>2. \A k \in 1..(Len(s) - 1) : k + 1 \in DOMAIN s /\ k + 1 # 1
  BY <1>1
<1>3. ToSet(s) \subseteq {Head(s)} \cup ToSet(Tail(s))
  <2> SUFFICES ASSUME NEW k \in 1..Len(s) PROVE s[k] = Head(s) \/ s[k] \in ToSet(Tail(s))
    BY <1>1 DEF ToSet
  <2>1. CASE k = 1
    BY <1>1, <2>1
  <2>2. CASE k # 1
    <3>1. k - 1 \in 1..(Len(s) - 1) /\ (k - 1) + 1 = k
      BY <1>1, <2>2
    <3> QED
      BY <1>1, <3>1 DEF ToSet
  <2> QED
    BY <2>1, <2>2
<1>4. {Head(s)} \cup ToSet(Tail(s)) \subseteq ToSet(s)
  <2>1. 1 \in DOMAIN s
    BY <1>1
  <2> QED
    BY <1>1, <1>2, <2>1 DEF ToSet
<1>5. ASSUME IsInjective(s) PROVE Head(s) \notin ToSet(Tail(s))
  <2>1. 1 \in DOMAIN s
    BY <1>1
  <2>2. \A k \in 1..(Len(s) - 1) : s[k + 1] # s[1]
    BY <1>2, <1>5, <2>1 DEF IsInjective
  <2> QED
    BY <1>1, <2>2 DEF ToSet
<1>6. ASSUME IsInjective(s) PROVE IsInjective(Tail(s))
  <2> SUFFICES ASSUME NEW i \in 1..(Len(s) - 1), NEW j \in 1..(Len(s) - 1),
                      Tail(s)[i] = Tail(s)[j]
               PROVE  i = j
    BY <1>1 DEF IsInjective
  <2>1. s[i + 1] = s[j + 1]
    BY <1>1
  <2>2. i + 1 = j + 1
    BY <1>2, <1>6, <2>1 DEF IsInjective
  <2> QED
    BY <2>2
<1> QED
  BY <1>3, <1>4, <1>5, <1>6

LEMMA NothingListed == ToSet(<<>>) = {}
<1>1. DOMAIN <<>> = {}
  OBVIOUS
<1> QED
  BY <1>1 DEF ToSet

\* What a plan says of the package at hand.
LEMMA AtHand ==
  ASSUME ListInv, TypeInv, AtWork, rest # <<>>
  PROVE  /\ Pkg \in DOMAIN recipes
         /\ recipes[Pkg].bins \in Seq(Bins(Pkg)) /\ recipes[Pkg].bins # <<>>
         /\ IsInjective(recipes[Pkg].bins)
         /\ Head(recipes[Pkg].bins) = Pkg /\ Pkg \in Bins(Pkg)
         /\ Head(rest) \in ToSet(lists[stage])
<1>1. Pkg \in DOMAIN recipes
  BY AnEntry
<1>2. /\ recipes[Pkg].bins \in Seq(Bins(Pkg)) /\ recipes[Pkg].bins # <<>>
      /\ IsInjective(recipes[Pkg].bins) /\ Head(recipes[Pkg].bins) = Pkg
  BY <1>1 DEF TypeInv, NamesAreTelling, Bins
<1>3. Pkg \in Bins(Pkg)
  BY <1>2, OffTheList DEF Bins
<1>4. Head(rest) \in ToSet(lists[stage])
  BY OffTheList DEF ListInv
<1> QED
  BY <1>1, <1>2, <1>3, <1>4

-----------------------------------------------------------------------------
(***************************************************************************)
(* The steps of pkgbuild, for what the package at hand builds.             *)
(***************************************************************************)
LEMMA PkgbuildBuilds ==
  ASSUME ListInv, LinksInv, TypeInv, BuildInv, RunPkgbuild
  PROVE  BuildInv'
<1> USE DEF BuildInv, WorkDir
<1>1. /\ pc = "pkgbuild" /\ UNCHANGED <<pc, recipes, rest, stage>>
      /\ Main \/ CopyFile \/ RunUnpack \/ RunBuild \/ Gencontrol
  BY DEF RunPkgbuild, Pkgbuild, scriptVars
<1>2. /\ Pkg' = Pkg /\ BuildDir' = BuildDir /\ Bins(Pkg)' = Bins(Pkg)
      /\ call.pkg = Pkg /\ call.dir = BuildDir /\ call.do_build = call.do_gencontrol
  BY <1>1 DEF Pkg, BuildDir, Bins
<1>3. /\ call.dir \in DOMAIN work
      /\ DOMAIN work[call.dir] = {"sources", "unpacked", "built", "controls"}
  BY <1>1 DEF LinksInv, CallShaped
<1>4. recipes[Pkg].bins \in Seq(Bins(Pkg)) /\ Bins(Pkg) = ToSet(recipes[Pkg].bins)
  <2>1. rest # <<>>
    BY <1>1 DEF ListInv
  <2> QED
    BY <1>1, <2>1, AtHand DEF AtWork, Bins
<1>5. ASSUME step' \notin {"build", "gencontrol", "exit 0"}, step' \in Steps, UNCHANGED call
      PROVE  BuildInv'
  BY <1>1, <1>2, <1>5
<1>6. PkgbuildFails => BuildInv'
  BY <1>5 DEF PkgbuildFails, Steps
<1>7. \A s : StepAfter(s) \in {"unpack", "build", "gencontrol", "exit 0"} /\ StepAfter(s) \in Steps
  BY DEF StepAfter, Steps
<1>8. CASE Main \/ RunUnpack
  <2>1. CASE UNCHANGED call /\ (step' = StepAfter("start") \/ step' = StepAfter("unpack"))
    <3>1. step' = "build" => call.do_build
      BY <2>1 DEF StepAfter
    <3>2. step' # "gencontrol"
      BY <1>2, <2>1 DEF StepAfter
    <3>3. step' = "exit 0" => ~call.do_build
      BY <1>2, <2>1 DEF StepAfter
    <3> QED
      BY <1>1, <1>2, <1>7, <2>1, <3>1, <3>2, <3>3
  <2> QED
    BY <1>6, <1>8, <2>1 DEF Main, RunUnpack, ContinueAfter
<1>9. CASE CopyFile
  BY <1>5, <1>6, <1>9 DEF CopyFile, Steps
<1>10. CASE RunBuild
  <2>1. CASE /\ step = "build" /\ UNCHANGED call
             /\ work' = [work EXCEPT ![call.dir].built = ToSet(recipes[call.pkg].bins)]
             /\ ContinueAfter("build")
    <3>1. step' = "gencontrol" /\ left' = recipes'[call'.pkg].bins /\ call.do_gencontrol
      BY <1>1, <1>2, <2>1 DEF ContinueAfter, StepAfter, LeftFor
    <3>2. left' = recipes[Pkg].bins /\ ToSet(left') = Bins(Pkg) /\ left' \in Seq(Bins(Pkg))
      BY <1>1, <1>2, <1>4, <2>1, <3>1
    <3>3. work'[call.dir].built = Bins(Pkg)
      BY <1>2, <1>3, <1>4, <2>1
    <3> QED
      BY <1>1, <1>2, <2>1, <3>1, <3>2, <3>3 DEF Steps
  <2> QED
    BY <1>6, <1>10, <2>1 DEF RunBuild
<1>11. CASE Gencontrol
  <2>1. /\ step = "gencontrol" /\ call.do_gencontrol
        /\ left \in Seq(Bins(Pkg)) /\ Bins(Pkg) \subseteq WorkDir.built
        /\ Bins(Pkg) \subseteq WorkDir.controls \cup ToSet(left)
    BY <1>1, <1>11 DEF Gencontrol
  <2>2. CASE /\ left # <<>> /\ left' = Tail(left)
             /\ work' = [work EXCEPT ![call.dir].controls = @ \cup {Head(left)}]
             /\ UNCHANGED <<call, step>>
    <3>1. Tail(left) \in Seq(Bins(Pkg)) /\ ToSet(left) = {Head(left)} \cup ToSet(Tail(left))
      BY <2>1, <2>2, HeadOrTail, OffTheList
    <3>2. /\ work'[call.dir].built = work[call.dir].built
          /\ work'[call.dir].controls = work[call.dir].controls \cup {Head(left)}
      BY <1>3, <2>2
    <3>3. Bins(Pkg) \subseteq work'[call.dir].controls \cup ToSet(left')
      BY <2>1, <2>2, <3>1, <3>2
    <3> QED
      BY <1>1, <1>2, <2>1, <2>2, <3>1, <3>2, <3>3
  <2>3. CASE left = <<>> /\ ContinueAfter("gencontrol") /\ UNCHANGED <<call, work>>
    <3>1. step' = "exit 0"
      BY <2>3 DEF ContinueAfter, StepAfter
    <3>2. ToSet(left) = {}
      BY <2>3, NothingListed
    <3> QED
      BY <1>1, <1>2, <2>1, <2>3, <3>1, <3>2 DEF Steps
  <2> QED
    BY <1>6, <1>11, <2>2, <2>3 DEF Gencontrol
<1> QED
  BY <1>1, <1>8, <1>9, <1>10, <1>11

LEMMA BuildStep ==
  ASSUME ListInv, LinksInv, TypeInv, BuildInv, [BNext]_bvars
  PROVE  BuildInv'
<1> USE DEF BuildInv
<1>1. UNCHANGED <<recipes, distfiles, lists>>
  BY PlanStays
<1>2. ASSUME pc' \notin {"pkgbuild", "copy"}, UNCHANGED step \/ step' = "none" PROVE BuildInv'
  BY <1>2 DEF Steps
<1>3. CASE UNCHANGED bvars
  BY <1>1, <1>3 DEF bvars, scriptVars, buildVars, Pkg, BuildDir, Bins, WorkDir
<1>4. CASE BeginStage \/ StageCannotBegin \/ EndStage \/ Skip \/ BuildStage0 \/ TouchDone
  BY <1>2, <1>4 DEF BeginStage, ListStarts, StageCannotBegin, EndStage, Begin, Skip, BuildStage0,
                    TouchDone, buildVars
<1>5. CASE Prepare
  <2>1. CASE stage = 0
    BY <1>2, <1>5, <2>1 DEF Prepare
  <2>2. CASE stage # 0
    <3>1. step' = "start" /\ call' = PkgbuildCall /\ pc' = "pkgbuild" /\ UNCHANGED <<rest, stage>>
      BY <1>5, <2>2 DEF Prepare
    <3>2. Pkg' = Pkg /\ BuildDir' = BuildDir
      BY <3>1 DEF Pkg, BuildDir
    <3>3. call'.pkg = Pkg /\ call'.dir = BuildDir /\ call'.do_build = call'.do_gencontrol
      BY <3>1 DEF PkgbuildCall
    <3> QED
      BY <3>1, <3>2, <3>3 DEF Steps
  <2> QED
    BY <2>1, <2>2
<1>6. CASE RunPkgbuild
  BY <1>6, PkgbuildBuilds
<1>7. CASE PkgbuildExits
  <2>1. pc = "pkgbuild" /\ UNCHANGED <<rest, stage, work>>
    BY <1>7 DEF PkgbuildExits
  <2>2. Pkg' = Pkg /\ BuildDir' = BuildDir /\ Bins(Pkg)' = Bins(Pkg)
    BY <1>1, <2>1 DEF Pkg, BuildDir, Bins
  <2>3. CASE pc' = "pkgbuild"
    <3>1. call' = SecondCall /\ step' = "start" /\ CallShaped
      BY <1>7, <2>1, <2>3 DEF PkgbuildExits, LinksInv
    <3>2. /\ call'.pkg = call.pkg /\ call'.dir = call.dir
          /\ call'.do_build = TRUE /\ call'.do_gencontrol = TRUE
      BY <3>1 DEF SecondCall, CallShaped
    <3> QED
      BY <2>1, <2>2, <2>3, <3>1, <3>2 DEF Steps
  <2>4. CASE pc' = "copy"
    <3>1. step' = "none" /\ Bins(Pkg) \subseteq WorkDir.built \cap WorkDir.controls
      BY <1>7, <2>1, <2>4 DEF PkgbuildExits
    <3>2. WorkDir = work[BuildDir]
      BY <2>1 DEF WorkDir
    <3> QED
      BY <2>1, <2>2, <2>4, <3>1, <3>2 DEF Steps
  <2>5. CASE pc' = "stopped"
    BY <1>2, <1>7, <2>5 DEF PkgbuildExits
  <2> QED
    BY <1>7, <2>3, <2>4, <2>5 DEF PkgbuildExits
<1>8. CASE CopyBin \/ SrccontrolFails
  BY <1>1, <1>8 DEF CopyBin, SrccontrolFails, buildVars, Pkg, BuildDir, Bins
<1>9. CASE CopyEnds \/ Restart
  BY <1>2, <1>9 DEF CopyEnds, Restart, Begin, buildVars
<1>10. CASE StopsBetween \/ StopsInStage0 \/ StopsInCopy \/ StopsInRepository
  BY <1>2, <1>10 DEF StopsBetween, StopsInStage0, StopsInCopy, StopsInRepository, Stops
<1> QED
  BY <1>3, <1>4, <1>5, <1>6, <1>7, <1>8, <1>9, <1>10 DEF BNext, ScriptStep, Fault

-----------------------------------------------------------------------------
(***************************************************************************)
(* What a step may do to the repositories, and no more: nothing, add one   *)
(* for the running stage, or write a binary package that is being copied.  *)
(***************************************************************************)
Adds(copy) == stage = Len(repo) + 1 /\ repo' = Append(repo, copy)

LEMMA RepositorySteps ==
  ASSUME RepoInv, ListInv, [BNext]_bvars
  PROVE  \/ UNCHANGED repo
         \/ /\ BeginStage \/ StopsInRepository
            /\ \E copy : /\ Adds(copy)
                         /\ \A key \in DOMAIN copy : stage > 1 /\ key \in DOMAIN repo[stage - 1]
                                                     /\ copy[key] = repo[stage - 1][key]
         \/ CopyBin /\ repo' = With(Head(bins), IF Head(bins) \in work[BuildDir].controls
                                                THEN "whole" ELSE "bare")
         \/ StopsInCopy /\ \E state \in PartlyCopied : repo' = With(Head(bins), state)
<1>1. stage \in 0..3 /\ Len(repo) \in Nat
  <2>1. PICK S : repo \in Seq(S)
    BY DEF RepoInv
  <2> QED
    BY <2>1, LenProperties DEF ListInv
<1>2. CASE BeginStage /\ stage > Len(repo)
  <2>1. repo' = Append(repo, Copied) /\ Len(repo) >= stage - 1
    BY <1>2 DEF BeginStage, RepoInv
  <2>2. Adds(Copied)
    BY <1>1, <1>2, <2>1 DEF Adds
  <2>3. \A key \in DOMAIN Copied : stage > 1 /\ key \in DOMAIN repo[stage - 1]
                                   /\ Copied[key] = repo[stage - 1][key]
    <3>1. CASE stage = 1
      BY <3>1 DEF Copied
    <3>2. CASE stage # 1
      <4>1. stage > 1
        BY <1>1, <1>2, <3>2
      <4> QED
        BY <3>2, <4>1 DEF Copied
    <3> QED
      BY <3>1, <3>2
  <2> QED
    BY <1>2, <2>2, <2>3
<1>3. CASE BeginStage /\ ~(stage > Len(repo))
  BY <1>3 DEF BeginStage
<1>4. CASE StopsInRepository
  <2>1. stage > Max({Len(repo), 1}) /\ Len(repo) >= stage - 1
    BY <1>4 DEF StopsInRepository, RepoInv
  <2>2. stage > Len(repo) /\ stage > 1
    <3>1. Max({Len(repo), 1}) \in Nat /\ Max({Len(repo), 1}) >= Len(repo) /\ Max({Len(repo), 1}) >= 1
      <4>1. CASE Len(repo) >= 1
        <5>1. Max({Len(repo), 1}) = Len(repo)
          BY <1>1, <4>1 DEF Max
        <5> QED
          BY <1>1, <4>1, <5>1
      <4>2. CASE ~(Len(repo) >= 1)
        <5>1. Max({Len(repo), 1}) = 1
          BY <1>1, <4>2 DEF Max
        <5> QED
          BY <1>1, <4>2, <5>1
      <4> QED
        BY <4>1, <4>2
    <3> QED
      BY <1>1, <2>1, <3>1
  <2>3. PICK lost \in [1..MaxLost -> DOMAIN Copied] :
            repo' = Append(repo, [key \in DOMAIN Copied \ {lost[k] : k \in 1..MaxLost} |->
                                    Copied[key]])
    BY <1>4 DEF StopsInRepository
  <2> DEFINE copy == [key \in DOMAIN Copied \ {lost[k] : k \in 1..MaxLost} |-> Copied[key]]
  <2>4. Adds(copy)
    BY <1>1, <2>1, <2>2, <2>3 DEF Adds
  <2>5. Copied = repo[stage - 1]
    BY <1>1, <2>2 DEF Copied
  <2>6. \A key \in DOMAIN copy : stage > 1 /\ key \in DOMAIN repo[stage - 1]
                                 /\ copy[key] = repo[stage - 1][key]
    BY <2>2, <2>5
  <2> HIDE DEF copy
  <2> QED
    BY <1>4, <2>4, <2>6
<1>5. CASE CopyBin \/ StopsInCopy
  BY <1>5 DEF CopyBin, StopsInCopy
<1>6. CASE UNCHANGED bvars
  BY <1>6 DEF bvars
<1> QED
  BY <1>2, <1>3, <1>4, <1>5, <1>6
     DEF BNext, ScriptStep, Fault, Restart, StageCannotBegin, EndStage, Skip, Prepare,
         BuildStage0, TouchDone, RunPkgbuild, Pkgbuild, PkgbuildExits, CopyEnds,
         StopsBetween, StopsInStage0, SrccontrolFails

\* What is left alone of an entry, by a step.
Untouched(n, entry) ==
    \A b \in Bins(entry[1]) :
        /\ <<b, entry[2]>> \in DOMAIN repo'[n] <=> <<b, entry[2]>> \in DOMAIN repo[n]
        /\ <<b, entry[2]>> \in DOMAIN repo[n] =>
            repo'[n][<<b, entry[2]>>] = repo[n][<<b, entry[2]>>]

\* Then all that is said of the entry remains so.
LEMMA UntouchedStays ==
  ASSUME UNCHANGED recipes, NEW n, NEW entry, Untouched(n, entry)
  PROVE  /\ Absent(n, entry)' <=> Absent(n, entry)
         /\ Delivered(n, entry)' <=> Delivered(n, entry)
         /\ NothingWhole(n, entry)' <=> NothingWhole(n, entry)
         /\ entry[1] \in Bins(entry[1]) =>
            (IsNamed(n, <<entry[1], entry[2]>>)' <=> IsNamed(n, <<entry[1], entry[2]>>))
<1>1. Bins(entry[1])' = Bins(entry[1])
  BY DEF Bins
<1>2. Absent(n, entry)' <=> Absent(n, entry)
  BY <1>1 DEF Absent, Untouched
<1>3. Delivered(n, entry)' <=> Delivered(n, entry)
  BY <1>1 DEF Delivered, Untouched, Bins
<1>4. NothingWhole(n, entry)' <=> NothingWhole(n, entry)
  BY <1>1 DEF NothingWhole, Untouched
<1>5. entry[1] \in Bins(entry[1]) =>
        (IsNamed(n, <<entry[1], entry[2]>>)' <=> IsNamed(n, <<entry[1], entry[2]>>))
  BY <1>1 DEF IsNamed, Untouched
<1> QED
  BY <1>2, <1>3, <1>4, <1>5

\* A new repository leaves the others alone.
LEMMA AddingLeaves ==
  ASSUME RepoInv, NEW copy, Adds(copy)
  PROVE  /\ (\E S : repo \in Seq(S))'
         /\ Len(repo') = stage /\ Len(repo) = stage - 1 /\ Len(repo) \in Nat
         /\ repo'[stage] = copy
         /\ \A n \in 1..Len(repo) : repo'[n] = repo[n]
<1>1. PICK S : repo \in Seq(S)
  BY DEF RepoInv
<1>2. Len(repo) \in Nat /\ DOMAIN repo = 1..Len(repo)
  BY <1>1, LenProperties
<1>3. repo \in Seq(S \cup {copy}) /\ copy \in S \cup {copy}
  <2>1. repo \in [1..Len(repo) -> S \cup {copy}]
    BY <1>1, <1>2, ElementOfSeq
  <2> QED
    BY <1>2, <2>1, SeqDef
<1>4. /\ Append(repo, copy) \in Seq(S \cup {copy})
      /\ Len(Append(repo, copy)) = Len(repo) + 1
      /\ \A i \in 1..Len(repo) : Append(repo, copy)[i] = repo[i]
      /\ Append(repo, copy)[Len(repo) + 1] = copy
  BY <1>3, AppendProperties
<1> QED
  BY <1>2, <1>4 DEF Adds

\* What is written, and what is not, when a binary package is copied.
LEMMA WritingOne ==
  ASSUME RepoInv, stage \in 1..Len(repo), NEW b, NEW state, repo' = With(b, state)
  PROVE  /\ (\E S : repo \in Seq(S))'
         /\ Len(repo') = Len(repo) /\ Len(repo) \in Nat
         /\ \A n \in 1..Len(repo) : n # stage => repo'[n] = repo[n]
         /\ DOMAIN repo'[stage] = DOMAIN repo[stage] \cup {<<b, Pass>>}
         /\ repo'[stage][<<b, Pass>>] = state
         /\ \A key \in DOMAIN repo[stage] : key # <<b, Pass>> => repo'[stage][key] = repo[stage][key]
<1>1. PICK S : repo \in Seq(S)
  BY DEF RepoInv
<1>2. Len(repo) \in Nat /\ DOMAIN repo = 1..Len(repo)
  BY <1>1, LenProperties
<1> DEFINE new == [key \in DOMAIN repo[stage] \cup {<<b, Pass>>} |->
                        IF key = <<b, Pass>> THEN state ELSE repo[stage][key]]
<1>3. repo' = [repo EXCEPT ![stage] = new]
  BY DEF With
<1>4. /\ DOMAIN new = DOMAIN repo[stage] \cup {<<b, Pass>>}
      /\ new[<<b, Pass>>] = state
      /\ \A key \in DOMAIN repo[stage] : key # <<b, Pass>> => new[key] = repo[stage][key]
  OBVIOUS
<1> HIDE DEF new
<1>5. repo' \in [1..Len(repo) -> S \cup {new}]
  <2>1. \A n \in 1..Len(repo) : repo[n] \in S
    BY <1>1, ElementOfSeq
  <2>2. repo \in [1..Len(repo) -> S \cup {new}]
    BY <1>1, <1>2, <2>1, LenProperties
  <2> QED
    BY <1>3, <2>2
<1>6. repo' \in Seq(S \cup {new}) /\ Len(repo') = Len(repo)
  <2>1. repo' \in Seq(S \cup {new})
    BY <1>2, <1>5, SeqDef
  <2>2. DOMAIN repo' = 1..Len(repo) /\ DOMAIN repo' = 1..Len(repo') /\ Len(repo') \in Nat
    BY <1>5, <2>1, LenProperties
  <2> QED
    BY <1>2, <2>1, <2>2
<1>7. repo'[stage] = new /\ \A n \in 1..Len(repo) : n # stage => repo'[n] = repo[n]
  BY <1>2, <1>3
<1> QED
  BY <1>2, <1>4, <1>6, <1>7

LEMMA RepoStep ==
  ASSUME ListInv, OrderInv, RepoInv, [BNext]_bvars
  PROVE  RepoInv'
<1>1. stage \in 0..3 /\ Len(repo) \in Nat /\ Len(repo) <= 3
  <2>1. PICK S : repo \in Seq(S)
    BY DEF RepoInv
  <2> QED
    BY <2>1, LenProperties DEF ListInv, RepoInv
<1>2. CASE UNCHANGED repo
  <2>1. (\E S : repo \in Seq(S))' /\ Len(repo') <= 3
    BY <1>2 DEF RepoInv
  <2>2. CASE UNCHANGED bvars
    BY <2>1, <2>2 DEF bvars, scriptVars, RepoInv, AtWork
  <2>3. CASE BeginStage
    <3>1. ~(stage > Len(repo))
      <4>1. SUFFICES ASSUME stage > Len(repo) PROVE FALSE
        OBVIOUS
      <4>2. PICK S : repo \in Seq(S)
        BY DEF RepoInv
      <4>3. Len(Append(repo, Copied)) = Len(repo) + 1
        BY <2>3, <4>1, AddingLeaves DEF BeginStage, RepoInv, Adds
      <4> QED
        BY <1>1, <1>2, <2>3, <4>1, <4>3 DEF BeginStage
    <3> QED
      BY <1>1, <1>2, <2>1, <2>3, <3>1 DEF BeginStage, ListStarts, RepoInv, AtWork
  <2>4. CASE EndStage
    <3>1. pc = "package" /\ Len(repo) >= stage
      BY <2>4 DEF EndStage, RepoInv, AtWork
    <3>2. CASE stage = 3
      BY <1>2, <2>1, <2>4, <3>1, <3>2 DEF EndStage, RepoInv, AtWork
    <3>3. CASE stage # 3
      BY <1>1, <1>2, <2>1, <2>4, <3>1, <3>3 DEF EndStage, Begin, RepoInv, AtWork
    <3> QED
      BY <3>2, <3>3
  <2>5. CASE Restart
    BY <1>1, <1>2, <2>1, <2>5 DEF Restart, Begin, RepoInv, AtWork
  <2>6. ASSUME stage' = stage, AtWork \/ pc' = "stopped", pc' # "begin"
        PROVE  RepoInv'
    <3>1. AtWork' \/ pc' = "finished" => Len(repo) >= stage
      <4>1. AtWork => Len(repo) >= stage
        BY DEF RepoInv
      <4> QED
        BY <2>6, <4>1 DEF AtWork
    <3> QED
      BY <1>2, <2>1, <2>6, <3>1 DEF RepoInv
  <2>7. CASE StageCannotBegin \/ StopsBetween \/ StopsInStage0 \/ StopsInCopy \/ StopsInRepository
    BY <2>6, <2>7 DEF StageCannotBegin, StopsBetween, StopsInStage0, StopsInCopy,
                      StopsInRepository, Stops
  <2>8. CASE Skip \/ Prepare \/ BuildStage0 \/ TouchDone \/ RunPkgbuild \/ PkgbuildExits
             \/ CopyBin \/ CopyEnds \/ SrccontrolFails
    BY <2>6, <2>8 DEF Skip, Prepare, BuildStage0, TouchDone, RunPkgbuild, scriptVars,
                      PkgbuildExits, CopyBin, CopyEnds, SrccontrolFails, AtWork
  <2> QED
    BY <2>2, <2>3, <2>4, <2>5, <2>7, <2>8 DEF BNext, ScriptStep, Fault
<1>3. ASSUME BeginStage \/ StopsInRepository, NEW copy, Adds(copy)
      PROVE  RepoInv'
  <2>1. (\E S : repo \in Seq(S))' /\ Len(repo') = stage
    BY <1>3, AddingLeaves
  <2>2. stage' = stage /\ pc' # "begin"
    BY <1>3 DEF BeginStage, ListStarts, StopsInRepository, Stops
  <2> QED
    BY <1>1, <2>1, <2>2 DEF RepoInv
<1>4. ASSUME CopyBin \/ StopsInCopy, NEW b, NEW state, repo' = With(b, state)
      PROVE  RepoInv'
  <2>1. pc = "copy" /\ stage' = stage /\ pc' \in {"copy", "stopped"}
    BY <1>4 DEF CopyBin, StopsInCopy, Stops
  <2>2. stage \in 1..Len(repo)
    BY <1>1, <2>1 DEF RepoInv, OrderInv, AtWork
  <2>3. (\E S : repo \in Seq(S))' /\ Len(repo') = Len(repo)
    BY <1>4, <2>2, WritingOne
  <2> QED
    BY <1>1, <2>1, <2>2, <2>3 DEF RepoInv, AtWork
<1> QED
  BY <1>2, <1>3, <1>4, RepositorySteps

-----------------------------------------------------------------------------
\* The first binary package of an entry bears the name of its recipe.
LEMMA EntryListed ==
  ASSUME ListInv, TypeInv, NEW n \in 0..3, NEW entry \in ToSet(lists[n])
  PROVE  entry[1] \in DOMAIN recipes /\ entry[1] \in Bins(entry[1])
<1>1. entry[1] \in DOMAIN recipes
  BY DEF ListInv, IsPlan
<1>2. /\ recipes[entry[1]].bins \in Seq(Bins(entry[1])) /\ recipes[entry[1]].bins # <<>>
      /\ Head(recipes[entry[1]].bins) = entry[1]
  BY <1>1 DEF TypeInv, NamesAreTelling, Bins
<1> QED
  BY <1>1, <1>2, OffTheList

\* A name and a version tell which stage makes a binary package, and from which recipe.
LEMMA KeysTell ==
  ASSUME ListInv, TypeInv, NEW n \in 1..3, NEW entry \in ToSet(lists[n]),
         NEW m \in 1..3, NEW other \in ToSet(lists[m]),
         entry[2] = other[2], NEW b \in Bins(entry[1]), b \in Bins(other[1])
  PROVE  n = m /\ entry[1] = other[1]
<1>1. entry[1] \in DOMAIN recipes /\ other[1] \in DOMAIN recipes
  BY EntryListed
<1>2. n = m
  BY DEF TypeInv, NamesAreTelling
<1>3. entry[1] # other[1] => Bins(entry[1]) \cap Bins(other[1]) = {}
  BY <1>1 DEF TypeInv, NamesAreTelling, Bins
<1> QED
  BY <1>2, <1>3

\* The package at hand, while its binary packages are being copied.
LEMMA AtCopy ==
  ASSUME ListInv, OrderInv, TypeInv, RepoInv, CopyInv, pc = "copy"
  PROVE  /\ stage \in 1..3 /\ stage \in 1..Len(repo) /\ Len(repo) \in Nat
         /\ Head(rest) \in ToSet(lists[stage]) /\ Pkg = Head(rest)[1] /\ Pass = Head(rest)[2]
         /\ Pkg \in Bins(Pkg) /\ Head(recipes[Pkg].bins) = Pkg
         /\ Bins(Pkg) = ToSet(recipes[Pkg].bins)
         /\ IsInjective(recipes[Pkg].bins) /\ recipes[Pkg].bins \in Seq(Bins(Pkg))
         /\ bins # <<>> => Head(bins) \in ToSet(bins) /\ Head(bins) \in Bins(Pkg)
<1>1. stage \in 1..3 /\ rest # <<>> /\ Len(repo) >= stage
  BY DEF ListInv, OrderInv, RepoInv, AtWork
<1>2. Len(repo) \in Nat
  <2>1. PICK S : repo \in Seq(S)
    BY DEF RepoInv
  <2> QED
    BY <2>1, LenProperties
<1>3. bins # <<>> => Head(bins) \in ToSet(bins) /\ Head(bins) \in Bins(Pkg)
  <2>1. bins \in Seq(Bins(Pkg))
    BY DEF CopyInv
  <2> QED
    BY <2>1, HeadOrTail, OffTheList
<1> QED
  BY <1>1, <1>2, <1>3, AtHand DEF AtWork, Pkg, Pass, Bins

\* When there is nothing left to copy, all has been.
LEMMA CopyDone ==
  ASSUME ListInv, OrderInv, TypeInv, RepoInv, CopyInv, pc = "copy", bins = <<>>
  PROVE  Delivered(stage, Head(rest)) \/ Torn(stage, Head(rest))
<1>1. ToSet(bins) = {}
  BY NothingListed
<1>2. Pkg = Head(rest)[1] /\ Pass = Head(rest)[2]
  BY DEF Pkg, Pass
<1> QED
  BY <1>1, <1>2 DEF CopyInv, Delivered, Bins

\* When all is left to copy, nothing has been.
LEMMA CopyNotBegun ==
  ASSUME ListInv, OrderInv, TypeInv, RepoInv, CopyInv, pc = "copy", bins = recipes[Pkg].bins
  PROVE  /\ Absent(stage, Head(rest)) \/ Torn(stage, Head(rest))
         /\ NothingWhole(stage, Head(rest))
<1>1. ToSet(bins) = Bins(Pkg)
  BY DEF Bins
<1>2. Pkg = Head(rest)[1] /\ Pass = Head(rest)[2]
  BY DEF Pkg, Pass
<1> QED
  BY <1>1, <1>2 DEF CopyInv, Absent, NothingWhole

\* Copying touches no other entry than the current one.
LEMMA WritingLeaves ==
  ASSUME ListInv, OrderInv, TypeInv, RepoInv, CopyInv, pc = "copy", bins # <<>>,
         NEW state, repo' = With(Head(bins), state),
         NEW n \in 1..Len(repo), NEW entry \in ToSet(lists[n]), ~IsCurrent(n, entry)
  PROVE  Untouched(n, entry)
<1>1. /\ stage \in 1..3 /\ stage \in 1..Len(repo) /\ Head(bins) \in Bins(Pkg)
      /\ Head(rest) \in ToSet(lists[stage]) /\ Pkg = Head(rest)[1] /\ Pass = Head(rest)[2]
  BY AtCopy
<1>2. CASE n # stage
  <2>1. repo'[n] = repo[n]
    BY <1>1, <1>2, WritingOne
  <2> QED
    BY <2>1 DEF Untouched
<1>3. CASE n = stage
  <2>1. \A b \in Bins(entry[1]) : <<b, entry[2]>> # <<Head(bins), Pass>>
    <3> SUFFICES ASSUME NEW b \in Bins(entry[1]), b = Head(bins), entry[2] = Pass PROVE FALSE
      OBVIOUS
    <3>1. entry[1] = Head(rest)[1]
      BY <1>1, <1>3, KeysTell
    <3> QED
      BY <1>1, <1>3, <3>1 DEF IsCurrent
  <2>2. /\ DOMAIN repo'[n] = DOMAIN repo[n] \cup {<<Head(bins), Pass>>}
        /\ \A key \in DOMAIN repo[n] : key # <<Head(bins), Pass>> => repo'[n][key] = repo[n][key]
    BY <1>1, <1>3, WritingOne
  <2> QED
    BY <2>1, <2>2 DEF Untouched
<1> QED
  BY <1>2, <1>3

LEMMA EntryStays ==
  ASSUME UNCHANGED recipes, torn \subseteq torn',
         NEW n, NEW entry, entry[1] \in Bins(entry[1]), EntryInv(n, entry), Untouched(n, entry),
         IsCurrent(n, entry) => \/ IsCurrent(n, entry)' \/ Torn(n, entry)'
                                \/ Absent(n, entry) \/ Delivered(n, entry)
  PROVE  EntryInv(n, entry)'
<1>1. Torn(n, entry) => Torn(n, entry)'
  BY DEF Torn
<1> QED
  BY <1>1, UntouchedStays DEF EntryInv

\* A step that leaves the repositories alone, for all entries.
LEMMA ContentsStay ==
  ASSUME ListInv, TypeInv, RepoInv, ContentsInv,
         UNCHANGED <<recipes, lists, repo>>, torn \subseteq torn',
         \A n \in 1..Len(repo) : \A entry \in ToSet(lists[n]) :
            IsCurrent(n, entry) => \/ IsCurrent(n, entry)' \/ Torn(n, entry)'
                                   \/ Absent(n, entry) \/ Delivered(n, entry)
  PROVE  ContentsInv'
<1>1. \A n \in 1..Len(repo) : n \in 1..3
  <2>1. PICK S : repo \in Seq(S)
    BY DEF RepoInv
  <2>2. Len(repo) \in Nat
    BY <2>1, LenProperties
  <2> QED
    BY <2>2 DEF RepoInv
<1>2. ASSUME NEW n \in 1..Len(repo) PROVE KeysInv(n)'
  <2>1. KeysInv(n)
    BY DEF ContentsInv
  <2> QED
    BY <2>1 DEF KeysInv, HasOrigin, Bins
<1>3. ASSUME NEW n \in 1..Len(repo), NEW entry \in ToSet(lists[n]) PROVE EntryInv(n, entry)'
  <2>1. EntryInv(n, entry) /\ Untouched(n, entry)
    BY DEF ContentsInv, Untouched
  <2>2. entry[1] \in Bins(entry[1])
    BY <1>1, EntryListed
  <2> QED
    BY <2>1, <2>2, EntryStays
<1> QED
  BY <1>2, <1>3 DEF ContentsInv

\* A new repository has nothing of what its stage builds.
LEMMA ContentsOfNew ==
  ASSUME ListInv, TypeInv, RepoInv, ContentsInv, UNCHANGED <<recipes, lists>>, torn \subseteq torn',
         pc = "begin", NEW copy, Adds(copy),
         \A key \in DOMAIN copy : stage > 1 /\ key \in DOMAIN repo[stage - 1]
                                  /\ copy[key] = repo[stage - 1][key]
  PROVE  ContentsInv'
<1>1. /\ Len(repo') = stage /\ Len(repo) = stage - 1 /\ Len(repo) \in Nat
      /\ repo'[stage] = copy /\ \A n \in 1..Len(repo) : repo'[n] = repo[n]
  BY AddingLeaves
<1>2. stage \in 1..3
  BY <1>1 DEF ListInv
<1>3. ASSUME NEW n \in 1..Len(repo) PROVE KeysInv(n)'
  <2>1. KeysInv(n) /\ repo'[n] = repo[n]
    BY <1>1 DEF ContentsInv
  <2> QED
    BY <2>1 DEF KeysInv, HasOrigin, Bins
<1>4. ASSUME NEW n \in 1..Len(repo), NEW entry \in ToSet(lists[n]) PROVE EntryInv(n, entry)'
  <2>1. EntryInv(n, entry) /\ Untouched(n, entry)
    BY <1>1 DEF ContentsInv, Untouched
  <2>2. entry[1] \in Bins(entry[1])
    BY <1>1, <1>2, EntryListed
  <2>3. ~IsCurrent(n, entry)
    BY DEF IsCurrent
  <2> QED
    BY <2>1, <2>2, <2>3, EntryStays
<1>5. ASSUME NEW key \in DOMAIN copy
      PROVE  /\ copy[key] \in PartlyCopied \cup {"whole"}
             /\ \E m \in 1..(stage - 1) : \E entry \in ToSet(lists[m]) :
                    \E b \in Bins(entry[1]) : key = <<b, entry[2]>>
  <2>1. stage - 1 \in 1..Len(repo) /\ key \in DOMAIN repo[stage - 1]
        /\ copy[key] = repo[stage - 1][key]
    BY <1>1, <1>2
  <2>2. KeysInv(stage - 1)
    BY <2>1 DEF ContentsInv
  <2> QED
    BY <2>1, <2>2 DEF KeysInv, HasOrigin
<1>6. ASSUME NEW n \in 1..3, n = stage PROVE KeysInv(n)'
  <2> SUFFICES ASSUME NEW key \in DOMAIN copy
               PROVE  copy[key] \in PartlyCopied \cup {"whole"} /\ HasOrigin(n, key)'
    BY <1>1, <1>6 DEF KeysInv
  <2>1. PICK m \in 1..(stage - 1) : \E entry \in ToSet(lists[m]) :
            \E b \in Bins(entry[1]) : key = <<b, entry[2]>>
    BY <1>5
  <2>2. m \in 1..n
    BY <1>2, <1>6
  <2> QED
    BY <1>5, <2>1, <2>2 DEF HasOrigin, Bins
<1>7. ASSUME NEW n \in 1..3, n = stage, NEW entry \in ToSet(lists[n]) PROVE EntryInv(n, entry)'
  <2>1. ASSUME NEW b \in Bins(entry[1]) PROVE <<b, entry[2]>> \notin DOMAIN copy
    <3>1. SUFFICES ASSUME <<b, entry[2]>> \in DOMAIN copy PROVE FALSE
      OBVIOUS
    <3>2. PICK m \in 1..(stage - 1) : \E other \in ToSet(lists[m]) :
              \E c \in Bins(other[1]) : <<b, entry[2]>> = <<c, other[2]>>
      BY <1>5, <3>1
    <3>3. PICK other \in ToSet(lists[m]) :
              \E c \in Bins(other[1]) : <<b, entry[2]>> = <<c, other[2]>>
      BY <3>2
    <3>4. b \in Bins(other[1]) /\ entry[2] = other[2] /\ m \in 1..3 /\ m # n
      BY <1>2, <1>7, <3>3
    <3> QED
      BY <2>1, <3>4, KeysTell
  <2>2. Absent(n, entry)' /\ NothingWhole(n, entry)'
    BY <1>1, <1>7, <2>1 DEF Absent, NothingWhole, Bins
  <2> QED
    BY <2>2 DEF EntryInv
<1>8. \A n \in 1..Len(repo') : n \in 1..Len(repo) \/ (n \in 1..3 /\ n = stage)
  BY <1>1, <1>2
<1> QED
  BY <1>3, <1>4, <1>6, <1>7, <1>8 DEF ContentsInv

\* One more binary package of the current entry is there, or partly so.
LEMMA ContentsOfWriting ==
  ASSUME ListInv, OrderInv, TypeInv, RepoInv, ContentsInv, CopyInv,
         UNCHANGED <<recipes, lists, stage, rest>>, torn \subseteq torn',
         pc = "copy", bins # <<>>,
         NEW state \in PartlyCopied \cup {"whole"}, repo' = With(Head(bins), state),
         pc' = "copy" \/ <<stage, Pkg>> \in torn'
  PROVE  ContentsInv'
<1>1. /\ stage \in 1..3 /\ stage \in 1..Len(repo) /\ Len(repo) \in Nat
      /\ Head(rest) \in ToSet(lists[stage]) /\ Pkg = Head(rest)[1] /\ Pass = Head(rest)[2]
      /\ Pkg \in Bins(Pkg) /\ Head(recipes[Pkg].bins) = Pkg
      /\ Head(bins) \in Bins(Pkg)
  BY AtCopy
<1>2. /\ Len(repo') = Len(repo)
      /\ \A n \in 1..Len(repo) : n # stage => repo'[n] = repo[n]
      /\ DOMAIN repo'[stage] = DOMAIN repo[stage] \cup {<<Head(bins), Pass>>}
      /\ repo'[stage][<<Head(bins), Pass>>] = state
      /\ \A key \in DOMAIN repo[stage] :
            key # <<Head(bins), Pass>> => repo'[stage][key] = repo[stage][key]
  BY <1>1, WritingOne
<1>3. ASSUME NEW n \in 1..Len(repo) PROVE KeysInv(n)'
  <2>1. KeysInv(n)
    BY DEF ContentsInv
  <2>2. CASE n # stage
    BY <1>2, <2>1, <2>2 DEF KeysInv, HasOrigin, Bins
  <2>3. CASE n = stage
    <3>1. HasOrigin(n, <<Head(bins), Pass>>)
      <4>1. n \in 1..n
        BY <1>1, <2>3
      <4> QED
        BY <1>1, <2>3, <4>1 DEF HasOrigin
    <3>2. \A key : HasOrigin(n, key)' <=> HasOrigin(n, key)
      BY DEF HasOrigin, Bins
    <3>3. \A key \in DOMAIN repo'[n] :
            repo'[n][key] \in PartlyCopied \cup {"whole"} /\ HasOrigin(n, key)
      BY <1>2, <2>1, <2>3, <3>1 DEF KeysInv
    <3> QED
      BY <3>2, <3>3 DEF KeysInv
  <2> QED
    BY <2>2, <2>3
<1>4. ASSUME NEW n \in 1..Len(repo), NEW entry \in ToSet(lists[n]), ~IsCurrent(n, entry)
      PROVE  EntryInv(n, entry)'
  <2>1. EntryInv(n, entry)
    BY DEF ContentsInv
  <2>2. Untouched(n, entry)
    BY <1>4, WritingLeaves
  <2>3. n \in 0..3
    BY <1>1 DEF RepoInv
  <2>4. entry[1] \in Bins(entry[1])
    BY <2>3, EntryListed
  <2> QED
    BY <1>4, <2>1, <2>2, <2>4, EntryStays
<1>5. ASSUME NEW n \in 1..Len(repo), NEW entry \in ToSet(lists[n]), IsCurrent(n, entry)
      PROVE  EntryInv(n, entry)'
  <2>1. n = stage /\ entry[1] = Pkg /\ entry[2] = Pass
    BY <1>5 DEF IsCurrent
  <2>2. Torn(n, entry)' \/ IsCurrent(n, entry)'
    BY <1>1, <2>1 DEF Torn, IsCurrent, Pkg, Pass
  <2>3. CASE state = "name" /\ bins = recipes[Pkg].bins
    <3>1. NothingWhole(stage, Head(rest))
      BY <2>3, CopyNotBegun
    <3>2. NothingWhole(n, entry)
      BY <1>1, <2>1, <3>1 DEF NothingWhole
    <3>3. NothingWhole(n, entry)'
      BY <1>2, <2>1, <2>3, <3>2 DEF NothingWhole, Bins
    <3> QED
      BY <2>2, <3>3 DEF EntryInv
  <2>4. CASE state # "name" /\ bins = recipes[Pkg].bins
    <3>1. Head(bins) = Pkg
      BY <1>1, <2>4
    <3>2. IsNamed(n, <<entry[1], entry[2]>>)'
      BY <1>2, <2>1, <2>4, <3>1 DEF IsNamed
    <3> QED
      BY <2>2, <3>2 DEF EntryInv
  <2>5. CASE bins # recipes[Pkg].bins
    <3>1. Pkg \notin ToSet(bins) /\ IsNamed(stage, <<Pkg, Pass>>) /\ Head(bins) \in ToSet(bins)
      BY <2>5, AtCopy DEF CopyInv
    <3>2. <<Pkg, Pass>> # <<Head(bins), Pass>>
      BY <3>1
    <3>3. IsNamed(n, <<entry[1], entry[2]>>)'
      BY <1>2, <2>1, <3>1, <3>2 DEF IsNamed
    <3> QED
      BY <2>2, <3>3 DEF EntryInv
  <2> QED
    BY <2>3, <2>4, <2>5
<1> QED
  BY <1>2, <1>3, <1>4, <1>5 DEF ContentsInv

\* What a step takes for cut short remains so.
LEMMA TornGrows ==
  ASSUME [BNext]_bvars
  PROVE  torn \subseteq torn'
BY DEF BNext, ScriptStep, Fault, Restart, BeginStage, StageCannotBegin, EndStage, Skip, Prepare,
       BuildStage0, TouchDone, RunPkgbuild, Pkgbuild, PkgbuildExits, CopyBin, CopyEnds,
       StopsBetween, StopsInStage0, StopsInCopy, StopsInRepository, Stops, SrccontrolFails,
       scriptVars, bvars

\* A step after which the current entry, if there was one, is current still or cut short.
LEMMA ContentsAtStop ==
  ASSUME ListInv, OrderInv, TypeInv, RepoInv, ContentsInv, CopyInv,
         StopsBetween \/ CopyEnds, pc = "copy", UNCHANGED <<recipes, lists>>, torn \subseteq torn'
  PROVE  ContentsInv'
<1>1. UNCHANGED repo
  BY DEF StopsBetween, CopyEnds
<1>2. \/ Absent(stage, Head(rest)) \/ Delivered(stage, Head(rest))
      \/ <<stage, Pkg>> \in torn'
  <2>1. Torn(stage, Head(rest)) => <<stage, Pkg>> \in torn'
    BY DEF Torn, Pkg
  <2>2. CASE bins = <<>>
    BY <2>1, <2>2, CopyDone
  <2>3. CASE bins = recipes[Pkg].bins
    BY <2>1, <2>3, CopyNotBegun
  <2>4. CASE bins # <<>> /\ bins # recipes[Pkg].bins
    BY <2>4 DEF StopsBetween, CopyEnds
  <2> QED
    BY <2>2, <2>3, <2>4
<1>3. ASSUME NEW n \in 1..Len(repo), NEW entry \in ToSet(lists[n]), IsCurrent(n, entry)
      PROVE  Torn(n, entry)' \/ Absent(n, entry) \/ Delivered(n, entry)
  <2>1. n = stage /\ entry[1] = Head(rest)[1] /\ entry[2] = Head(rest)[2] /\ Pkg = Head(rest)[1]
    BY <1>3 DEF IsCurrent, Pkg, Pass
  <2> QED
    BY <1>2, <2>1 DEF Absent, Delivered, Torn
<1> QED
  BY <1>1, <1>3, ContentsStay

LEMMA ContentsStep ==
  ASSUME ListInv, OrderInv, LinksInv, TypeInv, BuildInv, RepoInv, ContentsInv, CopyInv,
         [BNext]_bvars
  PROVE  ContentsInv'
<1>1. UNCHANGED <<recipes, lists>> /\ torn \subseteq torn'
  BY PlanStays, TornGrows
<1>2. CASE UNCHANGED repo
  <2>1. ASSUME pc # "copy" \/ (UNCHANGED <<stage, rest>> /\ pc' = "copy") PROVE ContentsInv'
    <3>1. ASSUME NEW n \in 1..Len(repo), NEW entry \in ToSet(lists[n]), IsCurrent(n, entry)
          PROVE  IsCurrent(n, entry)'
      BY <2>1, <3>1 DEF IsCurrent, Pkg, Pass
    <3> QED
      BY <1>1, <1>2, <3>1, ContentsStay
  <2>2. CASE UNCHANGED bvars
    BY <2>1, <2>2 DEF bvars, scriptVars
  <2>3. CASE pc = "copy" /\ (CopyBin \/ SrccontrolFails)
    BY <2>1, <2>3 DEF CopyBin, SrccontrolFails
  <2>4. CASE pc = "copy" /\ (StopsBetween \/ CopyEnds)
    BY <1>1, <2>4, ContentsAtStop
  <2>5. CASE pc = "copy" /\ StopsInCopy
    <3>1. /\ UNCHANGED <<stage, rest>> /\ bins # <<>>
          /\ \E state \in PartlyCopied : repo' = With(Head(bins), state)
          /\ <<stage, Pkg>> \in torn'
      BY <2>5 DEF StopsInCopy, Stops
    <3>2. ASSUME NEW n \in 1..Len(repo), NEW entry \in ToSet(lists[n]), IsCurrent(n, entry)
          PROVE  Torn(n, entry)'
      BY <3>1, <3>2 DEF IsCurrent, Torn
    <3> QED
      BY <1>1, <1>2, <3>2, ContentsStay
  <2>6. pc = "copy" => \/ CopyBin \/ SrccontrolFails \/ StopsBetween \/ CopyEnds \/ StopsInCopy
                       \/ UNCHANGED bvars
    BY DEF BNext, ScriptStep, Fault, BeginStage, StageCannotBegin, EndStage, Skip, Prepare,
           BuildStage0, TouchDone, RunPkgbuild, PkgbuildExits, StopsInStage0,
           StopsInRepository, Restart
  <2> QED
    BY <2>1, <2>2, <2>3, <2>4, <2>5, <2>6
<1>3. ASSUME BeginStage \/ StopsInRepository, NEW copy, Adds(copy),
             \A key \in DOMAIN copy : stage > 1 /\ key \in DOMAIN repo[stage - 1]
                                      /\ copy[key] = repo[stage - 1][key]
      PROVE  ContentsInv'
  <2>1. pc = "begin"
    BY <1>3 DEF BeginStage, StopsInRepository
  <2> QED
    BY <1>1, <1>3, <2>1, ContentsOfNew
<1>4. CASE CopyBin /\ repo' = With(Head(bins), IF Head(bins) \in work[BuildDir].controls
                                                THEN "whole" ELSE "bare")
  <2>1. /\ pc = "copy" /\ pc' = "copy" /\ bins # <<>> /\ UNCHANGED <<stage, rest>>
        /\ \E state \in PartlyCopied \cup {"whole"} : repo' = With(Head(bins), state)
    BY <1>4 DEF CopyBin, PartlyCopied
  <2> QED
    BY <1>1, <2>1, ContentsOfWriting
<1>5. CASE StopsInCopy /\ \E state \in PartlyCopied : repo' = With(Head(bins), state)
  <2>1. /\ pc = "copy" /\ bins # <<>> /\ UNCHANGED <<stage, rest>> /\ <<stage, Pkg>> \in torn'
    BY <1>5 DEF StopsInCopy, Stops
  <2> QED
    BY <1>1, <1>5, <2>1, ContentsOfWriting
<1> QED
  BY <1>2, <1>3, <1>4, <1>5, RepositorySteps

-----------------------------------------------------------------------------
(***************************************************************************)
(* The test for a finished package: what it skips is complete, unless cut  *)
(* short, and nothing of what it builds again is.                          *)
(***************************************************************************)
LEMMA SkipsTell ==
  ASSUME ListInv, TypeInv, RepoInv, ContentsInv, pc = "package", rest # <<>>, stage > 0
  PROVE  /\ Skips => Delivered(stage, Head(rest)) \/ Torn(stage, Head(rest))
         /\ ~Skips => /\ NothingWhole(stage, Head(rest))
                      /\ Absent(stage, Head(rest)) \/ Torn(stage, Head(rest))
<1>1. stage \in 1..3 /\ stage \in 1..Len(repo)
  <2>1. PICK S : repo \in Seq(S)
    BY DEF RepoInv
  <2>2. Len(repo) \in Nat
    BY <2>1, LenProperties
  <2> QED
    BY <2>2 DEF ListInv, RepoInv, AtWork
<1>2. /\ Head(rest) \in ToSet(lists[stage]) /\ Pkg = Head(rest)[1] /\ Pass = Head(rest)[2]
      /\ Pkg \in Bins(Pkg)
  BY AtHand DEF AtWork, Pkg, Pass
<1>3. /\ Absent(stage, Head(rest)) \/ Delivered(stage, Head(rest)) \/ Torn(stage, Head(rest))
      /\ IsNamed(stage, <<Pkg, Pass>>) \/ NothingWhole(stage, Head(rest))
      /\ KeysInv(stage)
  BY <1>1, <1>2 DEF ContentsInv, EntryInv, IsCurrent
<1>4. Skips <=> IsThere(Pkg, Pass)
  BY <1>1 DEF Skips
<1>5. <<Pkg, Pass>> \in DOMAIN repo[stage] => ~Absent(stage, Head(rest))
  BY <1>2 DEF Absent
<1>6. ASSUME Pkg = Tools, NEW key \in DOMAIN repo[stage], key[1] = Tools
      PROVE  key = <<Pkg, Pass>>
  <2>1. PICK m \in 1..stage : \E entry \in ToSet(lists[m]) : \E b \in Bins(entry[1]) :
            key = <<b, entry[2]>>
    BY <1>3 DEF KeysInv, HasOrigin
  <2>2. PICK entry \in ToSet(lists[m]) : \E b \in Bins(entry[1]) : key = <<b, entry[2]>>
    BY <2>1
  <2>3. m \in 1..3 /\ m \in 0..3 /\ stage \in 0..3
    BY <1>1
  <2>4. Tools \in Bins(entry[1]) /\ key = <<Tools, entry[2]>>
    BY <1>6, <2>2
  <2>5. entry[1] = Tools
    <3>1. entry[1] \in DOMAIN recipes /\ Pkg \in DOMAIN recipes
      BY <1>2, <2>3, EntryListed
    <3>2. Tools \in DOMAIN recipes /\ Tools \in Bins(Tools)
      BY <1>2, <1>6, <3>1
    <3>3. entry[1] # Tools => Bins(Tools) \cap Bins(entry[1]) = {}
      BY <3>1, <3>2 DEF TypeInv, NamesAreTelling, Bins
    <3> QED
      BY <2>4, <3>2, <3>3
  <2>6. entry[2] = Pass
    BY <1>1, <1>2, <1>6, <2>3, <2>5 DEF TypeInv, NamesAreTelling
  <2> QED
    BY <1>6, <2>4, <2>6
<1>7. Skips => <<Pkg, Pass>> \in DOMAIN repo[stage]
  BY <1>4, <1>6 DEF IsThere
<1>8. ~Skips => ~IsNamed(stage, <<Pkg, Pass>>)
  <2>1. CASE Pkg = Tools
    BY <1>4, <2>1 DEF IsThere, IsNamed
  <2>2. CASE Pkg # Tools
    BY <1>4, <2>2 DEF IsThere, IsNamed
  <2> QED
    BY <2>1, <2>2
<1>9. NothingWhole(stage, Head(rest)) => ~Delivered(stage, Head(rest))
  BY <1>2 DEF NothingWhole, Delivered, Bins
<1> QED
  BY <1>3, <1>5, <1>7, <1>8, <1>9

\* One more binary package has been copied.
LEMMA CopyOfWriting ==
  ASSUME ListInv, OrderInv, LinksInv, TypeInv, BuildInv, RepoInv, CopyInv, CopyBin,
         UNCHANGED <<recipes, lists>>
  PROVE  CopyInv'
<1>1. /\ pc = "copy" /\ pc' = "copy" /\ bins # <<>> /\ bins' = Tail(bins)
      /\ UNCHANGED <<stage, rest, torn>>
  BY DEF CopyBin
<1>2. /\ stage \in 1..3 /\ stage \in 1..Len(repo) /\ Len(repo) \in Nat
      /\ Pkg = Head(rest)[1] /\ Pass = Head(rest)[2]
      /\ Pkg \in Bins(Pkg) /\ Head(recipes[Pkg].bins) = Pkg
      /\ Head(bins) \in ToSet(bins) /\ Head(bins) \in Bins(Pkg)
  BY <1>1, AtCopy
<1>3. repo' = With(Head(bins), "whole")
  <2>1. Head(bins) \in work[BuildDir].controls
    BY <1>1, <1>2 DEF BuildInv
  <2> QED
    BY <2>1 DEF CopyBin
<1>4. /\ DOMAIN repo'[stage] = DOMAIN repo[stage] \cup {<<Head(bins), Pass>>}
      /\ repo'[stage][<<Head(bins), Pass>>] = "whole"
      /\ \A key \in DOMAIN repo[stage] :
            key # <<Head(bins), Pass>> => repo'[stage][key] = repo[stage][key]
  BY <1>2, <1>3, WritingOne
<1>5. Pkg' = Pkg /\ Pass' = Pass /\ Bins(Pkg)' = Bins(Pkg)
  BY <1>1 DEF Pkg, Pass, Bins
<1>6. /\ Tail(bins) \in Seq(Bins(Pkg)) /\ IsInjective(Tail(bins))
      /\ ToSet(bins) = {Head(bins)} \cup ToSet(Tail(bins)) /\ Head(bins) \notin ToSet(Tail(bins))
  <2>1. bins \in Seq(Bins(Pkg)) /\ IsInjective(bins)
    BY <1>1 DEF CopyInv
  <2> QED
    BY <1>1, <2>1, HeadOrTail, OffTheList
<1>7. Pkg \notin ToSet(bins') /\ IsNamed(stage, <<Pkg, Pass>>)'
  <2>1. CASE bins = recipes[Pkg].bins
    <3>1. Head(bins) = Pkg
      BY <1>2, <2>1
    <3> QED
      BY <1>1, <1>4, <1>5, <1>6, <3>1 DEF IsNamed
  <2>2. CASE bins # recipes[Pkg].bins
    <3>1. Pkg \notin ToSet(bins) /\ IsNamed(stage, <<Pkg, Pass>>)
      BY <1>1, <2>2 DEF CopyInv
    <3>2. <<Pkg, Pass>> # <<Head(bins), Pass>>
      BY <1>2, <3>1
    <3> QED
      BY <1>1, <1>4, <1>5, <1>6, <3>1, <3>2 DEF IsNamed
  <2> QED
    BY <2>1, <2>2
<1>8. ASSUME NEW b \in Bins(Pkg)
      PROVE  /\ b \in ToSet(Tail(bins)) /\ <<b, Pass>> \in DOMAIN repo'[stage] =>
                repo'[stage][<<b, Pass>>] # "whole"
             /\ \/ Torn(stage, Head(rest))
                \/ b \in ToSet(Tail(bins)) /\ <<b, Pass>> \notin DOMAIN repo'[stage]
                \/ /\ b \notin ToSet(Tail(bins)) /\ <<b, Pass>> \in DOMAIN repo'[stage]
                   /\ repo'[stage][<<b, Pass>>] = "whole"
  <2>1. CASE b = Head(bins)
    BY <1>4, <1>6, <2>1
  <2>2. CASE b # Head(bins)
    <3>1. <<b, Pass>> # <<Head(bins), Pass>>
      BY <2>2
    <3>2. /\ b \in ToSet(bins) /\ <<b, Pass>> \in DOMAIN repo[stage] =>
                repo[stage][<<b, Pass>>] # "whole"
          /\ \/ Torn(stage, Head(rest))
             \/ b \in ToSet(bins) /\ <<b, Pass>> \notin DOMAIN repo[stage]
             \/ /\ b \notin ToSet(bins) /\ <<b, Pass>> \in DOMAIN repo[stage]
                /\ repo[stage][<<b, Pass>>] = "whole"
      BY <1>1, <1>8 DEF CopyInv
    <3>3. b \in ToSet(bins) <=> b \in ToSet(Tail(bins))
      BY <1>6, <2>2
    <3> QED
      BY <1>4, <3>1, <3>2, <3>3
  <2> QED
    BY <2>1, <2>2
<1>9. Torn(stage, Head(rest))' <=> Torn(stage, Head(rest))
  BY <1>1 DEF Torn
<1> QED
  BY <1>1, <1>5, <1>6, <1>7, <1>8, <1>9 DEF CopyInv

LEMMA CopyStep ==
  ASSUME ListInv, OrderInv, LinksInv, TypeInv, BuildInv, RepoInv, ContentsInv, CopyInv,
         [BNext]_bvars
  PROVE  CopyInv'
<1>1. UNCHANGED <<recipes, lists>>
  BY PlanStays
<1>2. ASSUME pc' \notin {"pkgbuild", "copy"} PROVE CopyInv'
  BY <1>2 DEF CopyInv
<1>3. ASSUME UNCHANGED <<pc, stage, rest, bins, repo, torn>> PROVE CopyInv'
  BY <1>1, <1>3 DEF CopyInv, NothingWhole, Absent, Torn, IsNamed, Bins, Pkg, Pass
<1>4. ASSUME UNCHANGED <<stage, rest, repo, torn>>, pc' = "pkgbuild", stage > 0,
             NothingWhole(stage, Head(rest)),
             Absent(stage, Head(rest)) \/ Torn(stage, Head(rest))
      PROVE  CopyInv'
  BY <1>1, <1>4 DEF CopyInv, NothingWhole, Absent, Torn, Bins
<1>5. CASE UNCHANGED bvars
  BY <1>3, <1>5 DEF bvars, scriptVars
<1>6. CASE BeginStage \/ StageCannotBegin \/ EndStage \/ Skip \/ BuildStage0 \/ TouchDone \/ Restart
  BY <1>2, <1>6 DEF BeginStage, ListStarts, StageCannotBegin, EndStage, Begin, Skip, BuildStage0,
                    TouchDone, Restart
<1>7. CASE Prepare
  <2>1. CASE stage = 0
    BY <1>2, <1>7, <2>1 DEF Prepare
  <2>2. CASE stage # 0
    <3>1. /\ pc = "package" /\ rest # <<>> /\ ~Skips /\ stage > 0
          /\ pc' = "pkgbuild" /\ UNCHANGED <<stage, rest, repo, torn>>
      BY <1>7, <2>2 DEF Prepare, ListInv
    <3> QED
      BY <1>4, <3>1, SkipsTell
  <2> QED
    BY <2>1, <2>2
<1>8. CASE RunPkgbuild
  BY <1>3, <1>8 DEF RunPkgbuild, Pkgbuild, scriptVars
<1>9. CASE PkgbuildExits
  <2>1. pc = "pkgbuild" /\ UNCHANGED <<stage, rest, repo, torn>>
    BY <1>9 DEF PkgbuildExits
  <2>2. /\ NothingWhole(stage, Head(rest))
        /\ Absent(stage, Head(rest)) \/ Torn(stage, Head(rest))
        /\ stage > 0
    BY <2>1 DEF CopyInv, OrderInv
  <2>3. CASE pc' = "copy"
    <3>1. bins' = recipes[Pkg].bins
      BY <1>9, <2>1, <2>3 DEF PkgbuildExits
    <3>2. /\ recipes[Pkg].bins \in Seq(Bins(Pkg)) /\ IsInjective(recipes[Pkg].bins)
          /\ ToSet(recipes[Pkg].bins) = Bins(Pkg)
      <4>1. rest # <<>>
        BY <2>1 DEF ListInv
      <4> QED
        BY <2>1, <4>1, AtHand DEF AtWork, Bins
    <3>3. Pkg' = Pkg /\ Pass' = Pass /\ Bins(Pkg)' = Bins(Pkg) /\ recipes'[Pkg'] = recipes[Pkg]
      BY <1>1, <2>1 DEF Pkg, Pass, Bins
    <3>4. /\ \A b \in Bins(Pkg) : <<b, Pass>> \in DOMAIN repo[stage] =>
                repo[stage][<<b, Pass>>] # "whole"
          /\ \/ Torn(stage, Head(rest))
             \/ \A b \in Bins(Pkg) : <<b, Pass>> \notin DOMAIN repo[stage]
      BY <2>2 DEF NothingWhole, Absent, Pkg, Pass
    <3>5. Torn(stage, Head(rest))' <=> Torn(stage, Head(rest))
      BY <2>1 DEF Torn
    <3> QED
      BY <2>1, <2>3, <3>1, <3>2, <3>3, <3>4, <3>5 DEF CopyInv
  <2>4. CASE pc' = "pkgbuild"
    BY <1>4, <2>1, <2>2, <2>4
  <2>5. CASE pc' = "stopped"
    BY <1>2, <2>5
  <2> QED
    BY <1>9, <2>3, <2>4, <2>5 DEF PkgbuildExits
<1>10. CASE CopyBin
  BY <1>1, <1>10, CopyOfWriting
<1>11. CASE CopyEnds
  BY <1>2, <1>11 DEF CopyEnds
<1>12. CASE StopsBetween \/ StopsInStage0 \/ StopsInCopy \/ StopsInRepository
  BY <1>2, <1>12 DEF StopsBetween, StopsInStage0, StopsInCopy, StopsInRepository, Stops
<1>13. CASE SrccontrolFails
  <2>1. /\ pc = "copy" /\ pc' = "copy" /\ bins = recipes[Pkg].bins /\ bins' = <<>>
        /\ torn' = torn \cup {<<stage, Pkg>>} /\ UNCHANGED <<stage, rest, repo>>
    BY <1>13 DEF SrccontrolFails
  <2>2. Torn(stage, Head(rest))'
    BY <2>1 DEF Torn, Pkg
  <2>3. bins' \in Seq(Bins(Pkg)) /\ IsInjective(bins') /\ ToSet(bins') = {}
    <3>1. bins' \in Seq(Bins(Pkg)) /\ DOMAIN bins' = {}
      BY <2>1
    <3> QED
      BY <3>1 DEF IsInjective, ToSet
  <2>4. Pkg' = Pkg /\ Pass' = Pass /\ Bins(Pkg)' = Bins(Pkg)
    BY <1>1, <2>1 DEF Pkg, Pass, Bins
  <2> QED
    BY <2>1, <2>2, <2>3, <2>4 DEF CopyInv
<1> QED
  BY <1>5, <1>6, <1>7, <1>8, <1>9, <1>10, <1>11, <1>12, <1>13 DEF BNext, ScriptStep, Fault

-----------------------------------------------------------------------------
\* What is complete in a repository remains so, also while one more package is copied.
LEMMA WritingKeeps ==
  ASSUME ListInv, OrderInv, TypeInv, RepoInv, CopyInv, pc = "copy", bins # <<>>,
         NEW state, repo' = With(Head(bins), state)
  PROVE  \A n \in 1..Len(repo) : \A key \in DOMAIN repo[n] :
            repo[n][key] = "whole" => key \in DOMAIN repo'[n] /\ repo'[n][key] = "whole"
<1>1. stage \in 1..Len(repo) /\ Head(bins) \in ToSet(bins) /\ Head(bins) \in Bins(Pkg)
  BY AtCopy
<1>2. /\ \A n \in 1..Len(repo) : n # stage => repo'[n] = repo[n]
      /\ DOMAIN repo'[stage] = DOMAIN repo[stage] \cup {<<Head(bins), Pass>>}
      /\ \A key \in DOMAIN repo[stage] :
            key # <<Head(bins), Pass>> => repo'[stage][key] = repo[stage][key]
  BY <1>1, WritingOne
<1>3. <<Head(bins), Pass>> \in DOMAIN repo[stage] => repo[stage][<<Head(bins), Pass>>] # "whole"
  BY <1>1 DEF CopyInv
<1> QED
  BY <1>1, <1>2, <1>3

LEMMA WholeStep ==
  ASSUME ListInv, OrderInv, TypeInv, RepoInv, CopyInv, [BNext]_bvars
  PROVE  \A n \in 1..Len(repo) : \A key \in DOMAIN repo[n] :
            repo[n][key] = "whole" => key \in DOMAIN repo'[n] /\ repo'[n][key] = "whole"
<1>1. ASSUME NEW copy, Adds(copy), NEW n \in 1..Len(repo)
      PROVE  repo'[n] = repo[n]
  BY <1>1, AddingLeaves
<1>2. CopyBin \/ StopsInCopy => pc = "copy" /\ bins # <<>>
  BY DEF CopyBin, StopsInCopy
<1>3. CASE CopyBin \/ StopsInCopy
  BY <1>2, <1>3, WritingKeeps, RepositorySteps DEF BeginStage, StopsInRepository
<1>4. CASE ~(CopyBin \/ StopsInCopy)
  BY <1>1, <1>4, RepositorySteps
<1> QED
  BY <1>3, <1>4

\* What is dealt with remains so.
LEMMA DealtStays ==
  ASSUME ListInv, OrderInv, TypeInv, RepoInv, CopyInv, [BNext]_bvars,
         NEW n \in 1..Len(repo), NEW k, IsDealtWith(n, k)
  PROVE  IsDealtWith(n, k)'
<1>1. UNCHANGED <<recipes, lists>> /\ torn \subseteq torn'
  BY PlanStays, TornGrows
<1>2. CASE Torn(n, lists[n][k])
  BY <1>1, <1>2 DEF IsDealtWith, Torn
<1>3. CASE Delivered(n, lists[n][k])
  <2>1. \A key \in DOMAIN repo[n] :
            repo[n][key] = "whole" => key \in DOMAIN repo'[n] /\ repo'[n][key] = "whole"
    BY WholeStep
  <2>2. Delivered(n, lists[n][k])'
    BY <1>1, <1>3, <2>1 DEF Delivered
  <2> QED
    BY <2>2 DEF IsDealtWith
<1> QED
  BY <1>2, <1>3 DEF IsDealtWith

\* A list of which one more entry is dealt with.
LEMMA BehindOneMore ==
  ASSUME ListInv, OrderInv, TypeInv, RepoInv, CopyInv, BehindInv, [BNext]_bvars,
         stage > 0, pc \in {"package", "copy"}, pc' = "package", UNCHANGED stage,
         rest # <<>>, rest' = Tail(rest),
         Delivered(stage, Head(rest)) \/ Torn(stage, Head(rest))
  PROVE  BehindInv'
<1> DEFINE L == Len(lists[stage])
           R == Len(rest)
<1>1. UNCHANGED <<recipes, lists>>
  BY PlanStays
<1>2. stage \in 1..3 /\ stage \in 1..Len(repo) /\ Len(repo) \in Nat
  <2>1. PICK S : repo \in Seq(S)
    BY DEF RepoInv
  <2>2. Len(repo) \in Nat
    BY <2>1, LenProperties
  <2> QED
    BY <2>2 DEF ListInv, RepoInv, AtWork
<1>3. /\ R \in Nat \ {0} /\ Head(rest) = rest[1] /\ Len(rest') = R - 1
      /\ \A k \in 1..(R - 1) : rest'[k] = rest[k + 1]
  <2>1. rest \in Seq(ToSet(lists[stage]))
    BY DEF ListInv, AtWork
  <2> QED
    BY <2>1, OffTheList
<1>4. L \in Nat
  <2>1. lists[stage] \in Seq(ToSet(lists[stage]))
    BY <1>2 DEF ListInv, IsPlan
  <2> QED
    BY <2>1, LenProperties
<1>5. /\ R <= L
      /\ \A k \in 1..R : rest[k] = lists[stage][(L - R) + k]
      /\ \A k \in 1..(L - R) : IsDealtWith(stage, k)
  BY DEF BehindInv, AtWork
<1>6. \A n \in 1..3 : Exited(n)' => n < stage /\ Exited(n) /\ n \in 1..Len(repo)
  BY <1>2 DEF Exited
<1>7. \A n \in 1..3 : Exited(n)' => \A k \in 1..Len(lists[n]) : IsDealtWith(n, k)'
  BY <1>6, DealtStays DEF BehindInv
<1>8. IsDealtWith(stage, (L - R) + 1)
  <2>1. rest[1] = lists[stage][(L - R) + 1]
    BY <1>3, <1>5
  <2> QED
    BY <1>3, <2>1 DEF IsDealtWith
<1> HIDE DEF L, R
<1>9. L - (R - 1) = (L - R) + 1 /\ L - R \in Nat
  BY <1>3, <1>4, <1>5
<1>10. ASSUME NEW k \in 1..(L - (R - 1)) PROVE IsDealtWith(stage, k)
  <2>1. k \in 1..(L - R) \/ k = (L - R) + 1
    BY <1>9
  <2> QED
    BY <1>5, <1>8, <2>1
<1>11. ASSUME NEW k \in 1..(R - 1) PROVE rest'[k] = lists[stage][(L - (R - 1)) + k]
  <2>1. k + 1 \in 1..R /\ (L - R) + (k + 1) = (L - (R - 1)) + k
    BY <1>3, <1>4
  <2>2. rest[k + 1] = lists[stage][(L - R) + (k + 1)]
    BY <1>5, <2>1
  <2> QED
    BY <1>3, <2>1, <2>2
<1>12. ASSUME NEW n, n = stage, NEW k \in 1..(L - (R - 1)) PROVE IsDealtWith(n, k)'
  BY <1>2, <1>10, <1>12, DealtStays
<1>13. \A k \in 1..(L - (R - 1)) : IsDealtWith(stage, k)'
  BY <1>12
<1>14. R - 1 <= L
  BY <1>3, <1>4, <1>5
<1>15. Len(rest)' = R - 1 /\ Len(lists[stage])' = L /\ lists'[stage'] = lists[stage]
  BY <1>1, <1>3 DEF L
<1>16. (Len(rest) <= Len(lists[stage]))'
  BY <1>14, <1>15
<1>17. (\A k \in 1..Len(rest) : rest[k] = lists[stage][(Len(lists[stage]) - Len(rest)) + k])'
  BY <1>11, <1>15
<1>18. (\A k \in 1..(Len(lists[stage]) - Len(rest)) : IsDealtWith(stage, k))'
  BY <1>13, <1>15
<1>19. (\A n \in 1..3 : Exited(n) => \A k \in 1..Len(lists[n]) : IsDealtWith(n, k))'
  BY <1>1, <1>7
<1> QED
  BY <1>16, <1>17, <1>18, <1>19 DEF BehindInv

LEMMA BehindStep ==
  ASSUME ListInv, OrderInv, TypeInv, RepoInv, ContentsInv, CopyInv, BehindInv, [BNext]_bvars
  PROVE  BehindInv'
<1>1. UNCHANGED <<recipes, lists>>
  BY PlanStays
<1>2. stage \in 0..3 /\ Len(repo) \in Nat
  <2>1. PICK S : repo \in Seq(S)
    BY DEF RepoInv
  <2> QED
    BY <2>1, LenProperties DEF ListInv
<1>3. \A n \in 1..3 : Exited(n) => n \in 1..Len(repo)
  BY <1>2 DEF Exited, RepoInv
<1>4. \A n \in 1..3 : Exited(n) => \A k \in 1..Len(lists[n]) : IsDealtWith(n, k)'
  BY <1>3, DealtStays DEF BehindInv
<1>5. ASSUME \A n \in 1..3 : Exited(n)' => Exited(n),
             (stage > 0 /\ AtWork)' => AtWork /\ UNCHANGED <<stage, rest>>
      PROVE  BehindInv'
  <2>1. (\A n \in 1..3 : Exited(n) => \A k \in 1..Len(lists[n]) : IsDealtWith(n, k))'
    BY <1>1, <1>4, <1>5
  <2>2. ASSUME (stage > 0 /\ AtWork)'
        PROVE  /\ (Len(rest) <= Len(lists[stage]))'
               /\ (\A k \in 1..Len(rest) : rest[k] = lists[stage][(Len(lists[stage]) - Len(rest)) + k])'
               /\ (\A k \in 1..(Len(lists[stage]) - Len(rest)) : IsDealtWith(stage, k))'
    <3>1. stage > 0 /\ AtWork /\ UNCHANGED <<stage, rest>>
      BY <1>5, <2>2
    <3>2. stage \in 1..Len(repo)
      BY <1>2, <3>1 DEF RepoInv
    <3>3. ASSUME NEW n \in 1..Len(repo), n = stage,
                 NEW k \in 1..(Len(lists[stage]) - Len(rest))
          PROVE  IsDealtWith(n, k)'
      BY <3>1, <3>3, DealtStays DEF BehindInv
    <3>4. \A k \in 1..(Len(lists[stage]) - Len(rest)) : IsDealtWith(stage, k)'
      BY <3>1, <3>2, <3>3
    <3> QED
      BY <1>1, <3>1, <3>4 DEF BehindInv
  <2> QED
    BY <2>1, <2>2 DEF BehindInv
<1>6. ASSUME UNCHANGED stage, pc' # "finished" \/ pc = "finished"
      PROVE  \A n \in 1..3 : Exited(n)' => Exited(n)
  BY <1>6 DEF Exited
<1>7. CASE UNCHANGED bvars
  BY <1>5, <1>6, <1>7 DEF bvars, scriptVars, AtWork
<1>8. CASE BeginStage
  <2>1. pc' = "package" /\ rest' = lists[stage] /\ UNCHANGED stage
    BY <1>8 DEF BeginStage, ListStarts
  <2>2. (\A n \in 1..3 : Exited(n) => \A k \in 1..Len(lists[n]) : IsDealtWith(n, k))'
    BY <1>1, <1>4, <1>6, <2>1
  <2>3. Len(lists[stage]) \in Nat
    <3>1. lists[stage] \in Seq(ToSet(lists[stage]))
      BY <1>2 DEF ListInv, IsPlan
    <3> QED
      BY <3>1, LenProperties
  <2>4. lists'[stage'] = rest' /\ Len(rest') \in Nat /\ Len(rest') - Len(rest') = 0
    BY <1>1, <2>1, <2>3
  <2>5. (\A k \in 1..Len(rest) : rest[k] = lists[stage][(Len(lists[stage]) - Len(rest)) + k])'
    BY <2>4
  <2>6. (\A k \in 1..(Len(lists[stage]) - Len(rest)) : IsDealtWith(stage, k))'
    BY <2>4
  <2>7. (Len(rest) <= Len(lists[stage]))'
    BY <2>4
  <2> QED
    BY <2>2, <2>5, <2>6, <2>7 DEF BehindInv
<1>9. CASE EndStage
  <2>1. pc = "package" /\ rest = <<>> /\ Len(rest) = 0 /\ pc' \in {"begin", "finished"}
    BY <1>9 DEF EndStage, Begin
  <2>2. \A n \in 1..3 : Exited(n)' => Exited(n) \/ n = stage
    BY <1>2, <1>9, <2>1 DEF EndStage, Begin, Exited
  <2>3. ASSUME NEW n \in 1..3, n = stage, NEW k \in 1..Len(lists[n])
        PROVE  IsDealtWith(n, k)'
    <3>1. stage \in 1..Len(repo) /\ stage > 0 /\ AtWork
      BY <1>2, <2>1, <2>3 DEF RepoInv, AtWork
    <3>2. Len(lists[stage]) - Len(rest) = Len(lists[stage])
      <4>1. lists[stage] \in Seq(ToSet(lists[stage]))
        BY <1>2 DEF ListInv, IsPlan
      <4>2. Len(lists[stage]) \in Nat
        BY <4>1, LenProperties
      <4> QED
        BY <2>1, <4>2
    <3>3. IsDealtWith(n, k)
      BY <2>3, <3>1, <3>2 DEF BehindInv
    <3> QED
      BY <2>3, <3>1, <3>3, DealtStays
  <2>4. (\A n \in 1..3 : Exited(n) => \A k \in 1..Len(lists[n]) : IsDealtWith(n, k))'
    BY <1>1, <1>4, <2>2, <2>3
  <2>5. ~AtWork'
    BY <2>1 DEF AtWork
  <2> QED
    BY <2>4, <2>5 DEF BehindInv
<1>10. CASE Skip
  <2>1. CASE stage = 0
    BY <1>5, <1>6, <1>10, <2>1 DEF Skip
  <2>2. CASE stage # 0
    <3>1. /\ pc = "package" /\ rest # <<>> /\ Skips /\ rest' = Tail(rest) /\ stage > 0
          /\ UNCHANGED <<stage, pc>>
      BY <1>2, <1>10, <2>2 DEF Skip
    <3> QED
      BY <3>1, SkipsTell, BehindOneMore
  <2> QED
    BY <2>1, <2>2
<1>11. CASE CopyEnds
  <2>1. /\ pc = "copy" /\ bins = <<>> /\ rest' = Tail(rest) /\ pc' = "package" /\ UNCHANGED stage
        /\ stage > 0 /\ rest # <<>>
    BY <1>11 DEF CopyEnds, OrderInv, ListInv
  <2> QED
    BY <2>1, CopyDone, BehindOneMore
<1>12. CASE TouchDone
  <2>1. stage = 0 /\ UNCHANGED stage /\ pc' = "package"
    BY <1>12 DEF TouchDone, OrderInv
  <2> QED
    BY <1>5, <1>6, <2>1
<1>13. CASE Prepare \/ BuildStage0 \/ RunPkgbuild \/ PkgbuildExits \/ CopyBin \/ SrccontrolFails
  <2>1. AtWork /\ UNCHANGED <<stage, rest>> /\ pc' # "finished"
    BY <1>13 DEF Prepare, BuildStage0, RunPkgbuild, scriptVars, PkgbuildExits, CopyBin,
                 SrccontrolFails, AtWork
  <2> QED
    BY <1>5, <1>6, <2>1
<1>14. CASE \/ StageCannotBegin \/ StopsBetween \/ StopsInStage0 \/ StopsInCopy
            \/ StopsInRepository
  <2>1. UNCHANGED stage /\ pc' = "stopped"
    BY <1>14 DEF StageCannotBegin, StopsBetween, StopsInStage0, StopsInCopy, StopsInRepository,
                 Stops
  <2> QED
    BY <1>5, <1>6, <2>1 DEF AtWork
<1>15. CASE Restart
  <2>1. stage' = 0 /\ pc' = "begin"
    BY <1>15 DEF Restart, Begin
  <2> QED
    BY <1>5, <2>1 DEF Exited, AtWork
<1> QED
  BY <1>7, <1>8, <1>9, <1>10, <1>11, <1>12, <1>13, <1>14, <1>15 DEF BNext, ScriptStep, Fault

-----------------------------------------------------------------------------
BootstrapInv ==
    /\ ListInv /\ OrderInv /\ LinksInv /\ TypeInv /\ BuildInv
    /\ RepoInv /\ ContentsInv /\ CopyInv /\ BehindInv

(***************************************************************************)
(* The inductive invariant of the whole chain of scripts, for all recipes, *)
(* lists, faults and restarts.                                             *)
(***************************************************************************)
THEOREM BootstrapInvariant == BSpec => []BootstrapInv
<1>1. BInit => BootstrapInv
  <2> SUFFICES ASSUME BInit PROVE BootstrapInv
    OBVIOUS
  <2>1. /\ stage = 0 /\ pc = "begin" /\ rest = <<>> /\ bins = <<>> /\ repo = <<>> /\ work = <<>>
        /\ done = {} /\ installed = {} /\ step = "none"
        /\ IsPlan(recipes, lists) /\ NamesAreTelling(recipes, lists) /\ budget \in Nat
    BY PlansAssumption DEF BInit
  <2>2. ListInv /\ OrderInv /\ LinksInv
    BY <2>1 DEF ListInv, OrderInv, LinksInv, AtWork
  <2>3. TypeInv /\ BuildInv
    BY <2>1 DEF TypeInv, BuildInv, Steps
  <2>4. repo \in Seq({}) /\ Len(repo) = 0
    BY <2>1
  <2>5. RepoInv /\ ContentsInv
    BY <2>1, <2>4 DEF RepoInv, ContentsInv, AtWork
  <2>6. CopyInv /\ BehindInv
    BY <2>1 DEF CopyInv, BehindInv, Exited, AtWork
  <2> QED
    BY <2>2, <2>3, <2>5, <2>6 DEF BootstrapInv
<1>2. BootstrapInv /\ [BNext]_bvars => BootstrapInv'
  BY ListStep, OrderStep, LinksStep, TypeStep, BuildStep, RepoStep, ContentsStep, CopyStep,
     BehindStep DEF BootstrapInv
<1> QED
  BY <1>1, <1>2, PTL DEF BSpec

(***************************************************************************)
(* The types of the scripts' and pkgbuild's state (bootstrap/stage0.sh to  *)
(* stage3.sh): only passes of the list are ever marked with .done, and no  *)
(* binary package is in a state that copying does not leave.               *)
(***************************************************************************)
THEOREM BootstrapTypeCorrect == BSpec => []BTypeOK
<1>1. BootstrapInv => BTypeOK
  <2> SUFFICES ASSUME BootstrapInv PROVE BTypeOK
    OBVIOUS
  <2>1. ListInv /\ TypeInv /\ BuildInv /\ RepoInv /\ ContentsInv
    BY DEF BootstrapInv
  <2>2. PICK S : repo \in Seq(S)
    BY <2>1 DEF RepoInv
  <2>3. DOMAIN repo = 1..Len(repo)
    BY <2>2, LenProperties
  <2>4. \A n \in DOMAIN repo : \A key \in DOMAIN repo[n] :
            repo[n][key] \in PartlyCopied \cup {"whole"}
    BY <2>1, <2>3 DEF ContentsInv, KeysInv
  <2> QED
    BY <2>1, <2>4 DEF BTypeOK, ListInv, TypeInv, BuildInv
<1> QED
  BY <1>1, BootstrapInvariant, PTL

(***************************************************************************)
(* A stage whose script exits with success has delivered each package of   *)
(* its list, whole, whatever earlier runs left of it, unless the copying   *)
(* of that package was cut short (bootstrap/stage1.sh to stage3_inner.sh). *)
(***************************************************************************)
THEOREM StagesDoDeliver == BSpec => []StagesDeliver
<1>1. BootstrapInv => StagesDeliver
  <2> SUFFICES ASSUME BootstrapInv, NEW n \in 1..3, Exited(n), NEW entry \in ToSet(lists[n]),
                      <<n, entry[1]>> \notin torn
               PROVE  Delivered(n, entry)
    BY DEF StagesDeliver
  <2>1. lists[n] \in Seq(ToSet(lists[n]))
    BY DEF BootstrapInv, ListInv, IsPlan
  <2>2. PICK k \in 1..Len(lists[n]) : lists[n][k] = entry
    BY <2>1, LenProperties DEF ToSet
  <2>3. IsDealtWith(n, k)
    BY DEF BootstrapInv, BehindInv
  <2> QED
    BY <2>2, <2>3 DEF IsDealtWith, Torn
<1> QED
  BY <1>1, BootstrapInvariant, PTL

(***************************************************************************)
(* No step, a fault of any kind included, takes from a repository what is  *)
(* complete in it: the scripts copy only what they have not found there,   *)
(* and nothing else they copy has the same name and version.               *)
(***************************************************************************)
THEOREM WholePackagesStayWhole == BSpec => WholeStaysWhole
<1>1. BootstrapInv /\ [BNext]_bvars =>
        [\A n \in DOMAIN repo : \A key \in DOMAIN repo[n] :
            repo[n][key] = "whole" => repo'[n][key] = "whole"]_bvars
  <2> SUFFICES ASSUME BootstrapInv, [BNext]_bvars
               PROVE  \A n \in DOMAIN repo : \A key \in DOMAIN repo[n] :
                        repo[n][key] = "whole" => repo'[n][key] = "whole"
    OBVIOUS
  <2>1. PICK S : repo \in Seq(S)
    BY DEF BootstrapInv, RepoInv
  <2>2. DOMAIN repo = 1..Len(repo)
    BY <2>1, LenProperties
  <2> QED
    BY <2>2, WholeStep DEF BootstrapInv
<1> QED
  BY <1>1, BootstrapInvariant, PTL DEF BSpec, WholeStaysWhole

=============================================================================
