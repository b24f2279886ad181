-------------------------- MODULE ContainerProofs ---------------------------
(***************************************************************************)
(* Theorems about Container, for all options, packages and PATH_MAX: what  *)
(* newns's exit status says, whichever of its processes a signal ends;     *)
(* that link_tree merges the packages into their union, and withenv mounts *)
(* what its links lead to before the command starts; why it may fail.      *)
(***************************************************************************)
EXTENDS Container, DataLemmas

-----------------------------------------------------------------------------
(***************************************************************************)
(* The inductive invariant of link_packages(pkgs), in named parts.         *)
(***************************************************************************)
\* No directory of a package is linked twice.
TodoTrue(pkgs) ==
    /\ todo \in Seq(ToSet(pkgs) \X ToSet(Trees))
    /\ IsInjective(todo)

Activations == [src : DOMAIN entries, len : Nat, dst : Paths, unread : SUBSET EntryNames]

\* Activation n is n levels below the package, and src_path says where.
FramesTrue(pkgs) ==
    /\ frames \in Seq(Activations)
    /\ frames # <<>> =>
        /\ src_path[1] \in ToSet(pkgs)
        /\ src_path = <<src_path[1]>> \o Tail(src_path)
        /\ Tail(src_path) \in Seq(ToSet(Trees) \cup EntryNames)
        /\ <<src_path[1], src_path[2]>> \notin ToSet(todo)
        /\ Len(src_path) > Len(frames)
        /\ Len(frames) < PathMax
        /\ \A n \in DOMAIN frames :
            LET f == frames[n] IN
            /\ Len(f.dst) = n /\ f.len = n + 1
            /\ \A i \in 1..n : f.dst[i] = src_path[i + 1]
            /\ f.src = KindAt(src_path[1], f.dst)
            /\ f.unread \subseteq DOMAIN entries[f.src]
            /\ n < Len(frames) => src_path[n + 2] \notin f.unread

\* link_tree has still to come to this path of p.
Waiting(p, path) ==
    \/ <<p, path[1]>> \in ToSet(todo)
    \/ /\ frames # <<>> /\ p = src_path[1]
       /\ \E n \in DOMAIN frames :
            /\ n < Len(path) /\ path[n + 1] \in frames[n].unread
            /\ \A i \in 1..n : path[i] = src_path[i + 1]

\* The node at path is as p has it.
Linked(p, path) ==
    \/ IsDir(KindAt(p, path)) /\ merged[path] = Directory
    \/ KindAt(p, path) = "file" /\ merged[path] = <<p>> \o path

(***************************************************************************)
(* What is not waiting has been linked, and what is there has been linked  *)
(* from a package in which it is not waiting any more.                     *)
(***************************************************************************)
MergedTrue(pkgs) ==
    /\ \A t \in ToSet(Trees) : <<t>> \in DOMAIN merged /\ merged[<<t>>] = Directory
    /\ DOMAIN merged \subseteq Paths
    /\ \A path \in DOMAIN merged : Len(path) > 1 =>
        \E p \in ToSet(pkgs) : ~Waiting(p, path) /\ Linked(p, path)
    /\ \A p \in ToSet(pkgs) : \A path \in Paths :
        KindAt(p, path) # "none" /\ ~Waiting(p, path) =>
            path \in DOMAIN merged /\ Linked(p, path)

LinkInv(pkgs) ==
    /\ state \in {"idle", "linking", "linked", "failed"}
    /\ state # "linking" => frames = <<>>
    /\ state = "linked" => todo = <<>>
    /\ state \in {"linking", "linked"} =>
        TodoTrue(pkgs) /\ FramesTrue(pkgs) /\ MergedTrue(pkgs)
    /\ state = "failed" => CannotMerge(pkgs)

(***************************************************************************)
(* The inductive invariant of withenv, in named parts.                     *)
(***************************************************************************)
EnvTyped ==
    /\ IsScenario(asked, roots, entries)
    /\ at \in {"mkdtemp", "root", "work", "mounts", "packages", "link", "command", "failed"}
    /\ \A path \in DOMAIN mounted : mounted[path].ro \in BOOLEAN
    /\ tmp \in BOOLEAN /\ starved \in BOOLEAN

\* What is left of a list of which some has been mounted.
IsRestOf(list) ==
    /\ Len(left) \in 0..Len(list)
    /\ left = SubSeq(list, Len(list) - Len(left) + 1, Len(list))

Done(list) == 1..(Len(list) - Len(left))

MountedReadOnly(p) ==
    PackagePath(p) \in DOMAIN mounted /\ mounted[PackagePath(p)] = [from |-> p, ro |-> TRUE]

\* What has been mounted is there, and all that has been made is for it.
MountsMade ==
    at = "mounts" =>
        /\ IsRestOf(mounts)
        /\ \A path \in made :
            \/ Len(path) = 1
            \/ \E n \in Done(mounts) : path = <<"mnt", mounts[n].name>>

PackagesMade ==
    at = "packages" =>
        /\ IsRestOf(packages)
        /\ \A path \in made :
            Len(path) < 3 \/ \E n \in Done(packages) : path = PackagePath(packages[n])
        /\ \A n \in Done(packages) :
            /\ packages[n] \in HostPackages
            /\ PackagePath(packages[n]) \in made
            /\ MountedReadOnly(packages[n])
            /\ \A m \in Done(packages) : packages[n] = packages[m] => n = m

PackagesMounted ==
    at \in {"link", "command"} =>
        \A n \in DOMAIN packages :
            /\ packages[n] \in HostPackages
            /\ MountedReadOnly(packages[n])
            /\ \A m \in DOMAIN packages : packages[n] = packages[m] => n = m

EnvInStep ==
    /\ at \in {"mkdtemp", "root", "work", "mounts", "packages"} => state = "idle"
    /\ at = "link" => state # "idle"
    /\ at = "command" => state = "linked"
    /\ at = "work" => \A path \in made : Len(path) = 1

(***************************************************************************)
(* The inductive invariant behind StatusPassedOn, in named parts.          *)
(***************************************************************************)
\* Each process is forked by the one before it, and a signal leaves its own status.
Lineage ==
    /\ proc["newns"] = "fork" => proc["child"] = "absent"
    /\ proc["newns"] = "wait" => proc["child"] # "absent"
    /\ proc["child"] \in {"absent", "unshare", "fork"} => proc["init"] = "absent"
    /\ proc["child"] = "wait" => proc["init"] # "absent"
    /\ proc["newns"] # "absent"
    /\ \A p \in {"newns", "child"} :
        proc[p] = "ended" => (p \in killed <=> status[p] = Signal)
    /\ \A p \in killed : proc[p] = "ended"

\* Success is that of a command, at every level.
SuccessIsTheCommands ==
    /\ proc["init"] = "ended" /\ status["init"] = 0 => at = "command"
    /\ \A p \in {"newns", "child"} :
        proc[p] = "ended" /\ status[p] = 0 =>
            proc["init"] = "ended" /\ status["init"] = 0

\* A parent that no signal has hit outlives its child and has its status, if it can.
ParentsWait ==
    /\ proc["child"] = "ended" /\ "child" \notin killed =>
        /\ proc["init"] \in {"absent", "ended"}
        /\ proc["init"] = "ended" /\ ~ignored => status["child"] = PassedOn(status["init"])
    /\ proc["newns"] = "ended" /\ "newns" \notin killed =>
        /\ proc["child"] \in {"absent", "ended"}
        /\ proc["child"] = "ended" /\ ~ignored => status["newns"] = PassedOn(status["child"])

StatusInv ==
    /\ ProcessesTyped
    /\ Lineage
    /\ SuccessIsTheCommands
    /\ ParentsWait

\* The inductive invariant of withenv in the container.
EnvInv ==
    /\ EnvTyped
    /\ EnvInStep
    /\ MountsMade
    /\ PackagesMade
    /\ PackagesMounted
    /\ LinkInv(packages)
    /\ EnvFailsForCause

-----------------------------------------------------------------------------

(***************************************************************************)
(* A parent's exit status is a status, and means success only if what it   *)
(* was made of does.                                                       *)
(***************************************************************************)
LEMMA PassedOnProperties ==
  ASSUME NEW s \in Signal..255
  PROVE  /\ PassedOn(s) \in 0..255
         /\ PassedOn(s) = 0 <=> s = 0
BY DEF PassedOn, Signal

(***************************************************************************)
(* A process that exits of its own accord, with children that allow for    *)
(* it: what the invariant needs to know of a step that Ends one process.   *)
(***************************************************************************)
LEMMA EndsInv ==
  ASSUME StatusInv, UNCHANGED at,
         NEW p \in Processes, NEW s \in Signal..255, Ends(p, s),
         proc[p] \notin {"absent", "ended"},
         p # "init" => s # Signal,
         p = "init" => proc["init"] \in {"exec", "command"} /\ (s = 0 => at = "command"),
         p = "child" => \/ proc["child"] \in {"unshare", "fork"} /\ s # 0
                        \/ /\ proc["init"] = "ended"
                           /\ IF ignored THEN s # 0 ELSE s = PassedOn(status["init"]),
         p = "newns" => \/ proc["newns"] = "fork" /\ s # 0
                        \/ /\ proc["child"] = "ended"
                           /\ IF ignored THEN s # 0 ELSE s = PassedOn(status["child"])
  PROVE  StatusInv'
<1> USE DEF StatusInv, Processes
<1>1. /\ proc' = [proc EXCEPT ![p] = "ended"]
      /\ status' = [status EXCEPT ![p] = s]
      /\ killed' = killed /\ ignored' = ignored
  BY DEF Ends
<1>2. ProcessesTyped'
  BY <1>1 DEF ProcessesTyped
<1>3. Lineage'
  BY <1>1 DEF ProcessesTyped, Lineage
<1>4. \A q \in Processes : proc[q] = "ended" => status[q] \in Signal..255
  BY DEF ProcessesTyped
<1>5. SuccessIsTheCommands'
  <2>1. CASE p = "init"
    BY <1>1, <2>1 DEF ProcessesTyped, Lineage, SuccessIsTheCommands
  <2>2. CASE p = "child"
    BY <1>1, <1>4, <2>2, PassedOnProperties DEF ProcessesTyped, Lineage, SuccessIsTheCommands
  <2>3. CASE p = "newns"
    BY <1>1, <1>4, <2>3, PassedOnProperties DEF ProcessesTyped, Lineage, SuccessIsTheCommands
  <2> QED
    BY <2>1, <2>2, <2>3
<1>6. ParentsWait'
  <2>1. CASE p = "init"
    BY <1>1, <2>1 DEF ProcessesTyped, Lineage, ParentsWait
  <2>2. CASE p = "child"
    BY <1>1, <2>2 DEF ProcessesTyped, Lineage, ParentsWait
  <2>3. CASE p = "newns"
    BY <1>1, <2>3 DEF ProcessesTyped, Lineage, ParentsWait
  <2> QED
    BY <2>1, <2>2, <2>3
<1> QED
  BY <1>2, <1>3, <1>5, <1>6

(***************************************************************************)
(* newns's own steps: the first fork, and the wait for the child.          *)
(***************************************************************************)
LEMMA NewnsStepInv ==
  ASSUME StatusInv, NewnsStep, UNCHANGED at
  PROVE  StatusInv'
<1> USE DEF Processes, Signal
<1>1. CASE Fork
  <2>1. CASE Fails("newns")
    BY <1>1, <2>1, EndsInv DEF Fork, Fails
  <2>2. CASE /\ proc' = [proc EXCEPT !["newns"] = "wait", !["child"] = "unshare"]
             /\ UNCHANGED <<status, killed, ignored>>
    BY <1>1, <2>2 DEF Fork, StatusInv, ProcessesTyped, Lineage, SuccessIsTheCommands, ParentsWait
  <2> QED
    BY <1>1, <2>1, <2>2 DEF Fork
<1>2. CASE WaitFor("newns", "child")
  <2>1. status["child"] \in Signal..255
    BY DEF StatusInv, ProcessesTyped
  <2>2. PassedOn(status["child"]) \in 0..255
    BY <2>1, PassedOnProperties
  <2>3. /\ proc["newns"] = "wait" /\ proc["child"] = "ended"
        /\ \/ ~ignored /\ Ends("newns", PassedOn(status["child"]))
           \/ ignored /\ Ends("newns", 255)
    BY <1>2 DEF WaitFor, WaitFailed
  <2>4. PassedOn(status["child"]) \in Signal..255 /\ PassedOn(status["child"]) # Signal
    BY <2>2
  <2>5. CASE ~ignored /\ Ends("newns", PassedOn(status["child"]))
    BY <2>3, <2>4, <2>5, EndsInv
  <2>6. CASE ignored /\ Ends("newns", 255)
    <3>1. 255 \in Signal..255 /\ 255 # Signal /\ 255 # 0
      OBVIOUS
    <3> QED
      BY <2>3, <2>6, <3>1, EndsInv
  <2> QED
    BY <2>3, <2>5, <2>6
<1> QED
  BY <1>1, <1>2 DEF NewnsStep

(***************************************************************************)
(* The steps of the child between newns and process 1.                     *)
(***************************************************************************)
LEMMA ChildStepInv ==
  ASSUME StatusInv, ChildStep, UNCHANGED at
  PROVE  StatusInv'
<1> USE DEF Processes, Signal
<1>1. CASE Unshare
  <2>1. CASE Fails("child")
    BY <1>1, <2>1, EndsInv DEF Unshare, Fails
  <2>2. CASE proc' = [proc EXCEPT !["child"] = "fork"] /\ UNCHANGED <<status, killed, ignored>>
    BY <1>1, <2>2 DEF Unshare, StatusInv, ProcessesTyped, Lineage, SuccessIsTheCommands, ParentsWait
  <2> QED
    BY <1>1, <2>1, <2>2 DEF Unshare
<1>2. CASE ForkInit
  <2>1. CASE Fails("child")
    BY <1>2, <2>1, EndsInv DEF ForkInit, Fails
  <2>2. CASE /\ proc' = [proc EXCEPT !["child"] = "wait", !["init"] = "exec"]
             /\ UNCHANGED <<status, killed, ignored>>
    BY <1>2, <2>2 DEF ForkInit, StatusInv, ProcessesTyped, Lineage, SuccessIsTheCommands, ParentsWait
  <2> QED
    BY <1>2, <2>1, <2>2 DEF ForkInit
<1>3. CASE WaitFor("child", "init")
  <2>1. status["init"] \in Signal..255
    BY DEF StatusInv, ProcessesTyped
  <2>2. PassedOn(status["init"]) \in 0..255
    BY <2>1, PassedOnProperties
  <2>3. /\ proc["child"] = "wait" /\ proc["init"] = "ended"
        /\ \/ ~ignored /\ Ends("child", PassedOn(status["init"]))
           \/ ignored /\ Ends("child", 1)
    BY <1>3 DEF WaitFor, WaitFailed
  <2>4. PassedOn(status["init"]) \in Signal..255 /\ PassedOn(status["init"]) # Signal
    BY <2>2
  <2>5. CASE ~ignored /\ Ends("child", PassedOn(status["init"]))
    BY <2>3, <2>4, <2>5, EndsInv
  <2>6. CASE ignored /\ Ends("child", 1)
    <3>1. 1 \in Signal..255 /\ 1 # Signal /\ 1 # 0
      OBVIOUS
    <3> QED
      BY <2>3, <2>6, <3>1, EndsInv
  <2> QED
    BY <2>3, <2>5, <2>6
<1> QED
  BY <1>1, <1>2, <1>3 DEF ChildStep

(***************************************************************************)
(* Process 1: the exec, withenv while it runs, and the end of either.      *)
(***************************************************************************)
LEMMA InitStepInv ==
  ASSUME StatusInv, InitStep \/ WithenvStarves
  PROVE  StatusInv'
<1> USE DEF Processes, Signal
<1>1. CASE WithenvStep \/ WithenvStarves
  <2>1. proc["init"] = "command" /\ UNCHANGED <<proc, status, killed, ignored>>
    BY <1>1 DEF WithenvStep, WithenvStarves, InWithenv, nsVars
  <2>2. ProcessesTyped' /\ Lineage' /\ ParentsWait'
    BY <2>1 DEF StatusInv, ProcessesTyped, Lineage, ParentsWait
  <2>3. SuccessIsTheCommands'
    BY <2>1 DEF StatusInv, SuccessIsTheCommands
  <2> QED
    BY <2>2, <2>3 DEF StatusInv
<1>2. CASE Exec /\ UNCHANGED envVars
  <2>1. UNCHANGED at
    BY <1>2 DEF envVars
  <2>2. CASE Fails("init")
    BY <1>2, <2>1, <2>2, EndsInv DEF Exec, Fails
  <2>3. CASE proc' = [proc EXCEPT !["init"] = "command"] /\ UNCHANGED <<status, killed, ignored>>
    BY <1>2, <2>1, <2>3
       DEF Exec, StatusInv, ProcessesTyped, Lineage, SuccessIsTheCommands, ParentsWait
  <2> QED
    BY <1>2, <2>2, <2>3 DEF Exec
<1>3. CASE InitEnds
  <2>1. UNCHANGED at
    BY <1>3 DEF InitEnds, envVars
  <2>2. CASE at = "failed" /\ CommandEnds(1)
    BY <2>1, <2>2, EndsInv DEF CommandEnds
  <2>3. CASE at = "command" /\ \E s \in {0, 1, Signal} : CommandEnds(s)
    <3>1. PICK s \in {0, 1, Signal} : CommandEnds(s)
      BY <2>3
    <3>2. s \in Signal..255
      OBVIOUS
    <3> QED
      BY <2>1, <2>3, <3>1, <3>2, EndsInv DEF CommandEnds
  <2> QED
    BY <1>3, <2>2, <2>3 DEF InitEnds
<1> QED
  BY <1>1, <1>2, <1>3 DEF InitStep

(***************************************************************************)
(* A signal from outside, to any process that is there.                    *)
(***************************************************************************)
LEMMA KillInv ==
  ASSUME StatusInv, NEW p \in Processes, Kill(p), UNCHANGED at
  PROVE  StatusInv'
<1> USE DEF Processes, Signal, StatusInv, Kill
<1>1. ProcessesTyped'
  BY DEF ProcessesTyped
<1>2. Lineage'
  BY DEF ProcessesTyped, Lineage
<1>3. SuccessIsTheCommands'
  BY DEF ProcessesTyped, SuccessIsTheCommands
<1>4. ParentsWait'
  BY DEF ProcessesTyped, ParentsWait
<1> QED
  BY <1>1, <1>2, <1>3, <1>4

(***************************************************************************)
(* Initially nothing has been forked.                                      *)
(***************************************************************************)
LEMMA InitInv == CInit => StatusInv
BY DEF CInit, NewNsInit, StatusInv, ProcessesTyped, Lineage, SuccessIsTheCommands,
   ParentsWait, Processes, Signal

(***************************************************************************)
(* Every step keeps the invariant.                                         *)
(***************************************************************************)
LEMMA NextInv == StatusInv /\ [CNext]_cvars => StatusInv'
<1> SUFFICES ASSUME StatusInv, [CNext]_cvars PROVE StatusInv'
  OBVIOUS
<1>1. CASE UNCHANGED cvars
  BY <1>1 DEF cvars, nsVars, envVars, StatusInv, ProcessesTyped, Lineage,
     SuccessIsTheCommands, ParentsWait
<1>2. CASE NewnsStep /\ UNCHANGED envVars
  BY <1>2, NewnsStepInv DEF envVars
<1>3. CASE ChildStep /\ UNCHANGED envVars
  BY <1>3, ChildStepInv DEF envVars
<1>4. CASE InitStep \/ WithenvStarves
  BY <1>4, InitStepInv
<1>5. CASE \E p \in Processes : Kill(p) /\ UNCHANGED envVars
  BY <1>5, KillInv DEF envVars
<1> QED
  BY <1>1, <1>2, <1>3, <1>4, <1>5 DEF CNext

(***************************************************************************)
(* The invariant of the three processes holds in every behaviour.          *)
(***************************************************************************)
THEOREM ProcessesInvariant == CSpec => []StatusInv
BY InitInv, NextInv, PTL DEF CSpec

(***************************************************************************)
(* newns reports success only for a command that ran to success in a       *)
(* complete environment, whichever process is hit by a signal, and does    *)
(* not come back before process 1 unless it, or its child, is hit.         *)
(***************************************************************************)
THEOREM StatusIsPassedOn == CSpec => []StatusPassedOn
<1>1. StatusInv => StatusPassedOn
  BY DEF StatusInv, ProcessesTyped, Lineage, SuccessIsTheCommands, ParentsWait,
     StatusPassedOn, PassedOn, Processes, Signal
<1> QED
  BY <1>1, ProcessesInvariant, PTL

-----------------------------------------------------------------------------
(***************************************************************************)
(* What there is along a path: each kind follows from the one before it.   *)
(***************************************************************************)
Kinds == {"none", "file", "broken"} \cup DOMAIN entries

Follows(kind, p, path) ==
    /\ kind \in [1..Len(path) -> Kinds]
    /\ kind[1] = RootKind(p, path[1])
    /\ \A i \in 1..Len(path) : i # Len(path) => kind[i + 1] = EntryKind(kind[i], path[i + 1])

LEMMA KindsFollow ==
  ASSUME IsContents(roots, entries), NEW p \in HostPackages,
         NEW path, Len(path) \in Nat \ {0}
  PROVE  Follows(KindsAlong(p, path), p, path)
<1> DEFINE n == Len(path)
           next == [q \in (1..n) \X Kinds |-> EntryKind(q[2], path[q[1]])]
           R == CHOOSE kind : kind = [i \in 1..n |-> IF i = 1 THEN RootKind(p, path[1])
                                                ELSE EntryKind(kind[i - 1], path[i])]
<1>1. RootKind(p, path[1]) \in Kinds
  BY DEF RootKind, IsContents, HostPackages, Kinds
<1>2. ASSUME NEW k \in Kinds, NEW name PROVE EntryKind(k, name) \in Kinds
  BY DEF EntryKind, IsContents, IsDir, Kinds
<1>3. next \in NextValues(n, Kinds)
  <2> HIDE DEF n
  <2> QED
    BY <1>2 DEF NextValues
<1>4. PICK f : Recurs(f, n, Kinds, RootKind(p, path[1]), next)
  <2> HIDE DEF n, next
  <2>1. n \in Nat
    BY DEF n
  <2> QED
    BY <1>1, <1>3, <2>1, RecursionExists
<1>5. f = [i \in 1..n |-> IF i = 1 THEN RootKind(p, path[1]) ELSE EntryKind(f[i - 1], path[i])]
  <2>1. f \in [1..n -> Kinds]
    BY <1>4 DEF Recurs
  <2>2. ASSUME NEW i \in 1..n
        PROVE  f[i] = IF i = 1 THEN RootKind(p, path[1]) ELSE EntryKind(f[i - 1], path[i])
    <3>1. f[i] = IF i = 1 THEN RootKind(p, path[1]) ELSE next[<<i, f[i - 1]>>]
      BY <1>4 DEF Recurs
    <3>2. CASE i # 1
      <4>1. i - 1 \in 1..n
        BY <3>2
      <4>2. f[i - 1] \in Kinds
        BY <2>1, <4>1
      <4>3. next[<<i, f[i - 1]>>] = EntryKind(f[i - 1], path[i])
        BY <4>2
      <4> QED
        BY <3>1, <3>2, <4>3
    <3> QED
      BY <3>1, <3>2
  <2> QED
    BY <2>1, <2>2
<1>6. R = [i \in 1..n |-> IF i = 1 THEN RootKind(p, path[1]) ELSE EntryKind(R[i - 1], path[i])]
  BY <1>5
<1>7. KindsAlong(p, path) = R
  BY DEF KindsAlong
<1> HIDE DEF R
<1>8. /\ R[1] = RootKind(p, path[1])
      /\ \A i \in 1..n : i # n => R[i + 1] = EntryKind(R[i], path[i + 1])
  <2>1. \A i \in 1..n : R[i] = IF i = 1 THEN RootKind(p, path[1]) ELSE EntryKind(R[i - 1], path[i])
    BY <1>6
  <2>2. 1 \in 1..n
    OBVIOUS
  <2>3. \A i \in 1..n : i # n => i + 1 \in 1..n /\ i + 1 # 1 /\ (i + 1) - 1 = i
    OBVIOUS
  <2> QED
    BY <2>1, <2>2, <2>3
<1>9. R \in [1..n -> Kinds]
  <2> DEFINE T == {i \in 1..n : R[i] \in Kinds}
  <2>1. 1 \in T
    BY <1>1, <1>8
  <2>2. ASSUME NEW i \in 1..n, i \in T, i # n PROVE i + 1 \in T
    BY <1>2, <1>8, <2>2
  <2>3. \A i \in 1..n : i \in T
    <3>1. n \in Nat
      OBVIOUS
    <3> HIDE DEF T, n
    <3> QED
      BY <2>1, <2>2, <3>1, InductionTo
  <2>4. DOMAIN R = 1..n /\ R = [i \in 1..n |-> R[i]]
    BY <1>6
  <2> QED
    BY <2>3, <2>4
<1> QED
  BY <1>7, <1>8, <1>9 DEF Follows

(***************************************************************************)
(* Where two paths are the same, there is the same along them.             *)
(***************************************************************************)
LEMMA SameKinds ==
  ASSUME IsContents(roots, entries), NEW p \in HostPackages,
         NEW path, Len(path) \in Nat \ {0}, NEW other, Len(other) \in Nat \ {0},
         NEW n \in Nat, n <= Len(path), n <= Len(other),
         \A i \in 1..n : path[i] = other[i]
  PROVE  \A i \in 1..n : KindsAlong(p, path)[i] = KindsAlong(p, other)[i]
<1> DEFINE a == KindsAlong(p, path)
           b == KindsAlong(p, other)
           T == {i \in 1..n : a[i] = b[i]}
<1>1. Follows(a, p, path) /\ Follows(b, p, other)
  BY KindsFollow
<1> HIDE DEF a, b
<1>2. n >= 1 => 1 \in T
  BY <1>1 DEF Follows
<1>3. ASSUME NEW i \in 1..n, i \in T, i # n PROVE i + 1 \in T
  <2>1. i + 1 \in 1..n /\ i \in 1..Len(path) /\ i # Len(path) /\ i \in 1..Len(other) /\ i # Len(other)
    BY <1>3
  <2>2. a[i + 1] = EntryKind(a[i], path[i + 1]) /\ b[i + 1] = EntryKind(b[i], other[i + 1])
    BY <1>1, <2>1 DEF Follows
  <2> QED
    BY <1>3, <2>1, <2>2
<1>4. \A i \in 1..n : i \in T
  <2> HIDE DEF T
  <2> QED
    BY <1>2, <1>3, InductionTo
<1> QED
  BY <1>4 DEF a, b

(***************************************************************************)
(* Above what there is at a path, there are directories that show it.      *)
(***************************************************************************)
LEMMA DirectoriesAbove ==
  ASSUME IsContents(roots, entries), NEW p \in HostPackages,
         NEW path, Len(path) \in Nat \ {0}, KindAt(p, path) # "none"
  PROVE  LET kind == KindsAlong(p, path) IN
         \A i \in 1..Len(path) :
           /\ kind[i] # "none"
           /\ i # Len(path) => /\ IsDir(kind[i]) /\ path[i + 1] \notin Hidden
                               /\ path[i + 1] \in DOMAIN entries[kind[i]]
                               /\ kind[i + 1] = entries[kind[i]][path[i + 1]]
<1> DEFINE n == Len(path)
           k == KindsAlong(p, path)
           T == {i \in 1..n : k[n - i + 1] # "none"}
<1>1. Follows(k, p, path) /\ n \in Nat \ {0} /\ k[n] # "none"
  BY KindsFollow DEF KindAt
<1> HIDE DEF k, n
<1>2. ASSUME NEW i \in 1..n, i # n, k[i + 1] # "none"
      PROVE  /\ IsDir(k[i]) /\ path[i + 1] \notin Hidden
             /\ path[i + 1] \in DOMAIN entries[k[i]]
             /\ k[i + 1] = entries[k[i]][path[i + 1]]
             /\ k[i] # "none"
  <2>1. k[i + 1] = EntryKind(k[i], path[i + 1])
    BY <1>1, <1>2 DEF Follows, n
  <2> QED
    BY <1>2, <2>1 DEF EntryKind, IsDir, IsContents
<1>3. 1 \in T
  BY <1>1
<1>4. ASSUME NEW i \in 1..n, i \in T, i # n PROVE i + 1 \in T
  <2>1. /\ n - i \in 1..n /\ n - i # n /\ n - i + 1 \in 1..n /\ n - (i + 1) + 1 = n - i
        /\ (n - i) + 1 = n - i + 1 /\ i + 1 \in 1..n
    BY <1>1, <1>4
  <2>2. k[n - i + 1] # "none"
    BY <1>4
  <2>3. k[n - i] # "none"
    BY <1>2, <2>1, <2>2
  <2> QED
    BY <2>1, <2>3
<1>5. \A i \in 1..n : i \in T
  <2> HIDE DEF T
  <2> QED
    BY <1>1, <1>3, <1>4, InductionTo
<1>6. \A i \in 1..n : k[i] # "none"
  <2>1. \A i \in 1..n : n - i + 1 \in 1..n /\ n - (n - i + 1) + 1 = i
    BY <1>1
  <2> QED
    BY <1>5, <2>1
<1>7. \A i \in 1..n : i # n => i + 1 \in 1..n
  BY <1>1
<1> QED
  BY <1>2, <1>6, <1>7 DEF k, n

-----------------------------------------------------------------------------
(***************************************************************************)
(* Paths: a tree's name, and names of entries.                             *)
(***************************************************************************)
Names == ToSet(Trees) \cup EntryNames

LEMMA PathShape ==
  ASSUME NEW path \in Paths
  PROVE  /\ path \in Seq(Names) /\ Len(path) \in 1..PathMax
         /\ path[1] \in ToSet(Trees)
         /\ \A i \in 2..Len(path) : path[i] \in EntryNames
<1>0. PICK t \in ToSet(Trees), names \in UNION {[1..n -> EntryNames] : n \in 0..(PathMax - 1)} :
        path = <<t>> \o names
  <2> DEFINE T == ToSet(Trees)
             N == UNION {[1..n -> EntryNames] : n \in 0..(PathMax - 1)}
  <2>1. path \in UNION {{<<t>> \o names : names \in N} : t \in T}
    BY DEF Paths
  <2> HIDE DEF T, N
  <2>2. \E t \in T, names \in N : path = <<t>> \o names
    BY <2>1
  <2> QED
    BY <2>2 DEF T, N
<1>1. PICK n \in 0..(PathMax - 1) : names \in [1..n -> EntryNames]
  OBVIOUS
<1>2. names \in Seq(EntryNames) /\ Len(names) = n
  BY <1>1
<1>3. /\ names \in Seq(Names) /\ <<t>> \in Seq(Names) /\ Len(<<t>>) = 1
      /\ \A i \in 1..n : names[i] \in EntryNames
  BY <1>1, <1>2 DEF Names
<1>4. /\ path \in Seq(Names) /\ Len(path) = 1 + n
      /\ \A i \in 1..(1 + n) : path[i] = IF i <= 1 THEN t ELSE names[i - 1]
  <2> DEFINE front == <<t>>
  <2>1. front \in Seq(Names) /\ Len(front) = 1 /\ front[1] = t
    BY <1>3
  <2> HIDE DEF front
  <2>2. /\ front \o names \in Seq(Names) /\ Len(front \o names) = Len(front) + Len(names)
        /\ \A i \in 1..(Len(front) + Len(names)) :
             (front \o names)[i] = IF i <= Len(front) THEN front[i] ELSE names[i - Len(front)]
    BY <1>3, <2>1, ConcatProperties
  <2>3. path = front \o names
    BY <1>0 DEF front
  <2>4. \A i \in 1..(1 + n) : i <= 1 => i = 1
    OBVIOUS
  <2> QED
    BY <1>2, <2>1, <2>2, <2>3, <2>4
<1>5. 1 \in 1..(1 + n) /\ \A i \in 2..(1 + n) : i \in 1..(1 + n) /\ ~(i <= 1) /\ i - 1 \in 1..n
  BY <1>1
<1>6. path[1] = t /\ \A i \in 2..(1 + n) : path[i] \in EntryNames
  <2>1. path[1] = t
    BY <1>4, <1>5
  <2>2. ASSUME NEW i \in 2..(1 + n) PROVE path[i] \in EntryNames
    <3>1. path[i] = names[i - 1]
      BY <1>4, <1>5
    <3> QED
      BY <1>3, <1>5, <3>1
  <2> QED
    BY <2>1, <2>2
<1> QED
  BY <1>1, <1>4, <1>6, PathMaxAssumption

\* The converse.
LEMMA IsPath ==
  ASSUME NEW path \in Seq(Names), Len(path) \in 1..PathMax, path[1] \in ToSet(Trees),
         \A i \in 2..Len(path) : path[i] \in EntryNames
  PROVE  path \in Paths
<1> DEFINE n == Len(path) - 1
           names == [i \in 1..n |-> path[i + 1]]
           front == <<path[1]>>
<1>1. n \in 0..(PathMax - 1) /\ n \in Nat /\ Len(path) = 1 + n
  BY PathMaxAssumption
<1>2. \A i \in 1..n : i + 1 \in 2..Len(path)
  BY <1>1
<1>3. names \in [1..n -> EntryNames]
  BY <1>2
<1>4. names \in Seq(Names) /\ Len(names) = n
  BY <1>1, <1>3 DEF Names
<1>5. front \in Seq(Names) /\ Len(front) = 1 /\ front[1] = path[1]
  BY DEF Names
<1>6. \A i \in 1..n : names[i] = path[i + 1]
  OBVIOUS
<1> HIDE DEF front, names, n
<1>7. /\ front \o names \in Seq(Names) /\ Len(front \o names) = Len(front) + Len(names)
      /\ \A i \in 1..(Len(front) + Len(names)) :
           (front \o names)[i] = IF i <= Len(front) THEN front[i] ELSE names[i - Len(front)]
  BY <1>4, <1>5, ConcatProperties
<1>8. ASSUME NEW i \in 1..Len(path) PROVE path[i] = (front \o names)[i]
  <2>1. i \in 1..(Len(front) + Len(names))
    BY <1>1, <1>4, <1>5
  <2>2. CASE i = 1
    BY <1>5, <1>7, <2>1, <2>2
  <2>3. CASE i # 1
    <3>1. ~(i <= 1) /\ i - 1 \in 1..n /\ (i - 1) + 1 = i
      BY <1>1, <2>3
    <3>2. names[i - 1] = path[i]
      BY <1>6, <3>1
    <3> QED
      BY <1>5, <1>7, <2>1, <3>1, <3>2
  <2> QED
    BY <2>2, <2>3
<1>9. path = front \o names
  <2>1. Len(path) = Len(front \o names)
    BY <1>1, <1>4, <1>5, <1>7
  <2> QED
    BY <1>7, <1>8, <2>1, SeqEqual
<1>10. names \in UNION {[1..k -> EntryNames] : k \in 0..(PathMax - 1)}
  BY <1>1, <1>3
<1> QED
  BY <1>9, <1>10 DEF Paths, front

LEMMA RootPath ==
  ASSUME NEW t \in ToSet(Trees)
  PROVE  <<t>> \in Paths /\ Len(<<t>>) = 1 /\ <<t>>[1] = t
<1>1. <<t>> \in Seq(Names) /\ Len(<<t>>) = 1 /\ <<t>>[1] = t
  BY DEF Names
<1>2. Len(<<t>>) \in 1..PathMax /\ \A i \in 2..Len(<<t>>) : <<t>>[i] \in EntryNames
  BY <1>1, PathMaxAssumption
<1> QED
  BY <1>1, <1>2, IsPath

LEMMA LongerPath ==
  ASSUME NEW path \in Paths, NEW name \in EntryNames, Len(path) < PathMax
  PROVE  /\ Append(path, name) \in Paths
         /\ Len(Append(path, name)) = Len(path) + 1
         /\ \A i \in 1..Len(path) : Append(path, name)[i] = path[i]
         /\ Append(path, name)[Len(path) + 1] = name
<1> DEFINE longer == Append(path, name)
<1>1. /\ path \in Seq(Names) /\ Len(path) \in 1..PathMax /\ name \in Names
      /\ path[1] \in ToSet(Trees) /\ \A i \in 2..Len(path) : path[i] \in EntryNames
  BY PathShape DEF Names
<1>2. /\ longer \in Seq(Names) /\ Len(longer) = Len(path) + 1
      /\ \A i \in 1..Len(path) : longer[i] = path[i]
      /\ longer[Len(path) + 1] = name
  BY <1>1, AppendProperties
<1> HIDE DEF longer
<1>3. Len(longer) \in 1..PathMax /\ 1 \in 1..Len(path)
  BY <1>1, <1>2, PathMaxAssumption
<1>4. \A i \in 2..Len(longer) : longer[i] \in EntryNames
  BY <1>1, <1>2
<1>5. longer \in Paths
  BY <1>1, <1>2, <1>3, <1>4, IsPath
<1> QED
  BY <1>2, <1>5 DEF longer

(***************************************************************************)
(* Paths of one length with the same names are the same.                   *)
(***************************************************************************)
LEMMA SamePath ==
  ASSUME NEW a \in Paths, NEW b \in Paths, Len(a) = Len(b), \A i \in 1..Len(a) : a[i] = b[i]
  PROVE  a = b
BY PathShape, SeqEqual

(***************************************************************************)
(* What there is at a tree's root, and at a name in a directory.           *)
(***************************************************************************)
LEMMA KindAtRoot ==
  ASSUME IsContents(roots, entries), NEW p \in HostPackages, NEW t \in ToSet(Trees)
  PROVE  KindAt(p, <<t>>) = RootKind(p, t)
<1> DEFINE path == <<t>>
<1>1. Len(path) = 1 /\ path[1] = t
  OBVIOUS
<1> HIDE DEF path
<1>2. Follows(KindsAlong(p, path), p, path)
  BY <1>1, KindsFollow
<1> QED
  BY <1>1, <1>2 DEF Follows, KindAt, path

LEMMA KindAtName ==
  ASSUME IsContents(roots, entries), NEW p \in HostPackages, NEW path \in Paths,
         NEW name \in EntryNames, Len(path) < PathMax
  PROVE  KindAt(p, Append(path, name)) = EntryKind(KindAt(p, path), name)
<1> DEFINE longer == Append(path, name)
           n == Len(path)
<1>1. /\ Len(longer) = n + 1 /\ longer[n + 1] = name /\ n \in Nat \ {0}
      /\ \A i \in 1..n : longer[i] = path[i]
  BY PathShape, LongerPath
<1> HIDE DEF longer, n
<1>2. Follows(KindsAlong(p, longer), p, longer)
  BY <1>1, KindsFollow
<1>3. n <= Len(path) /\ n <= Len(longer) /\ n \in 1..n /\ Len(path) \in Nat \ {0}
      /\ Len(longer) \in Nat \ {0}
  BY <1>1 DEF n
<1>4. KindsAlong(p, longer)[n] = KindsAlong(p, path)[n]
  BY <1>1, <1>3, SameKinds
<1>5. n \in 1..Len(longer) /\ n # Len(longer)
  BY <1>1
<1>6. KindsAlong(p, longer)[n + 1] = EntryKind(KindsAlong(p, longer)[n], name)
  BY <1>1, <1>2, <1>5 DEF Follows
<1> QED
  BY <1>1, <1>4, <1>6 DEF KindAt, n, longer

-----------------------------------------------------------------------------
(***************************************************************************)
(* Linking.  The packages are there, and none of them is asked for twice.  *)
(***************************************************************************)
Packaged ==
    /\ IsContents(roots, entries)
    /\ packages \in Seq(HostPackages)
    /\ IsInjective(packages)

Stays == UNCHANGED <<contents, asked>>

(***************************************************************************)
(* What packages hold does not change while they are linked.               *)
(***************************************************************************)
LEMMA ContentsStay ==
  ASSUME Stays
  PROVE  /\ packages' = packages /\ Paths' = Paths /\ EntryNames' = EntryNames
         /\ Activations' = Activations
         /\ \A p, path : KindAt(p, path)' = KindAt(p, path)
         /\ \A kind : IsDir(kind)' = IsDir(kind)
<1>1. roots' = roots /\ entries' = entries /\ asked' = asked
  BY DEF Stays, contents
<1>2. packages' = packages
  BY <1>1 DEF packages
<1>3. EntryNames' = EntryNames
  BY <1>1 DEF EntryNames
<1>4. Paths' = Paths
  BY <1>3 DEF Paths
<1>5. Activations' = Activations
  BY <1>1, <1>3, <1>4 DEF Activations
<1>6. \A kind : IsDir(kind)' = IsDir(kind)
  BY <1>1 DEF IsDir
<1>7. ASSUME NEW p, NEW path PROVE KindAt(p, path)' = KindAt(p, path)
  BY <1>1 DEF KindAt, KindsAlong, RootKind, EntryKind, IsDir
<1> QED
  BY <1>2, <1>3, <1>4, <1>5, <1>6, <1>7

(***************************************************************************)
(* The running activation, and the entry that it deals with.               *)
(***************************************************************************)
LEMMA TheEntry ==
  ASSUME Packaged, FramesTrue(packages), frames # <<>>, NEW name \in Running.unread
  PROVE  /\ Len(frames) \in 1..(PathMax - 1) /\ Running = frames[Len(frames)]
         /\ Running \in Activations /\ Running.len = Len(frames) + 1
         /\ Len(Running.dst) = Len(frames)
         /\ src_path[1] \in ToSet(packages) /\ src_path[1] \in HostPackages
         /\ name \in EntryNames /\ name \in DOMAIN entries[Running.src]
         /\ IsDir(Running.src) /\ Running.src = KindAt(src_path[1], Running.dst)
         /\ \A i \in 1..Len(frames) : Running.dst[i] = src_path[i + 1]
<1>1. /\ frames \in Seq(Activations) /\ Len(frames) \in Nat \ {0} /\ DOMAIN frames = 1..Len(frames)
      /\ Len(frames) < PathMax
  BY LenProperties, EmptySeq DEF FramesTrue
<1>2. Len(frames) \in 1..(PathMax - 1) /\ Len(frames) \in DOMAIN frames
  BY <1>1, PathMaxAssumption
<1>3. Running = frames[Len(frames)]
  BY DEF Running, Last
<1>4. Running \in Activations
  BY <1>1, <1>2, <1>3, ElementOfSeq
<1>5. src_path[1] \in HostPackages /\ src_path[1] \in ToSet(packages)
  <2>1. \A n \in DOMAIN packages : packages[n] \in HostPackages
    BY LenProperties, ElementOfSeq DEF Packaged
  <2>2. src_path[1] \in ToSet(packages)
    BY DEF FramesTrue
  <2> QED
    BY <2>1, <2>2 DEF ToSet
<1>6. /\ Running.len = Len(frames) + 1 /\ Len(Running.dst) = Len(frames)
      /\ Running.src = KindAt(src_path[1], Running.dst)
      /\ \A i \in 1..Len(frames) : Running.dst[i] = src_path[i + 1]
      /\ Running.unread \subseteq DOMAIN entries[Running.src]
  BY <1>2, <1>3 DEF FramesTrue
<1>7. IsDir(Running.src)
  BY <1>4 DEF IsDir, Activations
<1>8. name \in EntryNames /\ name \in DOMAIN entries[Running.src]
  BY <1>6, <1>7 DEF IsDir, EntryNames
<1> QED
  BY <1>2, <1>3, <1>4, <1>5, <1>6, <1>7, <1>8

LEMMA TheTarget ==
  ASSUME Packaged, FramesTrue(packages), frames # <<>>, NEW name \in Running.unread
  PROVE  /\ Target(name) \in Paths /\ Len(Target(name)) = Len(frames) + 1
         /\ \A i \in 1..Len(frames) : Target(name)[i] = src_path[i + 1]
         /\ Target(name)[Len(frames) + 1] = name
         /\ name \notin Hidden => KindAt(src_path[1], Target(name)) = Kind(name)
         /\ Kind(name) \in {"file", "broken"} \cup DOMAIN entries /\ Kind(name) # "none"
         /\ Waiting(src_path[1], Target(name))
<1>1. /\ Running.dst \in Paths /\ Len(Running.dst) = Len(frames) /\ Len(frames) \in 1..(PathMax - 1)
      /\ Running = frames[Len(frames)]
      /\ name \in EntryNames /\ name \in DOMAIN entries[Running.src]
      /\ IsDir(Running.src) /\ Running.src = KindAt(src_path[1], Running.dst)
      /\ src_path[1] \in HostPackages
      /\ \A i \in 1..Len(frames) : Running.dst[i] = src_path[i + 1]
  BY TheEntry DEF Activations
<1>2. Len(Running.dst) < PathMax
  BY <1>1, PathMaxAssumption
<1>3. /\ Target(name) \in Paths /\ Len(Target(name)) = Len(frames) + 1
      /\ \A i \in 1..Len(frames) : Target(name)[i] = src_path[i + 1]
      /\ Target(name)[Len(frames) + 1] = name
  BY <1>1, <1>2, LongerPath DEF Target
<1>4. KindAt(src_path[1], Target(name)) = EntryKind(Running.src, name)
  BY <1>1, <1>2, KindAtName DEF Packaged, Target
<1>5. name \notin Hidden => KindAt(src_path[1], Target(name)) = Kind(name)
  BY <1>1, <1>4 DEF EntryKind, Kind
<1>6. Kind(name) \in {"file", "broken"} \cup DOMAIN entries /\ Kind(name) # "none"
  BY <1>1 DEF Packaged, IsContents, IsDir, Kind
<1>7. Waiting(src_path[1], Target(name))
  <2>1. Len(frames) \in DOMAIN frames
    BY <1>1, LenProperties DEF FramesTrue
  <2>2. Len(frames) < Len(Target(name)) /\ Target(name)[Len(frames) + 1] \in frames[Len(frames)].unread
    BY <1>1, <1>3
  <2> QED
    BY <1>3, <2>1, <2>2 DEF Waiting
<1> QED
  BY <1>3, <1>5, <1>6, <1>7

(***************************************************************************)
(* What a package has at or below the entry.                               *)
(***************************************************************************)
Below(name, path) ==
    /\ Len(path) > Len(frames) /\ path[Len(frames) + 1] = name
    /\ \A i \in 1..Len(frames) : path[i] = src_path[i + 1]

LEMMA BelowEntry ==
  ASSUME Packaged, FramesTrue(packages), frames # <<>>, NEW name \in Running.unread,
         NEW path \in Paths, Below(name, path), KindAt(src_path[1], path) # "none"
  PROVE  /\ name \notin Hidden
         /\ \/ path = Target(name)
            \/ /\ Len(path) > Len(frames) + 1 /\ IsDir(Kind(name))
               /\ path[Len(frames) + 2] \in DOMAIN entries[Kind(name)]
<1> DEFINE p == src_path[1]
           L == Len(frames)
           t == Target(name)
           kind == KindsAlong(p, path)
<1>1. /\ t \in Paths /\ Len(t) = L + 1 /\ L \in 1..(PathMax - 1) /\ p \in HostPackages
      /\ \A i \in 1..L : t[i] = src_path[i + 1]
      /\ t[L + 1] = name
      /\ name \notin Hidden => KindAt(p, t) = Kind(name)
  BY TheEntry, TheTarget
<1>2. Len(path) \in 1..PathMax /\ Len(path) > L /\ path[L + 1] = name
      /\ \A i \in 1..L : path[i] = src_path[i + 1]
  BY PathShape DEF Below
<1>3. IsContents(roots, entries) /\ KindAt(p, path) # "none"
  BY DEF Packaged
<1> HIDE DEF p, L, t, kind
<1>4. /\ Len(t) \in Nat \ {0} /\ Len(path) \in Nat \ {0} /\ L + 1 \in Nat
      /\ L + 1 <= Len(t) /\ L + 1 <= Len(path)
      /\ \A i \in 1..(L + 1) : i \in 1..L \/ i = L + 1
      /\ L + 1 \in 1..(L + 1)
  BY <1>1, <1>2, PathMaxAssumption
<1>5. \A i \in 1..(L + 1) : path[i] = t[i]
  BY <1>1, <1>2, <1>4
<1>6. kind[L + 1] = KindAt(p, t)
  <2>1. KindsAlong(p, path)[L + 1] = KindsAlong(p, t)[L + 1]
    BY <1>1, <1>3, <1>4, <1>5, SameKinds
  <2> QED
    BY <1>1, <2>1 DEF KindAt, kind
<1>7. \A i \in 1..Len(path) :
        i # Len(path) => /\ IsDir(kind[i]) /\ path[i + 1] \notin Hidden
                         /\ path[i + 1] \in DOMAIN entries[kind[i]]
  BY <1>1, <1>3, <1>4, DirectoriesAbove DEF kind
<1>8. name \notin Hidden
  <2>1. L \in 1..Len(path) /\ L # Len(path)
    BY <1>1, <1>2
  <2> QED
    BY <1>2, <1>7, <2>1
<1>9. CASE Len(path) = L + 1
  <2>1. Len(path) = Len(t) /\ \A i \in 1..Len(path) : path[i] = t[i]
    BY <1>1, <1>5, <1>9
  <2>2. path = t
    BY <1>1, <2>1, SamePath
  <2> QED
    BY <1>8, <2>2 DEF t
<1>10. CASE Len(path) # L + 1
  <2>1. L + 1 \in 1..Len(path) /\ Len(path) > L + 1 /\ (L + 1) + 1 = L + 2
    BY <1>1, <1>2, <1>10
  <2>2. IsDir(kind[L + 1]) /\ path[L + 2] \in DOMAIN entries[kind[L + 1]]
    BY <1>7, <1>10, <2>1
  <2>3. kind[L + 1] = Kind(name)
    BY <1>1, <1>6, <1>8
  <2> QED
    BY <1>8, <2>1, <2>2, <2>3 DEF L
<1> QED
  BY <1>9, <1>10

(***************************************************************************)
(* A step that links: nothing has to wait again, nothing that is there     *)
(* changes, what is new is as a package has it that is done with it, and   *)
(* what stops waiting is there as its package has it.                      *)
(***************************************************************************)
Links ==
    /\ Stays
    /\ \A p \in ToSet(packages) : \A path \in Paths : Waiting(p, path)' => Waiting(p, path)
    /\ \A path \in DOMAIN merged : path \in DOMAIN merged' /\ merged'[path] = merged[path]
    /\ \A path \in DOMAIN merged' : path \notin DOMAIN merged =>
        /\ path \in Paths
        /\ \E p \in ToSet(packages) : ~Waiting(p, path)' /\ Linked(p, path)'
    /\ \A p \in ToSet(packages) : \A path \in Paths :
        KindAt(p, path) # "none" /\ Waiting(p, path) /\ ~Waiting(p, path)' =>
            path \in DOMAIN merged' /\ Linked(p, path)'

LEMMA LinksMergedTrue ==
  ASSUME MergedTrue(packages), Links
  PROVE  MergedTrue(packages)'
<1>1. /\ packages' = packages /\ Paths' = Paths
      /\ \A p, path : KindAt(p, path)' = KindAt(p, path)
      /\ \A kind : IsDir(kind)' = IsDir(kind)
  BY ContentsStay DEF Links
<1>2. \A t \in ToSet(Trees) : <<t>> \in DOMAIN merged' /\ merged'[<<t>>] = Directory
  BY DEF MergedTrue, Links
<1>3. DOMAIN merged' \subseteq Paths
  BY DEF MergedTrue, Links
<1>4. ASSUME NEW p, NEW path \in DOMAIN merged, Linked(p, path) PROVE Linked(p, path)'
  <2>1. merged'[path] = merged[path]
    BY DEF Links
  <2> QED
    BY <1>1, <1>4, <2>1 DEF Linked
<1>5. ASSUME NEW path \in DOMAIN merged', Len(path) > 1
      PROVE  \E p \in ToSet(packages) : ~Waiting(p, path)' /\ Linked(p, path)'
  <2>1. CASE path \in DOMAIN merged
    <3>1. PICK p \in ToSet(packages) : ~Waiting(p, path) /\ Linked(p, path)
      BY <1>5, <2>1 DEF MergedTrue
    <3>2. path \in Paths
      BY <1>3
    <3>3. ~Waiting(p, path)'
      BY <3>1, <3>2 DEF Links
    <3>4. Linked(p, path)'
      BY <1>4, <2>1, <3>1
    <3> QED
      BY <3>3, <3>4
  <2>2. CASE path \notin DOMAIN merged
    BY <2>2 DEF Links
  <2> QED
    BY <2>1, <2>2
<1>6. ASSUME NEW p \in ToSet(packages), NEW path \in Paths, KindAt(p, path) # "none",
             ~Waiting(p, path)'
      PROVE  path \in DOMAIN merged' /\ Linked(p, path)'
  <2>1. CASE Waiting(p, path)
    BY <1>6, <2>1 DEF Links
  <2>2. CASE ~Waiting(p, path)
    <3>1. path \in DOMAIN merged /\ Linked(p, path)
      BY <1>6, <2>2 DEF MergedTrue
    <3>2. path \in DOMAIN merged'
      BY <3>1 DEF Links
    <3> QED
      BY <1>4, <3>1, <3>2
  <2> QED
    BY <2>1, <2>2
<1> QED
  BY <1>1, <1>2, <1>3, <1>5, <1>6 DEF MergedTrue

(***************************************************************************)
(* The frames once the running activation has dealt with a name.           *)
(***************************************************************************)
LEMMA PastFrames ==
  ASSUME frames \in Seq(Activations), frames # <<>>, NEW name
  PROVE  /\ Past(name) \in Seq(Activations) /\ Len(Past(name)) = Len(frames)
         /\ \A n \in 1..Len(frames) :
              /\ Past(name)[n].src = frames[n].src /\ Past(name)[n].len = frames[n].len
              /\ Past(name)[n].dst = frames[n].dst
              /\ Past(name)[n].unread = IF n = Len(frames) THEN frames[n].unread \ {name}
                                        ELSE frames[n].unread
<1> DEFINE L == Len(frames)
           f == frames[L]
           g == [src |-> f.src, len |-> f.len, dst |-> f.dst, unread |-> f.unread \ {name}]
<1>1. L \in Nat \ {0} /\ DOMAIN frames = 1..L /\ L \in 1..L
  BY LenProperties, EmptySeq
<1>2. f \in Activations
  BY <1>1, ElementOfSeq
<1>3. Past(name) = [frames EXCEPT ![L] = g]
  BY DEF Past, Running, Last
<1>4. g \in Activations
  BY <1>2 DEF Activations
<1> HIDE DEF g
<1>5. /\ Past(name) \in Seq(Activations) /\ Len(Past(name)) = L
      /\ \A n \in 1..L : Past(name)[n] = IF n = L THEN g ELSE frames[n]
  BY <1>1, <1>3, <1>4, ExceptSeq
<1>6. g.src = f.src /\ g.len = f.len /\ g.dst = f.dst /\ g.unread = f.unread \ {name}
  BY DEF g
<1> QED
  BY <1>1, <1>5, <1>6

(***************************************************************************)
(* The path buffer.                                                        *)
(***************************************************************************)
SrcParts == HostPackages \cup ToSet(Trees) \cup EntryNames

LEMMA SrcPath ==
  ASSUME Packaged, FramesTrue(packages), frames # <<>>
  PROVE  /\ src_path \in Seq(SrcParts) /\ Len(src_path) >= Len(frames) + 1
         /\ src_path[1] \in HostPackages
         /\ \A i \in 2..Len(src_path) : src_path[i] \in ToSet(Trees) \cup EntryNames
<1> DEFINE p == src_path[1]
           rest == Tail(src_path)
           front == <<p>>
<1>1. \A n \in DOMAIN packages : packages[n] \in HostPackages
  BY LenProperties, ElementOfSeq DEF Packaged
<1>2. /\ p \in HostPackages /\ src_path = front \o rest
      /\ rest \in Seq(ToSet(Trees) \cup EntryNames)
      /\ Len(src_path) > Len(frames) /\ frames \in Seq(Activations)
  BY <1>1 DEF FramesTrue, ToSet
<1> HIDE DEF rest, p
<1>3. rest \in Seq(SrcParts) /\ Len(rest) \in Nat
      /\ \A i \in 1..Len(rest) : rest[i] \in ToSet(Trees) \cup EntryNames
  BY <1>2, SeqMonotonic, LenProperties, ElementOfSeq DEF SrcParts
<1>4. front \in Seq(SrcParts) /\ Len(front) = 1 /\ front[1] = p
  BY <1>2 DEF SrcParts
<1> HIDE DEF front
<1>5. /\ src_path \in Seq(SrcParts) /\ Len(src_path) = Len(front) + Len(rest)
      /\ \A i \in 1..(Len(front) + Len(rest)) :
           src_path[i] = IF i <= Len(front) THEN front[i] ELSE rest[i - Len(front)]
  BY <1>2, <1>3, <1>4, ConcatProperties
<1>6. ASSUME NEW i \in 2..Len(src_path) PROVE src_path[i] \in ToSet(Trees) \cup EntryNames
  <2>1. i \in 1..(Len(front) + Len(rest)) /\ ~(i <= Len(front)) /\ i - 1 \in 1..Len(rest)
    BY <1>3, <1>4, <1>5
  <2>2. src_path[i] = rest[i - 1]
    BY <1>4, <1>5, <2>1
  <2> QED
    BY <1>3, <2>1, <2>2
<1>7. Len(src_path) >= Len(frames) + 1
  BY <1>2, <1>5, LenProperties
<1> QED
  BY <1>2, <1>5, <1>6, <1>7 DEF p

\* A path buffer of which this can be said is as the invariant has it.
LEMMA SrcPathIs ==
  ASSUME NEW path \in Seq(SrcParts), Len(path) >= 1, path[1] \in HostPackages,
         \A i \in 2..Len(path) : path[i] \in ToSet(Trees) \cup EntryNames
  PROVE  path = <<path[1]>> \o Tail(path) /\ Tail(path) \in Seq(ToSet(Trees) \cup EntryNames)
<1> DEFINE rest == Tail(path)
           front == <<path[1]>>
<1>1. path # <<>> /\ Len(path) \in Nat
  BY EmptySeq, LenProperties
<1>2. /\ rest \in Seq(SrcParts) /\ Len(rest) = Len(path) - 1
      /\ \A i \in 1..Len(rest) : rest[i] = path[i + 1]
  BY <1>1, HeadTailProperties
<1>3. front \in Seq(SrcParts) /\ Len(front) = 1 /\ front[1] = path[1]
  BY DEF SrcParts
<1> HIDE DEF rest, front
<1>4. \A i \in 1..Len(rest) : rest[i] \in ToSet(Trees) \cup EntryNames
  BY <1>1, <1>2
<1>5. rest \in Seq(ToSet(Trees) \cup EntryNames)
  <2>1. rest = [i \in 1..Len(rest) |-> rest[i]] /\ Len(rest) \in Nat
    BY <1>2, LenProperties
  <2>2. rest \in [1..Len(rest) -> ToSet(Trees) \cup EntryNames]
    BY <1>4, <2>1
  <2> QED
    BY <2>1, <2>2, SeqDef
<1>6. /\ front \o rest \in Seq(SrcParts) /\ Len(front \o rest) = Len(front) + Len(rest)
      /\ \A i \in 1..(Len(front) + Len(rest)) :
           (front \o rest)[i] = IF i <= Len(front) THEN front[i] ELSE rest[i - Len(front)]
  <2>1. front \in Seq(SrcParts) /\ rest \in Seq(SrcParts)
    BY <1>2, <1>3
  <2> QED
    BY <2>1, ConcatProperties
<1>7. ASSUME NEW i \in 1..Len(path) PROVE path[i] = (front \o rest)[i]
  <2>1. i \in 1..(Len(front) + Len(rest))
    BY <1>1, <1>2, <1>3
  <2>2. CASE i = 1
    BY <1>3, <1>6, <2>1, <2>2
  <2>3. CASE i # 1
    <3>1. ~(i <= 1) /\ i - 1 \in 1..Len(rest) /\ (i - 1) + 1 = i
      BY <1>1, <1>2, <2>3
    <3> QED
      BY <1>2, <1>3, <1>6, <2>1, <3>1
  <2> QED
    BY <2>2, <2>3
<1>8. path = front \o rest
  BY <1>1, <1>2, <1>3, <1>6, <1>7, SeqEqual
<1> QED
  BY <1>5, <1>8 DEF front, rest

(***************************************************************************)
(* The path buffer once a name has been put behind its first components.   *)
(***************************************************************************)
KeepsPath(n) ==
    /\ src_path' \in Seq(SrcParts) /\ Len(src_path') >= n
    /\ \A i \in 1..n : src_path'[i] = src_path[i]
    /\ \A i \in 2..Len(src_path') : src_path'[i] \in ToSet(Trees) \cup EntryNames

LEMMA ExtendedPath ==
  ASSUME Packaged, FramesTrue(packages), frames # <<>>, NEW name \in Running.unread,
         src_path' = Extended(name)
  PROVE  /\ KeepsPath(Len(frames) + 1) /\ Len(src_path') = Len(frames) + 2
         /\ src_path'[Len(frames) + 2] = name
         /\ Extended(name) = <<src_path[1]>> \o Target(name)
<1> DEFINE L == Len(frames)
           cut == SubSeq(src_path, 1, L + 1)
<1>1. /\ src_path \in Seq(SrcParts) /\ Len(src_path) >= L + 1 /\ src_path[1] \in HostPackages
      /\ \A i \in 2..Len(src_path) : src_path[i] \in ToSet(Trees) \cup EntryNames
  BY SrcPath
<1>2. L \in 1..(PathMax - 1) /\ Running.len = L + 1 /\ name \in EntryNames
  BY TheEntry
<1>3. /\ Target(name) \in Paths /\ Len(Target(name)) = L + 1
      /\ \A i \in 1..L : Target(name)[i] = src_path[i + 1]
      /\ Target(name)[L + 1] = name
  BY TheTarget
<1>4. Extended(name) = Append(cut, name)
  BY <1>2 DEF Extended
<1> HIDE DEF L
<1>5. L + 1 \in 0..Len(src_path) /\ L \in Nat
  BY <1>1, <1>2, LenProperties, PathMaxAssumption
<1>6. cut \in Seq(SrcParts) /\ Len(cut) = L + 1 /\ \A i \in 1..(L + 1) : cut[i] = src_path[i]
  BY <1>1, <1>5, PrefixOf
<1> HIDE DEF cut
<1>7. name \in SrcParts
  BY <1>2 DEF SrcParts
<1>8. /\ src_path' \in Seq(SrcParts) /\ Len(src_path') = (L + 1) + 1
      /\ \A i \in 1..(L + 1) : src_path'[i] = cut[i]
      /\ src_path'[(L + 1) + 1] = name
  BY <1>4, <1>6, <1>7, AppendProperties
<1>9. Len(src_path') = L + 2 /\ src_path'[L + 2] = name
      /\ \A i \in 1..(L + 1) : src_path'[i] = src_path[i]
  <2>1. (L + 1) + 1 = L + 2
    BY <1>5
  <2> QED
    BY <1>6, <1>8, <2>1
<1>10. ASSUME NEW i \in 2..Len(src_path') PROVE src_path'[i] \in ToSet(Trees) \cup EntryNames
  <2>1. i = L + 2 \/ (i \in 1..(L + 1) /\ i \in 2..Len(src_path))
    BY <1>1, <1>5, <1>9
  <2> QED
    BY <1>1, <1>2, <1>9, <2>1
<1>11. src_path' = <<src_path[1]>> \o Target(name)
  <2> DEFINE front == <<src_path[1]>>
             t == Target(name)
  <2>1. front \in Seq(SrcParts) /\ Len(front) = 1 /\ front[1] = src_path[1]
    BY <1>1 DEF SrcParts
  <2>2. t \in Seq(SrcParts) /\ Len(t) = L + 1
    <3>1. t \in Seq(Names) /\ Names \subseteq SrcParts
      BY <1>3, PathShape DEF Names, SrcParts
    <3> QED
      BY <1>3, <3>1, SeqMonotonic
  <2>3. (\A i \in 1..L : t[i] = src_path[i + 1]) /\ t[L + 1] = name
    BY <1>3
  <2> HIDE DEF front, t
  <2>4. /\ front \o t \in Seq(SrcParts) /\ Len(front \o t) = Len(front) + Len(t)
        /\ \A i \in 1..(Len(front) + Len(t)) :
             (front \o t)[i] = IF i <= Len(front) THEN front[i] ELSE t[i - Len(front)]
    BY <2>1, <2>2, ConcatProperties
  <2>5. ASSUME NEW i \in 1..(L + 2) PROVE src_path'[i] = (front \o t)[i]
    <3>0. i \in 1..(Len(front) + Len(t))
      BY <1>5, <2>1, <2>2
    <3>1. CASE i = 1
      <4>1. 1 \in 1..(L + 1) /\ 1 <= Len(front)
        BY <1>5, <2>1
      <4> QED
        BY <1>9, <2>1, <2>4, <3>0, <3>1, <4>1
    <3>2. CASE i = L + 2
      <4>1. ~(i <= Len(front)) /\ i - Len(front) = L + 1
        BY <1>5, <2>1, <3>2
      <4> QED
        BY <1>9, <2>3, <2>4, <3>0, <3>2, <4>1
    <3>3. CASE i # 1 /\ i # L + 2
      <4>1. /\ ~(i <= Len(front)) /\ i - Len(front) = i - 1
            /\ i - 1 \in 1..L /\ (i - 1) + 1 = i /\ i \in 1..(L + 1)
        BY <1>5, <2>1, <3>3
      <4>2. t[i - 1] = src_path[i]
        BY <2>3, <4>1
      <4> QED
        BY <1>9, <2>4, <3>0, <4>1, <4>2
    <3> QED
      BY <3>1, <3>2, <3>3
  <2>6. Len(front \o t) = L + 2
    BY <1>5, <2>1, <2>2, <2>4
  <2> QED
    BY <1>8, <1>9, <2>4, <2>5, <2>6, SeqEqual DEF front, t
<1>12. KeepsPath(L + 1)
  <2>1. Len(src_path') >= L + 1
    BY <1>5, <1>9
  <2> QED
    BY <1>8, <1>9, <1>10, <2>1 DEF KeepsPath
<1> QED
  BY <1>9, <1>11, <1>12 DEF L

(***************************************************************************)
(* The running activation has dealt with an entry, and has called          *)
(* link_tree for it if it is a directory to descend to.                    *)
(***************************************************************************)
HandledWithout(name) == frames' = Past(name)

DescendedTo(name) ==
    /\ frames' = Append(Past(name), Activation(Kind(name), Len(frames) + 2, Target(name)))
    /\ IsDir(Kind(name)) /\ name \notin Hidden
    /\ Len(frames) + 1 < PathMax
    /\ Len(src_path') > Len(frames) + 1 /\ src_path'[Len(frames) + 2] = name

Handled(name) ==
    /\ HandledWithout(name) \/ DescendedTo(name)
    /\ KeepsPath(Len(frames) + 1)
    /\ todo' = todo

LEMMA HandledFrames ==
  ASSUME Packaged, FramesTrue(packages), frames # <<>>, NEW name \in Running.unread, Handled(name)
  PROVE  /\ frames' \in Seq(Activations)
         /\ \A n \in 1..Len(frames) :
              /\ frames'[n].src = frames[n].src /\ frames'[n].len = frames[n].len
              /\ frames'[n].dst = frames[n].dst
              /\ frames'[n].unread = IF n = Len(frames) THEN frames[n].unread \ {name}
                                     ELSE frames[n].unread
         /\ \/ Len(frames') = Len(frames)
            \/ /\ DescendedTo(name) /\ Len(frames') = Len(frames) + 1
               /\ frames'[Len(frames) + 1] = Activation(Kind(name), Len(frames) + 2, Target(name))
         /\ DescendedTo(name) => Len(frames') = Len(frames) + 1
<1>1. /\ Past(name) \in Seq(Activations) /\ Len(Past(name)) = Len(frames)
      /\ \A n \in 1..Len(frames) :
           /\ Past(name)[n].src = frames[n].src /\ Past(name)[n].len = frames[n].len
           /\ Past(name)[n].dst = frames[n].dst
           /\ Past(name)[n].unread = IF n = Len(frames) THEN frames[n].unread \ {name}
                                     ELSE frames[n].unread
  BY PastFrames DEF FramesTrue
<1>2. ASSUME DescendedTo(name)
      PROVE  /\ frames' \in Seq(Activations) /\ Len(frames') = Len(frames) + 1
             /\ \A n \in 1..Len(frames) : frames'[n] = Past(name)[n]
             /\ frames'[Len(frames) + 1] = Activation(Kind(name), Len(frames) + 2, Target(name))
  <2> DEFINE act == Activation(Kind(name), Len(frames) + 2, Target(name))
  <2>1. act \in Activations
    <3>1. Kind(name) \in DOMAIN entries
      BY <1>2 DEF DescendedTo, IsDir
    <3>2. Len(frames) + 2 \in Nat /\ Target(name) \in Paths
      BY TheEntry, TheTarget, PathMaxAssumption
    <3>3. DOMAIN entries[Kind(name)] \in SUBSET EntryNames
      BY <3>1 DEF EntryNames
    <3> QED
      BY <3>1, <3>2, <3>3 DEF Activation, Activations
  <2> HIDE DEF act
  <2>2. frames' = Append(Past(name), act)
    BY <1>2 DEF DescendedTo, act
  <2>3. /\ frames' \in Seq(Activations) /\ Len(frames') = Len(frames) + 1
        /\ \A n \in 1..Len(frames) : frames'[n] = Past(name)[n]
        /\ frames'[Len(frames) + 1] = act
    BY <1>1, <2>1, <2>2, AppendProperties
  <2> QED
    BY <2>3 DEF act
<1>3. CASE HandledWithout(name)
  BY <1>1, <1>2, <1>3 DEF HandledWithout
<1>4. CASE DescendedTo(name)
  BY <1>1, <1>2, <1>4
<1> QED
  BY <1>3, <1>4 DEF Handled

LEMMA HandledFramesTrue ==
  ASSUME Packaged, Stays, FramesTrue(packages), frames # <<>>, NEW name \in Running.unread,
         Handled(name)
  PROVE  FramesTrue(packages)'
<1> DEFINE L == Len(frames)
<1>1. /\ packages' = packages /\ Paths' = Paths /\ EntryNames' = EntryNames
      /\ Activations' = Activations /\ todo' = todo
      /\ roots' = roots /\ entries' = entries
  BY ContentsStay DEF Stays, contents, Handled
<1>2. /\ L \in 1..(PathMax - 1) /\ L \in Nat /\ L >= 1 /\ L < PathMax /\ PathMax \in Nat
      /\ DOMAIN frames = 1..L
  BY TheEntry, LenProperties, PathMaxAssumption DEF FramesTrue
<1>3. /\ frames' \in Seq(Activations)
      /\ \A n \in 1..L :
           /\ frames'[n].src = frames[n].src /\ frames'[n].len = frames[n].len
           /\ frames'[n].dst = frames[n].dst
           /\ frames'[n].unread = IF n = L THEN frames[n].unread \ {name} ELSE frames[n].unread
      /\ \/ Len(frames') = L
         \/ /\ DescendedTo(name) /\ Len(frames') = L + 1
            /\ frames'[L + 1] = Activation(Kind(name), L + 2, Target(name))
  BY HandledFrames
<1>4. /\ src_path' \in Seq(SrcParts) /\ Len(src_path') >= L + 1
      /\ \A i \in 1..(L + 1) : src_path'[i] = src_path[i]
      /\ \A i \in 2..Len(src_path') : src_path'[i] \in ToSet(Trees) \cup EntryNames
  BY DEF Handled, KeepsPath
<1>5. src_path'[1] = src_path[1] /\ src_path'[2] = src_path[2]
  <2>1. 1 \in 1..(L + 1) /\ 2 \in 1..(L + 1)
    BY <1>2
  <2> QED
    BY <1>4, <2>1
<1>6. src_path = <<src_path[1]>> \o Tail(src_path) => src_path[1] \in HostPackages
  BY SrcPath
<1>7. /\ src_path' = <<src_path'[1]>> \o Tail(src_path')
      /\ Tail(src_path') \in Seq(ToSet(Trees) \cup EntryNames)
  <2> DEFINE sp == src_path'
  <2>1. sp \in Seq(SrcParts) /\ Len(sp) >= 1 /\ sp[1] \in HostPackages
        /\ \A i \in 2..Len(sp) : sp[i] \in ToSet(Trees) \cup EntryNames
    BY <1>2, <1>4, <1>5, SrcPath, LenProperties
  <2> HIDE DEF sp
  <2>2. sp = <<sp[1]>> \o Tail(sp) /\ Tail(sp) \in Seq(ToSet(Trees) \cup EntryNames)
    BY <2>1, SrcPathIs
  <2> QED
    BY <2>2 DEF sp
<1>8. /\ src_path'[1] \in ToSet(packages) /\ <<src_path'[1], src_path'[2]>> \notin ToSet(todo)
  BY <1>5 DEF FramesTrue
<1>9. Len(src_path') > Len(frames') /\ Len(frames') < PathMax
  <2>1. CASE Len(frames') = L
    BY <1>2, <1>4, <2>1, LenProperties
  <2>2. CASE DescendedTo(name) /\ Len(frames') = L + 1
    BY <1>2, <2>2 DEF DescendedTo
  <2> QED
    BY <1>3, <2>1, <2>2
<1>10. ASSUME NEW n \in 1..L
       PROVE  /\ Len(frames'[n].dst) = n /\ frames'[n].len = n + 1
              /\ \A i \in 1..n : frames'[n].dst[i] = src_path'[i + 1]
              /\ frames'[n].src = KindAt(src_path[1], frames'[n].dst)
              /\ frames'[n].unread \subseteq DOMAIN entries[frames'[n].src]
              /\ n < Len(frames') => src_path'[n + 2] \notin frames'[n].unread
  <2>1. /\ Len(frames[n].dst) = n /\ frames[n].len = n + 1
        /\ \A i \in 1..n : frames[n].dst[i] = src_path[i + 1]
        /\ frames[n].src = KindAt(src_path[1], frames[n].dst)
        /\ frames[n].unread \subseteq DOMAIN entries[frames[n].src]
        /\ n < L => src_path[n + 2] \notin frames[n].unread
    BY <1>2 DEF FramesTrue
  <2>2. /\ frames'[n].src = frames[n].src /\ frames'[n].len = frames[n].len
        /\ frames'[n].dst = frames[n].dst
        /\ frames'[n].unread = IF n = L THEN frames[n].unread \ {name} ELSE frames[n].unread
    BY <1>3
  <2>3. \A i \in 1..n : i + 1 \in 1..(L + 1)
    BY <1>2
  <2>4. \A i \in 1..n : frames'[n].dst[i] = src_path'[i + 1]
    BY <1>4, <2>1, <2>2, <2>3
  <2>5. n < Len(frames') => src_path'[n + 2] \notin frames'[n].unread
    <3>1. CASE n = L
      <4>1. n < Len(frames') => DescendedTo(name)
        BY <1>2, <1>3, <3>1
      <4> QED
        BY <2>2, <3>1, <4>1 DEF DescendedTo
    <3>2. CASE n # L
      <4>1. n < L /\ n + 2 \in 1..(L + 1)
        <5>1. L \in Nat /\ n \in 1..L /\ n # L
          BY <1>2, <3>2
        <5> HIDE DEF L
        <5> QED
          BY <5>1
      <4> QED
        BY <1>4, <2>1, <2>2, <3>2, <4>1
    <3> QED
      BY <3>1, <3>2
  <2> QED
    BY <2>1, <2>2, <2>4, <2>5
<1>11. ASSUME Len(frames') = L + 1
       PROVE  LET f == frames'[L + 1] IN
              /\ Len(f.dst) = L + 1 /\ f.len = L + 2
              /\ \A i \in 1..(L + 1) : f.dst[i] = src_path'[i + 1]
              /\ f.src = KindAt(src_path[1], f.dst)
              /\ f.unread \subseteq DOMAIN entries[f.src]
  <2>0. L + 1 # L
    <3>1. L \in Nat
      BY <1>2
    <3> HIDE DEF L
    <3> QED
      BY <3>1
  <2>1. DescendedTo(name) /\ frames'[L + 1] = Activation(Kind(name), L + 2, Target(name))
    BY <1>3, <1>11, <2>0
  <2>2. /\ Len(Target(name)) = L + 1
        /\ \A i \in 1..L : Target(name)[i] = src_path[i + 1]
        /\ Target(name)[L + 1] = name
        /\ KindAt(src_path[1], Target(name)) = Kind(name)
    BY <2>1, TheTarget DEF DescendedTo
  <2>3. src_path'[L + 2] = name
    BY <2>1 DEF DescendedTo
  <2>4. ASSUME NEW i \in 1..(L + 1) PROVE Target(name)[i] = src_path'[i + 1]
    <3>1. CASE i = L + 1
      <4>1. i + 1 = L + 2
        BY <1>2, <3>1
      <4> QED
        BY <2>2, <2>3, <3>1, <4>1
    <3>2. CASE i # L + 1
      <4>1. i \in 1..L /\ i + 1 \in 1..(L + 1)
        BY <1>2, <3>2
      <4> QED
        BY <1>4, <2>2, <4>1
    <3> QED
      BY <3>1, <3>2
  <2> QED
    BY <2>1, <2>2, <2>4 DEF Activation
<1>12. \A p, path : KindAt(p, path)' = KindAt(p, path)
  BY ContentsStay
<1>13. DOMAIN frames' = 1..Len(frames') /\ \A n \in 1..Len(frames') : n \in 1..L \/ (n = L + 1 /\ Len(frames') = L + 1)
  <2>1. DOMAIN frames' = 1..Len(frames') /\ L \in Nat
    BY <1>2, <1>3, LenProperties
  <2>2. Len(frames') = L \/ Len(frames') = L + 1
    BY <1>3
  <2>3. ASSUME NEW k \in {L, L + 1}, NEW n \in 1..k PROVE n \in 1..L \/ (n = L + 1 /\ k = L + 1)
    <3> HIDE DEF L
    <3> QED
      BY <2>1
  <2> QED
    BY <2>1, <2>2, <2>3
<1>14. ASSUME NEW n \in DOMAIN frames'
       PROVE  /\ Len(frames'[n].dst) = n /\ frames'[n].len = n + 1
              /\ \A i \in 1..n : frames'[n].dst[i] = src_path'[i + 1]
              /\ frames'[n].src = KindAt(src_path[1], frames'[n].dst)
              /\ frames'[n].unread \subseteq DOMAIN entries[frames'[n].src]
              /\ n < Len(frames') => src_path'[n + 2] \notin frames'[n].unread
  <2>1. CASE n \in 1..L
    BY <1>10, <2>1
  <2>2. CASE n = L + 1 /\ Len(frames') = L + 1
    <3>1. n + 1 = L + 2 /\ ~(n < Len(frames'))
      BY <1>2, <2>2
    <3> QED
      BY <1>11, <2>2, <3>1
  <2> QED
    BY <1>13, <2>1, <2>2
<1> QED
  BY <1>1, <1>3, <1>5, <1>7, <1>8, <1>9, <1>12, <1>14 DEF FramesTrue

(***************************************************************************)
(* What stops waiting when an entry has been dealt with is the entry, and  *)
(* what is below it unless link_tree has been called for it.               *)
(***************************************************************************)
LEMMA HandledWaiting ==
  ASSUME Packaged, FramesTrue(packages), frames # <<>>, NEW name \in Running.unread,
         Handled(name), NEW p, NEW path \in Paths
  PROVE  /\ Waiting(p, path)' => Waiting(p, path)
         /\ Waiting(p, path) /\ ~Waiting(p, path)' =>
              /\ p = src_path[1] /\ Below(name, path)
              /\ DescendedTo(name) /\ Len(path) > Len(frames) + 1 =>
                    path[Len(frames) + 2] \notin DOMAIN entries[Kind(name)]
<1> DEFINE L == Len(frames)
           At(n) == /\ n < Len(path) /\ path[n + 1] \in frames[n].unread
                    /\ \A i \in 1..n : path[i] = src_path[i + 1]
           Next(n) == /\ n < Len(path) /\ path[n + 1] \in frames'[n].unread
                      /\ \A i \in 1..n : path[i] = src_path'[i + 1]
<1>1. /\ L \in Nat \ {0} /\ DOMAIN frames = 1..L /\ Running = frames[L]
  BY TheEntry, LenProperties, EmptySeq DEF FramesTrue
<1>2. /\ frames' \in Seq(Activations)
      /\ \A n \in 1..L : frames'[n].unread = IF n = L THEN frames[n].unread \ {name}
                                             ELSE frames[n].unread
      /\ \/ Len(frames') = L
         \/ /\ DescendedTo(name) /\ Len(frames') = L + 1
            /\ frames'[L + 1] = Activation(Kind(name), L + 2, Target(name))
      /\ DescendedTo(name) => Len(frames') = L + 1
  BY HandledFrames
<1>3. todo' = todo /\ \A i \in 1..(L + 1) : src_path'[i] = src_path[i]
  BY DEF Handled, KeepsPath
<1>4. Len(path) \in Nat
  BY PathShape
<1>5. Waiting(p, path) <=> \/ <<p, path[1]>> \in ToSet(todo)
                           \/ p = src_path[1] /\ \E n \in 1..L : At(n)
  BY <1>1 DEF Waiting
<1>6. DOMAIN frames' = 1..Len(frames') /\ frames' # <<>> /\ src_path'[1] = src_path[1]
  <2>1. DOMAIN frames' = 1..Len(frames') /\ Len(frames') # 0
    <3>1. L \in Nat \ {0} /\ (Len(frames') = L \/ Len(frames') = L + 1)
      BY <1>1, <1>2
    <3> HIDE DEF L
    <3>2. Len(frames') # 0
      BY <3>1
    <3> QED
      BY <1>2, <3>2, LenProperties
  <2>2. 1 \in 1..(L + 1)
    <3> HIDE DEF L
    <3> QED
      BY <1>1
  <2> QED
    BY <1>3, <2>1, <2>2, EmptySeq
<1>7. Waiting(p, path)' <=> \/ <<p, path[1]>> \in ToSet(todo')
                            \/ p = src_path[1] /\ \E n \in 1..Len(frames') : Next(n)
  BY <1>6 DEF Waiting
<1>8. L + 2 = (L + 1) + 1 /\ L # L + 1 /\ L \in 1..L
      /\ \A n \in 1..L : n \in 1..(L + 1) /\ n + 1 \in 1..(L + 1) /\ \A i \in 1..n : i + 1 \in 1..(L + 1)
  <2> HIDE DEF L
  <2> QED
    BY <1>1
<1>9. \A n \in 1..L : n \in 1..Len(frames')
  BY <1>2, <1>8
<1>10. ASSUME NEW n \in 1..L
       PROVE  /\ Next(n) => At(n)
              /\ At(n) /\ ~Next(n) => n = L /\ Below(name, path)
  <2>1. \A i \in 1..n : src_path'[i + 1] = src_path[i + 1]
    BY <1>3, <1>8
  <2>2. frames'[n].unread = IF n = L THEN frames[n].unread \ {name} ELSE frames[n].unread
    BY <1>2
  <2> QED
    BY <2>1, <2>2 DEF Below
<1>11. ASSUME Len(frames') = L + 1
       PROVE  /\ Next(L + 1) => At(L)
              /\ Below(name, path) /\ Len(path) > L + 1 /\ path[L + 2] \in DOMAIN entries[Kind(name)]
                   => Next(L + 1)
  <2>1. /\ frames'[L + 1].unread = DOMAIN entries[Kind(name)]
        /\ src_path'[L + 2] = name /\ name \in frames[L].unread
    <3>1. DescendedTo(name) /\ frames'[L + 1] = Activation(Kind(name), L + 2, Target(name))
      BY <1>2, <1>8, <1>11
    <3>2. frames'[L + 1].unread = DOMAIN entries[Kind(name)]
      BY <3>1 DEF Activation
    <3> QED
      BY <1>1, <3>1, <3>2 DEF DescendedTo
  <2>2. \A i \in 1..L : i + 1 \in 1..(L + 1) /\ i \in 1..(L + 1)
    BY <1>8
  <2>3. ASSUME Next(L + 1) PROVE At(L)
    <3>1. L + 1 \in 1..(L + 1) /\ (L + 1 < Len(path) => L < Len(path))
      <4> HIDE DEF L
      <4> QED
        BY <1>1, <1>4
    <3>2. path[L + 1] = src_path'[L + 2]
      BY <1>8, <2>3, <3>1
    <3> QED
      BY <1>3, <2>1, <2>2, <2>3, <3>1, <3>2
  <2>4. ASSUME Below(name, path), Len(path) > L + 1, path[L + 2] \in DOMAIN entries[Kind(name)]
        PROVE  Next(L + 1)
    <3>1. \A i \in 1..(L + 1) : i \in 1..L \/ i = L + 1
      <4> HIDE DEF L
      <4> QED
        BY <1>1
    <3>2. ASSUME NEW i \in 1..(L + 1) PROVE path[i] = src_path'[i + 1]
      BY <1>3, <1>8, <2>1, <2>2, <2>4, <3>1 DEF Below
    <3>3. L + 1 < Len(path)
      <4> HIDE DEF L
      <4> QED
        BY <1>1, <1>4, <2>4
    <3> QED
      BY <1>8, <2>1, <2>4, <3>2, <3>3
  <2> QED
    BY <2>3, <2>4
<1> HIDE DEF At, Next
<1>12. ASSUME Waiting(p, path)' PROVE Waiting(p, path)
  <2>1. CASE <<p, path[1]>> \in ToSet(todo')
    BY <1>3, <1>5, <2>1
  <2>2. CASE p = src_path[1] /\ \E n \in 1..Len(frames') : Next(n)
    <3>1. PICK n \in 1..Len(frames') : Next(n)
      BY <2>2
    <3>2. n \in 1..L \/ (n = L + 1 /\ Len(frames') = L + 1)
      <4>1. ASSUME NEW k \in {L, L + 1}, NEW j \in 1..k PROVE j \in 1..L \/ (j = L + 1 /\ k = L + 1)
        <5> HIDE DEF L
        <5> QED
          BY <1>1
      <4> QED
        BY <1>2, <4>1
    <3>3. \E j \in 1..L : At(j)
      BY <1>8, <1>10, <1>11, <3>1, <3>2
    <3> QED
      BY <1>5, <2>2, <3>3
  <2> QED
    BY <1>7, <1>12, <2>1, <2>2
<1>13. ASSUME Waiting(p, path), ~Waiting(p, path)'
       PROVE  /\ p = src_path[1] /\ Below(name, path)
              /\ DescendedTo(name) /\ Len(path) > L + 1 =>
                    path[L + 2] \notin DOMAIN entries[Kind(name)]
  <2>1. p = src_path[1] /\ \E n \in 1..L : At(n)
    BY <1>3, <1>5, <1>7, <1>13
  <2>2. PICK n \in 1..L : At(n)
    BY <2>1
  <2>3. \A j \in 1..Len(frames') : ~Next(j)
    BY <1>7, <1>13, <2>1
  <2>4. Below(name, path)
    BY <1>9, <1>10, <2>2, <2>3
  <2>5. ASSUME DescendedTo(name), Len(path) > L + 1, path[L + 2] \in DOMAIN entries[Kind(name)]
        PROVE  FALSE
    <3>1. Len(frames') = L + 1 /\ L + 1 \in 1..(L + 1)
      <4>1. L + 1 \in 1..(L + 1)
        <5> HIDE DEF L
        <5> QED
          BY <1>1
      <4> QED
        BY <1>2, <2>5, <4>1
    <3> QED
      BY <1>11, <2>3, <2>4, <2>5, <3>1
  <2> QED
    BY <2>1, <2>4, <2>5
<1> QED
  BY <1>12, <1>13

LEMMA EntryNotWaiting ==
  ASSUME Packaged, FramesTrue(packages), frames # <<>>, NEW name \in Running.unread,
         Handled(name), NEW p, p = src_path[1], NEW t, t = Target(name)
  PROVE  ~Waiting(p, t)'
<1> DEFINE L == Len(frames)
<1>1. /\ L \in Nat \ {0} /\ DOMAIN frames = 1..L /\ Running = frames[L]
  BY TheEntry, LenProperties, EmptySeq DEF FramesTrue
<1>2. /\ frames' \in Seq(Activations)
      /\ \A n \in 1..L : frames'[n].unread = IF n = L THEN frames[n].unread \ {name}
                                             ELSE frames[n].unread
      /\ Len(frames') = L \/ Len(frames') = L + 1
  BY HandledFrames
<1>3. DOMAIN frames' = 1..Len(frames')
  BY <1>2, LenProperties
<1>4. /\ t \in Paths /\ Len(t) = L + 1
      /\ \A i \in 1..L : t[i] = src_path[i + 1]
      /\ t[L + 1] = name
  BY TheTarget
<1>5. <<p, t[1]>> \notin ToSet(todo')
  <2>1. 1 \in 1..L
    <3> HIDE DEF L
    <3> QED
      BY <1>1
  <2>2. t[1] = src_path[2]
    BY <1>4, <2>1
  <2> QED
    BY <2>2 DEF Handled, FramesTrue
<1>6. ASSUME NEW n \in DOMAIN frames', n < Len(t)
      PROVE  t[n + 1] \notin frames'[n].unread
  <2>1. n \in 1..L
    <3>1. n \in 1..Len(frames') /\ n < L + 1 /\ (Len(frames') = L \/ Len(frames') = L + 1)
      BY <1>2, <1>3, <1>4, <1>6
    <3> HIDE DEF L
    <3> QED
      BY <1>1, <3>1
  <2>2. CASE n = L
    BY <1>2, <1>4, <2>1, <2>2
  <2>3. CASE n # L
    <3>1. n < L /\ n + 1 \in 1..L /\ (n + 1) + 1 = n + 2
      <4> HIDE DEF L
      <4> QED
        BY <1>1, <2>1, <2>3
    <3>2. src_path[n + 2] \notin frames[n].unread
      BY <1>1, <2>1, <3>1 DEF FramesTrue
    <3> QED
      BY <1>2, <1>4, <2>1, <2>3, <3>1, <3>2
  <2> QED
    BY <2>2, <2>3
<1> QED
  BY <1>5, <1>6 DEF Waiting

(***************************************************************************)
(* An entry is merged: nothing else changes, and it is what it is.         *)
(***************************************************************************)
Merges(name) ==
    /\ name \notin Hidden
    /\ \A path : path \in DOMAIN merged' <=> path \in DOMAIN merged \/ path = Target(name)
    /\ \A path \in DOMAIN merged : merged'[path] = merged[path]
    /\ \/ IsDir(Kind(name)) /\ DescendedTo(name) /\ merged'[Target(name)] = Directory
       \/ /\ ~IsDir(Kind(name)) /\ Kind(name) = "file"
          /\ merged'[Target(name)] = <<src_path[1]>> \o Target(name)

LEMMA EntryLinks ==
  ASSUME Packaged, Stays, FramesTrue(packages), frames # <<>>, NEW name \in Running.unread,
         Handled(name), (name \in Hidden /\ merged' = merged) \/ Merges(name)
  PROVE  Links
<1> DEFINE L == Len(frames)
<1>1. /\ \A p, path : KindAt(p, path)' = KindAt(p, path)
      /\ \A kind : IsDir(kind)' = IsDir(kind)
  BY ContentsStay
<1>2. /\ Target(name) \in Paths
      /\ name \notin Hidden => KindAt(src_path[1], Target(name)) = Kind(name)
      /\ src_path[1] \in ToSet(packages)
  BY TheEntry, TheTarget
<1>3. ASSUME NEW p, p = src_path[1], NEW path, path = Target(name), Merges(name)
      PROVE  path \in DOMAIN merged' /\ Linked(p, path)'
  <2>1. KindAt(p, path) = Kind(name)
    BY <1>2, <1>3 DEF Merges
  <2>2. path \in DOMAIN merged'
    BY <1>3 DEF Merges
  <2>3. \/ IsDir(KindAt(p, path)) /\ merged'[path] = Directory
        \/ KindAt(p, path) = "file" /\ merged'[path] = <<p>> \o path
    BY <1>3, <2>1 DEF Merges
  <2> QED
    BY <1>1, <2>2, <2>3 DEF Linked
<1>4. \A p \in ToSet(packages) : \A path \in Paths : Waiting(p, path)' => Waiting(p, path)
  BY HandledWaiting
<1>5. \A path \in DOMAIN merged : path \in DOMAIN merged' /\ merged'[path] = merged[path]
  BY DEF Merges
<1>6. ASSUME NEW path \in DOMAIN merged', path \notin DOMAIN merged
      PROVE  path \in Paths /\ \E p \in ToSet(packages) : ~Waiting(p, path)' /\ Linked(p, path)'
  <2>1. path = Target(name) /\ Merges(name)
    BY <1>6 DEF Merges
  <2>2. PICK p \in ToSet(packages) : p = src_path[1]
    BY <1>2
  <2>3. ~Waiting(p, path)'
    BY <2>1, <2>2, EntryNotWaiting
  <2>4. Linked(p, path)'
    BY <1>3, <2>1, <2>2
  <2> QED
    BY <1>2, <2>1, <2>3, <2>4
<1>7. ASSUME NEW p \in ToSet(packages), NEW path \in Paths, KindAt(p, path) # "none",
             Waiting(p, path), ~Waiting(p, path)'
      PROVE  path \in DOMAIN merged' /\ Linked(p, path)'
  <2>1. /\ p = src_path[1] /\ Below(name, path)
        /\ DescendedTo(name) /\ Len(path) > L + 1 => path[L + 2] \notin DOMAIN entries[Kind(name)]
    BY <1>7, HandledWaiting
  <2>2. /\ name \notin Hidden
        /\ \/ path = Target(name)
           \/ /\ Len(path) > L + 1 /\ IsDir(Kind(name))
              /\ path[L + 2] \in DOMAIN entries[Kind(name)]
    BY <1>7, <2>1, BelowEntry
  <2>3. Merges(name)
    BY <2>2
  <2>4. path = Target(name)
    BY <2>1, <2>2, <2>3 DEF Merges
  <2> QED
    BY <1>3, <2>1, <2>3, <2>4
<1> QED
  BY <1>4, <1>5, <1>6, <1>7 DEF Links

(***************************************************************************)
(* A step after which link_packages is still at work.                      *)
(***************************************************************************)
LEMMA LinkGoesOn ==
  ASSUME LinkInv(packages), state = "linking", state' = "linking", Links,
         TodoTrue(packages)', FramesTrue(packages)'
  PROVE  LinkInv(packages)'
BY LinksMergedTrue DEF LinkInv

LEMMA TodoStays ==
  ASSUME TodoTrue(packages), Stays, todo' = todo
  PROVE  TodoTrue(packages)'
BY ContentsStay DEF TodoTrue

(***************************************************************************)
(* The steps for an entry that has a place in the merged directories.      *)
(***************************************************************************)
LEMMA SkipHiddenInv ==
  ASSUME Packaged, LinkInv(packages), Stays, frames # <<>>, NEW name \in Running.unread,
         SkipHidden(name)
  PROVE  LinkInv(packages)'
<1>1. /\ state = "linking" /\ state' = "linking" /\ todo' = todo /\ merged' = merged
      /\ name \in Hidden /\ frames' = Past(name) /\ src_path' = src_path
      /\ TodoTrue(packages) /\ FramesTrue(packages)
  BY DEF SkipHidden, Reads, LinkInv
<1>2. KeepsPath(Len(frames) + 1)
  BY <1>1, SrcPath DEF KeepsPath
<1>3. Handled(name)
  BY <1>1, <1>2 DEF Handled, HandledWithout
<1>4. Links
  BY <1>1, <1>3, EntryLinks
<1> QED
  BY <1>1, <1>3, <1>4, LinkGoesOn, TodoStays, HandledFramesTrue

LEMMA DescendInv ==
  ASSUME Packaged, LinkInv(packages), Stays, frames # <<>>, NEW name \in Running.unread,
         Descend(name)
  PROVE  LinkInv(packages)'
<1>1. /\ state = "linking" /\ state' = "linking" /\ todo' = todo
      /\ name \notin Hidden /\ ~TooLong /\ IsDir(Kind(name))
      /\ Target(name) \in DOMAIN merged => merged[Target(name)] = Directory
      /\ merged' = [path \in DOMAIN merged \cup {Target(name)} |->
                     IF path = Target(name) THEN Directory ELSE merged[path]]
      /\ src_path' = Extended(name)
      /\ frames' = Append(Past(name), Activation(Kind(name), Running.len + 1, Target(name)))
      /\ TodoTrue(packages) /\ FramesTrue(packages)
  BY DEF Descend, Usable, Reads, LinkInv
<1>2. /\ KeepsPath(Len(frames) + 1) /\ Len(src_path') = Len(frames) + 2
      /\ src_path'[Len(frames) + 2] = name
  BY <1>1, ExtendedPath
<1>3. /\ Running.len = Len(frames) + 1 /\ Len(frames) \in Nat
      /\ Running.len + 1 = Len(frames) + 2 /\ Len(frames) + 1 < PathMax
      /\ Len(src_path') > Len(frames) + 1
  <2>1. Running.len = Len(frames) + 1 /\ Len(frames) \in 1..(PathMax - 1)
    BY <1>1, TheEntry
  <2> QED
    BY <1>1, <1>2, <2>1, PathMaxAssumption DEF TooLong
<1>4. DescendedTo(name)
  BY <1>1, <1>2, <1>3 DEF DescendedTo
<1>5. Handled(name)
  BY <1>1, <1>2, <1>4 DEF Handled
<1>6. Merges(name)
  BY <1>1, <1>4 DEF Merges
<1>7. Links
  BY <1>1, <1>5, <1>6, EntryLinks
<1> QED
  BY <1>1, <1>5, <1>7, LinkGoesOn, TodoStays, HandledFramesTrue

LEMMA LinkEntryInv ==
  ASSUME Packaged, LinkInv(packages), Stays, frames # <<>>, NEW name \in Running.unread,
         LinkEntry(name)
  PROVE  LinkInv(packages)'
<1>1. /\ state = "linking" /\ state' = "linking" /\ todo' = todo
      /\ name \notin Hidden /\ Kind(name) # "broken" /\ ~IsDir(Kind(name))
      /\ Target(name) \notin DOMAIN merged
      /\ merged' = [path \in DOMAIN merged \cup {Target(name)} |->
                     IF path = Target(name) THEN Extended(name) ELSE merged[path]]
      /\ src_path' = Extended(name)
      /\ frames' = Past(name)
      /\ TodoTrue(packages) /\ FramesTrue(packages)
  BY DEF LinkEntry, Usable, Reads, LinkInv
<1>2. KeepsPath(Len(frames) + 1) /\ Extended(name) = <<src_path[1]>> \o Target(name)
  BY <1>1, ExtendedPath
<1>3. Handled(name)
  BY <1>1, <1>2 DEF Handled, HandledWithout
<1>4. Kind(name) = "file"
  BY <1>1, TheTarget DEF IsDir
<1>5. Merges(name)
  BY <1>1, <1>2, <1>4 DEF Merges
<1>6. Links
  BY <1>1, <1>3, <1>5, EntryLinks
<1> QED
  BY <1>1, <1>3, <1>6, LinkGoesOn, TodoStays, HandledFramesTrue

(***************************************************************************)
(* Linking fails for a cause.                                              *)
(***************************************************************************)
LEMMA CauseStays ==
  ASSUME Stays
  PROVE  CannotMerge(packages)' = CannotMerge(packages)
<1>1. /\ packages' = packages /\ Paths' = Paths
      /\ \A p, path : KindAt(p, path)' = KindAt(p, path)
      /\ \A kind : IsDir(kind)' = IsDir(kind)
  BY ContentsStay
<1> QED
  BY <1>1 DEF CannotMerge, TooLongPath, TooLongLink

LEMMA LinkFailsInv ==
  ASSUME Stays, LinkFails, CannotMerge(packages)
  PROVE  LinkInv(packages)'
<1>1. state' = "failed" /\ frames' = <<>>
  BY DEF LinkFails
<1>2. CannotMerge(packages)'
  BY CauseStays
<1> QED
  BY <1>1, <1>2 DEF LinkInv

LEMMA EntryUnusableInv ==
  ASSUME Packaged, LinkInv(packages), Stays, frames # <<>>, NEW name \in Running.unread,
         EntryUnusable(name)
  PROVE  LinkInv(packages)'
<1>1. /\ name \notin Hidden /\ (Kind(name) = "broken" \/ TooLong) /\ LinkFails
      /\ FramesTrue(packages)
  BY DEF EntryUnusable, Reads, LinkInv
<1>2. /\ Target(name) \in Paths /\ Len(Target(name)) = Len(frames) + 1
      /\ KindAt(src_path[1], Target(name)) = Kind(name) /\ Kind(name) # "none"
      /\ src_path[1] \in ToSet(packages) /\ Running.len = Len(frames) + 1
  BY <1>1, TheEntry, TheTarget
<1>3. TooLong => TooLongPath(Target(name))
  BY <1>2 DEF TooLong, TooLongPath
<1>4. CannotMerge(packages)
  BY <1>1, <1>2, <1>3 DEF CannotMerge
<1> QED
  BY <1>1, <1>4, LinkFailsInv

\* What is there has been linked from another package, in which it is not waiting.
LEMMA ThereFromAnother ==
  ASSUME Packaged, FramesTrue(packages), MergedTrue(packages), frames # <<>>,
         NEW name \in Running.unread, Target(name) \in DOMAIN merged
  PROVE  \E n, m \in DOMAIN packages :
            /\ n # m /\ packages[m] = src_path[1]
            /\ Linked(packages[n], Target(name))
<1>1. /\ Len(Target(name)) = Len(frames) + 1 /\ Waiting(src_path[1], Target(name))
      /\ Len(frames) \in 1..(PathMax - 1) /\ src_path[1] \in ToSet(packages)
  BY TheEntry, TheTarget
<1>2. Len(Target(name)) > 1
  <2> DEFINE L == Len(frames)
  <2>1. L \in 1..(PathMax - 1) /\ Len(Target(name)) = L + 1
    BY <1>1
  <2> HIDE DEF L
  <2> QED
    BY <2>1, PathMaxAssumption
<1>3. PICK p \in ToSet(packages) : ~Waiting(p, Target(name)) /\ Linked(p, Target(name))
  BY <1>2 DEF MergedTrue
<1>4. p # src_path[1]
  BY <1>1, <1>3
<1>5. PICK n \in DOMAIN packages : packages[n] = p
  BY DEF ToSet
<1>6. PICK m \in DOMAIN packages : packages[m] = src_path[1]
  BY <1>1 DEF ToSet
<1> QED
  BY <1>3, <1>4, <1>5, <1>6

LEMMA DescendFailsInv ==
  ASSUME Packaged, LinkInv(packages), Stays, frames # <<>>, NEW name \in Running.unread,
         DescendFails(name)
  PROVE  LinkInv(packages)'
<1>1. /\ name \notin Hidden /\ IsDir(Kind(name)) /\ LinkFails
      /\ Target(name) \in DOMAIN merged /\ merged[Target(name)] # Directory
      /\ FramesTrue(packages) /\ MergedTrue(packages)
  BY DEF DescendFails, Usable, Reads, LinkInv
<1>2. Target(name) \in Paths /\ KindAt(src_path[1], Target(name)) = Kind(name)
  BY <1>1, TheTarget
<1>3. PICK n, m \in DOMAIN packages :
        n # m /\ packages[m] = src_path[1] /\ Linked(packages[n], Target(name))
  BY <1>1, ThereFromAnother
<1>4. KindAt(packages[n], Target(name)) = "file"
  BY <1>1, <1>3 DEF Linked
<1>5. IsDir(KindAt(packages[m], Target(name)))
  BY <1>1, <1>2, <1>3
<1>6. CannotMerge(packages)
  BY <1>2, <1>3, <1>4, <1>5 DEF CannotMerge
<1> QED
  BY <1>1, <1>6, LinkFailsInv

LEMMA LinkEntryFailsInv ==
  ASSUME Packaged, LinkInv(packages), Stays, frames # <<>>, NEW name \in Running.unread,
         LinkEntryFails(name)
  PROVE  LinkInv(packages)'
<1>1. /\ name \notin Hidden /\ Kind(name) # "broken" /\ ~IsDir(Kind(name)) /\ LinkFails
      /\ Target(name) \in DOMAIN merged \/ NoRoomForLink
      /\ FramesTrue(packages) /\ MergedTrue(packages)
  BY DEF LinkEntryFails, Usable, Reads, LinkInv
<1>2. Target(name) \in Paths /\ KindAt(src_path[1], Target(name)) = "file"
  BY <1>1, TheTarget DEF IsDir
<1>3. CASE Target(name) \in DOMAIN merged
  <2>1. PICK n, m \in DOMAIN packages :
          n # m /\ packages[m] = src_path[1] /\ Linked(packages[n], Target(name))
    BY <1>1, <1>3, ThereFromAnother
  <2>2. \/ KindAt(packages[n], Target(name)) = "file"
        \/ IsDir(KindAt(packages[n], Target(name)))
    BY <2>1 DEF Linked
  <2>3. KindAt(packages[m], Target(name)) = "file"
    BY <1>2, <2>1
  <2>4. CannotMerge(packages)
    BY <1>2, <2>1, <2>2, <2>3 DEF CannotMerge
  <2> QED
    BY <1>1, <2>4, LinkFailsInv
<1>4. CASE NoRoomForLink
  <2>1. /\ Len(Target(name)) = Len(frames) + 1 /\ Running.len = Len(frames) + 1
        /\ src_path[1] \in ToSet(packages)
    BY <1>1, TheEntry, TheTarget
  <2>2. TooLongLink(Target(name))
    BY <1>4, <2>1 DEF NoRoomForLink, TooLongLink
  <2>3. CannotMerge(packages)
    BY <1>2, <2>1, <2>2 DEF CannotMerge
  <2> QED
    BY <1>1, <2>3, LinkFailsInv
<1> QED
  BY <1>1, <1>3, <1>4

(***************************************************************************)
(* An activation returns, and its caller goes on.                          *)
(***************************************************************************)
LEMMA ReturnInv ==
  ASSUME Packaged, LinkInv(packages), Stays, Return
  PROVE  LinkInv(packages)'
<1> DEFINE L == Len(frames)
           M == L - 1
<1>1. /\ state = "linking" /\ state' = "linking" /\ frames # <<>> /\ Running.unread = {}
      /\ frames' = Front(frames) /\ src_path' = SubSeq(src_path, 1, Running.len)
      /\ todo' = todo /\ merged' = merged
      /\ TodoTrue(packages) /\ FramesTrue(packages)
  BY DEF Return, LinkInv
<1>2. /\ frames \in Seq(Activations) /\ L \in Nat \ {0} /\ DOMAIN frames = 1..L
      /\ Running = frames[L] /\ L < PathMax
  BY <1>1, LenProperties, EmptySeq DEF FramesTrue, Running, Last
<1>3. M \in 0..L /\ L = M + 1 /\ L \in 1..L /\ \A n \in 1..M : n \in 1..L /\ n # L /\ n < L
  <2> HIDE DEF L
  <2> QED
    BY <1>2
<1>4. frames' \in Seq(Activations) /\ Len(frames') = M /\ \A n \in 1..M : frames'[n] = frames[n]
  <2>1. frames' = SubSeq(frames, 1, M)
    BY <1>1 DEF Front
  <2> HIDE DEF M
  <2> QED
    BY <1>2, <1>3, <2>1, PrefixOf
<1>5. Running.len = L + 1
  BY <1>1, <1>2, <1>3 DEF FramesTrue
<1>6. /\ src_path \in Seq(SrcParts) /\ Len(src_path) >= L + 1 /\ src_path[1] \in HostPackages
      /\ \A i \in 2..Len(src_path) : src_path[i] \in ToSet(Trees) \cup EntryNames
      /\ Len(src_path) \in Nat
  BY <1>1, SrcPath, LenProperties
<1>7. /\ src_path' \in Seq(SrcParts) /\ Len(src_path') = L + 1
      /\ \A i \in 1..(L + 1) : src_path'[i] = src_path[i]
  <2>1. L + 1 \in 0..Len(src_path)
    <3> HIDE DEF L
    <3> QED
      BY <1>2, <1>6
  <2>2. src_path' = SubSeq(src_path, 1, L + 1)
    BY <1>1, <1>5
  <2> HIDE DEF L
  <2> QED
    BY <1>6, <2>1, <2>2, PrefixOf
<1>8. /\ 1 \in 1..(L + 1) /\ 2 \in 1..(L + 1)
      /\ \A n \in 1..M : n + 2 \in 1..(L + 1) /\ \A i \in 1..n : i + 1 \in 1..(L + 1)
      /\ \A i \in 2..(L + 1) : i \in 1..(L + 1) /\ i \in 2..Len(src_path)
      /\ L + 1 >= 1 /\ L + 1 > M /\ M < PathMax
      /\ \A n \in 1..M : n < M => n < L
  <2> HIDE DEF L
  <2> QED
    BY <1>2, <1>6, PathMaxAssumption
<1>9. src_path'[1] = src_path[1] /\ src_path'[2] = src_path[2]
  BY <1>7, <1>8
<1>10. DOMAIN frames' = 1..M
  BY <1>4, LenProperties
<1>11. ASSUME NEW p, NEW path \in Paths
       PROVE  Waiting(p, path)' <=> Waiting(p, path)
  <2> DEFINE At(n) == /\ n < Len(path) /\ path[n + 1] \in frames[n].unread
                      /\ \A i \in 1..n : path[i] = src_path[i + 1]
             Next(n) == /\ n < Len(path) /\ path[n + 1] \in frames'[n].unread
                        /\ \A i \in 1..n : path[i] = src_path'[i + 1]
  <2>1. Waiting(p, path) <=> \/ <<p, path[1]>> \in ToSet(todo)
                             \/ p = src_path[1] /\ \E n \in 1..L : At(n)
    BY <1>1, <1>2 DEF Waiting
  <2>2. \A n \in 1..M : Next(n) <=> At(n)
    BY <1>4, <1>7, <1>8
  <2>3. ~At(L)
    BY <1>1, <1>2
  <2>4. Waiting(p, path)' <=> \/ <<p, path[1]>> \in ToSet(todo)
                              \/ p = src_path[1] /\ \E n \in 1..M : Next(n)
    <3>0. \A k : k = 0 => 1..k = {}
      OBVIOUS
    <3>1. M = 0 => frames' = <<>>
      BY <1>4, EmptySeq
    <3>2. M # 0 => frames' # <<>>
      BY <1>4, EmptySeq
    <3> HIDE DEF M, Next
    <3>3. CASE M = 0
      <4>1. frames' = <<>> /\ ~ \E n \in 1..M : Next(n)
        BY <3>0, <3>1, <3>3
      <4> QED
        BY <1>1, <4>1 DEF Waiting
    <3>4. CASE M # 0
      BY <1>1, <1>9, <1>10, <3>2, <3>4 DEF Waiting, Next
    <3> QED
      BY <3>3, <3>4
  <2>5. \A n \in 1..L : n \in 1..M \/ n = L
    <3> HIDE DEF L
    <3> QED
      BY <1>2
  <2> HIDE DEF At, Next
  <2> QED
    BY <1>3, <2>1, <2>2, <2>3, <2>4, <2>5
<1>12. Links
  BY <1>1, <1>11 DEF Links
<1>13. packages' = packages /\ Paths' = Paths /\ EntryNames' = EntryNames
       /\ Activations' = Activations /\ entries' = entries
       /\ \A p, path : KindAt(p, path)' = KindAt(p, path)
  BY ContentsStay DEF Stays, contents
<1>14. /\ src_path' = <<src_path'[1]>> \o Tail(src_path')
       /\ Tail(src_path') \in Seq(ToSet(Trees) \cup EntryNames)
  <2> DEFINE sp == src_path'
  <2>1. sp \in Seq(SrcParts) /\ Len(sp) >= 1 /\ sp[1] \in HostPackages
        /\ \A i \in 2..Len(sp) : sp[i] \in ToSet(Trees) \cup EntryNames
    BY <1>6, <1>7, <1>8, <1>9
  <2> HIDE DEF sp
  <2>2. sp = <<sp[1]>> \o Tail(sp) /\ Tail(sp) \in Seq(ToSet(Trees) \cup EntryNames)
    BY <2>1, SrcPathIs
  <2> QED
    BY <2>2 DEF sp
<1>15. ASSUME NEW n \in 1..M
       PROVE  /\ Len(frames'[n].dst) = n /\ frames'[n].len = n + 1
              /\ \A i \in 1..n : frames'[n].dst[i] = src_path'[i + 1]
              /\ frames'[n].src = KindAt(src_path[1], frames'[n].dst)
              /\ frames'[n].unread \subseteq DOMAIN entries[frames'[n].src]
              /\ n < M => src_path'[n + 2] \notin frames'[n].unread
  <2>1. /\ Len(frames[n].dst) = n /\ frames[n].len = n + 1
        /\ \A i \in 1..n : frames[n].dst[i] = src_path[i + 1]
        /\ frames[n].src = KindAt(src_path[1], frames[n].dst)
        /\ frames[n].unread \subseteq DOMAIN entries[frames[n].src]
        /\ n < L => src_path[n + 2] \notin frames[n].unread
    BY <1>1, <1>2, <1>3 DEF FramesTrue
  <2>2. frames'[n] = frames[n]
    BY <1>4
  <2> QED
    BY <1>7, <1>8, <2>1, <2>2
<1>16. /\ src_path'[1] \in ToSet(packages) /\ <<src_path'[1], src_path'[2]>> \notin ToSet(todo)
       /\ Len(src_path') > Len(frames') /\ Len(frames') < PathMax
  BY <1>1, <1>4, <1>7, <1>8, <1>9 DEF FramesTrue
<1>17. FramesTrue(packages)'
  <2>1. Len(frames') = M /\ DOMAIN frames' = 1..M /\ frames' \in Seq(Activations)
    BY <1>4, <1>10
  <2>2. src_path'[1] = src_path[1] /\ todo' = todo
    BY <1>1, <1>9
  <2> HIDE DEF M
  <2> QED
    BY <1>13, <1>14, <1>15, <1>16, <2>1, <2>2 DEF FramesTrue
<1> QED
  BY <1>1, <1>12, <1>17, LinkGoesOn, TodoStays

(***************************************************************************)
(* link_packages goes on to the next directory of a package.               *)
(***************************************************************************)
LEMMA RootAbove ==
  ASSUME IsContents(roots, entries), NEW p \in HostPackages, NEW path \in Paths,
         KindAt(p, path) # "none"
  PROVE  LET kind == RootKind(p, path[1]) IN
         /\ kind # "none"
         /\ Len(path) # 1 => IsDir(kind) /\ path[2] \in DOMAIN entries[kind]
<1> DEFINE kind == KindsAlong(p, path)
<1>1. Len(path) \in Nat \ {0} /\ 1 \in 1..Len(path) /\ 1 + 1 = 2
  BY PathShape
<1>2. kind[1] = RootKind(p, path[1])
  BY <1>1, KindsFollow DEF Follows
<1>3. \A i \in 1..Len(path) :
        /\ kind[i] # "none"
        /\ i # Len(path) => IsDir(kind[i]) /\ path[i + 1] \in DOMAIN entries[kind[i]]
  BY <1>1, DirectoriesAbove
<1> HIDE DEF kind
<1> QED
  BY <1>1, <1>2, <1>3

LEMMA NextTodo ==
  ASSUME TodoTrue(packages), todo # <<>>
  PROVE  /\ Head(todo) = <<Head(todo)[1], Head(todo)[2]>>
         /\ Head(todo)[1] \in ToSet(packages) /\ Head(todo)[2] \in ToSet(Trees)
         /\ Tail(todo) \in Seq(ToSet(packages) \X ToSet(Trees)) /\ IsInjective(Tail(todo))
         /\ Head(todo) \notin ToSet(Tail(todo))
         /\ \A pair : pair \in ToSet(todo) <=> pair = Head(todo) \/ pair \in ToSet(Tail(todo))
<1> DEFINE S == ToSet(packages) \X ToSet(Trees)
<1>1. todo \in Seq(S) /\ IsInjective(todo)
  BY DEF TodoTrue
<1>2. Head(todo) \in S
  BY <1>1, HeadTailProperties
<1>3. Head(todo) = <<Head(todo)[1], Head(todo)[2]>> /\ Head(todo)[1] \in ToSet(packages)
      /\ Head(todo)[2] \in ToSet(Trees)
  BY <1>2
<1> HIDE DEF S
<1>4. Tail(todo) \in Seq(S) /\ IsInjective(Tail(todo)) /\ Head(todo) \notin ToSet(Tail(todo))
  BY <1>1, TailInjective, HeadAndTail
<1>5. \A pair : pair \in ToSet(todo) <=> pair = Head(todo) \/ pair \in ToSet(Tail(todo))
  BY <1>1, HeadAndTail
<1> QED
  BY <1>3, <1>4, <1>5 DEF S

LEMMA PackagesAreThere ==
  ASSUME Packaged, NEW p \in ToSet(packages)
  PROVE  p \in HostPackages
BY LenProperties, ElementOfSeq DEF Packaged, ToSet

LEMMA LinkPackageTreeInv ==
  ASSUME Packaged, LinkInv(packages), Stays, link_package_tree
  PROVE  LinkInv(packages)'
<1> DEFINE p == Head(todo)[1]
           tree == Head(todo)[2]
<1>1. /\ state = "linking" /\ frames = <<>> /\ todo # <<>>
      /\ TodoTrue(packages) /\ FramesTrue(packages) /\ MergedTrue(packages)
  BY DEF link_package_tree, LinkInv
<1>2. /\ Head(todo) = <<p, tree>> /\ p \in ToSet(packages) /\ tree \in ToSet(Trees)
      /\ Tail(todo) \in Seq(ToSet(packages) \X ToSet(Trees)) /\ IsInjective(Tail(todo))
      /\ Head(todo) \notin ToSet(Tail(todo))
      /\ \A pair : pair \in ToSet(todo) <=> pair = Head(todo) \/ pair \in ToSet(Tail(todo))
  BY <1>1, NextTodo
<1>3. p \in HostPackages /\ IsContents(roots, entries)
  BY <1>2, PackagesAreThere DEF Packaged
<1>4. <<tree>> \in Paths /\ Len(<<tree>>) = 1 /\ KindAt(p, <<tree>>) = RootKind(p, tree)
  BY <1>2, <1>3, RootPath, KindAtRoot
<1>5. /\ packages' = packages /\ Paths' = Paths /\ EntryNames' = EntryNames
      /\ Activations' = Activations /\ entries' = entries
      /\ \A q, path : KindAt(q, path)' = KindAt(q, path)
      /\ \A kind : IsDir(kind)' = IsDir(kind)
  BY ContentsStay DEF Stays, contents
<1>6. \A q, path : Waiting(q, path) <=> <<q, path[1]>> \in ToSet(todo)
  BY <1>1 DEF Waiting
<1> HIDE DEF p, tree
<1>7. CASE /\ tree \in DOMAIN roots[p] /\ IsDir(roots[p][tree])
           /\ src_path' = <<p, tree>>
           /\ frames' = <<Activation(roots[p][tree], 2, <<tree>>)>>
           /\ todo' = Tail(todo) /\ merged' = merged /\ state' = state
  <2> DEFINE root == roots[p][tree]
             act == Activation(root, 2, <<tree>>)
  <2>1. RootKind(p, tree) = root /\ root \in DOMAIN entries
    BY <1>7 DEF RootKind, IsDir
  <2>2. /\ act \in Activations /\ act.src = root /\ act.len = 2 /\ act.dst = <<tree>>
        /\ act.unread = DOMAIN entries[root]
    <3>1. DOMAIN entries[root] \in SUBSET EntryNames
      BY <2>1 DEF EntryNames
    <3> QED
      BY <1>4, <2>1, <3>1 DEF Activation, Activations
  <2> HIDE DEF act, root
  <2>3. frames' = <<act>> /\ todo' = Tail(todo) /\ src_path' = <<p, tree>>
    BY <1>7 DEF act, root
  <2>4. /\ frames' \in Seq(Activations) /\ Len(frames') = 1 /\ DOMAIN frames' = 1..1
        /\ frames' # <<>> /\ frames'[1] = act
    BY <2>2, <2>3
  <2>5. /\ src_path'[1] = p /\ src_path'[2] = tree /\ Len(src_path') = 2
        /\ src_path' = <<src_path'[1]>> \o Tail(src_path')
        /\ Tail(src_path') \in Seq(ToSet(Trees) \cup EntryNames)
    <3>1. tree \in SrcParts /\ p \in SrcParts
      BY <1>2, <1>3 DEF SrcParts
    <3> DEFINE sp == <<p, tree>>
    <3>2. /\ sp \in Seq(SrcParts) /\ Len(sp) = 2 /\ sp[1] = p /\ sp[2] = tree
      BY <3>1
    <3> HIDE DEF sp
    <3>3. /\ Len(sp) >= 1 /\ sp[1] \in HostPackages
          /\ \A i \in 2..Len(sp) : sp[i] \in ToSet(Trees) \cup EntryNames
      BY <1>2, <1>3, <3>2
    <3>4. sp = <<sp[1]>> \o Tail(sp) /\ Tail(sp) \in Seq(ToSet(Trees) \cup EntryNames)
      BY <3>2, <3>3, SrcPathIs
    <3> QED
      BY <2>3, <3>2, <3>4 DEF sp
  <2>6. FramesTrue(packages)'
    <3>1. <<p, tree>> \notin ToSet(todo')
      BY <1>2, <2>3
    <3>2. 1 < PathMax
      BY PathMaxAssumption
    <3>3. act.src = KindAt(p, act.dst) /\ Len(act.dst) = 1 /\ act.len = 1 + 1
          /\ \A i \in 1..1 : act.dst[i] = src_path'[i + 1]
      BY <1>4, <2>1, <2>2, <2>5
    <3>4. act.unread \subseteq DOMAIN entries[act.src]
      BY <2>2
    <3>5. ASSUME NEW n \in DOMAIN frames'
          PROVE  /\ Len(frames'[n].dst) = n /\ frames'[n].len = n + 1
                 /\ \A i \in 1..n : frames'[n].dst[i] = src_path'[i + 1]
                 /\ frames'[n].src = KindAt(p, frames'[n].dst)
                 /\ frames'[n].unread \subseteq DOMAIN entries[frames'[n].src]
                 /\ ~(n < Len(frames'))
      <4>1. n = 1 /\ frames'[n] = act
        BY <2>4
      <4> QED
        BY <2>4, <3>3, <3>4, <4>1
    <3>6. 2 > 1 /\ Len(src_path') > Len(frames') /\ Len(frames') < PathMax
      BY <2>4, <2>5, <3>2
    <3> QED
      BY <1>2, <1>5, <2>4, <2>5, <3>1, <3>5, <3>6 DEF FramesTrue
  <2>7. TodoTrue(packages)'
    BY <1>2, <1>5, <2>3 DEF TodoTrue
  <2>8. ASSUME NEW q, NEW path
        PROVE  Waiting(q, path)' <=>
                 \/ <<q, path[1]>> \in ToSet(Tail(todo))
                 \/ /\ q = p /\ 1 < Len(path) /\ path[2] \in DOMAIN entries[root]
                    /\ path[1] = tree
    <3>1. \A n \in DOMAIN frames' : n = 1
      BY <2>4
    <3>2. 1 \in DOMAIN frames' /\ 1 + 1 = 2 /\ \A i \in 1..1 : i = 1
      BY <2>4
    <3> QED
      BY <2>2, <2>3, <2>4, <2>5, <3>1, <3>2 DEF Waiting
  <2>9. ASSUME NEW q \in ToSet(packages), NEW path \in Paths, Waiting(q, path)'
        PROVE  Waiting(q, path)
    BY <1>2, <1>6, <2>8, <2>9
  <2>10. ASSUME NEW q \in ToSet(packages), NEW path \in Paths, KindAt(q, path) # "none",
                Waiting(q, path), ~Waiting(q, path)'
         PROVE  path \in DOMAIN merged' /\ Linked(q, path)'
    <3>1. q = p /\ path[1] = tree
      <4>1. <<q, path[1]>> \in ToSet(todo) /\ <<q, path[1]>> \notin ToSet(Tail(todo))
        BY <1>6, <2>8, <2>10
      <4>2. <<q, path[1]>> = <<p, tree>>
        BY <1>2, <4>1
      <4> QED
        BY <4>2
    <3>2. Len(path) = 1
      <4>1. Len(path) # 1 => path[2] \in DOMAIN entries[root]
        BY <1>3, <2>1, <2>10, <3>1, RootAbove
      <4>2. Len(path) # 1 => 1 < Len(path)
        <5>1. Len(path) \in 1..PathMax /\ PathMax \in Nat
          BY PathShape, PathMaxAssumption
        <5>2. \A k \in 1..PathMax : k # 1 => 1 < k
          BY <5>1
        <5> QED
          BY <5>1, <5>2
      <4> QED
        BY <2>8, <2>10, <3>1, <4>1, <4>2
    <3>3. path = <<tree>>
      <4> DEFINE t == <<tree>>
      <4>1. t \in Paths /\ Len(t) = 1 /\ t[1] = tree
        BY <1>4
      <4> HIDE DEF t
      <4>2. \A i \in 1..Len(path) : path[i] = t[i]
        BY <3>1, <3>2, <4>1
      <4> QED
        BY <3>2, <4>1, <4>2, SamePath DEF t
    <3>4. path \in DOMAIN merged /\ merged[path] = Directory
      BY <1>1, <1>2, <3>3 DEF MergedTrue
    <3>5. IsDir(KindAt(q, path))
      BY <1>4, <2>1, <3>1, <3>3 DEF IsDir
    <3> QED
      BY <1>5, <1>7, <3>4, <3>5 DEF Linked
  <2>11. Links
    BY <1>7, <2>9, <2>10 DEF Links
  <2> QED
    BY <1>1, <1>7, <2>6, <2>7, <2>11, LinkGoesOn
<1>8. CASE /\ tree \notin DOMAIN roots[p] /\ todo' = Tail(todo)
           /\ frames' = frames /\ merged' = merged /\ state' = state
  <2>1. RootKind(p, tree) = "none"
    BY <1>8 DEF RootKind
  <2>2. FramesTrue(packages)'
    BY <1>1, <1>5, <1>8 DEF FramesTrue
  <2>3. TodoTrue(packages)'
    BY <1>2, <1>5, <1>8 DEF TodoTrue
  <2>4. \A q, path : Waiting(q, path)' <=> <<q, path[1]>> \in ToSet(Tail(todo))
    BY <1>1, <1>8 DEF Waiting
  <2>5. ASSUME NEW q \in ToSet(packages), NEW path \in Paths, KindAt(q, path) # "none",
               Waiting(q, path), ~Waiting(q, path)'
        PROVE  FALSE
    <3>1. q = p /\ path[1] = tree
      <4>1. <<q, path[1]>> \in ToSet(todo) /\ <<q, path[1]>> \notin ToSet(Tail(todo))
        BY <1>6, <2>4, <2>5
      <4>2. <<q, path[1]>> = <<p, tree>>
        BY <1>2, <4>1
      <4> QED
        BY <4>2
    <3> QED
      BY <1>3, <2>1, <2>5, <3>1, RootAbove
  <2>6. Links
    BY <1>2, <1>6, <1>8, <2>4, <2>5 DEF Links
  <2> QED
    BY <1>1, <1>8, <2>2, <2>3, <2>6, LinkGoesOn
<1>9. CASE tree \in DOMAIN roots[p] /\ ~IsDir(roots[p][tree]) /\ LinkFails
  <2>1. RootKind(p, tree) = "file"
    BY <1>3, <1>9 DEF RootKind, IsContents, IsDir, HostPackages
  <2>2. CannotMerge(packages)
    BY <1>2, <1>4, <2>1 DEF CannotMerge
  <2> QED
    BY <1>9, <2>2, LinkFailsInv
<1> QED
  BY <1>7, <1>8, <1>9 DEF link_package_tree, p, tree

(***************************************************************************)
(* Every step of link_packages.                                            *)
(***************************************************************************)
LEMMA LinkStepInv ==
  ASSUME Packaged, LinkInv(packages), Stays, LinkStep
  PROVE  LinkInv(packages)'
<1>1. ASSUME frames # <<>>, NEW name \in Running.unread, ReadEntry(name)
      PROVE  LinkInv(packages)'
  BY <1>1, SkipHiddenInv, EntryUnusableInv, DescendInv, DescendFailsInv, LinkEntryInv,
     LinkEntryFailsInv DEF ReadEntry
<1>2. CASE PackagesLinked
  <2>1. /\ state' = "linked" /\ frames' = <<>> /\ todo' = <<>>
        /\ TodoTrue(packages) /\ FramesTrue(packages) /\ MergedTrue(packages)
        /\ UNCHANGED <<todo, frames, src_path, merged>>
    BY <1>2 DEF PackagesLinked, LinkInv
  <2>2. Links
    <3>1. \A p, path : Waiting(p, path)' <=> Waiting(p, path)
      BY <2>1 DEF Waiting
    <3> QED
      BY <2>1, <3>1 DEF Links
  <2>3. FramesTrue(packages)'
    BY <2>1, ContentsStay DEF FramesTrue
  <2> QED
    BY <2>1, <2>2, <2>3, LinksMergedTrue, TodoStays DEF LinkInv
<1> QED
  BY <1>1, <1>2, LinkPackageTreeInv, ReturnInv DEF LinkStep

(***************************************************************************)
(* The start of link_packages.                                             *)
(***************************************************************************)
LEMMA TodoMade ==
  ASSUME NEW S, NEW list \in Seq(S), IsInjective(list),
         NEW made_todo, made_todo = FlattenSeq([n \in DOMAIN list |->
                                      [t \in DOMAIN Trees |-> <<list[n], Trees[t]>>]])
  PROVE  /\ made_todo \in Seq(ToSet(list) \X ToSet(Trees)) /\ IsInjective(made_todo)
         /\ \A p \in ToSet(list) : \A tree \in ToSet(Trees) : <<p, tree>> \in ToSet(made_todo)
<1> DEFINE pairs == ToSet(list) \X ToSet(Trees)
           seqs == [n \in DOMAIN list |-> [t \in DOMAIN Trees |-> <<list[n], Trees[t]>>]]
<1>1. DOMAIN list = 1..Len(list) /\ Len(list) \in Nat
  BY LenProperties
<1>2. /\ DOMAIN Trees = 1..3 /\ \A i \in 1..3 : Trees[i] \in ToSet(Trees)
      /\ \A i, j \in 1..3 : Trees[i] = Trees[j] => i = j
  <2>1. DOMAIN Trees = 1..3 /\ Trees[1] = "bin" /\ Trees[2] = "lib" /\ Trees[3] = "include"
    BY DEF Trees
  <2>2. \A i \in 1..3 : i = 1 \/ i = 2 \/ i = 3
    OBVIOUS
  <2>3. \A i, j \in 1..3 : Trees[i] = Trees[j] => i = j
    BY <2>1, <2>2
  <2>4. \A i \in 1..3 : Trees[i] \in ToSet(Trees)
    BY <2>1 DEF ToSet
  <2> QED
    BY <2>1, <2>3, <2>4
<1>3. ASSUME NEW n \in 1..Len(list)
      PROVE  /\ seqs[n] = [t \in 1..3 |-> <<list[n], Trees[t]>>]
             /\ seqs[n] \in Seq(pairs) /\ IsInjective(seqs[n])
             /\ \A e : e \in ToSet(seqs[n]) <=> \E tree \in ToSet(Trees) : e = <<list[n], tree>>
  <2>1. seqs[n] = [t \in 1..3 |-> <<list[n], Trees[t]>>]
    BY <1>1, <1>2
  <2>2. list[n] \in ToSet(list)
    BY <1>1 DEF ToSet
  <2> HIDE DEF seqs
  <2>3. \A t \in 1..3 : seqs[n][t] = <<list[n], Trees[t]>> /\ <<list[n], Trees[t]>> \in pairs
    BY <1>2, <2>1, <2>2
  <2> HIDE DEF pairs
  <2>4. seqs[n] \in [1..3 -> pairs]
    BY <2>1, <2>3
  <2>5. seqs[n] \in Seq(pairs)
    BY <2>4, SeqDef
  <2>6. DOMAIN seqs[n] = 1..3
    BY <2>1
  <2>7. IsInjective(seqs[n])
    BY <1>2, <2>3, <2>6 DEF IsInjective
  <2>8. ASSUME NEW tree \in ToSet(Trees) PROVE \E t \in 1..3 : Trees[t] = tree
    BY <1>2 DEF ToSet
  <2>9. ASSUME NEW e PROVE e \in ToSet(seqs[n]) <=> \E tree \in ToSet(Trees) : e = <<list[n], tree>>
    <3>1. e \in ToSet(seqs[n]) <=> \E t \in 1..3 : e = seqs[n][t]
      BY <2>6 DEF ToSet
    <3>2. e \in ToSet(seqs[n]) <=> \E t \in 1..3 : e = <<list[n], Trees[t]>>
      BY <2>3, <3>1
    <3> QED
      BY <1>2, <2>8, <3>2
  <2> QED
    BY <2>1, <2>5, <2>7, <2>9
<1>4. DOMAIN seqs = 1..Len(list)
  BY <1>1
<1> HIDE DEF seqs, pairs
<1>5. seqs \in Seq(Seq(pairs))
  <2>1. seqs = [n \in 1..Len(list) |-> seqs[n]]
    BY <1>1 DEF seqs
  <2>2. seqs \in [1..Len(list) -> Seq(pairs)]
    BY <1>3, <2>1
  <2> QED
    BY <1>1, <2>2, SeqDef
<1>6. \A n \in DOMAIN seqs : IsInjective(seqs[n])
  BY <1>3, <1>4
<1>7. ASSUME NEW n \in DOMAIN seqs, NEW m \in DOMAIN seqs, n # m
      PROVE  ToSet(seqs[n]) \cap ToSet(seqs[m]) = {}
  <2>1. list[n] # list[m]
    BY <1>1, <1>4, <1>7 DEF IsInjective
  <2>2. \A a, b : <<list[n], a>> # <<list[m], b>>
    BY <2>1
  <2> QED
    BY <1>3, <1>4, <2>2
<1>8. made_todo = FlattenSeq(seqs)
  BY DEF seqs
<1>9. made_todo \in Seq(pairs) /\ IsInjective(made_todo)
      /\ \A e : e \in ToSet(made_todo) <=> \E n \in DOMAIN seqs : e \in ToSet(seqs[n])
  BY <1>5, <1>6, <1>7, <1>8, FlattenElements, FlattenInjective
<1>10. ASSUME NEW p \in ToSet(list), NEW tree \in ToSet(Trees)
       PROVE  <<p, tree>> \in ToSet(made_todo)
  <2>1. PICK n \in 1..Len(list) : p = list[n]
    BY <1>1 DEF ToSet
  <2>2. <<p, tree>> \in ToSet(seqs[n])
    BY <1>3, <2>1
  <2> QED
    BY <1>4, <1>9, <2>2
<1> QED
  BY <1>9, <1>10 DEF pairs

LEMMA LinkStartInv ==
  ASSUME Packaged, LinkInv(packages), Stays, link_packages(packages)
  PROVE  LinkInv(packages)'
<1>1. /\ state = "idle" /\ state' = "linking" /\ frames = <<>> /\ frames' = <<>>
      /\ merged' = [path \in {<<t>> : t \in ToSet(Trees)} |-> Directory]
      /\ todo' = FlattenSeq([n \in DOMAIN packages |->
                    [t \in DOMAIN Trees |-> <<packages[n], Trees[t]>>]])
  BY DEF link_packages, LinkInv
<1>2. /\ todo' \in Seq(ToSet(packages) \X ToSet(Trees)) /\ IsInjective(todo')
      /\ \A p \in ToSet(packages) : \A tree \in ToSet(Trees) : <<p, tree>> \in ToSet(todo')
  BY <1>1, TodoMade DEF Packaged
<1>3. /\ packages' = packages /\ Paths' = Paths /\ Activations' = Activations
  BY ContentsStay
<1>4. TodoTrue(packages)'
  BY <1>2, <1>3 DEF TodoTrue
<1>5. FramesTrue(packages)'
  BY <1>1, <1>3 DEF FramesTrue
<1>6. \A p \in ToSet(packages) : \A path \in Paths : Waiting(p, path)'
  <2>1. ASSUME NEW p \in ToSet(packages), NEW path \in Paths PROVE Waiting(p, path)'
    <3>1. path[1] \in ToSet(Trees)
      BY PathShape
    <3>2. <<p, path[1]>> \in ToSet(todo')
      BY <1>2, <3>1
    <3> QED
      BY <3>2 DEF Waiting
  <2> QED
    BY <2>1
<1>7. /\ \A t \in ToSet(Trees) : <<t>> \in DOMAIN merged' /\ merged'[<<t>>] = Directory
      /\ \A path \in DOMAIN merged' : path \in Paths /\ ~(Len(path) > 1)
  <2> DEFINE X == {<<t>> : t \in ToSet(Trees)}
  <2>0. ASSUME NEW path \in X PROVE path \in Paths /\ ~(Len(path) > 1)
    <3>1. PICK t \in ToSet(Trees) : path = <<t>>
      OBVIOUS
    <3>2. <<t>> \in Paths /\ Len(<<t>>) = 1
      BY RootPath
    <3> QED
      BY <3>1, <3>2
  <2>1. \A t \in ToSet(Trees) : <<t>> \in X
    OBVIOUS
  <2>2. merged' = [path \in X |-> Directory]
    BY <1>1
  <2> HIDE DEF X
  <2>3. DOMAIN merged' = X /\ \A path \in X : merged'[path] = Directory
    BY <2>2
  <2> QED
    BY <2>0, <2>1, <2>3
<1>8. MergedTrue(packages)'
  BY <1>3, <1>6, <1>7 DEF MergedTrue
<1> QED
  BY <1>1, <1>4, <1>5, <1>8 DEF LinkInv

(***************************************************************************)
(* The packages linked, /bin, /lib and /include are the packages' union.   *)
(***************************************************************************)
LEMMA LinkedIsMerge ==
  ASSUME Packaged, LinkInv(packages), state = "linked"
  PROVE  IsMergeOf(packages)
<1>1. /\ todo = <<>> /\ frames = <<>> /\ MergedTrue(packages)
  BY DEF LinkInv
<1>2. \A p, path : ~Waiting(p, path)
  BY <1>1 DEF Waiting, ToSet
<1>3. /\ ~IsDir("none") /\ ~IsDir("file")
  BY DEF Packaged, IsContents, IsDir
<1>4. DOMAIN merged \subseteq Paths
  BY <1>1 DEF MergedTrue
<1>5. ASSUME NEW path \in Paths, NEW p \in ToSet(packages),
             IsDir(KindAt(p, path)) \/ KindAt(p, path) = "file"
      PROVE  path \in DOMAIN merged /\ Linked(p, path)
  <2>1. KindAt(p, path) # "none"
    BY <1>3, <1>5
  <2> QED
    BY <1>1, <1>2, <2>1 DEF MergedTrue
<1>6. ASSUME NEW path \in Paths, NEW p \in ToSet(packages), IsDir(KindAt(p, path))
      PROVE  merged[path] = Directory
  BY <1>3, <1>5, <1>6 DEF Linked
<1>7. ASSUME NEW path \in Paths, NEW p \in ToSet(packages), KindAt(p, path) = "file"
      PROVE  merged[path] = <<p>> \o path
  BY <1>3, <1>5, <1>7 DEF Linked
<1>8. ASSUME NEW path \in DOMAIN merged, Len(path) # 1
      PROVE  \E p \in ToSet(packages) : IsDir(KindAt(p, path)) \/ KindAt(p, path) = "file"
  <2>1. Len(path) > 1
    <3>1. Len(path) \in 1..PathMax /\ PathMax \in Nat
      BY <1>4, PathShape, PathMaxAssumption
    <3>2. \A k \in 1..PathMax : k # 1 => k > 1
      BY <3>1
    <3> QED
      BY <1>8, <3>1, <3>2
  <2>2. PICK p \in ToSet(packages) : Linked(p, path)
    BY <1>1, <2>1 DEF MergedTrue
  <2> QED
    BY <2>2 DEF Linked
<1>9. ASSUME NEW path \in Paths, Len(path) = 1 PROVE path \in DOMAIN merged
  <2>1. path[1] \in ToSet(Trees)
    BY PathShape
  <2> DEFINE t == <<path[1]>>
  <2>2. t \in Paths /\ Len(t) = 1 /\ t[1] = path[1]
    BY <2>1, RootPath
  <2> HIDE DEF t
  <2>3. \A i \in 1..Len(path) : path[i] = t[i]
    BY <1>9, <2>2
  <2>4. path = t
    BY <1>9, <2>2, <2>3, SamePath
  <2> QED
    BY <1>1, <2>1, <2>4 DEF MergedTrue, t
<1> QED
  BY <1>4, <1>5, <1>6, <1>7, <1>8, <1>9 DEF IsMergeOf

-----------------------------------------------------------------------------
(***************************************************************************)
(* withenv.  Its options do not change, and are read in reverse.           *)
(***************************************************************************)
LEMMA Options ==
  ASSUME EnvTyped
  PROVE  /\ packages \in Seq(PackageOption) /\ ToSet(packages) = ToSet(asked.packages)
         /\ mounts \in Seq(MountOption)
         /\ IsContents(roots, entries)
BY ReverseElements DEF EnvTyped, IsScenario, packages, mounts

LEMMA OptionsStay ==
  ASSUME Stays
  PROVE  /\ packages' = packages /\ mounts' = mounts /\ HostPackages' = HostPackages
         /\ asked' = asked /\ roots' = roots /\ entries' = entries
BY DEF Stays, contents, packages, mounts, HostPackages

LEMMA LinkUntouched ==
  ASSUME LinkInv(packages), UNCHANGED <<asked, linkVars>>
  PROVE  LinkInv(packages)'
<1>1. /\ Stays /\ todo' = todo /\ frames' = frames /\ src_path' = src_path
      /\ merged' = merged /\ state' = state
  BY DEF linkVars, Stays, contents
<1>2. Links
  <2>1. \A p, path : Waiting(p, path)' <=> Waiting(p, path)
    BY <1>1 DEF Waiting
  <2> QED
    BY <1>1, <2>1 DEF Links
<1>3. FramesTrue(packages) => FramesTrue(packages)'
  BY <1>1, ContentsStay DEF FramesTrue, Stays, contents
<1>4. CannotMerge(packages)' = CannotMerge(packages)
  BY <1>1, CauseStays
<1> QED
  BY <1>1, <1>2, <1>3, <1>4, LinksMergedTrue, TodoStays DEF LinkInv

(***************************************************************************)
(* What can make withenv fail.                                             *)
(***************************************************************************)
Cause ==
    \/ asked.work = "missing"
    \/ \E n \in DOMAIN mounts : ~mounts[n].there
    \/ \E n, m \in DOMAIN mounts : n # m /\ mounts[n].name = mounts[m].name
    \/ ~(ToSet(packages) \subseteq HostPackages)
    \/ \E n, m \in DOMAIN packages : n # m /\ packages[n] = packages[m]
    \/ CannotMerge(packages)

LEMMA FailsForCauseIs == EnvFailsForCause <=> (at = "failed" /\ ~starved => Cause)
BY DEF EnvFailsForCause, Cause, Repeats

LEMMA CauseKept ==
  ASSUME Stays
  PROVE  Cause' <=> Cause
BY OptionsStay, CauseStays DEF Cause

(***************************************************************************)
(* The parts of the invariant that are about one place in withenv each.    *)
(***************************************************************************)
LEMMA EnvInvAt ==
  ASSUME EnvTyped', LinkInv(packages)', EnvInStep',
         at' = "failed" => Cause' \/ starved',
         at' = "mounts" => MountsMade',
         at' = "packages" => PackagesMade',
         at' \in {"link", "command"} => PackagesMounted'
  PROVE  EnvInv'
<1>1. EnvFailsForCause' <=> (at' = "failed" /\ ~starved' => Cause')
  BY DEF EnvFailsForCause, Cause, Repeats
<1>2. MountsMade'
  BY DEF MountsMade
<1>3. PackagesMade'
  BY DEF PackagesMade
<1>4. PackagesMounted'
  BY DEF PackagesMounted
<1>5. EnvFailsForCause'
  BY <1>1
<1> QED
  BY <1>2, <1>3, <1>4, <1>5 DEF EnvInv

(***************************************************************************)
(* A list of which n elements have been dealt with.                        *)
(***************************************************************************)
LEMMA WholeLeft ==
  ASSUME NEW S, NEW list \in Seq(S), left' = list
  PROVE  Len(left') \in 0..Len(list) /\ left' = SubSeq(list, Len(list) - Len(left') + 1, Len(list))
         /\ 1..(Len(list) - Len(left')) = {}
<1>1. Len(list) \in Nat
  BY LenProperties
<1>2. SubSeq(list, 1, Len(list)) = list
  BY SubSeqFull
<1>3. Len(list) - Len(list) + 1 = 1 /\ 1..(Len(list) - Len(list)) = {}
  BY <1>1
<1> QED
  BY <1>1, <1>2, <1>3

LEMMA NoneLeft ==
  ASSUME NEW S, NEW list \in Seq(S), IsRestOf(list), left = <<>>
  PROVE  Done(list) = DOMAIN list
BY LenProperties DEF IsRestOf, Done

LEMMA NextLeft ==
  ASSUME NEW S, NEW list \in Seq(S), IsRestOf(list), left # <<>>
  PROVE  /\ (Len(list) - Len(left)) + 1 \in DOMAIN list
         /\ (Len(list) - Len(left)) + 1 \notin Done(list)
         /\ Done(list) \subseteq DOMAIN list
         /\ Head(left) = list[(Len(list) - Len(left)) + 1]
         /\ left' = Tail(left) =>
              /\ Len(left') \in 0..Len(list)
              /\ left' = SubSeq(list, Len(list) - Len(left') + 1, Len(list))
              /\ 1..(Len(list) - Len(left')) = Done(list) \cup {(Len(list) - Len(left)) + 1}
<1> DEFINE L == Len(list)
           k == L - Len(left)
<1>1. L \in Nat /\ DOMAIN list = 1..L
  BY LenProperties
<1>2. Len(left) \in 0..L /\ left = SubSeq(list, k + 1, L)
  BY DEF IsRestOf
<1>3. k \in 0..L
  <2>1. Len(left) \in 0..L
    BY <1>2
  <2> HIDE DEF L
  <2> QED
    BY <1>1, <2>1
<1> HIDE DEF k
<1>4. /\ left \in Seq(S) /\ Len(left) = L - k
      /\ \A i \in 1..(L - k) : left[i] = list[k + i]
  BY <1>2, <1>3, RestOf
<1>5. k < L
  <2>1. Len(left) # 0
    BY <1>4, EmptySeq
  <2> HIDE DEF L
  <2> QED
    BY <1>1, <1>3, <1>4, <2>1
<1>6. Head(left) = list[k + 1]
  <2>1. 1 \in 1..(L - k)
    <3> HIDE DEF L
    <3> QED
      BY <1>1, <1>3, <1>5
  <2> QED
    BY <1>4, <2>1
<1>7. /\ Tail(left) \in Seq(S) /\ Len(Tail(left)) = Len(left) - 1
      /\ \A i \in 1..Len(Tail(left)) : Tail(left)[i] = left[i + 1]
  BY <1>4, HeadTailProperties
<1>8. Len(Tail(left)) = L - (k + 1)
  <2> HIDE DEF L
  <2> QED
    BY <1>1, <1>3, <1>4, <1>7
<1>9. k + 1 \in 0..L
  <2> HIDE DEF L
  <2> QED
    BY <1>1, <1>3, <1>5
<1> DEFINE rest == SubSeq(list, (k + 1) + 1, L)
<1>10. /\ rest \in Seq(S) /\ Len(rest) = L - (k + 1)
       /\ \A i \in 1..(L - (k + 1)) : rest[i] = list[(k + 1) + i]
  BY <1>9, RestOf
<1>11. Tail(left) = rest
  <2> HIDE DEF rest
  <2>1. ASSUME NEW i \in 1..(L - (k + 1)) PROVE Tail(left)[i] = rest[i]
    <3>1. i + 1 \in 1..(L - k) /\ k + (i + 1) = (k + 1) + i
      <4> HIDE DEF L
      <4> QED
        BY <1>1, <1>3, <2>1
    <3> QED
      BY <1>4, <1>7, <1>8, <1>10, <3>1
  <2> QED
    BY <1>7, <1>8, <1>10, <2>1, SeqEqual
<1>12. /\ k + 1 \in DOMAIN list /\ k + 1 \notin 1..k /\ 1..k \subseteq DOMAIN list
       /\ 1..(k + 1) = 1..k \cup {k + 1}
       /\ L - (k + 1) \in 0..L /\ L - (L - (k + 1)) = k + 1
  <2> HIDE DEF L
  <2> QED
    BY <1>1, <1>3, <1>5
<1>13. Done(list) = 1..k
  BY DEF Done, k
<1>14. L - Len(Tail(left)) = k + 1
  BY <1>8, <1>12
<1> QED
  BY <1>6, <1>8, <1>11, <1>12, <1>13, <1>14 DEF k

(***************************************************************************)
(* The parts that hold whatever a step before link_packages does.          *)
(***************************************************************************)
LEMMA EnvTypedStays ==
  ASSUME EnvTyped, Stays,
         at' \in {"mkdtemp", "root", "work", "mounts", "packages", "link", "command", "failed"},
         \A path \in DOMAIN mounted' : mounted'[path].ro \in BOOLEAN,
         tmp' \in BOOLEAN, starved' \in BOOLEAN
  PROVE  EnvTyped'
BY OptionsStay DEF EnvTyped

LEMMA MountedTyped ==
  ASSUME EnvTyped, NEW path, NEW from, NEW ro \in BOOLEAN, mounted' = Mounted(path, from, ro)
  PROVE  /\ \A q \in DOMAIN mounted' : mounted'[q].ro \in BOOLEAN
         /\ path \in DOMAIN mounted' /\ mounted'[path] = [from |-> from, ro |-> ro]
         /\ \A q \in DOMAIN mounted : q # path => q \in DOMAIN mounted' /\ mounted'[q] = mounted[q]
<1>1. /\ \A q : q \in DOMAIN mounted' <=> q \in DOMAIN mounted \/ q = path
      /\ mounted'[path] = [from |-> from, ro |-> ro]
      /\ \A q \in DOMAIN mounted : q # path => mounted'[q] = mounted[q]
  BY DEF Mounted
<1>2. ASSUME NEW q \in DOMAIN mounted' PROVE mounted'[q].ro \in BOOLEAN
  <2>1. CASE q = path
    <3>1. mounted'[q] = [from |-> from, ro |-> ro]
      BY <1>1, <2>1
    <3> QED
      BY <3>1
  <2>2. CASE q # path
    BY <1>1, <2>2 DEF EnvTyped
  <2> QED
    BY <2>1, <2>2
<1> QED
  BY <1>1, <1>2

(***************************************************************************)
(* The directory in /tmp, the root, and the working directory.             *)
(***************************************************************************)
LEMMA RootStepsInv ==
  ASSUME EnvInv, mkdtemp \/ MakeRoot \/ BindWork
  PROVE  EnvInv'
<1>1. EnvTyped /\ EnvInStep /\ LinkInv(packages)
  BY DEF EnvInv
<1>2. Stays /\ LinkInv(packages)' /\ state' = state /\ starved' = starved
  <2>1. UNCHANGED <<asked, starved, linkVars>>
    BY DEF mkdtemp, MakeRoot, BindWork, EnvFails
  <2>2. Stays /\ state' = state /\ starved' = starved
    BY <2>1 DEF Stays, contents, linkVars
  <2> QED
    BY <1>1, <2>1, <2>2, LinkUntouched
<1>3. mounts \in Seq(MountOption) /\ packages' = packages /\ mounts' = mounts /\ asked' = asked
  BY <1>1, <1>2, Options, OptionsStay
<1>4. starved' \in BOOLEAN
  BY <1>1, <1>2 DEF EnvTyped
<1>5. CASE mkdtemp
  <2>1. at = "mkdtemp" /\ at' = "root" /\ tmp' = TRUE /\ mounted' = mounted
    BY <1>5 DEF mkdtemp
  <2>2. EnvTyped'
    BY <1>1, <1>2, <1>4, <2>1, EnvTypedStays DEF EnvTyped
  <2>3. EnvInStep'
    BY <1>1, <1>2, <2>1 DEF EnvInStep
  <2> QED
    BY <1>2, <2>1, <2>2, <2>3, EnvInvAt
<1>6. CASE MakeRoot
  <2>1. /\ at = "root" /\ at' = "work" /\ tmp' = tmp
        /\ mounted' = [path \in {<<>>, <<"dev">>, <<"sys">>} |->
                        [from |-> IF path = <<>> THEN "tmpfs" ELSE path[1], ro |-> FALSE]]
        /\ made' = {<<d>> : d \in {"dev", "proc", "sys", "tmp", "mnt", "packages"}}
    BY <1>6 DEF MakeRoot
  <2>2. ASSUME NEW path \in DOMAIN mounted' PROVE mounted'[path].ro \in BOOLEAN
    <3>1. mounted'[path] = [from |-> IF path = <<>> THEN "tmpfs" ELSE path[1], ro |-> FALSE]
      BY <2>1
    <3> QED
      BY <3>1
  <2>3. EnvTyped'
    BY <1>1, <1>2, <1>4, <2>1, <2>2, EnvTypedStays DEF EnvTyped
  <2>4. \A path \in made' : Len(path) = 1
    BY <2>1
  <2>5. EnvInStep'
    BY <1>1, <1>2, <2>1, <2>4 DEF EnvInStep
  <2> QED
    BY <1>2, <2>1, <2>3, <2>5, EnvInvAt
<1>7. CASE BindWork
  <2>1. at = "work" /\ tmp' = tmp /\ \A path \in made : Len(path) = 1
    BY <1>1, <1>7 DEF BindWork, EnvFails, EnvInStep
  <2>2. CASE /\ at' = "mounts" /\ left' = mounts
             /\ \/ made' = made /\ mounted' = mounted
                \/ made' = made \cup {<<"work">>} /\ mounted' = Mounted(<<"work">>, "work", FALSE)
    <3>1. \A path \in DOMAIN mounted' : mounted'[path].ro \in BOOLEAN
      <4>1. FALSE \in BOOLEAN
        OBVIOUS
      <4> QED
        BY <1>1, <2>2, <4>1, MountedTyped DEF EnvTyped
    <3>2. EnvTyped'
      BY <1>1, <1>2, <1>4, <2>1, <2>2, <3>1, EnvTypedStays DEF EnvTyped
    <3>3. \A path \in made' : Len(path) = 1
      <4>1. Len(<<"work">>) = 1
        OBVIOUS
      <4>2. \A path \in made' : path \in made \/ path = <<"work">>
        BY <2>2
      <4> QED
        BY <2>1, <4>1, <4>2
    <3>4. EnvInStep'
      BY <1>1, <1>2, <2>1, <2>2, <3>3 DEF EnvInStep
    <3>5. MountsMade'
      <4>1. /\ Len(left') \in 0..Len(mounts)
            /\ left' = SubSeq(mounts, Len(mounts) - Len(left') + 1, Len(mounts))
        BY <1>3, <2>2, WholeLeft
      <4> QED
        BY <1>3, <3>3, <4>1 DEF MountsMade, IsRestOf
    <3> QED
      BY <1>2, <2>2, <3>2, <3>4, <3>5, EnvInvAt
  <2>3. CASE asked.work = "missing" /\ mounted' = mounted /\ at' = "failed"
    <3>1. EnvTyped'
      BY <1>1, <1>2, <1>4, <2>1, <2>3, EnvTypedStays DEF EnvTyped
    <3>2. EnvInStep'
      BY <1>2, <2>3 DEF EnvInStep
    <3>3. Cause'
      BY <1>2, <2>3, CauseKept DEF Cause
    <3> QED
      BY <1>2, <2>3, <3>1, <3>2, <3>3, EnvInvAt
  <2> QED
    BY <1>7, <2>2, <2>3 DEF BindWork, EnvFails
<1> QED
  BY <1>5, <1>6, <1>7

(***************************************************************************)
(* The mounts.                                                             *)
(***************************************************************************)
LEMMA BindMountInv ==
  ASSUME EnvInv, BindMount
  PROVE  EnvInv'
<1> DEFINE m == Head(left)
           path == <<"mnt", m.name>>
           k == (Len(mounts) - Len(left)) + 1
<1>1. EnvTyped /\ EnvInStep /\ LinkInv(packages) /\ MountsMade
  BY DEF EnvInv
<1>2. /\ at = "mounts" /\ left # <<>> /\ made' = made \cup {path} /\ tmp' = tmp
      /\ \/ /\ path \notin made /\ m.there
            /\ mounted' = Mounted(path, "host", m.ro)
            /\ left' = Tail(left) /\ at' = at
         \/ /\ path \in made \/ ~m.there
            /\ mounted' = mounted /\ at' = "failed"
  BY DEF BindMount, EnvFails
<1>3. Stays /\ LinkInv(packages)' /\ state' = state /\ starved' = starved
  <2>1. UNCHANGED <<asked, starved, linkVars>>
    BY DEF BindMount, EnvFails
  <2>2. Stays /\ state' = state /\ starved' = starved
    BY <2>1 DEF Stays, contents, linkVars
  <2> QED
    BY <1>1, <2>1, <2>2, LinkUntouched
<1>4. mounts \in Seq(MountOption) /\ packages' = packages /\ mounts' = mounts
  BY <1>1, <1>3, Options, OptionsStay
<1>5. starved' \in BOOLEAN /\ tmp' \in BOOLEAN
  BY <1>1, <1>2, <1>3 DEF EnvTyped
<1>6. /\ IsRestOf(mounts)
      /\ \A q \in made : \/ Len(q) = 1
                         \/ \E n \in Done(mounts) : q = <<"mnt", mounts[n].name>>
  BY <1>1, <1>2 DEF MountsMade
<1>7. /\ k \in DOMAIN mounts /\ k \notin Done(mounts) /\ Done(mounts) \subseteq DOMAIN mounts
      /\ m = mounts[k]
      /\ left' = Tail(left) =>
            /\ Len(left') \in 0..Len(mounts)
            /\ left' = SubSeq(mounts, Len(mounts) - Len(left') + 1, Len(mounts))
            /\ 1..(Len(mounts) - Len(left')) = Done(mounts) \cup {k}
  BY <1>2, <1>4, <1>6, NextLeft
<1>8. m.ro \in BOOLEAN
  <2>1. m \in MountOption
    BY <1>4, <1>7, ElementOfSeq, LenProperties
  <2> QED
    BY <2>1 DEF MountOption
<1> HIDE DEF k, m
<1>9. CASE /\ mounted' = Mounted(path, "host", m.ro)
           /\ left' = Tail(left) /\ at' = at
  <2>1. \A q \in DOMAIN mounted' : mounted'[q].ro \in BOOLEAN
    BY <1>1, <1>8, <1>9, MountedTyped
  <2>2. EnvTyped'
    BY <1>1, <1>2, <1>3, <1>5, <1>9, <2>1, EnvTypedStays
  <2>3. EnvInStep'
    BY <1>1, <1>2, <1>3, <1>9 DEF EnvInStep
  <2>4. Done(mounts)' = Done(mounts) \cup {k} /\ IsRestOf(mounts)'
    BY <1>4, <1>7, <1>9 DEF Done, IsRestOf
  <2>5. \A q \in made' : \/ Len(q) = 1
                         \/ \E n \in Done(mounts)' : q = <<"mnt", mounts[n].name>>
    BY <1>2, <1>6, <1>7, <2>4
  <2>6. MountsMade'
    BY <1>4, <2>4, <2>5 DEF MountsMade
  <2> QED
    BY <1>2, <1>3, <1>9, <2>2, <2>3, <2>6, EnvInvAt
<1>10. CASE (path \in made \/ ~m.there) /\ mounted' = mounted /\ at' = "failed"
  <2>1. EnvTyped'
    BY <1>1, <1>3, <1>5, <1>10, EnvTypedStays DEF EnvTyped
  <2>2. EnvInStep'
    BY <1>3, <1>10 DEF EnvInStep
  <2>3. CASE ~m.there
    <3>1. Cause
      BY <1>7, <2>3 DEF Cause
    <3> QED
      BY <1>3, <1>10, <2>1, <2>2, <3>1, CauseKept, EnvInvAt
  <2>4. CASE path \in made
    <3>1. PICK n \in Done(mounts) : path = <<"mnt", mounts[n].name>>
      BY <1>6, <2>4
    <3>2. n # k /\ n \in DOMAIN mounts /\ mounts[n].name = mounts[k].name
      BY <1>7, <3>1
    <3>3. Cause
      BY <1>7, <3>2 DEF Cause
    <3> QED
      BY <1>3, <1>10, <2>1, <2>2, <3>3, CauseKept, EnvInvAt
  <2> QED
    BY <1>10, <2>3, <2>4
<1> QED
  BY <1>2, <1>9, <1>10

(***************************************************************************)
(* The packages: one mount for each, at a place of its own.                *)
(***************************************************************************)
LEMMA PackagePaths ==
  ASSUME NEW p \in PackageOption, NEW q \in PackageOption
  PROVE  PackagePath(p) = PackagePath(q) => p = q
<1>1. p = [name |-> p.name, version |-> p.version] /\ q = [name |-> q.name, version |-> q.version]
  BY DEF PackageOption
<1>2. ASSUME PackagePath(p) = PackagePath(q) PROVE p.name = q.name /\ p.version = q.version
  <2>1. <<"packages", p.name, p.version>> = <<"packages", q.name, q.version>>
    BY <1>2 DEF PackagePath
  <2>2. \A a, b, c, d, e : <<a, b, c>> = <<a, d, e>> => b = d /\ c = e
    OBVIOUS
  <2> QED
    BY <2>1, <2>2
<1> QED
  BY <1>1, <1>2

LEMMA MountsBoundInv ==
  ASSUME EnvInv, MountsBound
  PROVE  EnvInv'
<1>1. EnvTyped /\ EnvInStep /\ LinkInv(packages) /\ MountsMade
  BY DEF EnvInv
<1>2. /\ at = "mounts" /\ at' = "packages" /\ left' = packages
      /\ made' = made /\ mounted' = mounted /\ tmp' = tmp
  BY DEF MountsBound
<1>3. Stays /\ LinkInv(packages)' /\ state' = state /\ starved' = starved
  <2>1. UNCHANGED <<asked, starved, linkVars>>
    BY DEF MountsBound
  <2>2. Stays /\ state' = state /\ starved' = starved
    BY <2>1 DEF Stays, contents, linkVars
  <2> QED
    BY <1>1, <2>1, <2>2, LinkUntouched
<1>4. packages \in Seq(PackageOption) /\ packages' = packages
  BY <1>1, <1>3, Options, OptionsStay
<1>5. EnvTyped'
  BY <1>1, <1>2, <1>3, EnvTypedStays DEF EnvTyped
<1>6. EnvInStep'
  BY <1>1, <1>2, <1>3 DEF EnvInStep
<1>7. \A path \in made : Len(path) < 3
  <2>2. \A path \in made : Len(path) = 1 \/ \E n \in Done(mounts) : path = <<"mnt", mounts[n].name>>
    BY <1>1, <1>2 DEF MountsMade
  <2>3. ASSUME NEW path \in made PROVE Len(path) < 3
    <3>1. CASE Len(path) = 1
      BY <3>1
    <3>2. CASE \E n \in Done(mounts) : path = <<"mnt", mounts[n].name>>
      BY <3>2
    <3> QED
      BY <2>2, <3>1, <3>2
  <2> QED
    BY <2>3
<1>8. PackagesMade'
  <2>1. /\ Len(left') \in 0..Len(packages)
        /\ left' = SubSeq(packages, Len(packages) - Len(left') + 1, Len(packages))
        /\ 1..(Len(packages) - Len(left')) = {}
    BY <1>2, <1>4, WholeLeft
  <2>2. Done(packages)' = {} /\ IsRestOf(packages)'
    BY <1>4, <2>1 DEF Done, IsRestOf
  <2> QED
    BY <1>2, <1>4, <1>7, <2>2 DEF PackagesMade
<1> QED
  BY <1>2, <1>3, <1>5, <1>6, <1>8, EnvInvAt

LEMMA BindPackageInv ==
  ASSUME EnvInv, BindPackage
  PROVE  EnvInv'
<1> DEFINE p == Head(left)
           k == (Len(packages) - Len(left)) + 1
<1>1. EnvTyped /\ EnvInStep /\ LinkInv(packages) /\ PackagesMade
  BY DEF EnvInv
<1>2. /\ at = "packages" /\ left # <<>> /\ tmp' = tmp
      /\ made' = made \cup {<<"packages", p.name>>, PackagePath(p)}
      /\ \/ /\ PackagePath(p) \notin made /\ p \in HostPackages
            /\ mounted' = Mounted(PackagePath(p), p, TRUE)
            /\ left' = Tail(left) /\ at' = at
         \/ /\ PackagePath(p) \in made \/ p \notin HostPackages
            /\ mounted' = mounted /\ at' = "failed"
  BY DEF BindPackage, EnvFails
<1>3. Stays /\ LinkInv(packages)' /\ state' = state /\ starved' = starved
  <2>1. UNCHANGED <<asked, starved, linkVars>>
    BY DEF BindPackage, EnvFails
  <2>2. Stays /\ state' = state /\ starved' = starved
    BY <2>1 DEF Stays, contents, linkVars
  <2> QED
    BY <1>1, <2>1, <2>2, LinkUntouched
<1>4. packages \in Seq(PackageOption) /\ packages' = packages /\ HostPackages' = HostPackages
  BY <1>1, <1>3, Options, OptionsStay
<1>5. starved' \in BOOLEAN /\ tmp' \in BOOLEAN
  BY <1>1, <1>2, <1>3 DEF EnvTyped
<1>6. /\ IsRestOf(packages)
      /\ \A q \in made : Len(q) < 3 \/ \E n \in Done(packages) : q = PackagePath(packages[n])
      /\ \A n \in Done(packages) :
            /\ packages[n] \in HostPackages
            /\ PackagePath(packages[n]) \in made
            /\ MountedReadOnly(packages[n])
            /\ \A l \in Done(packages) : packages[n] = packages[l] => n = l
  BY <1>1, <1>2 DEF PackagesMade
<1>7. /\ k \in DOMAIN packages /\ k \notin Done(packages) /\ Done(packages) \subseteq DOMAIN packages
      /\ p = packages[k]
      /\ left' = Tail(left) =>
            /\ Len(left') \in 0..Len(packages)
            /\ left' = SubSeq(packages, Len(packages) - Len(left') + 1, Len(packages))
            /\ 1..(Len(packages) - Len(left')) = Done(packages) \cup {k}
  BY <1>2, <1>4, <1>6, NextLeft
<1>8. \A n \in DOMAIN packages : packages[n] \in PackageOption
  BY <1>4, ElementOfSeq, LenProperties
<1> HIDE DEF k, p
<1>9. CASE /\ PackagePath(p) \notin made /\ p \in HostPackages
           /\ mounted' = Mounted(PackagePath(p), p, TRUE)
           /\ left' = Tail(left) /\ at' = at
  <2>1. /\ \A q \in DOMAIN mounted' : mounted'[q].ro \in BOOLEAN
        /\ PackagePath(p) \in DOMAIN mounted' /\ mounted'[PackagePath(p)] = [from |-> p, ro |-> TRUE]
        /\ \A q \in DOMAIN mounted : q # PackagePath(p) =>
              q \in DOMAIN mounted' /\ mounted'[q] = mounted[q]
    <3> DEFINE path == PackagePath(p)
    <3>1. TRUE \in BOOLEAN /\ mounted' = Mounted(path, p, TRUE) /\ EnvTyped
      BY <1>1, <1>9
    <3> HIDE DEF path
    <3>2. /\ \A q \in DOMAIN mounted' : mounted'[q].ro \in BOOLEAN
          /\ path \in DOMAIN mounted' /\ mounted'[path] = [from |-> p, ro |-> TRUE]
          /\ \A q \in DOMAIN mounted : q # path => q \in DOMAIN mounted' /\ mounted'[q] = mounted[q]
      BY <3>1, MountedTyped, ZenonT(30)
    <3> QED
      BY <3>2 DEF path
  <2>2. EnvTyped'
    BY <1>1, <1>2, <1>3, <1>5, <1>9, <2>1, EnvTypedStays
  <2>3. EnvInStep'
    BY <1>1, <1>2, <1>3, <1>9 DEF EnvInStep
  <2>4. Done(packages)' = Done(packages) \cup {k} /\ IsRestOf(packages)'
    BY <1>4, <1>7, <1>9 DEF Done, IsRestOf
  <2>5. ASSUME NEW q \in made'
        PROVE  Len(q) < 3 \/ \E n \in Done(packages)' : q = PackagePath(packages[n])
    <3>1. CASE q \in made
      BY <1>6, <2>4, <3>1
    <3>2. CASE q = <<"packages", p.name>>
      BY <3>2
    <3>3. CASE q = PackagePath(p)
      BY <1>7, <2>4, <3>3
    <3> QED
      BY <1>2, <3>1, <3>2, <3>3
  <2>6. ASSUME NEW n \in Done(packages)
        PROVE  /\ PackagePath(packages[n]) # PackagePath(p) /\ packages[n] # p
               /\ PackagePath(packages[n]) \in DOMAIN mounted'
               /\ mounted'[PackagePath(packages[n])] = [from |-> packages[n], ro |-> TRUE]
    <3>1. PackagePath(packages[n]) # PackagePath(p)
      BY <1>6, <1>9
    <3>2. packages[n] # p
      BY <3>1
    <3> QED
      BY <1>6, <2>1, <3>1, <3>2 DEF MountedReadOnly
  <2>7. ASSUME NEW n \in Done(packages)'
        PROVE  /\ packages[n] \in HostPackages
               /\ PackagePath(packages[n]) \in made'
               /\ PackagePath(packages[n]) \in DOMAIN mounted'
               /\ mounted'[PackagePath(packages[n])] = [from |-> packages[n], ro |-> TRUE]
               /\ \A l \in Done(packages)' : packages[n] = packages[l] => n = l
    <3>1. CASE n = k
      BY <1>2, <1>7, <1>9, <2>1, <2>4, <2>6, <3>1
    <3>2. CASE n # k
      BY <1>2, <1>6, <1>7, <2>4, <2>6, <3>2
    <3> QED
      BY <3>1, <3>2
  <2>8. PackagesMade'
    BY <1>4, <2>4, <2>5, <2>7 DEF PackagesMade, MountedReadOnly, PackagePath
  <2> QED
    BY <1>2, <1>3, <1>9, <2>2, <2>3, <2>8, EnvInvAt
<1>10. CASE (PackagePath(p) \in made \/ p \notin HostPackages) /\ mounted' = mounted /\ at' = "failed"
  <2>1. EnvTyped'
    BY <1>1, <1>3, <1>5, <1>10, EnvTypedStays DEF EnvTyped
  <2>2. EnvInStep'
    BY <1>3, <1>10 DEF EnvInStep
  <2>3. CASE p \notin HostPackages
    <3>1. p \in ToSet(packages)
      BY <1>7 DEF ToSet
    <3>2. Cause
      BY <2>3, <3>1 DEF Cause
    <3> QED
      BY <1>3, <1>10, <2>1, <2>2, <3>2, CauseKept, EnvInvAt
  <2>4. CASE PackagePath(p) \in made
    <3>1. Len(PackagePath(p)) = 3
      BY DEF PackagePath
    <3>2. PICK n \in Done(packages) : PackagePath(p) = PackagePath(packages[n])
      BY <1>6, <2>4, <3>1
    <3>3. n # k /\ n \in DOMAIN packages /\ packages[n] = packages[k]
      BY <1>7, <1>8, <3>2, PackagePaths
    <3>4. Cause
      BY <1>7, <3>3 DEF Cause
    <3> QED
      BY <1>3, <1>10, <2>1, <2>2, <3>4, CauseKept, EnvInvAt
  <2> QED
    BY <1>10, <2>3, <2>4
<1> QED
  BY <1>2, <1>9, <1>10

(***************************************************************************)
(* The packages are linked, and the command is executed.                   *)
(***************************************************************************)
LEMMA MountedIsPackaged ==
  ASSUME EnvTyped, PackagesMounted, at \in {"link", "command"}
  PROVE  Packaged
<1>1. packages \in Seq(PackageOption) /\ IsContents(roots, entries)
  BY Options
<1>2. /\ \A n \in DOMAIN packages : packages[n] \in HostPackages
      /\ \A n, m \in DOMAIN packages : packages[n] = packages[m] => n = m
  BY DEF PackagesMounted
<1>3. packages \in Seq(HostPackages)
  <2>1. Len(packages) \in Nat /\ DOMAIN packages = 1..Len(packages)
    BY <1>1, LenProperties
  <2>2. packages \in [1..Len(packages) -> HostPackages]
    <3>1. packages = [n \in 1..Len(packages) |-> packages[n]]
      BY <1>1
    <3> QED
      BY <1>2, <2>1, <3>1
  <2> QED
    BY <2>1, <2>2, SeqDef
<1> QED
  BY <1>1, <1>2, <1>3 DEF Packaged, IsInjective

LEMMA MountedStay ==
  ASSUME PackagesMounted, at \in {"link", "command"}, Stays, mounted' = mounted
  PROVE  PackagesMounted'
BY OptionsStay DEF PackagesMounted, MountedReadOnly, PackagePath

LEMMA ChangeRootInv ==
  ASSUME EnvInv, ChangeRoot
  PROVE  EnvInv'
<1>1. EnvTyped /\ EnvInStep /\ LinkInv(packages) /\ PackagesMade
  BY DEF EnvInv
<1>2. /\ at = "packages" /\ left = <<>> /\ at' = "link" /\ link_packages(packages)
      /\ made' = made /\ mounted' = mounted /\ tmp' = tmp /\ starved' = starved
  BY DEF ChangeRoot
<1>3. Stays /\ state' = "linking"
  BY DEF ChangeRoot, link_packages, Stays
<1>4. packages \in Seq(PackageOption) /\ IsContents(roots, entries)
  BY <1>1, Options
<1>5. Done(packages) = DOMAIN packages
  BY <1>1, <1>2, <1>4, NoneLeft DEF PackagesMade
<1>6. \A n \in DOMAIN packages :
        /\ packages[n] \in HostPackages
        /\ MountedReadOnly(packages[n])
        /\ \A m \in DOMAIN packages : packages[n] = packages[m] => n = m
  BY <1>1, <1>2, <1>5 DEF PackagesMade
<1>7. PackagesMounted'
  BY <1>2, <1>3, <1>6, OptionsStay DEF PackagesMounted, MountedReadOnly, PackagePath
<1>8. Packaged
  <2>1. packages \in Seq(HostPackages)
    <3>1. Len(packages) \in Nat /\ DOMAIN packages = 1..Len(packages)
      BY <1>4, LenProperties
    <3>2. packages = [n \in 1..Len(packages) |-> packages[n]]
      BY <1>4
    <3>3. packages \in [1..Len(packages) -> HostPackages]
      BY <1>6, <3>1, <3>2
    <3> QED
      BY <3>1, <3>3, SeqDef
  <2> QED
    BY <1>4, <1>6, <2>1 DEF Packaged, IsInjective
<1>9. LinkInv(packages)'
  BY <1>1, <1>2, <1>3, <1>8, LinkStartInv
<1>10. EnvTyped'
  BY <1>1, <1>2, <1>3, EnvTypedStays DEF EnvTyped
<1>11. EnvInStep'
  BY <1>2, <1>3 DEF EnvInStep
<1> QED
  BY <1>2, <1>7, <1>9, <1>10, <1>11, EnvInvAt

LEMMA LinkPackagesInv ==
  ASSUME EnvInv, LinkPackages
  PROVE  EnvInv'
<1>1. EnvTyped /\ EnvInStep /\ LinkInv(packages) /\ PackagesMounted
  BY DEF EnvInv
<1>2. /\ at = "link" /\ at' = "link" /\ LinkStep
      /\ mounted' = mounted /\ tmp' = tmp /\ starved' = starved
  BY DEF LinkPackages
<1>3. state' # "idle" /\ UNCHANGED contents
  <2>1. state = "linking" /\ (state' = state \/ state' \in {"failed", "linked"}) /\ UNCHANGED contents
    BY <1>2 DEF LinkStep, link_package_tree, ReadEntry, Return, PackagesLinked, SkipHidden,
       EntryUnusable, Descend, DescendFails, LinkEntry, LinkEntryFails, Usable, Reads, LinkFails
  <2> QED
    BY <2>1
<1>4. Stays
  BY <1>3 DEF LinkPackages, Stays
<1>5. Packaged
  BY <1>1, <1>2, MountedIsPackaged
<1>6. LinkInv(packages)'
  BY <1>1, <1>2, <1>4, <1>5, LinkStepInv
<1>7. PackagesMounted'
  BY <1>1, <1>2, <1>4, MountedStay
<1>8. EnvTyped'
  BY <1>1, <1>2, <1>4, EnvTypedStays DEF EnvTyped
<1>9. EnvInStep'
  BY <1>2, <1>3 DEF EnvInStep
<1> QED
  BY <1>2, <1>6, <1>7, <1>8, <1>9, EnvInvAt

LEMMA LinkingEndsInv ==
  ASSUME EnvInv, LinkingFailed \/ RunCommand
  PROVE  EnvInv'
<1>1. EnvTyped /\ EnvInStep /\ LinkInv(packages) /\ PackagesMounted /\ at = "link"
  BY DEF EnvInv, LinkingFailed, RunCommand
<1>2. Stays /\ LinkInv(packages)' /\ state' = state /\ starved' = starved /\ tmp' = tmp
  <2>1. UNCHANGED <<asked, tmp, starved, linkVars>>
    BY DEF LinkingFailed, RunCommand, EnvFails
  <2>2. Stays /\ state' = state /\ starved' = starved /\ tmp' = tmp
    BY <2>1 DEF Stays, contents, linkVars
  <2> QED
    BY <1>1, <2>1, <2>2, LinkUntouched
<1>3. starved' \in BOOLEAN /\ tmp' \in BOOLEAN
  BY <1>1, <1>2 DEF EnvTyped
<1>4. CASE LinkingFailed
  <2>1. state = "failed" /\ at' = "failed" /\ mounted' = mounted
    BY <1>4 DEF LinkingFailed, EnvFails
  <2>2. Cause
    BY <1>1, <2>1 DEF LinkInv, Cause
  <2>3. EnvTyped'
    BY <1>1, <1>2, <1>3, <2>1, EnvTypedStays DEF EnvTyped
  <2>4. EnvInStep'
    BY <2>1 DEF EnvInStep
  <2> QED
    BY <1>2, <2>1, <2>2, <2>3, <2>4, CauseKept, EnvInvAt
<1>5. CASE RunCommand
  <2>1. state = "linked" /\ at' = "command" /\ mounted' = Mounted(<<"proc">>, "proc", FALSE)
    BY <1>5 DEF RunCommand
  <2>2. /\ \A q \in DOMAIN mounted' : mounted'[q].ro \in BOOLEAN
        /\ \A q \in DOMAIN mounted : q # <<"proc">> =>
              q \in DOMAIN mounted' /\ mounted'[q] = mounted[q]
    <3>1. FALSE \in BOOLEAN
      OBVIOUS
    <3> QED
      BY <1>1, <2>1, <3>1, MountedTyped
  <2>3. EnvTyped'
    BY <1>1, <1>2, <1>3, <2>1, <2>2, EnvTypedStays
  <2>4. EnvInStep'
    BY <1>2, <2>1 DEF EnvInStep
  <2>5. ASSUME NEW p, MountedReadOnly(p)
        PROVE  PackagePath(p) \in DOMAIN mounted' /\ mounted'[PackagePath(p)] = [from |-> p, ro |-> TRUE]
    <3>1. Len(PackagePath(p)) = 3 /\ Len(<<"proc">>) = 1
      BY DEF PackagePath
    <3>2. PackagePath(p) # <<"proc">>
      BY <3>1
    <3> QED
      BY <2>2, <2>5, <3>2 DEF MountedReadOnly
  <2>6. PackagesMounted'
    <3>1. packages' = packages /\ HostPackages' = HostPackages
      BY <1>2, OptionsStay
    <3> QED
      BY <1>1, <2>5, <3>1 DEF PackagesMounted, MountedReadOnly, PackagePath
  <2> QED
    BY <1>2, <2>1, <2>3, <2>4, <2>6, EnvInvAt
<1> QED
  BY <1>4, <1>5

(***************************************************************************)
(* A call that fails for a reason of its own.                              *)
(***************************************************************************)
LEMMA EnvStarvesInv ==
  ASSUME EnvInv, EnvStarves
  PROVE  EnvInv'
<1>1. EnvTyped /\ LinkInv(packages)
  BY DEF EnvInv
<1>2. /\ at' = "failed" /\ starved' = TRUE /\ tmp' = tmp
      /\ UNCHANGED <<asked, linkVars>>
      /\ \/ mounted' = mounted
         \/ mounted' = Mounted(PackagePath(Head(left)), Head(left), FALSE)
         \/ mounted' = Mounted(<<"mnt", Head(left).name>>, "host", FALSE)
  BY DEF EnvStarves, RemountFails, PackageRemountFails, HostRemountFails
<1>3. Stays /\ LinkInv(packages)'
  BY <1>1, <1>2, LinkUntouched DEF Stays, contents, linkVars
<1>4. \A path \in DOMAIN mounted' : mounted'[path].ro \in BOOLEAN
  <2>1. FALSE \in BOOLEAN
    OBVIOUS
  <2> QED
    BY <1>1, <1>2, <2>1, MountedTyped DEF EnvTyped
<1>5. EnvTyped'
  BY <1>1, <1>2, <1>3, <1>4, EnvTypedStays DEF EnvTyped
<1>6. EnvInStep'
  BY <1>2 DEF EnvInStep
<1> QED
  BY <1>2, <1>3, <1>5, <1>6, EnvInvAt

LEMMA EnvUntouched ==
  ASSUME EnvInv, UNCHANGED envVars
  PROVE  EnvInv'
<1>1. /\ EnvTyped /\ EnvInStep /\ MountsMade /\ PackagesMade /\ PackagesMounted /\ LinkInv(packages)
      /\ EnvFailsForCause
  BY DEF EnvInv
<1>2. /\ UNCHANGED <<asked, linkVars>> /\ at' = at /\ left' = left /\ made' = made
      /\ mounted' = mounted /\ tmp' = tmp /\ starved' = starved
  BY DEF envVars
<1>3. Stays /\ LinkInv(packages)' /\ state' = state
  BY <1>1, <1>2, LinkUntouched DEF Stays, contents, linkVars
<1>4. EnvTyped'
  BY <1>1, <1>2, <1>3, EnvTypedStays DEF EnvTyped
<1>5. EnvInStep'
  BY <1>1, <1>2, <1>3 DEF EnvInStep
<1>6. MountsMade'
  BY <1>1, <1>2, <1>3, OptionsStay DEF MountsMade, IsRestOf, Done
<1>7. PackagesMade'
  BY <1>1, <1>2, <1>3, OptionsStay DEF PackagesMade, IsRestOf, Done, MountedReadOnly, PackagePath
<1>8. PackagesMounted'
  BY <1>1, <1>2, <1>3, OptionsStay DEF PackagesMounted, MountedReadOnly, PackagePath
<1>9. at' = "failed" => Cause' \/ starved'
  BY <1>1, <1>2, <1>3, FailsForCauseIs, CauseKept
<1> QED
  BY <1>3, <1>4, <1>5, <1>6, <1>7, <1>8, <1>9, EnvInvAt

(***************************************************************************)
(* The container's steps keep withenv's invariant.                         *)
(***************************************************************************)
LEMMA EnvInitInv == CInit => EnvInv
<1> SUFFICES ASSUME CInit PROVE EnvInv
  OBVIOUS
<1>1. PICK s \in Scenarios : asked = s.asked /\ roots = s.roots /\ entries = s.entries
  BY DEF CInit
<1>2. IsScenario(asked, roots, entries)
  BY <1>1, ScenariosAssumption
<1>3. /\ at = "mkdtemp" /\ tmp = FALSE /\ starved = FALSE
      /\ mounted = [path \in {} |-> [from |-> "tmpfs", ro |-> FALSE]]
      /\ frames = <<>> /\ state = "idle"
  BY DEF CInit, EnvInit, LinkInit
<1>4. EnvTyped
  BY <1>2, <1>3 DEF EnvTyped
<1>5. LinkInv(packages)
  BY <1>3 DEF LinkInv
<1> QED
  BY <1>3, <1>4, <1>5 DEF EnvInv, EnvInStep, MountsMade, PackagesMade, PackagesMounted, EnvFailsForCause

LEMMA EnvNextInv == EnvInv /\ [CNext]_cvars => EnvInv'
<1> SUFFICES ASSUME EnvInv, [CNext]_cvars PROVE EnvInv'
  OBVIOUS
<1>1. CASE UNCHANGED envVars
  BY <1>1, EnvUntouched
<1>2. CASE EnvProceeds
  BY <1>2, RootStepsInv, BindMountInv, MountsBoundInv, BindPackageInv, ChangeRootInv,
     LinkPackagesInv, LinkingEndsInv DEF EnvProceeds
<1>3. CASE EnvStarves
  BY <1>3, EnvStarvesInv
<1> QED
  BY <1>1, <1>2, <1>3 DEF CNext, cvars, InitStep, WithenvStep, WithenvStarves, InitEnds

(***************************************************************************)
(* withenv's invariant holds in every behaviour of the container.          *)
(***************************************************************************)
THEOREM ContainerInvariant == CSpec => []EnvInv
BY EnvInitInv, EnvNextInv, PTL DEF CSpec

(***************************************************************************)
(* The types of the processes' state and of withenv's: newns never exits   *)
(* with anything but a status, and withenv reads only names that there     *)
(* are.                                                                    *)
(***************************************************************************)
THEOREM ContainerTypeCorrect == CSpec => []CTypeOK
<1>1. StatusInv /\ EnvInv => CTypeOK
  <2> SUFFICES ASSUME StatusInv, EnvInv PROVE CTypeOK
    OBVIOUS
  <2>1. ASSUME NEW n \in DOMAIN frames PROVE frames[n].unread \subseteq EntryNames
    <3>1. frames \in Seq(Activations)
      <4>1. CASE state = "linking"
        BY <4>1 DEF EnvInv, LinkInv, FramesTrue
      <4>2. CASE state # "linking"
        BY <4>2 DEF EnvInv, LinkInv
      <4> QED
        BY <4>1, <4>2
    <3>2. frames[n] \in Activations
      BY <3>1, ElementOfSeq, LenProperties
    <3> QED
      BY <3>2 DEF Activations
  <2> QED
    BY <2>1 DEF StatusInv, EnvInv, EnvTyped, LinkInv, CTypeOK
<1> QED
  BY <1>1, ProcessesInvariant, ContainerInvariant, PTL

(***************************************************************************)
(* Whatever the packages hold, and in whatever order they and their        *)
(* entries were linked, the command finds exactly their union.             *)
(***************************************************************************)
THEOREM CommandsSeeTheUnion == CSpec => []CommandSeesUnion
<1>1. EnvInv => CommandSeesUnion
  BY MountedIsPackaged, LinkedIsMerge DEF EnvInv, EnvInStep, CommandSeesUnion
<1> QED
  BY <1>1, ContainerInvariant, PTL

(***************************************************************************)
(* What a command runs from the packages is mounted read-only at the place *)
(* that the link to it names.                                              *)
(***************************************************************************)
THEOREM LinksAreReadOnly == CSpec => []LinksLeadToReadOnly
<1>1. EnvInv => LinksLeadToReadOnly
  <2> SUFFICES ASSUME EnvInv, at = "command", NEW path \in DOMAIN merged, merged[path] # Directory
               PROVE  /\ merged[path][1] \in ToSet(asked.packages)
                      /\ PackagePath(merged[path][1]) \in DOMAIN mounted
                      /\ mounted[PackagePath(merged[path][1])] = [from |-> merged[path][1], ro |-> TRUE]
    BY DEF LinksLeadToReadOnly
  <2>1. EnvTyped /\ PackagesMounted /\ LinkInv(packages) /\ state = "linked"
    BY DEF EnvInv, EnvInStep
  <2>2. IsMergeOf(packages)
    BY <2>1, MountedIsPackaged, LinkedIsMerge
  <2>3. path \in Paths
    BY <2>2 DEF IsMergeOf
  <2>4. MergedTrue(packages)
    BY <2>1 DEF LinkInv
  <2>5. Len(path) > 1
    <3>1. Len(path) \in 1..PathMax /\ path[1] \in ToSet(Trees) /\ path \in Seq(Names)
      BY <2>3, PathShape
    <3>2. Len(path) # 1
      <4>1. ASSUME Len(path) = 1 PROVE path = <<path[1]>>
        BY <3>1, <4>1
      <4> QED
        BY <2>4, <3>1, <4>1 DEF MergedTrue
    <3>3. \A k \in 1..PathMax : k # 1 => k > 1
      BY PathMaxAssumption
    <3> QED
      BY <3>1, <3>2, <3>3
  <2>6. PICK p \in ToSet(packages) : Linked(p, path)
    BY <2>4, <2>5 DEF MergedTrue
  <2>7. merged[path] = <<p>> \o path
    BY <2>6 DEF Linked
  <2>8. merged[path][1] = p
    <3>1. path \in Seq(Names)
      BY <2>3, PathShape
    <3>2. \A q, s : s \in Seq(Names) => (<<q>> \o s)[1] = q
      OBVIOUS
    <3> QED
      BY <2>7, <3>1, <3>2
  <2>9. p \in ToSet(asked.packages)
    BY <2>1, <2>6, Options
  <2>10. PICK n \in DOMAIN packages : packages[n] = p
    BY <2>6 DEF ToSet
  <2>11. MountedReadOnly(p)
    BY <2>1, <2>10 DEF PackagesMounted
  <2> QED
    BY <2>8, <2>9, <2>11 DEF MountedReadOnly
<1> QED
  BY <1>1, ContainerInvariant, PTL

(***************************************************************************)
(* Whatever the options and the packages, withenv fails only for one of    *)
(* the causes, unless a call has failed for a reason of its own.           *)
(***************************************************************************)
THEOREM FailuresOfWithenvHaveCause == CSpec => []EnvFailsForCause
BY ContainerInvariant, PTL DEF EnvInv

=============================================================================
