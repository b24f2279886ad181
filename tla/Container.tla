----------------------------- MODULE Container ------------------------------
(***************************************************************************)
(* A container as pkgbuild and bootstrap/stage3.sh start one: newns, whose *)
(* process 1 becomes withenv (by way of withpkgs, see WithPkgs) and then   *)
(* the command.                                                            *)
(***************************************************************************)
EXTENDS NewNs, WithEnv

CONSTANT Scenarios  \* initial choices of [asked, roots, entries]

ASSUME ScenariosAssumption ==
    \A s \in Scenarios : IsScenario(s.asked, s.roots, s.entries)

cvars == <<nsVars, envVars>>

CInit ==
    /\ \E s \in Scenarios : asked = s.asked /\ roots = s.roots /\ entries = s.entries
    /\ NewNsInit
    /\ EnvInit

\* withenv, while process 1 runs it.
InWithenv == proc["init"] = "command" /\ at # "command"

WithenvStep ==
    /\ InWithenv
    /\ EnvProceeds
    /\ UNCHANGED nsVars

WithenvStarves ==
    /\ InWithenv
    /\ EnvStarves
    /\ UNCHANGED nsVars

\* withenv returns EXIT_FAILURE, or the command ends in one way or another.
InitEnds ==
    /\ \/ at = "failed" /\ CommandEnds(1)
       \/ at = "command" /\ \E s \in {0, 1, Signal} : CommandEnds(s)
    /\ UNCHANGED envVars

InitStep == WithenvStep \/ (Exec /\ UNCHANGED envVars) \/ InitEnds

CNext ==
    \/ NewnsStep /\ UNCHANGED envVars
    \/ ChildStep /\ UNCHANGED envVars
    \/ InitStep
    \/ WithenvStarves
    \/ \E p \in Processes : Kill(p) /\ UNCHANGED envVars

\* Each process is scheduled; a signal need never come, and a command ends.
CFairness ==
    /\ WF_cvars(NewnsStep /\ UNCHANGED envVars)
    /\ WF_cvars(ChildStep /\ UNCHANGED envVars)
    /\ WF_cvars(InitStep)

CSpec == CInit /\ [][CNext]_cvars /\ CFairness

-----------------------------------------------------------------------------
ProcessesTyped ==
    /\ proc \in [Processes -> {"absent", "fork", "unshare", "exec", "wait", "command", "ended"}]
    /\ status \in [Processes -> Signal..255]
    /\ killed \subseteq Processes
    /\ ignored \in BOOLEAN

\* Types of the processes' and withenv's state.
CTypeOK ==
    /\ ProcessesTyped
    /\ at \in {"mkdtemp", "root", "work", "mounts", "packages", "link", "command", "failed"}
    /\ \A path \in DOMAIN mounted : mounted[path].ro \in BOOLEAN
    /\ state \in {"idle", "linking", "linked", "failed"}
    /\ \A n \in DOMAIN frames : frames[n].unread \subseteq EntryNames
    /\ tmp \in BOOLEAN /\ starved \in BOOLEAN

(***************************************************************************)
(* A command finds in /bin, /lib and /include the union of its packages,   *)
(* in whatever order packages and directory entries were linked.           *)
(***************************************************************************)
CommandSeesUnion == at = "command" => IsMergeOf(packages)

(***************************************************************************)
(* What a command runs from the packages it cannot change: a link in /bin, *)
(* /lib or /include leads into a package version that was asked for, and   *)
(* that is mounted read-only at the place the link names (also when the    *)
(* remount after the bind mount has failed).                               *)
(***************************************************************************)
LinksLeadToReadOnly ==
    at = "command" =>
        \A path \in DOMAIN merged : merged[path] # Directory =>
            LET p == merged[path][1] IN
            /\ p \in ToSet(asked.packages)
            /\ PackagePath(p) \in DOMAIN mounted
            /\ mounted[PackagePath(p)] = [from |-> p, ro |-> TRUE]

Repeats(list, Same(_, _)) == \E n, m \in DOMAIN list : n # m /\ Same(list[n], list[m])

(***************************************************************************)
(* Unless a call fails for a reason of its own, withenv fails only when    *)
(* its options name something twice or something that is not there, or     *)
(* its packages cannot be merged: two versions of one package, and         *)
(* packages that share directories, are all right.                         *)
(***************************************************************************)
EnvFailsForCause ==
    at = "failed" /\ ~starved =>
        \/ asked.work = "missing"
        \/ \E n \in DOMAIN mounts : ~mounts[n].there
        \/ Repeats(mounts, LAMBDA m, l : m.name = l.name)
        \/ ~(ToSet(packages) \subseteq HostPackages)
        \/ Repeats(packages, LAMBDA p, q : p = q)
        \/ CannotMerge(packages)

(***************************************************************************)
(* newns reports success only for a command that ran to success in a       *)
(* complete environment, whichever process a signal hits; and if none hit  *)
(* newns or its child, newns comes back only when process 1 is gone, and   *)
(* with that process's status, unless it could not be told that one.       *)
(***************************************************************************)
StatusPassedOn ==
    proc["newns"] = "ended" /\ status["newns"] # Signal =>
        /\ status["newns"] = 0 =>
            at = "command" /\ proc["init"] = "ended" /\ status["init"] = 0
        /\ killed \cap {"newns", "child"} = {} =>
            /\ proc["init"] \in {"absent", "ended"}
            /\ proc["init"] = "ended" /\ ~ignored =>
                status["newns"] = PassedOn(status["init"])

(***************************************************************************)
(* withenv comes to an end, also when a link in a package leads back to    *)
(* the directory it is in: PATH_MAX ends the recursion.                    *)
(***************************************************************************)
ContainerEnds ==
    (proc["init"] = "command") ~> (proc["init"] = "ended")

-----------------------------------------------------------------------------
(***************************************************************************)
(* "when we die, the mounts are garbage collected and the parent removes   *)
(* our root directory in /tmp" (withenv.c:288-289).                        *)
(***************************************************************************)
RootRemoved == (proc["newns"] = "ended" /\ proc["init"] = "ended") ~> ~tmp

=============================================================================
