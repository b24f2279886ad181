------------------------------ MODULE WithEnv -------------------------------
(***************************************************************************)
(* tools/withenv.c from its parsed options to the execution of the         *)
(* command: a root on a tmpfs in a directory made in /tmp, into which host *)
(* directories and package versions are mounted, and in which LinkTree's   *)
(* link_packages merges the packages.                                      *)
(*                                                                         *)
(* Paths in the new root are sequences of components.  The kernel's side   *)
(* of mkdir and mount is modelled as far as withenv depends on it: a path  *)
(* that is there already, a host directory that is not.                    *)
(***************************************************************************)
EXTENDS LinkTree

VARIABLES
    asked,      \* the options: packages, mounts (in the order given) and work
    at,         \* where run_child is
    left,       \* what is left of the list that is being mounted
    made,       \* directories made in the new root
    mounted,    \* what is mounted: path |-> [from, ro]
    tmp,        \* is the directory that mkdtemp made in /tmp?
    starved     \* history: a call failed for a reason that is not modelled

envVars == <<asked, at, left, made, mounted, tmp, starved, linkVars>>

HostPackages == DOMAIN roots

\* The lists of struct package and struct mount are built by prepending.
packages == Reverse(asked.packages)
mounts == Reverse(asked.mounts)

EnvInit ==
    /\ at = "mkdtemp"
    /\ left = <<>>
    /\ made = {}
    /\ mounted = [path \in {} |-> [from |-> "tmpfs", ro |-> FALSE]]
    /\ tmp = FALSE
    /\ starved = FALSE
    /\ LinkInit

-----------------------------------------------------------------------------
EnvFails ==
    /\ at' = "failed"
    /\ UNCHANGED <<asked, left, tmp, starved, linkVars>>

\* Fault (against LinksLeadToReadOnly): there is no remount.
MountedOnce(path, from, ro) ==
    [q \in DOMAIN mounted \cup {path} |->
        IF q = path THEN [from |-> from, ro |-> FALSE] ELSE mounted[q]]

\* mountbind_parts: a bind mount, and a remount if it is to be read-only.
Mounted(path, from, ro) ==
    [q \in DOMAIN mounted \cup {path} |->
        IF q = path THEN [from |-> from, ro |-> ro] ELSE mounted[q]]

mkdtemp ==
    /\ at = "mkdtemp"
    /\ tmp' = TRUE
    /\ at' = "root"
    /\ UNCHANGED <<asked, left, made, mounted, starved, linkVars>>

\* The tmpfs, its directories, and the host's /dev and /sys.
MakeRoot ==
    /\ at = "root"
    /\ mounted' = [path \in {<<>>, <<"dev">>, <<"sys">>} |->
                    [from |-> IF path = <<>> THEN "tmpfs" ELSE path[1], ro |-> FALSE]]
    /\ made' = {<<d>> : d \in {"dev", "proc", "sys", "tmp", "mnt", "packages"}}
    /\ at' = "work"
    /\ UNCHANGED <<asked, left, tmp, starved, linkVars>>

BindWork ==
    /\ at = "work"
    /\ \/ /\ asked.work = "none"
          /\ at' = "mounts" /\ left' = mounts
          /\ UNCHANGED <<made, mounted>>
          /\ UNCHANGED <<asked, tmp, starved, linkVars>>
       \/ /\ asked.work = "there"
          /\ made' = made \cup {<<"work">>}
          /\ mounted' = Mounted(<<"work">>, "work", FALSE)
          /\ at' = "mounts" /\ left' = mounts
          /\ UNCHANGED <<asked, tmp, starved, linkVars>>
       \/ /\ asked.work = "missing"
          /\ made' = made \cup {<<"work">>}
          /\ UNCHANGED mounted
          /\ EnvFails

\* One iteration of bind_mounts.
BindMount ==
    LET m == Head(left)
        path == <<"mnt", m.name>>
    IN
    /\ at = "mounts"
    /\ left # <<>>
    /\ made' = made \cup {path}
    /\ \/ /\ path \notin made /\ m.there
          /\ mounted' = Mounted(path, "host", m.ro)
          /\ left' = Tail(left)
          /\ UNCHANGED <<asked, at, tmp, starved, linkVars>>
       \/ /\ path \in made \/ ~m.there
          /\ UNCHANGED mounted
          /\ EnvFails

MountsBound ==
    /\ at = "mounts"
    /\ left = <<>>
    /\ at' = "packages"
    /\ left' = packages
    /\ UNCHANGED <<asked, made, mounted, tmp, starved, linkVars>>

PackagePath(p) == <<"packages", p.name, p.version>>

\* One iteration of bind_packages: another version of the package may be there.
BindPackage ==
    LET p == Head(left) IN
    /\ at = "packages"
    /\ left # <<>>
    /\ made' = made \cup {<<"packages", p.name>>, PackagePath(p)}
    /\ \/ /\ PackagePath(p) \notin made
          /\ p \in HostPackages
          /\ mounted' = Mounted(PackagePath(p), p, TRUE)
          /\ left' = Tail(left)
          /\ UNCHANGED <<asked, at, tmp, starved, linkVars>>
       \/ /\ PackagePath(p) \in made \/ p \notin HostPackages
          /\ UNCHANGED mounted
          /\ EnvFails

\* chroot and chdir; link_packages begins.
ChangeRoot ==
    /\ at = "packages"
    /\ left = <<>>
    /\ at' = "link"
    /\ link_packages(packages)
    /\ UNCHANGED <<asked, left, made, mounted, tmp, starved>>

LinkPackages ==
    /\ at = "link"
    /\ LinkStep
    /\ UNCHANGED <<asked, at, left, made, mounted, tmp, starved>>

LinkingFailed ==
    /\ at = "link"
    /\ state = "failed"
    /\ UNCHANGED <<made, mounted>>
    /\ EnvFails

\* /proc, the links in /usr, the working directory, and execvp.
RunCommand ==
    /\ at = "link"
    /\ state = "linked"
    /\ mounted' = Mounted(<<"proc">>, "proc", FALSE)
    /\ made' = made \cup {<<"usr">>}
    /\ at' = "command"
    /\ UNCHANGED <<asked, left, tmp, starved, linkVars>>

\* The first mount of mountbind_parts has succeeded and the second fails: in bind_mounts,
HostRemountFails ==
    LET m == Head(left)
        path == <<"mnt", m.name>>
    IN
    /\ at = "mounts"
    /\ left # <<>>
    /\ path \notin made /\ m.there /\ m.ro
    /\ made' = made \cup {path}
    /\ mounted' = Mounted(path, "host", FALSE)

\* and in bind_packages.
PackageRemountFails ==
    LET p == Head(left) IN
    /\ at = "packages"
    /\ left # <<>>
    /\ PackagePath(p) \notin made
    /\ p \in HostPackages
    /\ made' = made \cup {<<"packages", p.name>>, PackagePath(p)}
    /\ mounted' = Mounted(PackagePath(p), p, FALSE)

RemountFails == HostRemountFails \/ PackageRemountFails

\* Memory, permissions, a directory that cannot be read, a command that is not there.
EnvStarves ==
    /\ at \notin {"failed", "command"}
    /\ RemountFails \/ UNCHANGED <<made, mounted>>
    /\ at' = "failed"
    /\ starved' = TRUE
    /\ UNCHANGED <<asked, left, tmp, linkVars>>

EnvProceeds ==
    \/ mkdtemp
    \/ MakeRoot
    \/ BindWork
    \/ BindMount
    \/ MountsBound
    \/ BindPackage
    \/ ChangeRoot
    \/ LinkPackages
    \/ LinkingFailed
    \/ RunCommand

-----------------------------------------------------------------------------
(***************************************************************************)
(* What withenv may be asked for, and find.                                *)
(***************************************************************************)
PackageOption == [name : STRING, version : STRING]

MountOption == [name : STRING, there : BOOLEAN, ro : BOOLEAN]

IsScenario(options, rs, es) ==
    /\ options.packages \in Seq(PackageOption)
    /\ options.mounts \in Seq(MountOption)
    /\ options.work \in {"none", "there", "missing"}
    /\ IsContents(rs, es)

=============================================================================
