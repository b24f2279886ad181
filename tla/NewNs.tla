------------------------------- MODULE NewNs --------------------------------
(***************************************************************************)
(* tools/newns.c: runs a command as process 1 of new namespaces.           *)
(*                                                                         *)
(* newns forks a child, which unshares its namespaces and forks again,     *)
(* because only its children are in the new PID namespace; the second      *)
(* child becomes the command.  Each parent waits for its child and exits   *)
(* with what it made of the child's status.  A signal may end any of the   *)
(* three at any time, and does not end its children.  newns may have been  *)
(* started with SIGCHLD ignored: then waitpid still waits for the child,   *)
(* but has no status to give and fails.                                    *)
(***************************************************************************)
EXTENDS Integers

Processes == {"newns", "child", "init"}

\* The status of a process that has not exited (WIFEXITED is false).
Signal == -1

VARIABLES
    proc,       \* where each process is
    status,     \* how it has ended: an exit status, or Signal
    killed,     \* history: the processes that a signal from outside has ended
    ignored     \* is SIGCHLD ignored, since before newns?

nsVars == <<proc, status, killed, ignored>>

NewNsInit ==
    /\ proc = [p \in Processes |-> IF p = "newns" THEN "fork" ELSE "absent"]
    /\ status = [p \in Processes |-> 0]
    /\ killed = {}
    /\ ignored \in BOOLEAN

Ends(p, s) ==
    /\ proc' = [proc EXCEPT ![p] = "ended"]
    /\ status' = [status EXCEPT ![p] = s]
    /\ UNCHANGED <<killed, ignored>>

\* EXIT_FAILURE
Fails(p) == Ends(p, 1)

-----------------------------------------------------------------------------
\* main: the first fork, after getuid and the options.
Fork ==
    /\ proc["newns"] = "fork"
    /\ \/ /\ proc' = [proc EXCEPT !["newns"] = "wait", !["child"] = "unshare"]
          /\ UNCHANGED <<status, killed, ignored>>
       \/ Fails("newns")

\* The child unshares, and without root maps its user and group; run_child follows.
Unshare ==
    /\ proc["child"] = "unshare"
    /\ \/ /\ proc' = [proc EXCEPT !["child"] = "fork"]
          /\ UNCHANGED <<status, killed, ignored>>
       \/ Fails("child")

\* The second fork.  When it fails, waitpid for pid -1 finds no child.
ForkInit ==
    /\ proc["child"] = "fork"
    /\ \/ /\ proc' = [proc EXCEPT !["child"] = "wait", !["init"] = "exec"]
          /\ UNCHANGED <<status, killed, ignored>>
       \/ Fails("child")

\* /proc is mounted, user and group are set, and the command is executed.
Exec ==
    /\ proc["init"] = "exec"
    /\ \/ /\ proc' = [proc EXCEPT !["init"] = "command"]
          /\ UNCHANGED <<status, killed, ignored>>
       \/ Fails("init")

CommandEnds(s) ==
    /\ proc["init"] = "command"
    /\ Ends("init", s)

\* Fault (against CTypeOK): the status is not decoded.
PassedOnRaw(s) == IF s = Signal THEN 9 ELSE 256 * s

\* Fault (against StatusPassedOn): WEXITSTATUS without WIFEXITED.
PassedOnUnasked(s) == IF s = Signal THEN 0 ELSE s

\* WIFEXITED(ret) ? WEXITSTATUS(ret) : -1, as an exit status.
PassedOn(s) == IF s = Signal THEN 255 ELSE s

\* waitpid fails: main decodes EXIT_FAILURE itself as though it were a wait status.
WaitFailed(parent) == IF parent = "newns" THEN 255 ELSE 1

\* waitpid returns, in main and in run_child.
WaitFor(parent, p) ==
    /\ proc[parent] = "wait"
    /\ proc[p] = "ended"
    /\ \/ ~ignored /\ Ends(parent, PassedOn(status[p]))
       \/ ignored /\ Ends(parent, WaitFailed(parent))

Kill(p) ==
    /\ proc[p] \notin {"absent", "ended"}
    /\ proc' = [proc EXCEPT ![p] = "ended"]
    /\ status' = [status EXCEPT ![p] = Signal]
    /\ killed' = killed \cup {p}
    /\ UNCHANGED ignored

NewnsStep == Fork \/ WaitFor("newns", "child")

ChildStep == Unshare \/ ForkInit \/ WaitFor("child", "init")

=============================================================================
