----------------------------- MODULE Resolution -----------------------------
(***************************************************************************)
(* What dependency resolution promises its clients, with nothing of how    *)
(* tools/solve.c does it: no list, no order, no callback.                  *)
(*                                                                         *)
(* A client asks for names.  Resolution then decides on one version per    *)
(* wanted name, once and for all, and wants what the decided versions      *)
(* depend on.  It answers "solved" only when every wanted name has been    *)
(* decided: what it hands out is closed under dependencies and holds       *)
(* nothing that nobody wanted.  It may give up at any time.                *)
(***************************************************************************)
CONSTANTS
    Names,          \* package names
    Candidates      \* what can be decided on for a name
    
CONSTANT DependenciesOf(_)  \* the names a candidate needs

VARIABLES
    wanted,     \* the names asked for, and those the decisions need
    decided,    \* a set of pairs <<name, candidate>>
    outcome     \* "asking", "resolving", "solved" or "failed"

vars == <<wanted, decided, outcome>>

DecidedNames == {d[1] : d \in decided}

Init ==
    /\ wanted = {}
    /\ decided = {}
    /\ outcome = "asking"

Ask(n) ==
    /\ outcome = "asking"
    /\ wanted' = wanted \cup {n}
    /\ UNCHANGED <<decided, outcome>>

Begin ==
    /\ outcome = "asking"
    /\ outcome' = "resolving"
    /\ UNCHANGED <<wanted, decided>>

Decide(n, c) ==
    /\ outcome = "resolving"
    /\ n \in wanted
    /\ n \notin DecidedNames
    /\ decided' = decided \cup {<<n, c>>}
    /\ wanted' = wanted \cup DependenciesOf(c)
    /\ UNCHANGED outcome

Finish ==
    /\ outcome = "resolving"
    /\ wanted = DecidedNames
    /\ outcome' = "solved"
    /\ UNCHANGED <<wanted, decided>>

GiveUp ==
    /\ outcome = "resolving"
    /\ outcome' = "failed"
    /\ UNCHANGED <<wanted, decided>>

Next ==
    \/ \E n \in Names : Ask(n)
    \/ Begin
    \/ \E n \in Names, c \in Candidates : Decide(n, c)
    \/ Finish
    \/ GiveUp

Spec == Init /\ [][Next]_vars

=============================================================================
