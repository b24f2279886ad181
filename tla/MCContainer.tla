---------------------------- MODULE MCContainer -----------------------------
(***************************************************************************)
(* Container with two packages of many shapes (files, directories, hidden  *)
(* and dangling entries, a link back to an enclosing directory), and with  *)
(* many options on packages of one shape.                                  *)
(***************************************************************************)
EXTENDS Container

MCHidden == {".h"}

p1 == [name |-> "p", version |-> "1"]
p2 == [name |-> "p", version |-> "2"]
q1 == [name |-> "q", version |-> "1"]

\* Partial functions from S to T.
Partial(S, T) == UNION {[D -> T] : D \in SUBSET S}

\* A package's directories: bin, and two that can be reached from it.
Bin(p) == IF p = p1 THEN "p1/bin" ELSE IF p = p2 THEN "p2/bin" ELSE "q1/bin"
Sub(p) == IF p = p1 THEN "p1/sub" ELSE IF p = p2 THEN "p2/sub" ELSE "q1/sub"
Deep(p) == IF p = p1 THEN "p1/deep" ELSE IF p = p2 THEN "p2/deep" ELSE "q1/deep"

\* What bin and the directory below it hold, apart from a hidden file in bin.  The
\* file in Deep has a path of PathMax.
Shapes(p) ==
    {[bin |-> b, sub |-> s] :
        b \in Partial({"x"}, {"file", "broken", Sub(p)}),
        s \in Partial({"y"}, {"file", Bin(p)})}
    \cup {[bin |-> [e \in {"x"} |-> Sub(p)], sub |-> [e \in {"y"} |-> Deep(p)]]}
    \cup {[bin |-> [e \in {"x", "y"} |-> IF e = "x" THEN Sub(p) ELSE "file"],
           sub |-> [e \in {"x", "y"} |-> "file"]]}

Entries(P, shape) ==
    [d \in UNION {{Bin(p), Sub(p), Deep(p)} : p \in P} |->
        LET p == CHOOSE r \in P : d \in {Bin(r), Sub(r), Deep(r)} IN
        IF d = Bin(p) THEN [e \in DOMAIN shape[p].bin \cup MCHidden |->
                                IF e \in MCHidden THEN "file" ELSE shape[p].bin[e]]
        ELSE IF d = Sub(p) THEN shape[p].sub
        ELSE [e \in {"y"} |-> "file"]]

\* Every package has bin; some have lib, too, the same as bin or not a directory.
Roots(P, lib) ==
    [p \in P |-> [t \in {"bin"} \cup (IF lib[p] = "none" THEN {} ELSE {"lib"}) |->
                    IF t = "bin" \/ lib[p] = "dir" THEN Bin(p) ELSE "file"]]

NoLib(P) == [p \in P |-> "none"]

Plain(pkgs) == [packages |-> pkgs, mounts |-> <<>>, work |-> "none"]

ShapeScenarios ==
    LET P == {p1, q1} IN
    {[asked   |-> Plain(<<p1, q1>>),
      roots   |-> Roots(P, NoLib(P)),
      entries |-> Entries(P, (p1 :> s) @@ (q1 :> t))] : s \in Shapes(p1), t \in Shapes(q1)}

\* p1 and p2 have the same file, q1 a directory that p1 has, too.
Small(p) ==
    [bin |-> [e \in {"x"} |-> Sub(p)],
     sub |-> [e \in {IF p = q1 THEN "y" ELSE "x"} |-> "file"]]

Mount(n, there, ro) == [name |-> n, there |-> there, ro |-> ro]

OptionScenarios ==
    LET P == {p1, p2, q1} IN
    {[asked   |-> [packages |-> pkgs, mounts |-> ms, work |-> w],
      roots   |-> Roots(P, lib),
      entries |-> Entries(P, [p \in P |-> Small(p)])] :
        pkgs \in UNION {[1..n -> P \cup {[name |-> "r", version |-> "1"]}] : n \in 0..2},
        ms \in {<<>>, <<Mount("m", TRUE, FALSE), Mount("n", TRUE, TRUE)>>,
                <<Mount("m", TRUE, TRUE), Mount("m", TRUE, FALSE)>>, <<Mount("m", FALSE, FALSE)>>},
        w \in {"none", "there", "missing"},
        lib \in {NoLib(P), [p \in P |-> IF p = p1 THEN "dir" ELSE IF p = p2 THEN "file" ELSE "none"]}}

MCScenarios == ShapeScenarios \cup OptionScenarios

=============================================================================
