------------------------------ MODULE MCSolve -------------------------------
(***************************************************************************)
(* Solve on three names, two of which can depend on each other and on      *)
(* themselves in a circle, with versions of every kind: "1" < "2",        *)
(* "2.0" equal to "2" though the strings differ, and "?" that version_cmp  *)
(* cannot parse.                                                           *)
(***************************************************************************)
EXTENDS Solve

CONSTANTS a, b, c, NULL

MCNames == {a, b, c}

MCVersions == {"1", "2", "2.0", "?"}

MCDependencyLists == {<<>>, <<c, a>>}

Rank == [v \in {"1", "2", "2.0"} |-> IF v = "1" THEN 1 ELSE 2]

MCVerCmp ==
    [p \in MCVersions \X MCVersions |->
        CASE p[1] = "?" \/ p[2] = "?"     -> "FAILED"
          [] Rank[p[1]] < Rank[p[2]]      -> "LT"
          [] Rank[p[1]] = Rank[p[2]]      -> "EQ"
          [] OTHER                        -> "GT"]

=============================================================================
