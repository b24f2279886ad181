---------------------------- MODULE MCBootstrap -----------------------------
(***************************************************************************)
(* The scripts' own lists and recipes, with one fault anywhere; and a      *)
(* short plan, with two.                                                   *)
(***************************************************************************)
EXTENDS Bootstrap, Recipes

Passes(list, pass) == [k \in DOMAIN list |-> <<list[k], pass>>]

Lists(s0, s1, s2, s3) ==
    0 :> s0 @@ 1 :> Passes(Append(s1, Tools), "stage1")
            @@ 2 :> Passes(s2, "stage2") @@ 3 :> Passes(s3, "stage3")

FullLists == Lists(stage0_calls, stage1_packages, stage2_packages, stage3_packages)

Sources(rs) == UNION {ToSet(rs[pkg].sources) : pkg \in DOMAIN rs}

FullPlan ==
    [recipes |-> AllRecipes, distfiles |-> Sources(AllRecipes), lists |-> FullLists, faults |-> 1]

\* What fetch.sh leaves in distfiles/, and no faults at all.
FetchedPlan == [FullPlan EXCEPT !.distfiles = fetched, !.faults = 0]

\* Names of real packages, with the least a plan needs of them.
ShortRecipes ==
    "gcc" :> Control(<<"gcc", "gcc-doc">>, <<"gcc.tgz", "gmp.tgz">>,
                     <<"mksh", "tar">>, <<"mksh", "gcc">>, <<"binutils">>)
    @@ "binutils" :> Control(<<"binutils">>, <<"binutils.tgz">>,
                             <<"mksh", "tar">>, <<"mksh", "gcc">>, <<>>)
    @@ "mksh" :> Control(<<"mksh", "sbase">>, <<"mksh.tgz">>,
                         <<"mksh", "tar">>, <<"mksh", "gcc">>, <<>>)
    @@ "tar" :> Control(<<"tar">>, <<"tar.tgz">>, <<"mksh", "tar">>, <<"mksh", "gcc">>, <<>>)
    @@ Tools :> Control(<<Tools>>, <<>>, <<"mksh">>, <<"gcc">>, <<>>)

ShortPlan ==
    [recipes |-> ShortRecipes, distfiles |-> Sources(ShortRecipes),
     lists |-> Lists(<<<<"gcc", "stage0.1">>, <<"gcc", "stage0.2">>>>,
                     <<"binutils", "gcc", "mksh">>, <<"tar">>, <<"gcc">>),
     faults |-> 2]

MCPlans == {FullPlan, ShortPlan}
MCFetchedPlans == {FetchedPlan}

=============================================================================
