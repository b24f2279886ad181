----------------------------- MODULE MCWithPkgs -----------------------------
(***************************************************************************)
(* WithPkgs with the version comparison of Version, on all repositories of *)
(* three packages with up to two versions each, and on a few repositories  *)
(* with many command lines.                                                *)
(***************************************************************************)
EXTENDS WithPkgs

CONSTANT NULL

V == INSTANCE Version WITH UIntMax <- 3, ULLongMax <- 15

v1 == <<"1">>
v2 == <<"1", ".", "2">>

\* A hidden name: repo_package_get does not look at it.
v0 == <<".", "1">>

\* Those on disk, and others to check what Solve assumes of version_cmp on.
MCVersions ==
    { v0, v1, v2, <<>>, <<"0", "1">>, <<"1", "m">>, <<"1", "~", "~">>, <<"1", "~">>,
      <<"2", "1">>, <<"2", "2">>, <<"m", "-", "1">>, <<"m", "-", "2">>, <<"m", "-">>,
      <<"m">>, <<"1", ":", "1">>, <<"4", ":", "1">>, <<"1", ":", "-", "1">>, <<"-", "2">>,
      <<"1", "-", "1">>, <<"1", "-", "1", "~">>, <<"1", "~", "-", "2">>, <<"R", "-", "2", "1">> }

MCVerCmp == [p \in MCVersions \X MCVersions |-> V!version_cmp(p[1], p[2])]

Single(S) == {<<tok>> : tok \in S}

a == <<"a">>
b == <<"b">>
c == <<"c">>
packages_dir == <<"/packages">>
other == <<"other">>
cmd == <<"cmd">>

OptionWords == Single({"-d", "-p", "-w", "--"}) \cup {a, other}

\* Values in the option's own word, and values that withenv takes apart.
AttachedWords ==
    { <<"-p", "b", ",", "1">>, <<"-d", "other">>, <<"-w", "a">>, <<"-c", "a">>, <<"-s", ",">>,
      <<"-m", "a", ":", "b">>, <<"-x", "a">>, <<"--", "a">>, <<>>, <<"-">> }

MountWords ==
    { <<"a", ":", "b">>, <<"a", ":", "b", ":", "ro">>, <<"a", ":", "b", ":", "rw">>,
      <<"a", ":", "b", ":", "a">> }

b_1 == <<"b", ",", "1">>

MCNames ==
    Single({"a", "b", "c", "-s", "-x", "-c", "-m", "cmd", "/packages"})
        \cup OptionWords \cup AttachedWords \cup MountWords \cup {b_1}

MCDependencyLists == {<<>>, <<b, c>>}

\* A package directory: up to two versions, each readable or not.
PackageDirs ==
    UNION {[vs -> MCDependencyLists \cup {Unreadable}] : vs \in SUBSET {v1, v2}}

Repositories == UNION {[ns -> PackageDirs] : ns \in SUBSET {a, b, c}}

RepositoryScenarios ==
    {[prog |-> "withpkgs",
      args |-> <<<<"-p">>, c, <<"-p">>, a, <<"--">>, cmd>>,
      disk |-> [d \in {packages_dir} |-> r]] : r \in Repositories}

\* a needs b and c; the directory "other" has no c.
SmallRepository(dir) ==
    [n \in {a, b, c} \ (IF dir = other THEN {c} ELSE {}) |->
        [v \in {v2, v0} |-> IF n = a THEN <<b, c>> ELSE <<>>]]

UpTo(n, S) == UNION {[1..m -> S] : m \in 0..n}

OptionPairs ==
    {<<<<o>>, v>> : o \in {"-d", "-w"}, v \in {a, packages_dir}}
        \cup {<<<<"-p">>, a>>, <<<<"-p">>, b>>, <<<<"-w">>, <<"--">>>>, <<<<"-c">>, a>>}

MountPairs == {<<<<"-m">>, v>> : v \in MountWords}

PassedPairs == MountPairs \cup {<<<<"-c">>, other>>, <<<<"-p">>, b_1>>, <<<<"-p">>, a>>}

AttachedOptions == {<<w>> : w \in AttachedWords}

\* Options for withpkgs, options for withenv and the command, with "--" in either place.
PassedLines ==
    {FlattenSeq(own) \o dashes[1] \o FlattenSeq(passed) \o dashes[2] \o <<cmd>> :
        own \in UpTo(1, {<<<<"-p">>, a>>, <<<<"-d">>, other>>}),
        dashes \in {<<<<>>, <<>>>>, <<<<<<"--">>>>, <<>>>>, <<<<>>, <<<<"--">>>>>>},
        passed \in UpTo(2, PassedPairs \cup AttachedOptions)}

WithpkgsLines ==
    UpTo(3, OptionWords) \cup PassedLines
        \cup {FlattenSeq(pairs) \o dashes \o tail :
                pairs \in UpTo(2, OptionPairs), dashes \in {<<>>, <<<<"--">>>>},
                tail \in UpTo(2, Single({"-p", "-d", "--", "a"}))}

PkgsolveLines ==
    UpTo(4, Single({"-d", "-s", "--", "a", "other"})) \cup UpTo(2, AttachedWords \cup {a})
        \cup {<<<<"-x">>>>, <<a, <<"-x">>>>, <<<<"--">>, <<"-x">>>>}

CommandLineScenarios ==
    {[prog |-> p, args |-> line, disk |-> [d \in {packages_dir, other} |-> SmallRepository(d)]] :
        <<p, line>> \in ({"withpkgs"} \X WithpkgsLines) \cup ({"pkgsolve"} \X PkgsolveLines)}

MCScenarios == RepositoryScenarios \cup CommandLineScenarios

=============================================================================
