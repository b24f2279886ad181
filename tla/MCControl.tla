------------------------------ MODULE MCControl ------------------------------
(***************************************************************************)
(* An instance of ControlTools: one source control file in the form of     *)
(* those under packages/, every file that one edit makes of it, and every  *)
(* file of a few odd lines.                                                *)
(***************************************************************************)
EXTENDS ControlTools

MCWords ==
    {"Source", "Version", "Depends-Run", "Depends-Build", "Depends-Unpack", "Sources", "Package",
     "Built-From", "Other", "a", "b", "p", "q", "s", "1", "2", "-r1", "in", "out", "other"}

Field1(name, word) == <<name, ":", " ", word>>
List(name) == <<name, ":">>
Tab(word) == <<"\t", word>>

Template ==
    <<Field1("Source", "s"), Field1("Version", "1"),
      List("Depends-Run"), Tab("a"),
      List("Depends-Build"), Tab("b"), Tab("a"),
      <<>>,
      Field1("Package", "p"), List("Depends-Run"), Tab("b"),
      <<>>,
      Field1("Package", "q")>>

Odd ==
    {<<"#", "a">>, <<"\t", "#", "a">>, <<>>, <<" ">>, <<"a">>, <<"\t", "a", " ">>,
     Field1("Version", "2"), <<"Version", " ", ":", "2">>, List("Sources"), Field1("Sources", "a"),
     Field1("Depends-Run", "a"), Field1("Other", "a"), Field1("Package", "p"), List("Depends-Unpack")}

Inserted == {InsertAt(Template, k, l) : k \in 1..Len(Template) + 1, l \in Odd}
Deleted == {RemoveAt(Template, k) : k \in DOMAIN Template}
Swapped ==
    {[Template EXCEPT ![k] = Template[k + 1], ![k + 1] = Template[k]] : k \in 1..Len(Template) - 1}
Edited == Inserted \cup Deleted \cup Swapped

\* Lines that a small file is made of.
SourceLines ==
    {<<>>, <<"#", "a">>, Tab("a"), Field1("Source", "s"), Field1("Sources", "a"),
     List("Depends-Run"), Field1("Package", "p")}
BinaryLines ==
    {<<>>, <<"#", "a">>, Tab("a"), <<"\t", "a", " ", "1">>, List("Built-From"),
     <<"Source", ":", "s", " ", "1">>, Field1("Version", "1"), List("Package")}

Small(lines, n) == UNION {[1..k -> lines] : k \in 0..n}

In == <<"in">>
Out == <<"out">>
Opt(opt, text) == [opt |-> opt, arg |-> text]
o == Opt("-o", Out)
v == Opt("-v", <<"2">>)
V == Opt("-V", <<"-r1">>)
b1 == Opt("-b", <<"a", ",", "1">>)
b2 == Opt("-b", <<"b", ",", "2">>)

\* Options of gencontrol; the last few lines are mistakes.
Options ==
    {<<o>>, <<v, o>>, <<o, V>>, <<v, V, o>>, <<o, b1>>, <<b1, o, b2, V>>, <<>>,
     <<o, Opt("-o", <<"other">>)>>, <<Opt("-o", In)>>, <<o, Opt("-o", NULL)>>,
     <<o, Opt("-v", NULL)>>, <<o, Opt("-b", <<"a", " ", "b", ",", "1">>)>>,
     <<o, Opt("-b", <<"a">>)>>, <<b1, o, Opt("-x", NULL)>>, <<Opt("-x", NULL), o>>}

\* What an earlier gencontrol has left in the output file.
Old ==
    <<Field1("Package", "p"), Field1("Version", "1"), <<"Source", ":", " ", "s", " ", "1">>,
      List("Depends-Run"), Tab("a")>>

Scenario(p, options, ops, lines, r, n) ==
    [prog |-> p, todo |-> options, operands |-> ops, reader |-> r, faults |-> n,
     files |-> In :> lines @@ Out :> Old]

Generated ==
    {Scenario("gencontrol", options, <<In, <<"p">>>>, Template, r, 1) :
        options \in Options, r \in FieldOptions["pkgcontrol"]}
    \cup {Scenario("gencontrol", <<o>>, ops, Template, "-n", 1) :
        ops \in {<<In>>, <<In, <<"q">>>>, <<In, <<"other">>>>, <<<<"other">>, <<"p">>>>}}
    \cup {Scenario("gencontrol", <<o, V>>, <<In, <<name>>>>, lines, r, 0) :
        name \in {"p", "q"}, lines \in Edited, r \in {"-v", "-r", "-s"}}

Dump(p, options, lines, n) ==
    Scenario(p, [k \in DOMAIN options |-> Opt(options[k], NULL)], <<In, Out>>, lines, "-n", n)

Dumped ==
    {Dump("srccontrol", <<f>>, lines, 0) :
        f \in FieldOptions["srccontrol"], lines \in {Template} \cup Deleted}
    \cup {Dump("srccontrol", <<"-p">>, lines, 0) : lines \in Small(SourceLines, 4)}
    \cup {Dump("pkgcontrol", <<f>>, lines, 0) :
        f \in {"-n", "-s", "-b"}, lines \in Small(BinaryLines, 3)}
    \cup {Dump("pkgcontrol", options, Old, 1) :
        options \in {<<>>, <<"-n", "-r">>, <<"-n", "-u">>, <<"-v">>, <<"-b">>}}

MCScenarios == Generated \cup Dumped
=============================================================================
