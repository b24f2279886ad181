---------------------------- MODULE MCPkgVerCmp -----------------------------
(***************************************************************************)
(* pkgvercmp on every pair of character strings up to length 3 over an     *)
(* alphabet with one or two characters of each kind the code tells apart,  *)
(* and on every triple from a pool that mixes them, with each option.      *)
(* Integers are 4 bits wide, so that two digits are enough to overflow.    *)
(***************************************************************************)
EXTENDS PkgVerCmp

Alphabet == {"-", ".", "1", "2", ":", "m", "~"}

Strings == UNION {[1..n -> Alphabet] : n \in 0..3}

Pool ==
    { <<>>, <<"1">>, <<"0", "1">>, <<"1", "m">>, <<"1", "~", "~">>, <<"1", ".", "1">>,
      <<"2", "1">>, <<"2", "2">>, <<"m", "-", "1">>, <<"m", "-", "2">>, <<"m", "-">>,
      <<"R", "2", "c", "-", "1">>, <<"1", ":", "1">>, <<"4", ":", "1">>, <<"+", "1", ":", "1">>,
      <<"1", "-", "1">>, <<"1", "-", "1", "~">>, <<"1", "~", "-", "2">>, <<"1", "0", "+">>,
      <<"1", ":", "-", "1">>, <<"1", ":", "-", "2">>, <<"1", ":", "1", "5">>, <<"1", ":">>,
      <<" ", "4", ":", "2">>, <<" ", "+", "1", ":", "2">>, <<" ", "-", "1", "5", ":", "1">> }

Flags == { <<>>, <<<<"-", "m">>>>, <<<<"-", "M">>>>, <<<<"-", "m", "M">>>>, <<<<"-", "b">>>> }

MCCommandLines ==
    [1..2 -> Strings]
        \cup {f \o ops : f \in Flags, ops \in UNION {[1..n -> Pool] : n \in 0..3}}
        \cup {ops \o f : f \in Flags, ops \in [1..1 -> Pool]}
        \cup {<<EndOfOptions>> \o ops : ops \in [1..2 -> Pool \cup {<<"-", "m">>}]}

=============================================================================
