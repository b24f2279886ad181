----------------------------- MODULE PkgVerCmp ------------------------------
(***************************************************************************)
(* tools/pkgvercmp.c: compares two versions, or prints the smallest (-m)   *)
(* or largest (-M) of several, by one pass over the arguments.             *)
(***************************************************************************)
EXTENDS Version

CONSTANT CommandLines   \* the argument vectors to run with, without argv[0]

ASSUME CommandLinesAssumption ==
    CommandLines \subseteq Seq(Seq(DOMAIN Code \ {NUL}))

VARIABLES
    args,   \* the arguments, permuted by getopt: operands only, once parsed
    mode,   \* "CMP", "MIN" or "MAX"
    best,   \* i: position of the best operand so far
    next,   \* j: position of the operand to look at next
    out,    \* what has been printed
    pc      \* "parse", "validate", "compare", "done", "usage", "unsupported", "aborted"

vars == <<args, mode, best, next, out, pc>>

-----------------------------------------------------------------------------
(***************************************************************************)
(* getopt(argc, argv, "mM") as glibc does it: options are recognised       *)
(* anywhere before "--", operands are moved behind them, and a version     *)
(* that starts with '-' is taken for an option.                            *)
(***************************************************************************)
EndOfOptions == <<"-", "-">>

IsOption(arg) == Len(arg) > 1 /\ arg[1] = "-"

OptionsEnd(line) ==
    IF Contains(line, EndOfOptions)
    THEN Min({n \in DOMAIN line : line[n] = EndOfOptions})
    ELSE Len(line) + 1

OptionArgs(line) == SelectSeq(SubSeq(line, 1, OptionsEnd(line) - 1), IsOption)

OptionLetters(line) == FlattenSeq([n \in DOMAIN OptionArgs(line) |-> Tail(OptionArgs(line)[n])])

Operands(line) ==
    FlattenSeq([n \in DOMAIN line |->
        IF n = OptionsEnd(line) \/ (n < OptionsEnd(line) /\ IsOption(line[n]))
        THEN <<>> ELSE <<line[n]>>])

\* The last -m or -M given wins.
ModeOf(letters) ==
    IF letters = <<>> THEN "CMP" ELSE IF Last(letters) = "m" THEN "MIN" ELSE "MAX"

-----------------------------------------------------------------------------

Init ==
    /\ args \in CommandLines
    /\ mode = "CMP"
    /\ best = 1
    /\ next = 1
    /\ out = <<>>
    /\ pc = "parse"

parse_params ==
    LET letters == OptionLetters(args)
        operands == Operands(args)
        known == ToSet(letters) \subseteq {"m", "M"}
        counted == IF letters = <<>> THEN Len(operands) = 2 ELSE Len(operands) > 0
    IN
    /\ pc = "parse"
    /\ \/ /\ known /\ counted
          /\ mode' = ModeOf(letters)
          /\ args' = operands
          /\ pc' = "validate"
       \/ /\ ~(known /\ counted)
          /\ pc' = "usage"
          /\ UNCHANGED <<mode, args>>
    /\ UNCHANGED <<best, next, out>>

\* Fault (against NeverAborts): the last operand is not validated.
ValidateButLast ==
    LET checked == DOMAIN args \ {Len(args)} IN
    /\ pc = "validate"
    /\ \/ /\ \A n \in checked : version_validate(args[n])
          /\ pc' = "compare"
          /\ next' = 2
       \/ /\ \E n \in checked : ~version_validate(args[n])
          /\ pc' = "unsupported"
          /\ UNCHANGED next
    /\ UNCHANGED <<args, mode, best, out>>

\* The loop over version_validate: the first unsupported format ends the program.
Validate ==
    /\ pc = "validate"
    /\ \/ /\ \A n \in DOMAIN args : version_validate(args[n])
          /\ pc' = "compare"
          /\ next' = 2
       \/ /\ \E n \in DOMAIN args : ~version_validate(args[n])
          /\ pc' = "unsupported"
          /\ UNCHANGED next
    /\ UNCHANGED <<args, mode, best, out>>

Text == [r \in {"LT", "EQ", "GT"} |->
            IF r = "LT" THEN "less than" ELSE IF r = "EQ" THEN "equal" ELSE "greater than"]

Compare ==
    LET res == version_cmp(args[1], args[2]) IN
    /\ pc = "compare"
    /\ mode = "CMP"
    /\ \/ /\ res = "FAILED"
          /\ pc' = "aborted"
          /\ UNCHANGED out
       \/ /\ res # "FAILED"
          /\ pc' = "done"
          /\ out' = <<Text[res]>>
    /\ UNCHANGED <<args, mode, best, next>>

\* Fault (against PrintedIsExtreme): each operand is compared with the one before it.
ScanNeighbours ==
    LET res == version_cmp(args[next], args[next - 1])
        better == \/ res = "LT" /\ mode = "MIN"
                  \/ res = "GT" /\ mode = "MAX"
    IN
    /\ pc = "compare"
    /\ mode # "CMP"
    /\ next <= Len(args)
    /\ best' = IF better THEN next ELSE best
    /\ next' = next + 1
    /\ pc' = IF res = "FAILED" THEN "aborted" ELSE pc
    /\ UNCHANGED <<args, mode, out>>

\* One iteration of the loop for the smallest or largest operand.
Scan ==
    LET res == version_cmp(args[next], args[best])
        better == \/ res = "LT" /\ mode = "MIN"
                  \/ res = "GT" /\ mode = "MAX"
    IN
    /\ pc = "compare"
    /\ mode # "CMP"
    /\ next <= Len(args)
    /\ best' = IF better THEN next ELSE best
    /\ next' = next + 1
    /\ pc' = IF res = "FAILED" THEN "aborted" ELSE pc
    /\ UNCHANGED <<args, mode, out>>

PutBest ==
    /\ pc = "compare"
    /\ mode # "CMP"
    /\ next > Len(args)
    /\ out' = args[best]
    /\ pc' = "done"
    /\ UNCHANGED <<args, mode, best, next>>

Next == parse_params \/ Validate \/ Compare \/ Scan \/ PutBest

Spec == Init /\ [][Next]_vars

-----------------------------------------------------------------------------

(***************************************************************************)
(* The two "Unexpected: version_cmp failed" branches (pkgvercmp.c:48-50,   *)
(* 59-63) cannot be reached: what version_validate accepts, version_cmp    *)
(* compares, and no operand slips past the validation loop.                *)
(***************************************************************************)
NeverAborts == pc # "aborted"

\* A revision without a version before it: the loop over the empty upstream version
\* reads the '-' and the revision as a negative number, unless both are empty.
LacksUpstream(v) == CharAt(v, parse_coarse(v).us.first) = "-"

(***************************************************************************)
(* One pass is enough: no operand is smaller (-m), or larger (-M), than    *)
(* the one printed.  It holds only where version_cmp is transitive, which  *)
(* it is not on 1:-1, 1:-2 and 1:18446744073709551615: the first is older  *)
(* than the second by the revision, that is older than the third, which    *)
(* equals what strtoull makes of -1.                                       *)
(***************************************************************************)
PrintedIsExtreme ==
    pc = "done" /\ mode # "CMP" =>
        /\ out \in ToSet(args)
        /\ \/ \E n \in DOMAIN args : LacksUpstream(args[n])
           \/ \A n \in DOMAIN args :
                version_cmp(args[n], out) # (IF mode = "MIN" THEN "LT" ELSE "GT")

(***************************************************************************)
(* The answer about two versions does not depend on their order: swapped,  *)
(* they compare the other way round.                                       *)
(***************************************************************************)
AnswerIsAntisymmetric ==
    pc = "done" /\ mode = "CMP" =>
        version_cmp(args[2], args[1]) =
            CASE out = <<"less than">>    -> "GT"
              [] out = <<"equal">>        -> "EQ"
              [] out = <<"greater than">> -> "LT"

\* All numbers in v fit an unsigned long long.
NumbersFit(v) ==
    \A n, m \in DOMAIN v : (\A k \in n..m : v[k] \in Digits) =>
        Number(SubSeq(v, n, m)) <= ULLongMax

\* The text right before the '-' of a revision, if any, is a number.
NumberBeforeRevision(v) ==
    \A n \in DOMAIN v : v[n] = "-" => CharAt(v, n - 1) \in Digits

PrintedOrder ==
    out = <<Text[IF Older(args[1], args[2]) THEN "LT"
                 ELSE IF Older(args[2], args[1]) THEN "GT" ELSE "EQ"]>>

(***************************************************************************)
(* The answer is the one of the reference order for all versions whose     *)
(* numbers fit and whose upstream version ends in a digit.                 *)
(***************************************************************************)
AgreesWithReference ==
    /\ pc = "done" /\ mode = "CMP"
    /\ \A n \in DOMAIN args : NumbersFit(args[n]) /\ NumberBeforeRevision(args[n])
    => PrintedOrder

(***************************************************************************)
(* cmp_dig may ignore the lengths of its arguments, "because we know that  *)
(* there won't be digits after s1/2_len" (version.c:226-228): the same     *)
(* without the condition on what comes before a revision.                  *)
(***************************************************************************)
LengthsCanBeIgnored ==
    /\ pc = "done" /\ mode = "CMP"
    /\ \A n \in DOMAIN args : NumbersFit(args[n])
    => PrintedOrder

=============================================================================
