------------------------------ MODULE Version -------------------------------
(***************************************************************************)
(* tools/version.c: which version strings are accepted and how two of them *)
(* compare, character by character as the code does it, and VersionKey, a  *)
(* reference for the order the comparison is meant to compute.             *)
(*                                                                         *)
(* A version is the sequence of its characters.  A part of it (upstream    *)
(* version, revision) is a pair of positions, because strtoull does not    *)
(* stop where the part does.                                               *)
(***************************************************************************)
EXTENDS Integers, Sequences, SequencesExt, FiniteSetsExt

CONSTANTS
    UIntMax,    \* UINT_MAX
    ULLongMax   \* ULLONG_MAX, also ULONG_MAX: 2^w - 1

ASSUME WidthAssumption ==
    /\ UIntMax \in Nat /\ ULLongMax \in Nat
    /\ UIntMax <= ULLongMax

\* Characters in ASCII order; NUL is what follows the last one.
NUL == ""
Ascii == <<NUL, " ", "+", "-", ".", "0", "1", "2", "3", "4", "5", "6", "7", "8", "9",
           ":", "M", "R", "a", "b", "c", "m", "~">>
Code == [c \in ToSet(Ascii) |-> CHOOSE n \in DOMAIN Ascii : Ascii[n] = c]

Digits == {"0", "1", "2", "3", "4", "5", "6", "7", "8", "9"}
Letters == {"M", "R", "a", "b", "c", "m"}
NonDigits == DOMAIN Code \ (Digits \cup {NUL})

CharAt(s, n) == IF n \in DOMAIN s THEN s[n] ELSE NUL

\* Where the run of characters of S that starts at n ends, at last at the latest.
RunEnd(s, n, last, S) ==
    CHOOSE m \in n..(last + 1) :
        /\ m = last + 1 \/ s[m] \notin S
        /\ \A k \in n..(m - 1) : s[k] \in S

Number(digits) ==
    LET value[n \in 0..Len(digits)] ==
            IF n = 0 THEN 0 ELSE 10 * value[n - 1] + (Code[digits[n]] - Code["0"])
    IN  value[Len(digits)]

-----------------------------------------------------------------------------
\* strtoul and strtoull at position n: blanks, sign, digits, saturation, negation.
SignAt(s, n) == RunEnd(s, n, Len(s), {" "})

DigitsAt(s, n) ==
    IF CharAt(s, SignAt(s, n)) \in {"+", "-"} THEN SignAt(s, n) + 1 ELSE SignAt(s, n)

Subject(s, n) ==
    LET first == DigitsAt(s, n)
    IN  SubSeq(s, first, RunEnd(s, first, Len(s), Digits) - 1)

strtoull(s, n) ==
    LET u == Number(Subject(s, n)) IN
    IF u > ULLongMax THEN ULLongMax
    ELSE IF CharAt(s, SignAt(s, n)) = "-" THEN (ULLongMax + 1 - u) % (ULLongMax + 1)
    ELSE u

\* The end pointer: nothing is consumed when there is no digit.
strtoullEnd(s, n) ==
    IF Subject(s, n) = <<>> THEN n ELSE DigitsAt(s, n) + Len(Subject(s, n))

-----------------------------------------------------------------------------
IsRevChar(c) == c \in Digits \cup Letters \cup {"+", ".", "~"}

IsUsChar(c, hasEpoch) == IsRevChar(c) \/ (hasEpoch /\ c = ":")

\* strchr: the first position of c, or 0.
FirstOf(s, c) == IF Contains(s, c) THEN Min({n \in DOMAIN s : s[n] = c}) ELSE 0

Failed == [ok |-> FALSE]

(***************************************************************************)
(* parse_coarse: [epoch:]upstream[-revision], split at the first ':' and   *)
(* the first '-'.  (The '-' that is_uschar allows before a revision is     *)
(* never asked about: the scan stops at the first one.  A '-' in the epoch *)
(* begins the revision, where the ':' is not allowed.)                     *)
(***************************************************************************)
parse_coarse(v) ==
    LET col == FirstOf(v, ":")
        hyp == FirstOf(v, "-")
        us == [first |-> col + 1, last |-> IF hyp # 0 THEN hyp - 1 ELSE Len(v)]
        rev == [first |-> us.last + 2, last |-> Len(v)]
        epochOk == /\ v[1] # "-"
                   /\ strtoullEnd(v, 1) = col
                   /\ Number(Subject(v, 1)) <= ULLongMax
                   /\ strtoull(v, 1) <= UIntMax
        revOk == \A n \in (hyp + 1)..Len(v) : IsRevChar(v[n])
        usOk == \A n \in us.first..us.last : IsUsChar(v[n], col # 0)
    IN
    IF (col # 0 => epochOk) /\ (hyp # 0 => revOk) /\ usOk
    THEN [ok    |-> TRUE,
          epoch |-> IF col # 0 THEN strtoull(v, 1) ELSE 0,
          us    |-> us,
          rev   |-> IF hyp # 0 THEN rev ELSE [first |-> Len(v) + 1, last |-> Len(v)]]
    ELSE Failed

version_validate(v) == parse_coarse(v).ok

Sign(x, y) == IF x < y THEN -1 ELSE IF x > y THEN 1 ELSE 0

\* Fault (against AnswerIsAntisymmetric): the tilde is looked for on the left only.
cmp_vercharOneSided(c1, c2) ==
    IF c1 = c2 THEN 0
    ELSE IF c1 = "~" THEN -1
    ELSE IF (c1 \in Letters) # (c2 \in Letters) THEN (IF c1 \in Letters THEN -1 ELSE 1)
    ELSE Sign(Code[c1], Code[c2])

\* Fault (against AgreesWithReference): letters are not put before the end.
cmp_vercharAscii(c1, c2) ==
    IF c1 = c2 THEN 0
    ELSE IF "~" \in {c1, c2} THEN (IF c1 = "~" THEN -1 ELSE 1)
    ELSE Sign(Code[c1], Code[c2])

\* Tilde first, then letters in ASCII order, then NUL and the rest in ASCII order.
cmp_verchar(c1, c2) ==
    IF c1 = c2 THEN 0
    ELSE IF "~" \in {c1, c2} THEN (IF c1 = "~" THEN -1 ELSE 1)
    ELSE IF (c1 \in Letters) # (c2 \in Letters) THEN (IF c1 \in Letters THEN -1 ELSE 1)
    ELSE Sign(Code[c1], Code[c2])

\* What a loop returns that stops at the first result that is not 0.
FirstDifference(results) ==
    LET differs == {n \in DOMAIN results : results[n] # 0}
    IN  IF differs = {} THEN 0 ELSE results[Min(differs)]

\* Character by character, the shorter string padded with NUL.
cmp_nondig(s, t) ==
    FirstDifference([n \in 1..(IF Len(s) > Len(t) THEN Len(s) ELSE Len(t)) |->
                        cmp_verchar(CharAt(s, n), CharAt(t, n))])

\* Compares what strtoull makes of the two strings, whatever the parts' lengths.
cmp_dig(v, n, w, m) == Sign(strtoull(v, n), strtoull(w, m))

\* Where the non-digits of the loop's iterations 1..count start in part p of v.
Starts(v, p, count) ==
    LET start[k \in 1..count] ==
            IF k = 1 THEN p.first
            ELSE RunEnd(v, RunEnd(v, start[k - 1], p.last, NonDigits), p.last, Digits)
    IN  start

\* One iteration, from positions n and m: a run of non-digits and one of digits.
CompareRuns(v, p, n, w, q, m) ==
    LET nd == RunEnd(v, n, p.last, NonDigits)
        md == RunEnd(w, m, q.last, NonDigits)
        letters == cmp_nondig(SubSeq(v, n, nd - 1), SubSeq(w, m, md - 1))
    IN  IF n > p.last /\ m > q.last THEN 0
        ELSE IF letters # 0 THEN letters
        ELSE cmp_dig(v, nd, w, md)

\* Until both parts are used up: an iteration uses up a character at least.
cmp_verstr(v, p, w, q) ==
    LET count == (p.last + 1 - p.first) + (q.last + 1 - q.first)
        n == Starts(v, p, count)
        m == Starts(w, q, count)
    IN  FirstDifference([k \in 1..count |-> CompareRuns(v, p, n[k], w, q, m[k])])

Result == [n \in {-1, 0, 1} |-> IF n = -1 THEN "LT" ELSE IF n = 0 THEN "EQ" ELSE "GT"]

version_cmp(v, w) ==
    LET a == parse_coarse(v)
        b == parse_coarse(w)
        us == cmp_verstr(v, a.us, w, b.us)
    IN  IF ~a.ok \/ ~b.ok THEN "FAILED"
        ELSE IF a.epoch # b.epoch THEN Result[Sign(a.epoch, b.epoch)]
        ELSE IF us # 0 THEN Result[us]
        ELSE Result[cmp_verstr(v, a.rev, w, b.rev)]

-----------------------------------------------------------------------------
(***************************************************************************)
(* Reference.  A part is read as the string of its runs; the order is      *)
(* lexicographic over ranks, padded with zeros, a rank being              *)
(*   - of a non-digit: its place in  ~ < letters < (end: 0) < others;      *)
(*   - of a run of digits: the zero that ends the run of non-digits before *)
(*     it, then its value, however large.                                  *)
(* The epoch is the number that its digits are, whatever parse_coarse says.*)
(***************************************************************************)
CharRank(c) == IF c = "~" THEN -2000
               ELSE IF c \in Letters THEN Code[c] - 1000
               ELSE Code[c]

IsRunStart(s, n) == s[n] \in Digits /\ (n = 1 \/ s[n - 1] \notin Digits)

PartKey(s) ==
    LET RanksAt(n) ==
            IF s[n] \notin Digits THEN <<CharRank(s[n])>>
            ELSE IF IsRunStart(s, n)
                 THEN <<0, Number(SubSeq(s, n, RunEnd(s, n, Len(s), Digits) - 1))>>
            ELSE <<>>
    IN  FlattenSeq([n \in DOMAIN s |-> RanksAt(n)])

RankAt(key, n) == IF n \in DOMAIN key THEN key[n] ELSE 0

KeyLess(k, l) ==
    \E n \in 1..(Len(k) + Len(l)) :
        /\ RankAt(k, n) < RankAt(l, n)
        /\ \A m \in 1..(n - 1) : RankAt(k, m) = RankAt(l, m)

VersionKey(v) ==
    LET p == parse_coarse(v)
        beforeColon == SubSeq(v, 1, FirstOf(v, ":") - 1)
        epoch == Number(SelectSeq(beforeColon, LAMBDA c : c \in Digits))
    IN  <<<<epoch>>, PartKey(SubSeq(v, p.us.first, p.us.last)),
          PartKey(SubSeq(v, p.rev.first, p.rev.last))>>

\* v is an older version than w.
Older(v, w) ==
    LET k == VersionKey(v)
        l == VersionKey(w)
        Same(n) == ~KeyLess(k[n], l[n]) /\ ~KeyLess(l[n], k[n])
    IN  \E n \in 1..3 : KeyLess(k[n], l[n]) /\ \A m \in 1..(n - 1) : Same(m)

=============================================================================
