----------------------------- MODULE Separators -----------------------------
(***************************************************************************)
(* libc's strchr, and the two halves of a string that the tools cut at the *)
(* character it finds.  A string is a sequence of tokens: the characters   *)
(* that the tools look for, and runs of all the others.                    *)
(***************************************************************************)
EXTENDS Integers, Sequences, SequencesExt

\* Position of the first such token, 0 when there is none: strchr.
FirstOf(text, tok) == SelectInSeq(text, LAMBDA t : t = tok)

Before(text, tok) == SubSeq(text, 1, FirstOf(text, tok) - 1)

After(text, tok) == SubSeq(text, FirstOf(text, tok) + 1, Len(text))

=============================================================================
