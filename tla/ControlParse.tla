---------------------------- MODULE ControlParse ----------------------------
(***************************************************************************)
(* tools/controlparse.c: a control file, line by line, into paragraphs of  *)
(* fields of lines.                                                        *)
(*                                                                         *)
(* A line, without its newline, is a sequence of tokens: the characters    *)
(* that the tools look at, and words of all the others.                    *)
(***************************************************************************)
EXTENDS Separators

CONSTANT Words      \* runs of characters without a meaning of their own

ASSUME WordsAssumption == Words \subseteq STRING

Spaces == {" ", "\t"}

\* "(null)" is what fprintf has for a string that is not there.
Tokens == Words \cup Spaces \cup {"#", ":", ",", "(null)"}

Text == Seq(Tokens)

VARIABLES
    unread,     \* the lines that getline has still to return
    paras,      \* para_first ... para_last; a paragraph is a sequence of fields
    in_break,   \* the next text starts a paragraph
    status,     \* of parsing a file, see Statuses
    starved     \* history: an allocation has failed

parseVars == <<unread, paras, in_break, status, starved>>

Statuses == {"idle", "lines", "fields", "ok", "failed"}

Field == [name : Text, lines : Seq(Text)]

IsBlank(text) == \A k \in DOMAIN text : text[k] \in Spaces

Trim(text) ==
    IF IsBlank(text) THEN <<>>
    ELSE SubSeq(text, SelectInSeq(text, LAMBDA t : t \notin Spaces),
                      SelectLastInSeq(text, LAMBDA t : t \notin Spaces))

\* "#" counts in the first column only.
IsComment(line) == line # <<>> /\ line[1] = "#"

StartsField(line) == line[1] \notin Spaces

OnLast(seq, elt) == [seq EXCEPT ![Len(seq)] = elt]

-----------------------------------------------------------------------------
ParseInit ==
    /\ unread = <<>>
    /\ paras = <<>>
    /\ in_break = TRUE
    /\ status = "idle"
    /\ starved = FALSE

\* Fault (against ListsAreLinked): controlparse_init leaves in_break at zero.
ParseFileInBreak(lines) ==
    /\ unread' = lines
    /\ paras' = <<>>
    /\ in_break' = FALSE
    /\ status' = "lines"
    /\ UNCHANGED starved

\* controlparse_init, and the file is opened.
ParseFile(lines) ==
    /\ unread' = lines
    /\ paras' = <<>>
    /\ in_break' = TRUE
    /\ status' = "lines"
    /\ UNCHANGED starved

\* One call of controlparse_line.
line == Head(unread)

NextLine ==
    /\ status = "lines"
    /\ unread # <<>>
    /\ unread' = Tail(unread)
    /\ UNCHANGED starved

\* Fault (against ParsesByCounting): a comment separates paragraphs, as a blank line does.
CommentLineBreaks ==
    /\ NextLine
    /\ IsComment(line)
    /\ in_break' = TRUE
    /\ UNCHANGED <<paras, status>>

CommentLine ==
    /\ NextLine
    /\ IsComment(line)
    /\ UNCHANGED <<paras, in_break, status>>

BlankLine ==
    /\ NextLine
    /\ ~IsComment(line)
    /\ IsBlank(line)
    /\ in_break' = TRUE
    /\ UNCHANGED <<paras, status>>

TextLine ==
    /\ NextLine
    /\ ~IsComment(line)
    /\ ~IsBlank(line)

\* The paragraphs, the last of which the line goes to.
Opened == IF in_break THEN Append(paras, <<>>) ELSE paras

\* A field name up to the colon, and the field's first line, possibly empty.
FieldLine ==
    /\ TextLine
    /\ StartsField(line)
    /\ FirstOf(line, ":") # 0
    /\ LET field == [name |-> Before(line, ":"), lines |-> <<Trim(After(line, ":"))>>]
       IN  paras' = OnLast(Opened, Append(Last(Opened), field))
    /\ in_break' = FALSE
    /\ UNCHANGED status

\* An indented line belongs to the last field of the paragraph.
ContinuationLine ==
    /\ TextLine
    /\ ~StartsField(line)
    /\ Last(Opened) # <<>>
    /\ LET para == Last(paras)
           field == Last(para)
       IN  paras' = OnLast(paras, OnLast(para, [field EXCEPT !.lines = Append(@, Trim(line))]))
    /\ UNCHANGED <<in_break, status>>

\* No colon, or an indented line that starts a paragraph.
LineFails ==
    /\ TextLine
    /\ IF StartsField(line) THEN FirstOf(line, ":") = 0 ELSE Last(Opened) = <<>>
    /\ status' = "failed"
    /\ UNCHANGED <<paras, in_break>>

ParseEof ==
    /\ status = "lines"
    /\ unread = <<>>
    /\ status' = "fields"
    /\ UNCHANGED <<unread, paras, in_break, starved>>

\* malloc, getline or reading fails.
ParseStarves ==
    /\ status = "lines"
    /\ status' = "failed"
    /\ starved' = TRUE
    /\ UNCHANGED <<unread, paras, in_break>>

ParseStep == CommentLine \/ BlankLine \/ FieldLine \/ ContinuationLine \/ LineFails \/ ParseEof

-----------------------------------------------------------------------------
(***************************************************************************)
(* What controlparse_line and its callers take for granted of the lists:   *)
(* outside of a break there is a last paragraph to add to                  *)
(* (controlparse.c:63, 103), and no paragraph without a field, or field    *)
(* without a line, is ever left behind by a line that was taken.           *)
(***************************************************************************)
ListsAreLinked ==
    /\ in_break \/ paras # <<>>
    /\ \A p \in DOMAIN paras :
        /\ paras[p] # <<>>
        /\ \A f \in DOMAIN paras[p] : paras[p][f].lines # <<>>

=============================================================================
