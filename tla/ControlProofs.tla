--------------------------- MODULE ControlProofs ----------------------------
(***************************************************************************)
(* Theorems about the control file tools, for all files, options and       *)
(* words: the parser's lists are linked as its pointers expect, they hold  *)
(* what counting lines finds in the file, the record says what they hold,  *)
(* exactly the well-formed files are accepted, no complete one crashes a   *)
(* tool, what a failed gencontrol leaves is not taken for a control file,  *)
(* and what it prints otherwise is what is read of it.                     *)
(***************************************************************************)
EXTENDS ControlTools, DataLemmas, SequenceTheorems, FiniteSetTheorems, TLAPS

(***************************************************************************)
(* The shape of the parser's lists: what they hold does not matter.        *)
(***************************************************************************)
IsSequence(s) == \E S : s \in Seq(S)

GoodField(f) == DOMAIN f = {"name", "lines"} /\ IsSequence(f.lines) /\ f.lines # <<>>

GoodPara(p) == IsSequence(p) /\ p # <<>> /\ \A k \in DOMAIN p : GoodField(p[k])

GoodParas(ps) == IsSequence(ps) /\ \A k \in DOMAIN ps : GoodPara(ps[k])

LinkedInv ==
    /\ GoodParas(paras)
    /\ in_break \in BOOLEAN
    /\ in_break \/ paras # <<>>

(***************************************************************************)
(* Adding an element at the end of a list, whatever it holds.              *)
(***************************************************************************)
LEMMA AppendShape ==
  ASSUME NEW s, IsSequence(s), NEW e
  PROVE  /\ IsSequence(Append(s, e))
         /\ Len(s) \in Nat /\ DOMAIN s = 1..Len(s)
         /\ Len(Append(s, e)) = Len(s) + 1
         /\ DOMAIN Append(s, e) = 1..(Len(s) + 1)
         /\ \A k \in 1..Len(s) : Append(s, e)[k] = s[k]
         /\ Append(s, e)[Len(s) + 1] = e
         /\ Append(s, e) # <<>>
<1>1. PICK S : s \in Seq(S)
  BY DEF IsSequence
<1> DEFINE T == S \cup {e}
<1>2. s \in Seq(T) /\ e \in T
  BY <1>1, SeqMonotonic
<1> HIDE DEF T
<1>3. /\ Append(s, e) \in Seq(T)
      /\ Len(Append(s, e)) = Len(s) + 1
      /\ \A k \in 1..Len(s) : Append(s, e)[k] = s[k]
      /\ Append(s, e)[Len(s) + 1] = e
  BY <1>2, AppendProperties
<1>4. Len(s) \in Nat /\ DOMAIN s = 1..Len(s) /\ DOMAIN Append(s, e) = 1..Len(Append(s, e))
  BY <1>2, <1>3, LenProperties
<1>5. Append(s, e) # <<>>
  BY <1>3, <1>4, EmptySeq
<1> QED
  BY <1>3, <1>4, <1>5 DEF IsSequence

(***************************************************************************)
(* Replacing the last element of a list.                                   *)
(***************************************************************************)
LEMMA OnLastShape ==
  ASSUME NEW s, IsSequence(s), s # <<>>, NEW e
  PROVE  /\ IsSequence(OnLast(s, e))
         /\ Len(s) \in Nat \ {0} /\ DOMAIN s = 1..Len(s)
         /\ DOMAIN OnLast(s, e) = 1..Len(s)
         /\ \A k \in 1..(Len(s) - 1) : OnLast(s, e)[k] = s[k]
         /\ OnLast(s, e)[Len(s)] = e
         /\ OnLast(s, e) # <<>>
<1>1. PICK S : s \in Seq(S)
  BY DEF IsSequence
<1> DEFINE T == S \cup {e}
<1>2. s \in Seq(T) /\ e \in T
  BY <1>1, SeqMonotonic
<1> HIDE DEF T
<1>3. Len(s) \in Nat \ {0} /\ DOMAIN s = 1..Len(s)
  BY <1>2, LenProperties, EmptySeq
<1>4. /\ OnLast(s, e) \in Seq(T)
      /\ DOMAIN OnLast(s, e) = DOMAIN s
  BY <1>2, <1>3, ExceptSeq DEF OnLast
<1>5. /\ \A k \in 1..(Len(s) - 1) : OnLast(s, e)[k] = s[k]
      /\ OnLast(s, e)[Len(s)] = e
  BY <1>3 DEF OnLast
<1>6. OnLast(s, e) # <<>>
  BY <1>3, <1>4
<1> QED
  BY <1>3, <1>4, <1>5, <1>6 DEF IsSequence

(***************************************************************************)
(* A field added to a paragraph that has only good ones, if any.           *)
(***************************************************************************)
LEMMA AddField ==
  ASSUME NEW p, IsSequence(p), \A k \in DOMAIN p : GoodField(p[k]), NEW f, GoodField(f)
  PROVE  GoodPara(Append(p, f))
BY AppendShape DEF GoodPara

(***************************************************************************)
(* A good paragraph in the last place, whatever was there.                 *)
(***************************************************************************)
LEMMA ReplacePara ==
  ASSUME NEW ps, IsSequence(ps), ps # <<>>,
         \A k \in 1..(Len(ps) - 1) : GoodPara(ps[k]),
         NEW p, GoodPara(p)
  PROVE  GoodParas(OnLast(ps, p)) /\ OnLast(ps, p) # <<>>
BY OnLastShape DEF GoodParas

(***************************************************************************)
(* A line that starts a field, in a paragraph that it may open.            *)
(***************************************************************************)
LEMMA FieldLineInv ==
  ASSUME LinkedInv, FieldLine
  PROVE  LinkedInv'
<1> DEFINE f == [name |-> Before(line, ":"), lines |-> <<Trim(After(line, ":"))>>]
<1>1. paras' = OnLast(Opened, Append(Last(Opened), f)) /\ in_break' = FALSE
  BY DEF FieldLine
<1>2. GoodField(f)
  <2>1. f.lines = <<Trim(After(line, ":"))>>
    OBVIOUS
  <2>3. DOMAIN f = {"name", "lines"}
    OBVIOUS
  <2>2. f.lines \in Seq({Trim(After(line, ":"))}) /\ f.lines # <<>>
    BY <2>1
  <2> QED
    BY <2>2, <2>3 DEF GoodField, IsSequence
<1> HIDE DEF f
<1>3. /\ IsSequence(Opened) /\ Opened # <<>>
      /\ \A k \in 1..(Len(Opened) - 1) : GoodPara(Opened[k])
      /\ IsSequence(Last(Opened)) /\ \A k \in DOMAIN Last(Opened) : GoodField(Last(Opened)[k])
  <2>1. CASE in_break
    <3>1. Opened = Append(paras, <<>>)
      BY <2>1 DEF Opened
    <3>2. /\ IsSequence(Opened) /\ Opened # <<>>
          /\ Len(paras) \in Nat /\ DOMAIN paras = 1..Len(paras)
          /\ Len(Opened) = Len(paras) + 1
          /\ \A k \in 1..Len(paras) : Opened[k] = paras[k]
          /\ Opened[Len(paras) + 1] = <<>>
      BY <3>1, AppendShape DEF LinkedInv, GoodParas
    <3>3. \A k \in 1..(Len(Opened) - 1) : GoodPara(Opened[k])
      BY <3>2 DEF LinkedInv, GoodParas
    <3>4. Last(Opened) = <<>>
      BY <3>2 DEF Last
    <3>5. IsSequence(<<>>) /\ \A k \in DOMAIN <<>> : GoodField(<<>>[k])
      BY EmptySeq DEF IsSequence
    <3> QED
      BY <3>2, <3>3, <3>4, <3>5
  <2>2. CASE ~in_break
    <3>1. Opened = paras
      BY <2>2 DEF Opened, LinkedInv
    <3>2. IsSequence(paras) /\ paras # <<>> /\ \A k \in DOMAIN paras : GoodPara(paras[k])
      BY <2>2 DEF LinkedInv, GoodParas
    <3>3. Len(paras) \in Nat \ {0} /\ DOMAIN paras = 1..Len(paras)
      BY <3>2, OnLastShape
    <3>4. GoodPara(Last(paras))
      BY <3>2, <3>3 DEF Last
    <3> QED
      BY <3>1, <3>2, <3>3, <3>4 DEF GoodPara
  <2> QED
    BY <2>1, <2>2 DEF LinkedInv
<1>4. GoodPara(Append(Last(Opened), f))
  BY <1>2, <1>3, AddField
<1> QED
  BY <1>1, <1>3, <1>4, ReplacePara DEF LinkedInv

(***************************************************************************)
(* A line that continues the last field there is.                          *)
(***************************************************************************)
LEMMA ContinuationLineInv ==
  ASSUME LinkedInv, ContinuationLine
  PROVE  LinkedInv'
<1> DEFINE para1 == Last(paras)
           field1 == Last(para1)
           longer == [field1 EXCEPT !.lines = Append(@, Trim(line))]
<1>1. /\ paras' = OnLast(paras, OnLast(para1, longer))
      /\ UNCHANGED in_break
      /\ Last(Opened) # <<>>
  BY DEF ContinuationLine
<1>2. IsSequence(paras) /\ \A k \in DOMAIN paras : GoodPara(paras[k])
  BY DEF LinkedInv, GoodParas
<1>3. ~in_break
  <2>1. SUFFICES ASSUME in_break PROVE FALSE
    OBVIOUS
  <2>2. Opened = Append(paras, <<>>)
    BY <2>1 DEF Opened
  <2>3. /\ Len(paras) \in Nat /\ Len(Opened) = Len(paras) + 1
        /\ Opened[Len(paras) + 1] = <<>>
    BY <1>2, <2>2, AppendShape
  <2> QED
    BY <1>1, <2>3 DEF Last
<1>4. paras # <<>> /\ Len(paras) \in Nat \ {0} /\ DOMAIN paras = 1..Len(paras)
  BY <1>2, <1>3, OnLastShape DEF LinkedInv
<1>5. GoodPara(para1)
  BY <1>2, <1>4 DEF Last
<1>6. Len(para1) \in Nat \ {0} /\ DOMAIN para1 = 1..Len(para1)
  BY <1>5, OnLastShape DEF GoodPara
<1>7. GoodField(field1)
  BY <1>5, <1>6 DEF GoodPara, Last
<1>8. GoodField(longer)
  <2>1. IsSequence(Append(field1.lines, Trim(line))) /\ Append(field1.lines, Trim(line)) # <<>>
    BY <1>7, AppendShape DEF GoodField
  <2>2. DOMAIN field1 = {"name", "lines"}
    BY <1>7 DEF GoodField
  <2>3. longer.lines = Append(field1.lines, Trim(line)) /\ DOMAIN longer = {"name", "lines"}
    BY <2>2
  <2> QED
    BY <2>1, <2>3 DEF GoodField
<1> HIDE DEF para1, field1, longer
<1>9. GoodPara(OnLast(para1, longer))
  BY <1>5, <1>6, <1>8, OnLastShape DEF GoodPara
<1>10. GoodParas(OnLast(paras, OnLast(para1, longer)))
  BY <1>2, <1>4, <1>9, ReplacePara
<1>11. OnLast(paras, OnLast(para1, longer)) # <<>>
  BY <1>2, <1>4, OnLastShape
<1> QED
  BY <1>1, <1>10, <1>11 DEF LinkedInv

(***************************************************************************)
(* Every other step keeps the lists or empties them.                       *)
(***************************************************************************)
LEMMA LinkedStep ==
  ASSUME LinkedInv, [TNext]_tvars
  PROVE  LinkedInv'
<1>1. ASSUME UNCHANGED <<paras, in_break>> PROVE LinkedInv'
  BY <1>1 DEF LinkedInv
<1>2. CASE UNCHANGED tvars
  BY <1>1, <1>2 DEF tvars, controlVars, parseVars
<1>3. CASE OpenFile
  <2>1. PICK lines : ParseFile(lines)
    BY <1>3 DEF OpenFile, ParseControl
  <2> QED
    BY <2>1, EmptySeq DEF ParseFile, LinkedInv, GoodParas, IsSequence
<1>4. CASE ParserStep
  <2>1. CASE FieldLine
    BY <2>1, FieldLineInv
  <2>2. CASE ContinuationLine
    BY <2>2, ContinuationLineInv
  <2>3. CASE BlankLine
    BY <2>3 DEF BlankLine, LinkedInv
  <2>4. CASE CommentLine \/ LineFails \/ ParseEof
    BY <1>1, <2>4 DEF CommentLine, LineFails, ParseEof
  <2>5. CASE ParagraphsFail \/ ParseField \/ FieldFails \/ NextParagraph \/ LastParagraph
    BY <1>1, <2>5 DEF ParagraphsFail, ParseField, FieldFails, NextParagraph, LastParagraph,
                      ControlFails, parseVars
  <2> QED
    BY <1>4, <2>1, <2>2, <2>3, <2>4, <2>5 DEF ParserStep, ControlStep, ParseStep
<1>5. CASE ParserStarves
  BY <1>1, <1>5 DEF ParserStarves, Starves, FreesTwice, ParseStarves, ControlStarves, ControlFails
<1>6. CASE FieldOption \/ VersionOption \/ BuiltFromOption \/ OutputOption \/ OutputOptionFails
            \/ BuiltFromStarves \/ Usage \/ OptionsParsed
  BY <1>1, <1>6 DEF FieldOption, VersionOption, BuiltFromOption, OutputOption, OutputOptionFails,
                    BuiltFromStarves, Usage, OptionsParsed, Parses, Goes, controlVars, parseVars
<1>7. CASE OpenFails \/ ParsingFails \/ PrintField \/ PrintsNull \/ AllPrinted \/ NotFound
            \/ UnnamedBin
  BY <1>1, <1>7 DEF OpenFails, ParsingFails, PrintField, PrintsNull, AllPrinted, NotFound,
                    UnnamedBin, Goes, controlVars, parseVars
<1>8. CASE PrintControl \/ Returns \/ ReadBack \/ WriteCutShort \/ Killed
  BY <1>1, <1>8 DEF PrintControl, Returns, ReadBack, WriteCutShort, Killed, Goes, controlVars,
                    parseVars
<1> QED
  BY <1>2, <1>3, <1>4, <1>5, <1>6, <1>7, <1>8 DEF TNext, ToolStep, Fault

(***************************************************************************)
(* The lists that controlparse.c and control.c walk are linked as they     *)
(* take for granted, whatever the files say and wherever memory runs out:  *)
(* outside of a break there is a last paragraph, no paragraph is without a *)
(* field, and no field without a line.                                     *)
(***************************************************************************)
THEOREM ListsStayLinked == TSpec => []ListsAreLinked
<1>1. TInit => LinkedInv
  BY EmptySeq DEF TInit, ControlInit, ParseInit, LinkedInv, GoodParas, IsSequence
<1>2. LinkedInv /\ [TNext]_tvars => LinkedInv'
  BY LinkedStep
<1>3. LinkedInv => ListsAreLinked
  BY DEF LinkedInv, GoodParas, GoodPara, GoodField, ListsAreLinked
<1> QED
  BY <1>1, <1>2, <1>3, PTL DEF TSpec

-----------------------------------------------------------------------------
(***************************************************************************)
(* The inductive invariant behind FailureIsSeen, in named parts.           *)
(***************************************************************************)
OptsShaped == DOMAIN opts = DOMAIN NoOpts

\* There is one gencontrol in a behaviour, and it has not been judged yet.
MadeOnce ==
    /\ prog = "gencontrol" => made \in {NotMade, [NotMade EXCEPT !.torn = TRUE]}
    /\ made.end # "" => prog = "pkgcontrol"

\* A program whose output file could not be opened has failed at that option.
OutputFailed == opts.outf = NULL => stage = "1" /\ todo # <<>>

\* The output file is empty until gencontrol writes it, all at once, and from then on whole.
EmptyUntilWritten ==
    prog = "gencontrol" /\ opts.outf \notin {Stdout, NULL} =>
        /\ opts.outf \in DOMAIN files
        /\ ~made.torn /\ stage # "0" =>
                \/ stage # "closed" /\ files[opts.outf] = <<>>
                \/ /\ stage \in {"closed", "killed"}
                   /\ AskedFor([of |-> c, by |-> opts, operands |-> operands], files[opts.outf])

\* And if it has failed, the file is so for those who read it.
EmptyForReaders ==
    made.end \in Failures /\ made.by.outf # NULL /\ ~made.torn =>
        \/ operands = <<>> /\ ~Parsing
        \/ /\ operands = <<made.by.outf>>
           /\ made.end = "killed" /\ AskedFor(made, files[made.by.outf])
        \/ /\ operands = <<made.by.outf>>
           /\ made.by.outf \in DOMAIN files /\ files[made.by.outf] = <<>>
           /\ Parsing => unread = <<>> /\ paras = <<>> /\ para = 1 /\ status # "ok"

FailureInv == OptsShaped /\ MadeOnce /\ OutputFailed /\ EmptyUntilWritten /\ EmptyForReaders

(***************************************************************************)
(* No step of the parser makes a record of an empty file.                  *)
(***************************************************************************)
LEMMA NothingToParse ==
  ASSUME unread = <<>>, paras = <<>>, para = 1, status # "ok", ParserStep \/ ParserStarves
  PROVE  unread' = <<>> /\ paras' = <<>> /\ para' = 1 /\ status' # "ok"
<1>1. unread = <<>> /\ paras = <<>> /\ para = 1 /\ status # "ok"
  OBVIOUS
<1>2. Len(paras) = 0 /\ DOMAIN paras = {}
  BY <1>1
<1>3. ~NextLine
  BY <1>1 DEF NextLine
<1>4. ~AtField
  BY <1>1, <1>2 DEF AtField
<1>5. CASE ParserStep
  <2>1. (ParseEof /\ UNCHANGED para) \/ ParagraphsFail
    <3>1. ~NextParagraph /\ ~LastParagraph
      BY <1>1, <1>2 DEF NextParagraph, LastParagraph
    <3>2. ~ParseField /\ ~FieldFails
      BY <1>4 DEF ParseField, FieldFails
    <3>3. ~(CommentLine \/ BlankLine \/ FieldLine \/ ContinuationLine \/ LineFails)
      BY <1>3 DEF CommentLine, BlankLine, FieldLine, ContinuationLine, LineFails, TextLine
    <3> QED
      BY <1>5, <3>1, <3>2, <3>3 DEF ParserStep, ControlStep, ParseStep
  <2> QED
    BY <1>1, <2>1 DEF ParseEof, ParagraphsFail, ControlFails
<1>6. CASE ParserStarves
  BY <1>1, <1>4, <1>6 DEF ParserStarves, Starves, FreesTwice, ParseStarves, ControlStarves,
                          ControlFails
<1> QED
  BY <1>5, <1>6

\* What was asked of a gencontrol is the same in the records of its history.
LEMMA SameRequest ==
  ASSUME NEW m, NEW n, NEW lines, AskedFor(m, lines),
         m.of = n.of, m.by = n.by, m.operands = n.operands
  PROVE  AskedFor(n, lines)
BY DEF AskedFor

\* A program that has failed so does not go on.
LEMMA OutputStaysFailed ==
  ASSUME OptsShaped, OutputFailed, [TNext]_tvars
  PROVE  OutputFailed'
<1> USE DEF OptsShaped, OutputFailed
<1>1. ASSUME UNCHANGED opts, stage # "1" PROVE OutputFailed'
  BY <1>1
<1>2. CASE UNCHANGED tvars
  BY <1>2 DEF tvars, toolVars, cmdVars
<1>3. CASE FieldOption \/ VersionOption \/ BuiltFromOption \/ OutputOption
  <2>1. opts'.outf # NULL
    BY <1>3 DEF FieldOption, VersionOption, BuiltFromOption, OutputOption, Parses, NoOpts
  <2> QED
    BY <2>1
<1>4. CASE OutputOptionFails
  BY <1>4 DEF OutputOptionFails
<1>5. CASE BuiltFromStarves \/ Usage \/ OptionsParsed
  BY <1>1, <1>5 DEF BuiltFromStarves, Usage, OptionsParsed, Goes, cmdVars
<1>6. CASE OpenFile \/ OpenFails \/ ParserStep \/ ParsingFails \/ PrintField \/ PrintsNull
            \/ AllPrinted \/ ParserStarves
  BY <1>1, <1>6 DEF OpenFile, OpenFails, ParserStep, ParsingFails, PrintField, PrintsNull, AllPrinted,
                    ParserStarves, Goes, cmdVars, toolVars
<1>7. CASE NotFound \/ UnnamedBin \/ PrintControl \/ Returns \/ WriteCutShort \/ Killed
  BY <1>1, <1>7 DEF NotFound, UnnamedBin, PrintControl, Returns, WriteCutShort, Killed, Looking,
                    Goes, cmdVars, Ended, Failures
<1>8. CASE ReadBack
  <2>1. opts'.outf = Stdout /\ Stdout # NULL
    BY <1>8 DEF ReadBack, NoOpts, Stdout, NULL
  <2> QED
    BY <2>1
<1> QED
  BY <1>2, <1>3, <1>4, <1>5, <1>6, <1>7, <1>8 DEF TNext, ToolStep, Fault

\* No step of a program or a fault disturbs the invariant.
LEMMA FailureStep ==
  ASSUME FailureInv, [TNext]_tvars
  PROVE  FailureInv'
<1>1. OptsShaped /\ MadeOnce /\ OutputFailed /\ EmptyUntilWritten /\ EmptyForReaders
  BY DEF FailureInv
<1>2. OutputFailed'
  BY <1>1, OutputStaysFailed
<1>3. ASSUME OptsShaped', MadeOnce', EmptyUntilWritten', EmptyForReaders' PROVE FailureInv'
  BY <1>2, <1>3 DEF FailureInv
<1>4. ASSUME prog = "gencontrol"
      PROVE  made.end = "" /\ "" \notin Failures
  <2>1. NotMade.end = "" /\ [NotMade EXCEPT !.torn = TRUE].end = ""
    BY DEF NotMade
  <2> QED
    BY <1>1, <1>4, <2>1 DEF MadeOnce, Failures
<1>5. ASSUME prog = "gencontrol", prog' = prog, UNCHANGED made
      PROVE  MadeOnce' /\ EmptyForReaders'
  BY <1>1, <1>4, <1>5 DEF MadeOnce, EmptyForReaders
<1>6. ASSUME UNCHANGED <<prog, opts, operands, files, made, c>>,
             stage' \in {"0", "1", "segv", "killed", "operands"},
             stage \notin Ended, stage = "closed" => stage' \in {"0", "killed"}
      PROVE  FailureInv'
  <2>1. OptsShaped' /\ MadeOnce'
    BY <1>1, <1>6 DEF OptsShaped, MadeOnce
  <2>2. EmptyUntilWritten'
    BY <1>1, <1>6 DEF EmptyUntilWritten, Ended, Failures
  <2>3. EmptyForReaders'
    BY <1>1, <1>6 DEF EmptyForReaders, Parsing
  <2> QED
    BY <1>3, <2>1, <2>2, <2>3
<1>7. CASE UNCHANGED tvars
  BY <1>1, <1>7 DEF tvars, toolVars, cmdVars, controlVars, parseVars, FailureInv, OptsShaped,
                    MadeOnce, OutputFailed, EmptyUntilWritten, EmptyForReaders, Parsing
<1>8. CASE FieldOption \/ VersionOption \/ BuiltFromOption
  <2>1. /\ UNCHANGED <<prog, operands, files, made, stage>> /\ stage = "options"
        /\ DOMAIN opts' = DOMAIN opts /\ opts'.outf = opts.outf
    BY <1>1, <1>8 DEF FieldOption, VersionOption, BuiltFromOption, Parses, OptsShaped, NoOpts
  <2>2. OptsShaped' /\ MadeOnce'
    BY <1>1, <2>1 DEF OptsShaped, MadeOnce
  <2>3. EmptyUntilWritten'
    BY <1>1, <2>1 DEF EmptyUntilWritten
  <2>4. EmptyForReaders'
    BY <1>1, <2>1 DEF EmptyForReaders, Parsing
  <2> QED
    BY <1>3, <2>2, <2>3, <2>4
<1>9. CASE OutputOption
  <2>1. /\ UNCHANGED <<prog, operands, made, stage>> /\ stage = "options" /\ prog = "gencontrol"
        /\ DOMAIN opts' = DOMAIN opts /\ opts'.outf = Arg
        /\ Arg \in DOMAIN files' /\ files'[Arg] = <<>>
    BY <1>1, <1>9 DEF OutputOption, Parses, OptsShaped, NoOpts
  <2>2. OptsShaped' /\ EmptyUntilWritten'
    BY <1>1, <2>1 DEF OptsShaped, EmptyUntilWritten
  <2> QED
    BY <1>3, <1>5, <2>1, <2>2
<1>10. CASE OutputOptionFails
  <2>1. /\ UNCHANGED <<prog, made>> /\ prog = "gencontrol"
        /\ DOMAIN opts' = DOMAIN opts /\ opts'.outf = NULL
    BY <1>1, <1>10 DEF OutputOptionFails, OptsShaped, NoOpts
  <2>2. OptsShaped' /\ EmptyUntilWritten'
    BY <1>1, <2>1 DEF OptsShaped, EmptyUntilWritten
  <2> QED
    BY <1>3, <1>5, <2>1, <2>2
<1>11. CASE Usage \/ OptionsParsed \/ BuiltFromStarves
  BY <1>6, <1>11 DEF Usage, OptionsParsed, BuiltFromStarves, Goes, cmdVars, controlVars, Ended,
                     Failures
<1>12. CASE OpenFile
  <2>1. /\ UNCHANGED <<prog, opts, operands, files, made>>
        /\ stage = "operands" /\ stage' = "parse" /\ operands # <<>>
        /\ unread' = files[operands[1]] /\ paras' = <<>> /\ para' = 1 /\ status' = "lines"
    BY <1>12 DEF OpenFile, ParseControl, ParseFile, cmdVars
  <2>2. OptsShaped' /\ MadeOnce'
    BY <1>1, <2>1 DEF OptsShaped, MadeOnce
  <2>3. EmptyUntilWritten'
    BY <1>1, <2>1 DEF EmptyUntilWritten
  <2>4. <<made.by.outf>>[1] = made.by.outf
    OBVIOUS
  <2>5. EmptyForReaders'
    BY <1>1, <2>1, <2>4 DEF EmptyForReaders, Parsing
  <2> QED
    BY <1>3, <2>2, <2>3, <2>5
<1>13. ASSUME UNCHANGED <<prog, opts, operands, files, made>>, stage = "parse",
              stage' \in {"parse", "segv"}, ParserStep \/ ParserStarves
       PROVE  FailureInv'
  <2>1. ASSUME unread = <<>>, paras = <<>>, para = 1, status # "ok"
        PROVE  unread' = <<>> /\ paras' = <<>> /\ para' = 1 /\ status' # "ok"
    BY <1>13, <2>1, NothingToParse
  <2>2. OptsShaped' /\ MadeOnce'
    BY <1>1, <1>13 DEF OptsShaped, MadeOnce
  <2>3. EmptyUntilWritten'
    BY <1>1, <1>13 DEF EmptyUntilWritten
  <2>4. EmptyForReaders'
    BY <1>1, <1>13, <2>1 DEF EmptyForReaders, Parsing
  <2> QED
    BY <1>3, <2>2, <2>3, <2>4
<1>14. CASE ParserStep
  BY <1>13, <1>14 DEF ParserStep, toolVars, cmdVars
<1>15. CASE ParserStarves
  BY <1>13, <1>15 DEF ParserStarves, cmdVars
<1>16. CASE PrintField
  <2>1. /\ UNCHANGED <<prog, opts, files, made>> /\ prog # "gencontrol"
        /\ stage = "parse" /\ status = "ok" /\ stage' = "operands" /\ operands' = Tail(operands)
    BY <1>16 DEF PrintField
  <2>2. OptsShaped' /\ MadeOnce' /\ EmptyUntilWritten'
    BY <1>1, <2>1 DEF OptsShaped, MadeOnce, EmptyUntilWritten
  <2>3. Tail(<<made.by.outf>>) = <<>>
    OBVIOUS
  <2>4. EmptyForReaders'
    BY <1>1, <2>1, <2>3 DEF EmptyForReaders, Parsing
  <2> QED
    BY <1>3, <2>2, <2>4
<1>17. CASE OpenFails \/ ParsingFails \/ PrintsNull \/ AllPrinted \/ NotFound \/ UnnamedBin
            \/ Returns
  BY <1>6, <1>17 DEF OpenFails, ParsingFails, PrintsNull, AllPrinted, NotFound, UnnamedBin, Returns,
                     Looking, Goes, cmdVars, controlVars, Ended, Failures
<1>18. CASE Killed
  BY <1>6, <1>18 DEF Killed, Ended, Failures, cmdVars, controlVars
<1> DEFINE asked == [of |-> c, by |-> opts, operands |-> operands]
<1>19. CASE PrintControl
  <2>1. /\ UNCHANGED <<prog, opts, operands, made, c>> /\ prog = "gencontrol"
        /\ stage = "parse" /\ stage' = "closed"
    BY <1>19 DEF PrintControl, Looking, cmdVars, controlVars
  <2>2. ASSUME opts.outf \notin {Stdout, NULL}
        PROVE  opts.outf \in DOMAIN files' /\ AskedFor(asked', files'[opts.outf])
    <3>1. PICK k \in DOMAIN c.bins :
            /\ StopsAtBin(k) /\ c.bins[k].package # NULL
            /\ files' = [files EXCEPT ![opts.outf] = ControlFile(c, c.bins[k], opts)]
      BY <1>19, <2>2 DEF PrintControl
    <3>2. opts.outf \in DOMAIN files
      BY <1>1, <2>1, <2>2 DEF EmptyUntilWritten
    <3>3. /\ c.bins[k].package = operands[2]
          /\ \A j \in 1..(k - 1) : c.bins[j].package # operands[2]
      BY <3>1 DEF StopsAtBin
    <3>4. opts.outf \in DOMAIN files' /\ files'[opts.outf] = ControlFile(c, c.bins[k], opts)
      BY <3>1, <3>2
    <3>5. AskedFor(asked, files'[opts.outf])
      BY <3>3, <3>4 DEF AskedFor
    <3>6. asked' = asked
      BY <2>1
    <3> HIDE DEF asked
    <3> QED
      BY <3>4, <3>5, <3>6
  <2>3. OptsShaped' /\ EmptyUntilWritten'
    BY <1>1, <2>1, <2>2 DEF OptsShaped, EmptyUntilWritten
  <2> QED
    BY <1>3, <1>5, <2>1, <2>3
<1>20. CASE WriteCutShort
  <2>1. /\ UNCHANGED <<prog, opts, operands>> /\ prog = "gencontrol"
        /\ stage = "parse" /\ stage' = "closed"
        /\ made' = [made EXCEPT !.torn = TRUE] /\ DOMAIN files' = DOMAIN files
    BY <1>20 DEF WriteCutShort, Looking, cmdVars
  <2>2. made' = [NotMade EXCEPT !.torn = TRUE] /\ made'.end = "" /\ made'.torn
    BY <1>1, <2>1 DEF MadeOnce, NotMade
  <2>3. OptsShaped' /\ MadeOnce'
    BY <1>1, <2>1, <2>2 DEF OptsShaped, MadeOnce
  <2>4. EmptyUntilWritten'
    BY <1>1, <2>1, <2>2 DEF EmptyUntilWritten
  <2>5. EmptyForReaders'
    BY <2>2 DEF EmptyForReaders
  <2> QED
    BY <1>3, <2>3, <2>4, <2>5
<1>21. CASE ReadBack
  <2>1. /\ prog = "gencontrol" /\ prog' = "pkgcontrol" /\ opts.outf # Stdout
        /\ UNCHANGED files /\ opts' = NoOpts
        /\ stage \in Ended /\ stage' = "options" /\ operands' = <<Output>>
        /\ made' = [made EXCEPT !.by = opts, !.of = c, !.end = stage, !.operands = operands]
    BY <1>21 DEF ReadBack
  <2>2. /\ made'.end = stage /\ made'.by = opts /\ made'.torn = made.torn
        /\ made'.of = c /\ made'.operands = operands
    BY <1>1, <2>1 DEF MadeOnce, NotMade
  <2>3. OptsShaped' /\ MadeOnce' /\ EmptyUntilWritten'
    BY <2>1 DEF OptsShaped, MadeOnce, EmptyUntilWritten
  <2>4. EmptyForReaders'
    <3>1. SUFFICES ASSUME stage \in Failures, opts.outf # NULL, ~made.torn
                   PROVE  /\ operands' = <<opts.outf>> /\ stage' # "parse"
                          /\ \/ stage = "killed" /\ AskedFor(made', files[opts.outf])
                             \/ opts.outf \in DOMAIN files /\ files[opts.outf] = <<>>
      BY <2>1, <2>2 DEF EmptyForReaders, Parsing
    <3>2. /\ opts.outf \in DOMAIN files
          /\ \/ files[opts.outf] = <<>>
             \/ stage \in {"closed", "killed"} /\ AskedFor(asked, files[opts.outf])
      BY <1>1, <2>1, <3>1 DEF EmptyUntilWritten, Failures
    <3>3. asked.of = made'.of /\ asked.by = made'.by /\ asked.operands = made'.operands
      BY <2>2
    <3> HIDE DEF asked
    <3>4. AskedFor(asked, files[opts.outf]) => AskedFor(made', files[opts.outf])
      BY <3>3, SameRequest
    <3>5. operands' = <<opts.outf>> /\ stage' # "parse" /\ stage # "closed"
      BY <2>1, <3>1 DEF Output, Failures
    <3> QED
      BY <3>2, <3>4, <3>5
  <2> QED
    BY <1>3, <2>3, <2>4
<1> QED
  BY <1>7, <1>8, <1>9, <1>10, <1>11, <1>12, <1>14, <1>15, <1>16, <1>17, <1>18, <1>19, <1>20, <1>21
     DEF TNext, ToolStep, Fault

(***************************************************************************)
(* Whatever files and options there are: when a gencontrol that has opened *)
(* its output file fails, by its own exit, a crash or a kill, a reader     *)
(* takes the file for a package's only if it is, to its last line, the     *)
(* control file that was asked for; and that is so only after a kill       *)
(* between fclose and exit (gencontrol.c:22-104, 123).                     *)
(***************************************************************************)
THEOREM FailuresAreSeen == TSpec => []FailureIsSeen
<1>1. TInit => FailureInv
  <2>1. NotMade.end = ""
    BY DEF NotMade
  <2>2. NoOpts.outf = Stdout /\ Stdout # NULL
    BY DEF NoOpts, Stdout, NULL
  <2> QED
    BY <2>1, <2>2 DEF TInit, FailureInv, OptsShaped, MadeOnce, OutputFailed, EmptyUntilWritten,
                      EmptyForReaders, Failures
<1>2. FailureInv /\ [TNext]_tvars => FailureInv'
  BY FailureStep
<1>3. FailureInv => FailureIsSeen
  <2> SUFFICES ASSUME EmptyForReaders, made.end \in Failures, made.by.outf # NULL, ~made.torn,
                      Parsing, status = "ok"
               PROVE  made.end = "killed" /\ AskedFor(made, TheFile)
    BY DEF FailureInv, FailureIsSeen
  <2>1. operands = <<made.by.outf>> => TheFile = files[made.by.outf]
    BY DEF TheFile
  <2> QED
    BY <2>1 DEF EmptyForReaders
<1> QED
  BY <1>1, <1>2, <1>3, PTL DEF TSpec

(***************************************************************************)
(* The ranks of positions are numbers up to how many there are, and grow   *)
(* with the positions.                                                     *)
(***************************************************************************)
LEMMA RankTyped ==
  ASSUME NEW S \in SUBSET Nat, IsFiniteSet(S), NEW k \in Nat
  PROVE  /\ Cardinality(S) \in Nat
         /\ Rank(S, k) \in 0..Cardinality(S)
         /\ (\A j \in S : j <= k) => Rank(S, k) = Cardinality(S)
         /\ k \in S => Rank(S, k) \in 1..Cardinality(S)
<1> DEFINE U == {j \in S : j <= k}
<1>1. Cardinality(S) \in Nat
  BY FS_CardinalityType
<1>2. IsFiniteSet(U) /\ Cardinality(U) <= Cardinality(S)
  BY FS_Subset
<1>3. Cardinality(U) \in Nat
  BY <1>2, FS_CardinalityType
<1>4. (\A j \in S : j <= k) => U = S
  OBVIOUS
<1>5. k \in S => Cardinality(U) # 0
  BY <1>2, FS_EmptySet
<1> QED
  BY <1>1, <1>2, <1>3, <1>4, <1>5 DEF Rank

\* Later positions of a set have higher ranks.
LEMMA RankGrows ==
  ASSUME NEW S \in SUBSET Nat, IsFiniteSet(S), NEW i \in S, NEW k \in S, i < k
  PROVE  Rank(S, i) < Rank(S, k)
<1> DEFINE U == {j \in S : j <= i}
           W == {j \in S : j <= k}
<1>1. IsFiniteSet(U) /\ IsFiniteSet(W)
  BY FS_Subset
<1>2. Cardinality(U) \in Nat /\ Cardinality(W) \in Nat
  BY <1>1, FS_CardinalityType
<1>3. U \cup {k} \in SUBSET W /\ k \notin U
  <2>1. i \in Nat /\ k \in Nat /\ \A j \in S : j \in Nat
    OBVIOUS
  <2>2. ~(k <= i) /\ k <= k /\ \A j \in Nat : j <= i => j <= k
    BY <2>1
  <2> QED
    BY <2>1, <2>2
<1> HIDE DEF U, W
<1>4. Cardinality(U \cup {k}) = Cardinality(U) + 1 /\ IsFiniteSet(U \cup {k})
  BY <1>1, <1>3, FS_AddElement
<1>5. Cardinality(U \cup {k}) <= Cardinality(W)
  BY <1>1, <1>3, FS_Subset
<1> QED
  BY <1>2, <1>4, <1>5 DEF Rank, U, W

(***************************************************************************)
(* Each number up to how many positions there are is the rank of one.      *)
(***************************************************************************)
LEMMA RankOnto ==
  ASSUME NEW S \in SUBSET Nat, IsFiniteSet(S), NEW n \in 1..Cardinality(S)
  PROVE  \E k \in S : Rank(S, k) = n
<1> DEFINE T == 1..Cardinality(S)
           rank == [k \in S |-> Rank(S, k)]
<1>1. Cardinality(S) \in Nat
  BY FS_CardinalityType
<1>2. rank \in [S -> T]
  BY RankTyped
<1>3. \A i, k \in S : rank[i] = rank[k] => i = k
  <2>1. SUFFICES ASSUME NEW i \in S, NEW k \in S, i < k PROVE rank[i] # rank[k]
    OBVIOUS
  <2>2. Rank(S, i) < Rank(S, k) /\ Rank(S, i) \in Nat /\ Rank(S, k) \in Nat
    BY <1>1, <2>1, RankGrows, RankTyped
  <2> QED
    BY <2>2
<1>4. rank \in Injection(S, T)
  BY <1>2, <1>3 DEF Injection, IsInjective
<1>5. IsFiniteSet(T) /\ Cardinality(T) = Cardinality(S)
  BY <1>1, FS_Interval
<1> HIDE DEF rank, T
<1>6. rank \in Surjection(S, T)
  BY <1>4, <1>5, FS_Injection
<1>7. \E k \in S : rank[k] = n
  BY <1>6 DEF T, Surjection
<1> QED
  BY <1>7 DEF rank

(***************************************************************************)
(* The elements at some positions, in order.                               *)
(***************************************************************************)
LEMMA AtPositionsElements ==
  ASSUME NEW S \in SUBSET Nat, IsFiniteSet(S), NEW seq
  PROVE  /\ \A T : (\A k \in S : seq[k] \in T) => AtPositions(seq, S) \in Seq(T)
         /\ Cardinality(S) \in Nat
         /\ Len(AtPositions(seq, S)) = Cardinality(S)
         /\ \A n \in 1..Cardinality(S) : \E k \in S :
                Rank(S, k) = n /\ AtPositions(seq, S)[n] = seq[k]
         /\ \A k \in S : /\ Rank(S, k) \in 1..Cardinality(S)
                         /\ AtPositions(seq, S)[Rank(S, k)] = seq[k]
<1> DEFINE at(n) == CHOOSE k \in S : Rank(S, k) = n
<1>1. Cardinality(S) \in Nat
  BY FS_CardinalityType
<1>2. \A n \in 1..Cardinality(S) : at(n) \in S /\ Rank(S, at(n)) = n
  BY RankOnto
<1>3. \A n \in 1..Cardinality(S) : AtPositions(seq, S)[n] = seq[at(n)]
  BY DEF AtPositions
<1>4. ASSUME NEW k \in S
      PROVE  Rank(S, k) \in 1..Cardinality(S) /\ at(Rank(S, k)) = k
  <2>1. Rank(S, k) \in 1..Cardinality(S)
    BY RankTyped
  <2>2. at(Rank(S, k)) \in S /\ Rank(S, at(Rank(S, k))) = Rank(S, k)
    BY <1>2, <2>1
  <2> DEFINE l == at(Rank(S, k))
  <2> HIDE DEF l
  <2>3. l \in S /\ Rank(S, l) = Rank(S, k)
    BY <2>2 DEF l
  <2>5. ~(l < k)
    BY <2>1, <2>3, RankGrows
  <2>6. ~(k < l)
    BY <2>1, <2>3, RankGrows
  <2>4. l = k
    BY <2>3, <2>5, <2>6
  <2> QED
    BY <2>1, <2>4 DEF l
<1>5. AtPositions(seq, S) = [n \in 1..Cardinality(S) |-> seq[at(n)]]
  BY DEF AtPositions
<1> HIDE DEF at
<1>6. ASSUME NEW T, \A k \in S : seq[k] \in T
      PROVE  AtPositions(seq, S) \in Seq(T) /\ Len(AtPositions(seq, S)) = Cardinality(S)
  <2>1. AtPositions(seq, S) \in [1..Cardinality(S) -> T]
    BY <1>2, <1>5, <1>6
  <2> QED
    BY <1>1, <2>1, SeqDef, LenProperties
<1>7. Len(AtPositions(seq, S)) = Cardinality(S)
  <2>1. \A k \in S : seq[k] \in {seq[l] : l \in S}
    OBVIOUS
  <2> QED
    BY <1>6, <2>1
<1> QED
  BY <1>1, <1>2, <1>3, <1>4, <1>6, <1>7

\* Nothing is at no positions.
LEMMA AtNoPositions ==
  ASSUME NEW seq
  PROVE  AtPositions(seq, {}) = <<>>
<1>1. Cardinality({}) = 0
  BY FS_EmptySet
<1>2. AtPositions(seq, {}) \in [1..0 -> {}]
  BY <1>1 DEF AtPositions
<1> QED
  BY <1>2

(***************************************************************************)
(* Only what is there counts.                                              *)
(***************************************************************************)
LEMMA AtPositionsSame ==
  ASSUME NEW S \in SUBSET Nat, IsFiniteSet(S), NEW s, NEW t, \A k \in S : s[k] = t[k]
  PROVE  AtPositions(s, S) = AtPositions(t, S)
<1> DEFINE at(n) == CHOOSE k \in S : Rank(S, k) = n
<1>1. \A n \in 1..Cardinality(S) : at(n) \in S
  BY RankOnto
<1>2. \A n \in 1..Cardinality(S) : s[at(n)] = t[at(n)]
  BY <1>1
<1>3. [n \in 1..Cardinality(S) |-> s[at(n)]] = [n \in 1..Cardinality(S) |-> t[at(n)]]
  BY <1>2
<1> QED
  BY <1>3 DEF AtPositions

(***************************************************************************)
(* One more position, behind the others.                                   *)
(***************************************************************************)
LEMMA AtOneMore ==
  ASSUME NEW S \in SUBSET Nat, IsFiniteSet(S), NEW m \in Nat, \A k \in S : k < m, NEW t
  PROVE  /\ IsFiniteSet(S \cup {m})
         /\ Cardinality(S) \in Nat
         /\ Cardinality(S \cup {m}) = Cardinality(S) + 1
         /\ AtPositions(t, S \cup {m}) = Append(AtPositions(t, S), t[m])
<1> DEFINE U == S \cup {m}
           N == Cardinality(S)
           T == {t[k] : k \in U}
           A == AtPositions(t, S)
           B == AtPositions(t, U)
<1>1. m \notin S
  OBVIOUS
<1>2. IsFiniteSet(U) /\ N \in Nat /\ Cardinality(U) = N + 1
  BY <1>1, FS_AddElement, FS_CardinalityType
<1>3. U \in SUBSET Nat
  OBVIOUS
<1>4. \A k \in S : Rank(U, k) = Rank(S, k)
  <2>1. \A k \in S : {j \in U : j <= k} = {j \in S : j <= k}
    OBVIOUS
  <2> QED
    BY <2>1 DEF Rank
<1>5. Rank(U, m) = N + 1
  <2>1. \A j \in U : j <= m
    OBVIOUS
  <2> QED
    BY <1>2, <1>3, <2>1, RankTyped
<1>6. /\ A \in Seq(T) /\ Len(A) = N
      /\ \A k \in S : Rank(S, k) \in 1..N /\ A[Rank(S, k)] = t[k]
      /\ \A n \in 1..N : \E k \in S : Rank(S, k) = n /\ A[n] = t[k]
  <2>1. \A k \in S : t[k] \in T
    OBVIOUS
  <2> HIDE DEF T
  <2>2. /\ A \in Seq(T) /\ Len(A) = N
        /\ \A n \in 1..N : \E k \in S : Rank(S, k) = n /\ A[n] = t[k]
        /\ \A k \in S : Rank(S, k) \in 1..N /\ A[Rank(S, k)] = t[k]
    BY <2>1, AtPositionsElements
  <2> HIDE DEF A, N
  <2> QED
    BY <2>2
<1>7. /\ B \in Seq(T) /\ Len(B) = N + 1
      /\ \A k \in U : B[Rank(U, k)] = t[k]
  <2>1. \A k \in U : t[k] \in T
    OBVIOUS
  <2> HIDE DEF T, U
  <2>2. /\ \A X : (\A k \in U : t[k] \in X) => B \in Seq(X)
        /\ Len(B) = Cardinality(U)
        /\ \A k \in U : B[Rank(U, k)] = t[k]
    BY <1>2, <1>3, AtPositionsElements
  <2> QED
    BY <1>2, <2>1, <2>2
<1>8. B[N + 1] = t[m]
  BY <1>5, <1>7
<1>9. ASSUME NEW n \in 1..N PROVE B[n] = A[n]
  <2>1. PICK k \in S : Rank(S, k) = n /\ A[n] = t[k]
    BY <1>6
  <2>2. B[n] = t[k]
    BY <1>4, <1>7, <2>1
  <2> QED
    BY <2>1, <2>2
<1>10. t[m] \in T
  OBVIOUS
<1> HIDE DEF A, B, N, T, U
<1>11. /\ Append(A, t[m]) \in Seq(T) /\ Len(Append(A, t[m])) = N + 1
       /\ \A n \in 1..N : Append(A, t[m])[n] = A[n]
       /\ Append(A, t[m])[N + 1] = t[m]
  BY <1>6, <1>10, AppendProperties
<1>12. \A n \in 1..(N + 1) : B[n] = Append(A, t[m])[n]
  BY <1>2, <1>8, <1>9, <1>11
<1>13. B = Append(A, t[m])
  BY <1>7, <1>11, <1>12, SeqEqual
<1> QED
  BY <1>2, <1>13 DEF A, B, N, U

(***************************************************************************)
(* The lines of a field that are not empty, after one more.                *)
(***************************************************************************)
LEMMA NonEmptyElements ==
  ASSUME NEW T, NEW lines \in Seq(T)
  PROVE  /\ NonEmpty(lines) \in Seq(T \ {<<>>})
         /\ \A k \in 1..Len(lines) : lines[k] # <<>> =>
                \E n \in 1..Len(NonEmpty(lines)) : NonEmpty(lines)[n] = lines[k]
         /\ \A n \in 1..Len(NonEmpty(lines)) :
                \E k \in 1..Len(lines) : NonEmpty(lines)[n] = lines[k] /\ lines[k] # <<>>
<1> DEFINE S == {k \in DOMAIN lines : lines[k] # <<>>}
<1>1. Len(lines) \in Nat /\ DOMAIN lines = 1..Len(lines) /\ \A k \in 1..Len(lines) : lines[k] \in T
  BY LenProperties, ElementOfSeq
<1>2. S \in SUBSET Nat /\ S \in SUBSET (1..Len(lines))
  BY <1>1
<1>3. IsFiniteSet(S)
  <2>1. IsFiniteSet(1..Len(lines))
    BY <1>1, FS_Interval
  <2> HIDE DEF S
  <2> QED
    BY <1>2, <2>1, FS_Subset
<1>4. \A k \in S : lines[k] \in T \ {<<>>}
  BY <1>1
<1> DEFINE A == AtPositions(lines, S)
<1>5. /\ A \in Seq(T \ {<<>>}) /\ Len(A) = Cardinality(S)
      /\ \A n \in 1..Cardinality(S) : \E k \in S : A[n] = lines[k]
      /\ \A k \in S : Rank(S, k) \in 1..Cardinality(S) /\ A[Rank(S, k)] = lines[k]
  <2> HIDE DEF S
  <2> QED
    BY <1>2, <1>3, <1>4, AtPositionsElements
<1>6. NonEmpty(lines) = A
  BY DEF NonEmpty
<1> HIDE DEF A
<1> QED
  BY <1>1, <1>5, <1>6

\* parse_deplist skips an empty line and keeps any other one.
LEMMA NonEmptyAppend ==
  ASSUME NEW T, NEW lines \in Seq(T), NEW t \in T
  PROVE  NonEmpty(Append(lines, t)) =
            IF t = <<>> THEN NonEmpty(lines) ELSE Append(NonEmpty(lines), t)
<1> DEFINE n == Len(lines)
           more == Append(lines, t)
           S == {k \in DOMAIN lines : lines[k] # <<>>}
           U == {k \in DOMAIN more : more[k] # <<>>}
<1>1. n \in Nat /\ DOMAIN lines = 1..n
  BY LenProperties
<1>2. /\ DOMAIN more = 1..(n + 1) /\ \A k \in 1..n : more[k] = lines[k]
      /\ more[n + 1] = t
  BY AppendProperties, LenProperties
<1>3. S \in SUBSET Nat /\ IsFiniteSet(S) /\ \A k \in S : k < n + 1 /\ lines[k] = more[k]
  <2>1. S \in SUBSET (1..n)
    BY <1>1
  <2>2. IsFiniteSet(S)
    <3>1. IsFiniteSet(1..n)
      BY <1>1, FS_Interval
    <3> HIDE DEF S, n
    <3> QED
      BY <2>1, <3>1, FS_Subset
  <2> QED
    BY <1>1, <1>2, <2>2
<1>4. U = IF t = <<>> THEN S ELSE S \cup {n + 1}
  <2> HIDE DEF more, n
  <2> QED
    BY <1>1, <1>2
<1> HIDE DEF S, U, n
<1>5. AtPositions(lines, S) = AtPositions(more, S)
  BY <1>3, AtPositionsSame
<1>6. AtPositions(more, S \cup {n + 1}) = Append(AtPositions(more, S), more[n + 1])
  <2> HIDE DEF more
  <2> DEFINE m == n + 1
  <2>1. m \in Nat /\ \A k \in S : k < m
    BY <1>1, <1>3
  <2> HIDE DEF m
  <2>2. AtPositions(more, S \cup {m}) = Append(AtPositions(more, S), more[m])
    BY <1>3, <2>1, AtOneMore
  <2> QED
    BY <2>2 DEF m
<1> QED
  BY <1>2, <1>4, <1>5, <1>6 DEF NonEmpty, S, U

(***************************************************************************)
(* The least and the greatest of some positions in a sequence.             *)
(***************************************************************************)
LEMMA LeastPosition ==
  ASSUME NEW S \in SUBSET Nat, S # {}
  PROVE  Min(S) \in S /\ \A k \in S : Min(S) <= k
<1>1. \E x \in S : \A y \in S : x <= y
  BY LeastOf
<1> QED
  BY <1>1 DEF Min

\* A set of positions has a greatest one, and Max is that.
LEMMA GreatestPosition ==
  ASSUME NEW n \in Nat, NEW S \in SUBSET (0..n), S # {}
  PROVE  Max(S) \in S /\ \A k \in S : k <= Max(S)
<1> DEFINE U == {k \in 0..n : n - k \in S}
<1>1. U \in SUBSET Nat /\ U # {}
  <2>1. PICK k \in S : TRUE
    OBVIOUS
  <2>2. k \in 0..n
    OBVIOUS
  <2>3. n - k \in 0..n /\ n - (n - k) = k
    BY <2>2
  <2>4. n - k \in U
    BY <2>3
  <2>5. U \in SUBSET Nat
    OBVIOUS
  <2> QED
    BY <2>4, <2>5
<1>2. PICK u \in U : \A k \in U : u <= k
  <2> HIDE DEF U
  <2> QED
    BY <1>1, LeastOf
<1>3. n - u \in S
  BY <1>2
<1>4. \A k \in S : k <= n - u
  <2> SUFFICES ASSUME NEW k \in S PROVE k <= n - u
    OBVIOUS
  <2>1. k \in 0..n /\ n - k \in 0..n /\ n - (n - k) = k
    OBVIOUS
  <2>2. u <= n - k
    BY <1>2, <2>1
  <2> QED
    BY <1>2, <2>1, <2>2
<1> HIDE DEF U
<1>5. \E x \in S : \A y \in S : x >= y
  <2>1. n - u \in S /\ \A y \in S : n - u >= y
    BY <1>3, <1>4
  <2> QED
    BY <2>1
<1>6. Max(S) \in S /\ \A y \in S : Max(S) >= y
  BY <1>5 DEF Max
<1> QED
  BY <1>6

(***************************************************************************)
(* The first occurrence of a token, and the text around it.                *)
(***************************************************************************)
LEMMA FirstOfPosition ==
  ASSUME NEW T, NEW text \in Seq(T), NEW tok
  PROVE  /\ FirstOf(text, tok) \in 0..Len(text)
         /\ FirstOf(text, tok) # 0 => text[FirstOf(text, tok)] = tok
         /\ \A k \in 1..Len(text) : text[k] = tok =>
                FirstOf(text, tok) # 0 /\ FirstOf(text, tok) <= k
<1> DEFINE S == {k \in 1..Len(text) : text[k] = tok}
<1>1. FirstOf(text, tok) = IF S # {} THEN Min(S) ELSE 0
  BY DEF FirstOf, SelectInSeq
<1>2. S \in SUBSET Nat /\ Len(text) \in Nat
  BY LenProperties
<1>3. S # {} => Min(S) \in S /\ \A k \in S : Min(S) <= k
  <2> HIDE DEF S
  <2> QED
    BY <1>2, LeastPosition
<1>4. CASE S = {}
  <2>1. \A k \in 1..Len(text) : text[k] # tok
    BY <1>4
  <2> QED
    BY <1>1, <1>2, <1>4, <2>1
<1>5. CASE S # {}
  <2> DEFINE m == Min(S)
  <2>1. m \in 1..Len(text) /\ text[m] = tok
    BY <1>3, <1>5
  <2>2. \A k \in 1..Len(text) : text[k] = tok => m <= k
    BY <1>3, <1>5
  <2>3. FirstOf(text, tok) = m
    BY <1>1, <1>5
  <2> HIDE DEF m, S
  <2> QED
    BY <1>2, <2>1, <2>2, <2>3
<1> QED
  BY <1>4, <1>5

\* Both sides of a separator are text.
LEMMA AroundTyped ==
  ASSUME NEW T, NEW text \in Seq(T), NEW tok
  PROVE  /\ Before(text, tok) \in Seq(T) /\ After(text, tok) \in Seq(T)
         /\ FirstOf(text, tok) # 0 => Len(Before(text, tok)) = FirstOf(text, tok) - 1
<1> DEFINE n == FirstOf(text, tok)
<1>1. n \in 0..Len(text) /\ Len(text) \in Nat /\ \A k \in 1..Len(text) : text[k] \in T
  BY FirstOfPosition, LenProperties, ElementOfSeq
<1> HIDE DEF n
<1>2. CASE n = 0
  <2>1. /\ 1 \in Int /\ n - 1 \in Int /\ ~(1 <= n - 1) /\ n + 1 = 1
        /\ \A k \in 1..(n - 1) : text[k] \in T
    BY <1>1, <1>2
  <2>2. SubSeq(text, 1, n - 1) \in Seq(T)
    BY <2>1, SubSeqProperties
  <2>3. SubSeq(text, n + 1, Len(text)) \in Seq(T)
    BY <1>1, <1>2, RestOf
  <2> QED
    BY <1>2, <2>2, <2>3 DEF n, Before, After
<1>3. CASE n # 0
  <2>1. n - 1 \in 0..Len(text)
    BY <1>1, <1>3
  <2> DEFINE m == n - 1
  <2>2. SubSeq(text, 1, n - 1) \in Seq(T) /\ Len(SubSeq(text, 1, n - 1)) = n - 1
    <3>1. m \in 0..Len(text)
      BY <2>1
    <3> HIDE DEF m
    <3>2. SubSeq(text, 1, m) \in Seq(T) /\ Len(SubSeq(text, 1, m)) = m
      BY <3>1, PrefixOf
    <3> QED
      BY <3>2 DEF m
  <2>3. SubSeq(text, n + 1, Len(text)) \in Seq(T)
    BY <1>1, RestOf
  <2> QED
    BY <2>2, <2>3 DEF n, Before, After
<1> QED
  BY <1>2, <1>3

(***************************************************************************)
(* Trimming leaves nothing of a blank text, and of another what is between *)
(* the first and the last token that is no space.                          *)
(***************************************************************************)
LEMMA TrimText ==
  ASSUME NEW T, NEW text \in Seq(T)
  PROVE  /\ Trim(text) \in Seq(T)
         /\ IsBlank(text) => Trim(text) = <<>>
         /\ ~IsBlank(text) =>
                /\ Trim(text) # <<>> /\ Len(Trim(text)) > 0
                /\ Trim(text)[1] \notin Spaces
                /\ Trim(text)[Len(Trim(text))] \notin Spaces
<1> DEFINE S == {k \in 1..Len(text) : text[k] \notin Spaces}
           first == Min(S)
           last == Max(S)
           t == SubSeq(text, first, last)
<1>1. Len(text) \in Nat /\ DOMAIN text = 1..Len(text) /\ \A k \in 1..Len(text) : text[k] \in T
  BY LenProperties, ElementOfSeq
<1>2. CASE IsBlank(text)
  BY <1>2, EmptySeq DEF Trim
<1>3. CASE ~IsBlank(text)
  <2>1. S # {}
    BY <1>1, <1>3 DEF IsBlank
  <2>2. Trim(text) = t
    BY <1>3, <2>1 DEF Trim, SelectInSeq, SelectLastInSeq
  <2>3. S \in SUBSET Nat /\ S \in SUBSET (0..Len(text))
    BY <1>1
  <2>4. first \in S /\ \A k \in S : first <= k
    <3> HIDE DEF S
    <3> QED
      BY <2>1, <2>3, LeastPosition
  <2>5. last \in S
    <3> HIDE DEF S
    <3> QED
      BY <1>1, <2>1, <2>3, GreatestPosition
  <2>6. /\ first \in 1..Len(text) /\ last \in 1..Len(text) /\ first <= last
        /\ text[first] \notin Spaces /\ text[last] \notin Spaces
    BY <2>4, <2>5
  <2> HIDE DEF first, last, S
  <2>7. first \in Int /\ last \in Int /\ \A k \in first..last : text[k] \in T
    BY <1>1, <2>6
  <2>8. /\ t \in Seq(T) /\ Len(t) = last - first + 1
        /\ \A k \in 1..(last - first + 1) : t[k] = text[first + k - 1]
    BY <2>6, <2>7, SubSeqProperties
  <2>9. /\ Len(t) \in Nat /\ Len(t) > 0 /\ 1 \in 1..(last - first + 1)
        /\ first + 1 - 1 = first /\ first + (last - first + 1) - 1 = last
        /\ last - first + 1 \in 1..(last - first + 1)
    BY <2>6, <2>8
  <2>10. t # <<>>
    <3> HIDE DEF t
    <3>1. t = <<>> => Len(t) = 0
      OBVIOUS
    <3> QED
      BY <2>9, <3>1
  <2>11. t[1] = text[first]
    BY <2>8, <2>9
  <2>12. t[Len(t)] = text[last]
    BY <2>8, <2>9
  <2> HIDE DEF t
  <2> QED
    BY <1>3, <2>2, <2>6, <2>8, <2>9, <2>10, <2>11, <2>12
<1> QED
  BY <1>2, <1>3

\* A trimmed text with a space has something before it (parse_source).
LEMMA SpaceInside ==
  ASSUME NEW T, NEW text \in Seq(T), HasSpace(text), text[1] \notin Spaces
  PROVE  Before(text, " ") # <<>>
<1>1. /\ FirstOf(text, " ") # 0 /\ FirstOf(text, " ") \in 0..Len(text)
      /\ text[FirstOf(text, " ")] = " "
  BY FirstOfPosition DEF HasSpace
<1>2. FirstOf(text, " ") # 1
  BY <1>1 DEF Spaces
<1>3. Len(Before(text, " ")) = FirstOf(text, " ") - 1
  BY <1>1, AroundTyped
<1>4. Len(text) \in Nat
  BY LenProperties
<1> DEFINE n == FirstOf(text, " ")
           b == Before(text, " ")
<1>5. n \in 0..Len(text) /\ n # 1 /\ Len(b) = n - 1
  BY <1>1, <1>2, <1>3
<1> HIDE DEF n, b
<1>6. Len(b) # 0
  BY <1>4, <1>5
<1>7. b # <<>>
  BY <1>6
<1> QED
  BY <1>7 DEF b

(***************************************************************************)
(* Which fields there are.                                                 *)
(***************************************************************************)
LEMMA FieldTables ==
  /\ DOMAIN ControlFields = {"Depends-Run", "Built-From", "Package", "Version", "Source"}
  /\ ControlFields["Depends-Run"] = "run_depend" /\ ControlFields["Built-From"] = "built_froms"
  /\ ControlFields["Package"] = "package" /\ ControlFields["Version"] = "version"
  /\ ControlFields["Source"] = "src_package"
  /\ DOMAIN SourceFields =
        {"Depends-Build", "Depends-Unpack", "Depends-Run", "Sources", "Source", "Version"}
  /\ SourceFields["Depends-Build"] = "build_depend"
  /\ SourceFields["Depends-Unpack"] = "unpack_depend"
  /\ SourceFields["Depends-Run"] = "run_deps" /\ SourceFields["Sources"] = "sources"
  /\ SourceFields["Source"] = "source" /\ SourceFields["Version"] = "version"
  /\ DOMAIN BinFields = {"Depends-Run", "Package"}
  /\ BinFields["Depends-Run"] = "run_depend" /\ BinFields["Package"] = "package"
BY DEF ControlFields, SourceFields, BinFields

(***************************************************************************)
(* A field goes to one member of its record, and a member has one field.   *)
(***************************************************************************)
LEMMA OneFieldEach ==
  ASSUME NEW k, NEW p, NEW a \in DOMAIN FieldsOf(k, p), NEW b \in DOMAIN FieldsOf(k, p),
         FieldsOf(k, p)[a] = FieldsOf(k, p)[b]
  PROVE  a = b
<1>1. CASE FieldsOf(k, p) = ControlFields
  BY <1>1, FieldTables
<1>2. CASE FieldsOf(k, p) = SourceFields
  BY <1>2, FieldTables
<1>3. CASE FieldsOf(k, p) = BinFields
  BY <1>3, FieldTables
<1> QED
  BY <1>1, <1>2, <1>3 DEF FieldsOf

\* The last element of a list that is not empty.
LEMMA LastElement ==
  ASSUME NEW T, NEW s \in Seq(T), s # <<>>
  PROVE  /\ Len(s) \in Nat \ {0} /\ DOMAIN s = 1..Len(s)
         /\ Last(s) = s[Len(s)] /\ Last(s) \in T
<1>1. Len(s) \in Nat \ {0} /\ DOMAIN s = 1..Len(s)
  BY LenProperties, EmptySeq
<1>2. s[Len(s)] \in T
  BY <1>1, ElementOfSeq
<1> QED
  BY <1>1, <1>2 DEF Last

\* Replacing the last element keeps the others and the length.
LEMMA LastReplaced ==
  ASSUME NEW T, NEW s \in Seq(T), NEW e \in T
  PROVE  /\ OnLast(s, e) \in Seq(T) /\ Len(OnLast(s, e)) = Len(s)
         /\ \A k \in 1..(Len(s) - 1) : OnLast(s, e)[k] = s[k]
         /\ s # <<>> => OnLast(s, e)[Len(s)] = e
<1>1. Len(s) \in Nat /\ DOMAIN s = 1..Len(s)
  BY LenProperties
<1>2. CASE s = <<>>
  <2>1. OnLast(s, e) = s /\ Len(s) = 0
    BY <1>2 DEF OnLast
  <2>2. \A k \in 1..(Len(s) - 1) : FALSE
    BY <2>1
  <2>3. OnLast(s, e) \in Seq(T) /\ Len(OnLast(s, e)) = Len(s)
    BY <2>1
  <2>4. \A k \in 1..(Len(s) - 1) : OnLast(s, e)[k] = s[k]
    BY <2>2
  <2>5. s # <<>> => OnLast(s, e)[Len(s)] = e
    BY <1>2
  <2> QED
    BY <2>3, <2>4, <2>5
<1>3. CASE s # <<>>
  <2>1. Len(s) \in 1..Len(s)
    BY <1>1, <1>3, EmptySeq
  <2>2. OnLast(s, e) \in Seq(T) /\ Len(OnLast(s, e)) = Len(s)
    BY <1>1, <2>1, ExceptSeq DEF OnLast
  <2>3. \A k \in 1..Len(s) : OnLast(s, e)[k] = IF k = Len(s) THEN e ELSE s[k]
    BY <1>1 DEF OnLast
  <2>4. \A k \in 1..(Len(s) - 1) : k \in 1..Len(s) /\ k # Len(s)
    <3> DEFINE n == Len(s)
    <3>1. n \in Nat
      BY <1>1
    <3> HIDE DEF n
    <3>2. \A k \in 1..(n - 1) : k \in 1..n /\ k # n
      BY <3>1
    <3> QED
      BY <3>2 DEF n
  <2>5. \A k \in 1..(Len(s) - 1) : OnLast(s, e)[k] = s[k]
    BY <2>3, <2>4
  <2>6. OnLast(s, e)[Len(s)] = e
    BY <2>1, <2>3
  <2> QED
    BY <2>2, <2>5, <2>6
<1> QED
  BY <1>2, <1>3

(***************************************************************************)
(* Types, with what they need to be kept: the last record of a source is   *)
(* the one of the paragraph that is parsed, and main has an option by the  *)
(* time that it prints.                                                    *)
(***************************************************************************)
OptRecords ==
    [field : STRING \cup {""}, ver_mode : {"keep", "override", "append"}, ver_param : Text,
     outf : Text \cup {Stdout}, bf_extra : Seq(BuiltFroms)]

ParserTyped ==
    /\ unread \in Seq(Text) /\ paras \in Seq(Seq(Field))
    /\ in_break \in BOOLEAN /\ starved \in BOOLEAN /\ status \in Statuses

RecordTyped ==
    /\ para \in 1..(Len(paras) + 1) /\ field \in Nat \ {0}
    /\ \/ kind = "binary" /\ c \in Controls
       \/ kind = "source" /\ c \in SourceControls /\ Len(c.bins) = para - 1

ProgramTyped ==
    /\ prog \in Programs
    /\ stage \in {"options", "operands", "parse", "closed"} \cup Ended
    /\ todo \in Seq([opt : STRING, arg : Text])
    /\ operands \in Seq(Text) /\ reader \in STRING
    /\ opts \in OptRecords
    /\ \A f \in DOMAIN files : files[f] \in Seq(Text)
    /\ printed \in Seq(Text) /\ faults \in Nat

OptionGiven ==
    /\ opts.field \in {""} \cup FieldOptions[prog]
    /\ prog # "gencontrol" /\ stage \in {"operands", "parse"} => opts.field # ""
    /\ stage = "parse" =>
            kind = KindOf(prog) /\ operands # <<>> /\ operands[1] \in DOMAIN files

TypeInv == ParserTyped /\ RecordTyped /\ ProgramTyped /\ OptionGiven /\ OutputFailed

\* A string that has not been set is an empty text.
LEMMA NullTyped == <<>> \in Text /\ NULL \in Text
BY EmptySeq DEF Text, NULL

\* The programs start with the types they keep.
LEMMA TypeInit == TInit => TypeInv
<1> SUFFICES ASSUME TInit PROVE TypeInv
  OBVIOUS
<1>1. PICK s \in Scenarios :
        /\ prog = s.prog /\ todo = s.todo /\ operands = s.operands
        /\ files = s.files /\ reader = s.reader /\ faults = s.faults
  BY DEF TInit
<1>2. /\ opts = NoOpts /\ stage = "options" /\ printed = <<>>
      /\ unread = <<>> /\ paras = <<>> /\ in_break = TRUE /\ status = "idle" /\ starved = FALSE
      /\ kind = "source" /\ c = NoSource /\ para = 1 /\ field = 1
  BY DEF TInit, ControlInit, ParseInit
<1>3. ParserTyped
  BY <1>2, EmptySeq DEF ParserTyped, Statuses
<1>4. RecordTyped
  BY <1>2, NullTyped, EmptySeq DEF RecordTyped, NoSource, SourceControls
<1>5. opts \in OptRecords
  <2>1. <<>> \in Seq(BuiltFroms) /\ NULL \in Text /\ Stdout \in Text \cup {Stdout}
    BY NullTyped, EmptySeq
  <2>2. NoOpts \in OptRecords
    BY <2>1 DEF NoOpts, OptRecords
  <2> QED
    BY <1>2, <2>2
<1>6. ProgramTyped
  BY <1>1, <1>2, <1>5, ToolsAssumption, EmptySeq DEF ProgramTyped
<1>7. OptionGiven
  BY <1>2 DEF OptionGiven, NoOpts
<1>8. OutputFailed
  BY <1>2 DEF OutputFailed, NoOpts, Stdout, NULL
<1> QED
  BY <1>3, <1>4, <1>6, <1>7, <1>8 DEF TypeInv

(***************************************************************************)
(* The line that is read, and the parts of it that are kept.               *)
(***************************************************************************)
LEMMA LineTyped ==
  ASSUME TypeInv, NextLine
  PROVE  /\ line \in Text /\ unread' \in Seq(Text)
         /\ \A tok : Before(line, tok) \in Text /\ Trim(After(line, tok)) \in Text
         /\ Trim(line) \in Text
<1>1. unread \in Seq(Text) /\ unread # <<>> /\ unread' = Tail(unread)
  BY DEF TypeInv, ParserTyped, NextLine
<1>2. line \in Text /\ unread' \in Seq(Text)
  BY <1>1, HeadAndTail DEF line
<1>3. \A tok : Before(line, tok) \in Text /\ After(line, tok) \in Text
  BY <1>2, AroundTyped DEF Text
<1>4. \A t \in Text : Trim(t) \in Text
  BY TrimText DEF Text
<1> QED
  BY <1>2, <1>3, <1>4

\* Behind a break, a line with text is put in a paragraph of its own.
LEMMA OpenedTyped ==
  ASSUME TypeInv, LinkedInv
  PROVE  /\ Opened \in Seq(Seq(Field)) /\ Opened # <<>> /\ Last(Opened) \in Seq(Field)
         /\ Len(paras) \in Nat /\ Len(Opened) \in Nat /\ Len(Opened) >= Len(paras)
         /\ in_break => Last(Opened) = <<>> /\ Len(Opened) = Len(paras) + 1
<1>1. paras \in Seq(Seq(Field)) /\ Len(paras) \in Nat
  BY LenProperties DEF TypeInv, ParserTyped
<1>2. CASE in_break
  <2>1. <<>> \in Seq(Field) /\ Opened = Append(paras, <<>>)
    BY <1>2, EmptySeq DEF Opened
  <2>2. /\ Opened \in Seq(Seq(Field)) /\ Len(Opened) = Len(paras) + 1
        /\ Opened[Len(paras) + 1] = <<>>
    BY <1>1, <2>1, AppendProperties
  <2>3. Opened # <<>>
    BY <1>1, <2>2
  <2>4. Last(Opened) = <<>>
    BY <2>2 DEF Last
  <2>5. Len(Opened) \in Nat /\ Len(Opened) >= Len(paras)
    BY <1>1, <2>2
  <2> QED
    BY <1>1, <2>1, <2>2, <2>3, <2>4, <2>5
<1>3. CASE ~in_break
  <2>1. Opened = paras /\ paras # <<>>
    BY <1>3 DEF Opened, LinkedInv
  <2>2. Last(Opened) \in Seq(Field)
    BY <1>1, <2>1, LastElement
  <2>3. Len(Opened) = Len(paras) /\ Opened \in Seq(Seq(Field)) /\ Opened # <<>>
    BY <1>1, <2>1
  <2>4. in_break => Last(Opened) = <<>> /\ Len(Opened) = Len(paras) + 1
    BY <1>3
  <2>5. Len(Opened) >= Len(paras) /\ Len(Opened) \in Nat
    BY <1>1, <2>3
  <2> QED
    BY <1>1, <2>2, <2>3, <2>4, <2>5
<1> QED
  BY <1>2, <1>3

\* controlparse_line adds to its lists, and never removes from them.
LEMMA LineKeepsTypes ==
  ASSUME TypeInv, LinkedInv, ParseStep
  PROVE  ParserTyped' /\ Len(paras') \in Nat /\ Len(paras') >= Len(paras)
<1> USE DEF ParserTyped
<1>1. paras \in Seq(Seq(Field)) /\ Len(paras) \in Nat
  BY LenProperties DEF TypeInv
<1>2. CASE CommentLine \/ BlankLine \/ LineFails
  <2>1. NextLine /\ UNCHANGED <<paras, starved>> /\ in_break' \in BOOLEAN /\ status' \in Statuses
    BY <1>2 DEF CommentLine, BlankLine, LineFails, TextLine, NextLine, Statuses, TypeInv
  <2> QED
    BY <1>1, <2>1, LineTyped DEF TypeInv
<1>3. CASE ParseEof
  BY <1>1, <1>3 DEF ParseEof, TypeInv, Statuses
<1>4. CASE FieldLine
  <2> DEFINE f == [name |-> Before(line, ":"), lines |-> <<Trim(After(line, ":"))>>]
  <2>1. NextLine /\ UNCHANGED <<status, starved>> /\ in_break' \in BOOLEAN
        /\ paras' = OnLast(Opened, Append(Last(Opened), f))
    BY <1>4 DEF FieldLine, TextLine, NextLine
  <2>2. f \in Field
    <3>1. Before(line, ":") \in Text /\ Trim(After(line, ":")) \in Text
      BY <2>1, LineTyped
    <3>2. <<Trim(After(line, ":"))>> \in Seq(Text)
      BY <3>1
    <3> QED
      BY <3>1, <3>2 DEF Field
  <2> HIDE DEF f
  <2>3. Append(Last(Opened), f) \in Seq(Field)
    BY <2>2, OpenedTyped, AppendProperties
  <2>4. paras' \in Seq(Seq(Field)) /\ Len(paras') = Len(Opened)
    BY <2>1, <2>3, OpenedTyped, LastReplaced
  <2> QED
    BY <1>1, <2>1, <2>4, LineTyped, OpenedTyped DEF TypeInv
<1>5. CASE ContinuationLine
  <2> DEFINE p == Last(paras)
             f == Last(p)
             longer == [f EXCEPT !.lines = Append(@, Trim(line))]
  <2>1. NextLine /\ UNCHANGED <<status, starved, in_break>>
        /\ paras' = OnLast(paras, OnLast(p, longer))
        /\ Last(Opened) # <<>>
    BY <1>5 DEF ContinuationLine, TextLine, NextLine
  <2>2. ~in_break /\ paras # <<>> /\ Opened = paras
    BY <2>1, OpenedTyped DEF LinkedInv, Opened
  <2>3. p \in Seq(Field) /\ p # <<>>
    BY <2>1, <2>2, OpenedTyped
  <2>4. f \in Field
    BY <2>3, LastElement
  <2>5. longer \in Field
    <3>1. Append(f.lines, Trim(line)) \in Seq(Text)
      BY <2>1, <2>4, LineTyped, AppendProperties DEF Field
    <3> QED
      BY <2>4, <3>1 DEF Field
  <2> HIDE DEF p, f, longer
  <2>6. OnLast(p, longer) \in Seq(Field)
    BY <2>3, <2>5, LastReplaced
  <2>7. paras' \in Seq(Seq(Field)) /\ Len(paras') = Len(paras)
    BY <1>1, <2>1, <2>6, LastReplaced
  <2> QED
    BY <1>1, <2>1, <2>7, LineTyped DEF TypeInv
<1> QED
  BY <1>2, <1>3, <1>4, <1>5 DEF ParseStep

\* The dependencies of a list are lines of it.
LEMMA NonEmptyTyped ==
  ASSUME NEW lines \in Seq(Text)
  PROVE  NonEmpty(lines) \in Seq(Text)
<1>1. NonEmpty(lines) \in Seq(Text \ {<<>>})
  BY NonEmptyElements
<1> QED
  BY <1>1, SeqMonotonic

(***************************************************************************)
(* What a field sets, by the kind of its member.                           *)
(***************************************************************************)
LEMMA SetList ==
  ASSUME NEW r, NEW m \in Lists, NEW lines
  PROVE  Set(r, m, lines) = [r EXCEPT ![m] = NonEmpty(lines)]
<1>1. m # "built_froms" /\ m # "src_package"
  BY DEF Lists
<1> QED
  BY <1>1 DEF Set

\* parse_singleline sets a string.
LEMMA SetText ==
  ASSUME NEW r, NEW lines
  PROVE  \A m \in {"package", "version", "source"} : Set(r, m, lines) = [r EXCEPT ![m] = lines[1]]
<1> SUFFICES ASSUME NEW m \in {"package", "version", "source"}
             PROVE  Set(r, m, lines) = [r EXCEPT ![m] = lines[1]]
  OBVIOUS
<1>1. m \notin Lists /\ m # "built_froms" /\ m # "src_package"
  BY DEF Lists
<1> QED
  BY <1>1 DEF Set

\* parse_source sets two strings.
LEMMA SetSource ==
  ASSUME NEW r, NEW lines
  PROVE  Set(r, "src_package", lines) =
            [r EXCEPT !.src_package = Before(lines[1], " "), !.src_version = After(lines[1], " ")]
BY DEF Set, Lists

\* Each line up to its first space and behind it.
PairsOf(texts) ==
    [k \in DOMAIN texts |-> [package |-> Before(texts[k], " "), version |-> After(texts[k], " ")]]

BuiltFromsOf(lines) == PairsOf(NonEmpty(lines))

\* parse_builtfromlist sets a list of pairs.
LEMMA SetBuiltFroms ==
  ASSUME NEW r, NEW lines
  PROVE  Set(r, "built_froms", lines) = [r EXCEPT !.built_froms = BuiltFromsOf(lines)]
BY DEF Set, Lists, BuiltFromsOf, PairsOf

\* One pair for each line that is not empty.
LEMMA BuiltFromsTyped ==
  ASSUME NEW lines \in Seq(Text)
  PROVE  /\ BuiltFromsOf(lines) \in Seq(BuiltFroms)
         /\ Len(BuiltFromsOf(lines)) = Len(NonEmpty(lines))
<1>1. /\ NonEmpty(lines) \in Seq(Text) /\ Len(NonEmpty(lines)) \in Nat
      /\ DOMAIN NonEmpty(lines) = 1..Len(NonEmpty(lines))
  BY NonEmptyTyped, LenProperties
<1>2. \A k \in DOMAIN NonEmpty(lines) :
        [package |-> Before(NonEmpty(lines)[k], " "),
         version |-> After(NonEmpty(lines)[k], " ")] \in BuiltFroms
  <2>1. \A k \in DOMAIN NonEmpty(lines) : NonEmpty(lines)[k] \in Text
    BY <1>1, ElementOfSeq
  <2>2. \A t \in Text : Before(t, " ") \in Text /\ After(t, " ") \in Text
    BY AroundTyped DEF Text
  <2> QED
    BY <2>1, <2>2 DEF BuiltFroms
<1>3. BuiltFromsOf(lines) \in [1..Len(NonEmpty(lines)) -> BuiltFroms]
  BY <1>1, <1>2 DEF BuiltFromsOf, PairsOf
<1> QED
  BY <1>1, <1>3, SeqDef, LenProperties

\* A field of a binary package keeps the type of its record.
LEMMA ControlSet ==
  ASSUME NEW r \in Controls, NEW name \in DOMAIN ControlFields, NEW lines \in Seq(Text),
         NEW old, CanParse(ControlFields[name], old, lines)
  PROVE  Set(r, ControlFields[name], lines) \in Controls
<1>1. CASE name = "Depends-Run"
  <2>1. "run_depend" \in Lists
    BY DEF Lists
  <2>2. Set(r, ControlFields[name], lines) = [r EXCEPT !.run_depend = NonEmpty(lines)]
    BY <1>1, <2>1, FieldTables, SetList
  <2>3. NonEmpty(lines) \in Seq(Text)
    BY NonEmptyTyped
  <2> QED
    BY <2>2, <2>3 DEF Controls
<1>2. CASE name = "Built-From"
  <2>1. Set(r, ControlFields[name], lines) = [r EXCEPT !.built_froms = BuiltFromsOf(lines)]
    BY <1>2, FieldTables, SetBuiltFroms
  <2>2. BuiltFromsOf(lines) \in Seq(BuiltFroms)
    BY BuiltFromsTyped
  <2> QED
    BY <2>1, <2>2 DEF Controls
<1>3. CASE name \in {"Package", "Version", "Source"}
  <2>1. lines[1] \in Text
    <3>1. IsSingleLine(lines)
      BY <1>3, FieldTables DEF CanParse
    <3>2. 1 \in 1..Len(lines)
      BY <3>1 DEF IsSingleLine
    <3> QED
      BY <3>2, ElementOfSeq
  <2>2. CASE name # "Source"
    <3>1. ControlFields[name] \in {"package", "version"}
      BY <1>3, <2>2, FieldTables
    <3>3. \A m \in {"package", "version", "source"} : Set(r, m, lines) = [r EXCEPT ![m] = lines[1]]
      BY SetText
    <3>2. Set(r, ControlFields[name], lines) = [r EXCEPT ![ControlFields[name]] = lines[1]]
      BY <3>1, <3>3
    <3> QED
      BY <2>1, <3>1, <3>2 DEF Controls
  <2>3. CASE name = "Source"
    <3>1. Before(lines[1], " ") \in Text /\ After(lines[1], " ") \in Text
      BY <2>1, AroundTyped DEF Text
    <3>3. ControlFields[name] = "src_package"
      BY <2>3, FieldTables
    <3>2. Set(r, ControlFields[name], lines) =
            [r EXCEPT !.src_package = Before(lines[1], " "), !.src_version = After(lines[1], " ")]
      BY <3>3, SetSource, Zenon
    <3> QED
      BY <3>1, <3>2 DEF Controls
  <2> QED
    BY <2>2, <2>3
<1> QED
  BY <1>1, <1>2, <1>3, FieldTables

\* A field of a source keeps the type of its record, and its binary packages.
LEMMA SourceSet ==
  ASSUME NEW r \in SourceControls, NEW name \in DOMAIN SourceFields, NEW lines \in Seq(Text),
         NEW old, CanParse(SourceFields[name], old, lines)
  PROVE  /\ Set(r, SourceFields[name], lines) \in SourceControls
         /\ Set(r, SourceFields[name], lines).bins = r.bins
<1>1. CASE SourceFields[name] \in Lists
  <2>1. Set(r, SourceFields[name], lines) = [r EXCEPT ![SourceFields[name]] = NonEmpty(lines)]
    BY <1>1, SetList
  <2>2. SourceFields[name] \in {"build_depend", "unpack_depend", "run_deps", "sources"}
    BY <1>1, FieldTables DEF Lists
  <2> QED
    BY <2>1, <2>2, NonEmptyTyped DEF SourceControls
<1>2. CASE SourceFields[name] \in {"source", "version"}
  <2>1. lines[1] \in Text
    <3>1. IsSingleLine(lines)
      BY <1>2 DEF CanParse
    <3>2. 1 \in 1..Len(lines)
      BY <3>1 DEF IsSingleLine
    <3> QED
      BY <3>2, ElementOfSeq
  <2>2. Set(r, SourceFields[name], lines) = [r EXCEPT ![SourceFields[name]] = lines[1]]
    <3>1. SourceFields[name] \in {"package", "version", "source"}
      BY <1>2
    <3>2. \A m \in {"package", "version", "source"} : Set(r, m, lines) = [r EXCEPT ![m] = lines[1]]
      BY SetText
    <3> QED
      BY <3>1, <3>2
  <2> QED
    BY <1>2, <2>1, <2>2 DEF SourceControls
<1> QED
  BY <1>1, <1>2, FieldTables DEF Lists

\* A field of a source's binary package keeps the type of its record.
LEMMA BinSet ==
  ASSUME NEW r \in Bins, NEW name \in DOMAIN BinFields, NEW lines \in Seq(Text),
         NEW old, CanParse(BinFields[name], old, lines)
  PROVE  Set(r, BinFields[name], lines) \in Bins
<1>1. CASE name = "Depends-Run"
  <2>1. "run_depend" \in Lists
    BY DEF Lists
  <2> QED
    <3>1. Set(r, BinFields[name], lines) = [r EXCEPT !.run_depend = NonEmpty(lines)]
      BY <1>1, <2>1, FieldTables, SetList
    <3>2. NonEmpty(lines) \in Seq(Text)
      BY NonEmptyTyped
    <3> QED
      BY <3>1, <3>2 DEF Bins
<1>2. CASE name = "Package"
  <2>1. lines[1] \in Text
    <3>1. IsSingleLine(lines)
      BY <1>2, FieldTables DEF CanParse
    <3>2. 1 \in 1..Len(lines)
      BY <3>1 DEF IsSingleLine
    <3> QED
      BY <3>2, ElementOfSeq
  <2>2. Set(r, BinFields[name], lines) = [r EXCEPT !.package = lines[1]]
    <3>1. "package" \in {"package", "version", "source"}
      OBVIOUS
    <3>2. Set(r, "package", lines) = [r EXCEPT !["package"] = lines[1]]
      BY <3>1, SetText
    <3> QED
      BY <1>2, <3>2, FieldTables
  <2> QED
    BY <2>1, <2>2 DEF Bins
<1> QED
  BY <1>1, <1>2, FieldTables

\* Adding the source's run-time dependencies keeps the record's type.
LEMMA RunDepsTyped ==
  ASSUME TypeInv, kind = "source"
  PROVE  WithRunDeps \in SourceControls /\ Len(WithRunDeps.bins) = Len(c.bins)
<1>1. c \in SourceControls /\ Len(c.bins) = para - 1 /\ para \in Nat \ {0}
  BY LenProperties DEF TypeInv, RecordTyped, ParserTyped
<1>2. CASE para = 1
  BY <1>1, <1>2 DEF WithRunDeps
<1>3. CASE para # 1
  <2> DEFINE b == Last(c.bins)
             more == [b EXCEPT !.run_depend = @ \o c.run_deps]
  <2>1. c.bins \in Seq(Bins) /\ c.bins # <<>> /\ c.run_deps \in Seq(Text)
    <3>1. c.bins \in Seq(Bins) /\ c.run_deps \in Seq(Text)
      BY <1>1 DEF SourceControls
    <3>2. c.bins = <<>> => Len(c.bins) = 0
      OBVIOUS
    <3> QED
      BY <1>1, <1>3, <3>1, <3>2
  <2>2. b \in Bins
    BY <2>1, LastElement
  <2>3. more \in Bins
    <3>1. b.run_depend \o c.run_deps \in Seq(Text)
      BY <2>1, <2>2, ConcatProperties DEF Bins
    <3> QED
      BY <2>2, <3>1 DEF Bins
  <2>4. WithRunDeps = [c EXCEPT !.bins = OnLast(@, more)]
    BY <1>3 DEF WithRunDeps
  <2> HIDE DEF b, more
  <2>5. OnLast(c.bins, more) \in Seq(Bins) /\ Len(OnLast(c.bins, more)) = Len(c.bins)
    BY <2>1, <2>3, LastReplaced
  <2> QED
    BY <1>1, <2>4, <2>5 DEF SourceControls
<1> QED
  BY <1>2, <1>3

(***************************************************************************)
(* The field that is parsed, and the record that it goes to.               *)
(***************************************************************************)
LEMMA FieldTyped ==
  ASSUME TypeInv, AtField
  PROVE  /\ para \in 1..Len(paras) /\ Len(paras) \in Nat /\ DOMAIN paras = 1..Len(paras)
         /\ paras[para] \in Seq(Field)
         /\ field \in 1..Len(paras[para]) /\ Len(paras[para]) \in Nat
         /\ DOMAIN paras[para] = 1..Len(paras[para])
         /\ pf \in Field /\ pf.name \in Text /\ pf.lines \in Seq(Text)
<1>1. paras \in Seq(Seq(Field)) /\ para \in DOMAIN paras /\ field \in DOMAIN paras[para]
  BY DEF TypeInv, ParserTyped, AtField
<1>2. Len(paras) \in Nat /\ DOMAIN paras = 1..Len(paras) /\ paras[para] \in Seq(Field)
  BY <1>1, LenProperties, ElementOfSeq
<1>3. Len(paras[para]) \in Nat /\ DOMAIN paras[para] = 1..Len(paras[para])
  BY <1>2, LenProperties
<1>4. pf \in Field
  BY <1>1, <1>2, <1>3, ElementOfSeq DEF pf
<1> QED
  BY <1>1, <1>2, <1>3, <1>4 DEF Field

\* Which record the fields of a paragraph go to, and its type.
LEMMA TargetTyped ==
  ASSUME TypeInv
  PROVE  /\ ~InBin => Target = c
         /\ InBin =>
                /\ c \in SourceControls /\ c.bins \in Seq(Bins) /\ c.bins # <<>>
                /\ Len(c.bins) = para - 1 /\ Target = c.bins[para - 1] /\ Target \in Bins
                /\ FieldsOf(kind, para) = BinFields
         /\ kind = "binary" => c \in Controls /\ ~InBin /\ FieldsOf(kind, para) = ControlFields
         /\ kind = "source" /\ ~InBin =>
                c \in SourceControls /\ para = 1 /\ FieldsOf(kind, para) = SourceFields
         /\ kind \in {"binary", "source"} /\ para \in Nat \ {0}
<1>1. para \in Nat \ {0} /\ kind \in {"binary", "source"}
  BY LenProperties DEF TypeInv, RecordTyped, ParserTyped
<1>2. ~InBin => Target = c
  BY DEF Target
<1>3. ASSUME InBin
      PROVE  /\ c \in SourceControls /\ c.bins \in Seq(Bins) /\ c.bins # <<>>
             /\ Len(c.bins) = para - 1 /\ Target = c.bins[para - 1] /\ Target \in Bins
             /\ FieldsOf(kind, para) = BinFields
  <2>1. /\ c \in SourceControls /\ c.bins \in Seq(Bins)
        /\ Len(c.bins) = para - 1 /\ para > 1 /\ kind = "source"
    BY <1>3 DEF InBin, TypeInv, RecordTyped, SourceControls
  <2>2. c.bins # <<>>
    <3>1. c.bins = <<>> => Len(c.bins) = 0
      OBVIOUS
    <3> QED
      BY <1>1, <2>1, <3>1
  <2>3. Target = Last(c.bins) /\ Last(c.bins) \in Bins /\ Last(c.bins) = c.bins[Len(c.bins)]
    BY <1>3, <2>1, <2>2, LastElement DEF Target
  <2>4. FieldsOf(kind, para) = BinFields
    BY <1>1, <2>1 DEF FieldsOf
  <2> QED
    BY <2>1, <2>2, <2>3, <2>4
<1>4. kind = "binary" => c \in Controls /\ ~InBin /\ FieldsOf(kind, para) = ControlFields
  BY DEF InBin, FieldsOf, TypeInv, RecordTyped
<1>5. ASSUME kind = "source", ~InBin
      PROVE  c \in SourceControls /\ para = 1 /\ FieldsOf(kind, para) = SourceFields
  <2>1. para = 1
    BY <1>1, <1>5 DEF InBin
  <2> QED
    BY <1>5, <2>1 DEF FieldsOf, TypeInv, RecordTyped
<1> QED
  BY <1>1, <1>2, <1>3, <1>4, <1>5

\* Parsing one field keeps the types.
LEMMA FieldKeepsTypes ==
  ASSUME TypeInv, ParseField
  PROVE  ParserTyped' /\ RecordTyped'
<1> DEFINE name == pf.name[1]
           record == Set(Target, Member, pf.lines)
<1>1. /\ AtField /\ name \in DOMAIN FieldsOf(kind, para) /\ Member = FieldsOf(kind, para)[name]
      /\ CanParse(Member, Target[Member], pf.lines)
      /\ c' = IF InBin THEN [c EXCEPT !.bins = OnLast(@, record)] ELSE record
      /\ field' = field + 1 /\ UNCHANGED <<parseVars, kind, para>>
  BY DEF ParseField, IsExpected, Member
<1>2. pf.lines \in Seq(Text)
  BY <1>1, FieldTyped
<1>3. ParserTyped'
  BY <1>1 DEF TypeInv, ParserTyped, parseVars
<1>4. para' \in 1..(Len(paras') + 1) /\ field' \in Nat \ {0}
  BY <1>1 DEF TypeInv, RecordTyped, parseVars
<1> HIDE DEF name, record
<1>5. CASE InBin
  <2>1. /\ c \in SourceControls /\ c.bins \in Seq(Bins) /\ c.bins # <<>>
        /\ Len(c.bins) = para - 1 /\ Target \in Bins /\ FieldsOf(kind, para) = BinFields
    BY <1>5, TargetTyped
  <2>2. record \in Bins
    BY <1>1, <1>2, <2>1, BinSet DEF record
  <2>3. OnLast(c.bins, record) \in Seq(Bins) /\ Len(OnLast(c.bins, record)) = Len(c.bins)
    <3> DEFINE s == c.bins
    <3>1. s \in Seq(Bins)
      BY <2>1
    <3> HIDE DEF s
    <3>2. OnLast(s, record) \in Seq(Bins) /\ Len(OnLast(s, record)) = Len(s)
      BY <2>2, <3>1, LastReplaced
    <3> QED
      BY <3>2 DEF s
  <2>4. c' \in SourceControls /\ Len(c'.bins) = para - 1
    BY <1>1, <1>5, <2>1, <2>3 DEF SourceControls
  <2>5. kind' = "source" /\ para' = para
    BY <1>1, <1>5 DEF InBin
  <2> QED
    BY <1>3, <1>4, <2>4, <2>5 DEF RecordTyped
<1>6. CASE ~InBin /\ kind = "source"
  <2>1. c \in SourceControls /\ Target = c /\ para = 1 /\ FieldsOf(kind, para) = SourceFields
    BY <1>6, TargetTyped
  <2>2. record \in SourceControls /\ record.bins = c.bins
    BY <1>1, <1>2, <2>1, SourceSet DEF record
  <2>3. Len(c.bins) = para - 1
    BY <1>6 DEF TypeInv, RecordTyped
  <2>4. c' = record /\ kind' = "source" /\ para' = para
    BY <1>1, <1>6
  <2> QED
    BY <1>3, <1>4, <2>2, <2>3, <2>4 DEF RecordTyped
<1>7. CASE kind = "binary"
  <2>1. c \in Controls /\ Target = c /\ ~InBin /\ FieldsOf(kind, para) = ControlFields
    BY <1>7, TargetTyped
  <2>2. record \in Controls
    BY <1>1, <1>2, <2>1, ControlSet DEF record
  <2>3. c' = record /\ kind' = "binary"
    BY <1>1, <1>7, <2>1
  <2> QED
    BY <1>3, <1>4, <2>2, <2>3 DEF RecordTyped
<1> QED
  BY <1>5, <1>6, <1>7, TargetTyped

\* No step of control.c or controlparse.c breaks the types.
LEMMA ControlKeepsTypes ==
  ASSUME TypeInv, LinkedInv, ControlStep
  PROVE  ParserTyped' /\ RecordTyped' /\ UNCHANGED kind
<1>1. CASE ParseStep /\ UNCHANGED <<kind, c, para, field>>
  <2>1. ParserTyped' /\ Len(paras') \in Nat /\ Len(paras') >= Len(paras)
    BY <1>1, LineKeepsTypes
  <2>2. Len(paras) \in Nat
    BY LenProperties DEF TypeInv, ParserTyped
  <2> QED
    BY <1>1, <2>1, <2>2 DEF TypeInv, RecordTyped
<1>2. CASE ParagraphsFail \/ FieldFails
  BY <1>2 DEF ParagraphsFail, FieldFails, ControlFails, TypeInv, ParserTyped, RecordTyped, Statuses
<1>3. CASE ParseField
  BY <1>3, FieldKeepsTypes DEF ParseField
<1>4. CASE NextParagraph
  <2>1. /\ kind = "source" /\ para < Len(paras) /\ UNCHANGED <<parseVars, kind>>
        /\ c' = [WithRunDeps EXCEPT !.bins = Append(@, NoBin)] /\ para' = para + 1 /\ field' = 1
    BY <1>4 DEF NextParagraph
  <2>2. WithRunDeps \in SourceControls /\ Len(WithRunDeps.bins) = para - 1
    BY <2>1, RunDepsTyped DEF TypeInv, RecordTyped
  <2>3. NoBin \in Bins
    BY NullTyped, EmptySeq DEF NoBin, Bins
  <2>4. para \in Nat \ {0} /\ Len(paras) \in Nat
    BY LenProperties DEF TypeInv, RecordTyped, ParserTyped
  <2>5. /\ Append(WithRunDeps.bins, NoBin) \in Seq(Bins)
        /\ Len(Append(WithRunDeps.bins, NoBin)) = para - 1 + 1
    BY <2>2, <2>3, AppendProperties DEF SourceControls
  <2> DEFINE bins == Append(WithRunDeps.bins, NoBin)
  <2>7. c' = [WithRunDeps EXCEPT !.bins = bins]
    BY <2>1
  <2> HIDE DEF bins
  <2>8. c' \in SourceControls /\ c'.bins = bins
    BY <2>2, <2>5, <2>7 DEF SourceControls, bins
  <2>6. c' \in SourceControls /\ Len(c'.bins) = para' - 1
    BY <2>1, <2>4, <2>5, <2>8 DEF bins
  <2> QED
    <3>1. ParserTyped'
      BY <2>1 DEF TypeInv, ParserTyped, parseVars
    <3>2. para' \in 1..(Len(paras') + 1) /\ field' \in Nat \ {0}
      <4>1. paras' = paras
        BY <2>1 DEF parseVars
      <4> QED
        BY <2>1, <2>4, <4>1
    <3> QED
      BY <2>1, <2>6, <3>1, <3>2 DEF RecordTyped
<1>5. CASE LastParagraph
  <2>1. /\ UNCHANGED <<unread, paras, in_break, starved, kind, para, field>> /\ status' = "ok"
        /\ c' = IF kind = "source" THEN WithRunDeps ELSE c
    BY <1>5 DEF LastParagraph
  <2>2. ParserTyped'
    BY <2>1 DEF TypeInv, ParserTyped, Statuses
  <2>3. CASE kind = "source"
    BY <2>1, <2>2, <2>3, RunDepsTyped DEF TypeInv, RecordTyped
  <2>4. CASE kind # "source"
    BY <2>1, <2>2, <2>4 DEF TypeInv, RecordTyped
  <2> QED
    BY <2>1, <2>2, <2>3, <2>4
<1> QED
  BY <1>1, <1>2, <1>3, <1>4, <1>5 DEF ControlStep

\* Sequences of up to four elements.
LEMMA ShortSeqs ==
  ASSUME NEW T, NEW x \in T, NEW y \in T, NEW z \in T, NEW u \in T
  PROVE  /\ <<>> \in Seq(T) /\ <<x>> \in Seq(T) /\ <<x, y>> \in Seq(T)
         /\ <<x, y, z>> \in Seq(T) /\ <<x, y, z, u>> \in Seq(T)
OBVIOUS

(***************************************************************************)
(* What the programs print is text.                                        *)
(***************************************************************************)
LEMMA TokensTyped ==
  /\ \A l \in Labels \cup Spaces \cup {"#", ":", ",", "(null)"} : l \in Tokens
  /\ \A t \in Text : Str(t) \in Text
  /\ \A t \in Text, u \in Text : t \o u \in Text /\ Comma(t, u) \in Text
  /\ \A t \in Text : Indented(t) \in Text
  /\ \A l \in Labels, t \in Text : Labelled(l, t) \in Text
<1>1. \A l \in Labels \cup Spaces \cup {"#", ":", ",", "(null)"} : l \in Tokens
  BY ToolsAssumption DEF Tokens, Spaces
<1>7. " " \in Tokens /\ ":" \in Tokens /\ "," \in Tokens /\ "(null)" \in Tokens
  BY DEF Tokens, Spaces
<1>2. \A t \in Text : Str(t) \in Text
  <2>1. <<"(null)">> \in Text
    BY <1>7, ShortSeqs DEF Text
  <2> QED
    BY <2>1 DEF Str
<1>3. \A t \in Text, u \in Text : t \o u \in Text
  BY ConcatProperties DEF Text
<1>4. \A t \in Text, u \in Text : Comma(t, u) \in Text
  <2>1. <<",">> \in Text
    BY <1>7, ShortSeqs DEF Text
  <2> QED
    BY <1>3, <2>1 DEF Comma
<1>5. \A t \in Text : Indented(t) \in Text
  <2>1. <<" ", " ">> \in Text
    BY <1>7, ShortSeqs DEF Text
  <2> QED
    BY <1>3, <2>1 DEF Indented
<1>6. \A l \in Labels, t \in Text : Labelled(l, t) \in Text
  <2>1. \A l \in Labels : <<l, ":", " ">> \in Text
    <3> SUFFICES ASSUME NEW l \in Labels PROVE <<l, ":", " ">> \in Text
      OBVIOUS
    <3>1. l \in Tokens
      BY <1>1
    <3> QED
      BY <1>7, <3>1, ShortSeqs DEF Text
  <2> QED
    BY <1>3, <2>1 DEF Labelled
<1> QED
  BY <1>1, <1>2, <1>3, <1>4, <1>5, <1>6

\* The version that gencontrol prints is text, whatever -v and -V were given.
LEMMA VersionTyped ==
  ASSUME NEW source, source.version \in Text, NEW o \in OptRecords
  PROVE  VersionOf(source, o) \in Text
<1>1. Str(source.version) \in Text /\ Str(source.version) \o o.ver_param \in Text
      /\ o.ver_param \in Text
  BY TokensTyped DEF OptRecords
<1>2. o.ver_mode \in {"keep", "override", "append"}
  BY DEF OptRecords
<1> QED
  BY <1>1, <1>2 DEF VersionOf

\* What gencontrol prints is lines of text.
LEMMA ControlFileTyped ==
  ASSUME NEW source \in SourceControls, NEW sb \in Bins, NEW o \in OptRecords
  PROVE  ControlFile(source, sb, o) \in Seq(Text)
<1> DEFINE head == <<Labelled("Package", sb.package),
                     Labelled("Version", VersionOf(source, o)),
                     Labelled("Source", Str(source.source) \o <<" ">> \o Str(source.version)),
                     <<"Depends-Run", ":">>>>
           deps == [k \in DOMAIN sb.run_depend |-> Indented(sb.run_depend[k])]
           built == IF o.bf_extra = <<>> THEN <<>> ELSE <<<<"Built-From", ":">>>>
           froms == [k \in DOMAIN o.bf_extra |->
                        Indented(o.bf_extra[k].package \o <<" ">> \o o.bf_extra[k].version)]
<1>1. <<" ">> \in Text /\ <<"Depends-Run", ":">> \in Text /\ <<"Built-From", ":">> \in Text
  <2>1. /\ " " \in Tokens /\ ":" \in Tokens /\ "Depends-Run" \in Tokens
        /\ "Built-From" \in Tokens
    BY ToolsAssumption DEF Tokens, Spaces, Labels
  <2> QED
    BY <2>1, ShortSeqs DEF Text
<1>2. head \in Seq(Text)
  <2>1. sb.package \in Text /\ source.source \in Text /\ source.version \in Text
    BY DEF Bins, SourceControls
  <2>2. Str(source.source) \in Text /\ Str(source.version) \in Text
    BY <2>1, TokensTyped
  <2>3. Str(source.source) \o <<" ">> \in Text
    BY <1>1, <2>2, TokensTyped
  <2>4. Str(source.source) \o <<" ">> \o Str(source.version) \in Text
    BY <2>2, <2>3, TokensTyped
  <2>5. VersionOf(source, o) \in Text
    BY <2>1, VersionTyped
  <2> DEFINE sv == Str(source.source) \o <<" ">> \o Str(source.version)
             v == VersionOf(source, o)
  <2>6. "Package" \in Labels /\ "Version" \in Labels /\ "Source" \in Labels
    BY DEF Labels
  <2> HIDE DEF sv, v
  <2>7. /\ Labelled("Package", sb.package) \in Text
        /\ Labelled("Version", v) \in Text
        /\ Labelled("Source", sv) \in Text
    BY <2>1, <2>4, <2>5, <2>6, TokensTyped DEF sv, v
  <2> QED
    BY <1>1, <2>7, ShortSeqs DEF sv, v
<1>3. deps \in Seq(Text)
  <2>1. sb.run_depend \in Seq(Text)
    BY DEF Bins
  <2>2. DOMAIN sb.run_depend = 1..Len(sb.run_depend) /\ Len(sb.run_depend) \in Nat
    BY <2>1, LenProperties
  <2>3. \A k \in DOMAIN sb.run_depend : Indented(sb.run_depend[k]) \in Text
    BY <2>1, <2>2, ElementOfSeq, TokensTyped
  <2> QED
    BY <2>2, <2>3, SeqDef
<1>4. built \in Seq(Text)
  <2>1. <<<<"Built-From", ":">>>> \in Seq(Text) /\ <<>> \in Seq(Text)
    BY <1>1, ShortSeqs
  <2> QED
    BY <2>1
<1>5. froms \in Seq(Text)
  <2>1. o.bf_extra \in Seq(BuiltFroms)
    BY DEF OptRecords
  <2>2. DOMAIN o.bf_extra = 1..Len(o.bf_extra) /\ Len(o.bf_extra) \in Nat
    BY <2>1, LenProperties
  <2>3. ASSUME NEW k \in DOMAIN o.bf_extra
        PROVE  Indented(o.bf_extra[k].package \o <<" ">> \o o.bf_extra[k].version) \in Text
    <3>1. o.bf_extra[k].package \in Text /\ o.bf_extra[k].version \in Text
      <4>1. o.bf_extra[k] \in BuiltFroms
        BY <2>1, <2>2, ElementOfSeq
      <4> QED
        BY <4>1 DEF BuiltFroms
    <3>2. o.bf_extra[k].package \o <<" ">> \in Text
      BY <1>1, <3>1, TokensTyped
    <3>3. o.bf_extra[k].package \o <<" ">> \o o.bf_extra[k].version \in Text
      BY <3>1, <3>2, TokensTyped
    <3> QED
      BY <3>3, TokensTyped
  <2> DEFINE n == Len(o.bf_extra)
  <2>4. n \in Nat /\ froms \in [1..n -> Text]
    BY <2>2, <2>3
  <2> HIDE DEF n, froms
  <2> QED
    BY <2>4, SeqDef
<1>6. ControlFile(source, sb, o) = head \o deps \o built \o froms
  BY DEF ControlFile
<1> HIDE DEF head, deps, built, froms
<1>7. head \o deps \in Seq(Text)
  BY <1>2, <1>3, ConcatProperties
<1>8. head \o deps \o built \in Seq(Text)
  BY <1>4, <1>7, ConcatProperties
<1>9. head \o deps \o built \o froms \in Seq(Text)
  BY <1>5, <1>8, ConcatProperties
<1> QED
  BY <1>6, <1>9

\* What srccontrol and pkgcontrol print is lines of text.
LEMMA FieldLinesTyped ==
  ASSUME TypeInv, stage = "parse", prog # "gencontrol"
  PROVE  FieldLines(prog, opts.field, c) \in Seq(Text)
<1>1. opts.field \in FieldOptions[prog] /\ prog \in {"srccontrol", "pkgcontrol"} /\ kind = KindOf(prog)
  BY DEF TypeInv, OptionGiven, ProgramTyped, Programs
<1> DEFINE f == opts.field
<1>2. CASE prog = "srccontrol"
  <2>1. f \in {"-n", "-v", "-b", "-u", "-s", "-p"} /\ kind = "source"
    BY <1>1, <1>2 DEF FieldOptions, KindOf, Programs
  <2>2. c \in SourceControls
    BY <2>1 DEF TypeInv, RecordTyped
  <2>3. f = "-n" => FieldLines(prog, f, c) = <<c.source>>
    BY <1>2 DEF FieldLines
  <2>4. f = "-v" => FieldLines(prog, f, c) = <<c.version>>
    BY <1>2 DEF FieldLines
  <2>5. f = "-b" => FieldLines(prog, f, c) = c.build_depend
    BY <1>2 DEF FieldLines
  <2>6. f = "-u" => FieldLines(prog, f, c) = c.unpack_depend
    BY <1>2 DEF FieldLines
  <2>7. f = "-s" => FieldLines(prog, f, c) = c.sources
    BY <1>2 DEF FieldLines
  <2>8. f = "-p" => FieldLines(prog, f, c) = [k \in DOMAIN c.bins |-> c.bins[k].package]
    BY <1>2 DEF FieldLines
  <2>9. [k \in DOMAIN c.bins |-> c.bins[k].package] \in Seq(Text)
    <3>1. c.bins \in Seq(Bins)
      BY <2>2 DEF SourceControls
    <3>2. DOMAIN c.bins = 1..Len(c.bins) /\ Len(c.bins) \in Nat
      BY <3>1, LenProperties
    <3>3. \A k \in DOMAIN c.bins : c.bins[k].package \in Text
      <4>1. \A k \in DOMAIN c.bins : c.bins[k] \in Bins
        BY <3>1, <3>2, ElementOfSeq
      <4> QED
        BY <4>1 DEF Bins
    <3> QED
      BY <3>2, <3>3, SeqDef
  <2>10. /\ <<c.source>> \in Seq(Text) /\ <<c.version>> \in Seq(Text)
         /\ c.build_depend \in Seq(Text) /\ c.unpack_depend \in Seq(Text) /\ c.sources \in Seq(Text)
    BY <2>2 DEF SourceControls
  <2> HIDE DEF f
  <2>11. FieldLines(prog, f, c) \in Seq(Text)
    BY <2>1, <2>3, <2>4, <2>5, <2>6, <2>7, <2>8, <2>9, <2>10
  <2> QED
    BY <2>11 DEF f
<1>3. CASE prog = "pkgcontrol"
  <2>1. f \in {"-n", "-v", "-s", "-r", "-b"} /\ kind = "binary"
    BY <1>1, <1>3 DEF FieldOptions, KindOf, Programs
  <2>2. c \in Controls
    BY <2>1 DEF TypeInv, RecordTyped
  <2>3. f = "-n" => FieldLines(prog, f, c) = <<c.package>>
    BY <1>3 DEF FieldLines
  <2>4. f = "-v" => FieldLines(prog, f, c) = <<c.version>>
    BY <1>3 DEF FieldLines
  <2>5. f = "-s" => FieldLines(prog, f, c) = <<Comma(Str(c.src_package), Str(c.src_version))>>
    BY <1>3 DEF FieldLines
  <2>6. f = "-r" => FieldLines(prog, f, c) = c.run_depend
    BY <1>3 DEF FieldLines
  <2>7. f = "-b" => FieldLines(prog, f, c) =
                [k \in DOMAIN c.built_froms |->
                    Comma(c.built_froms[k].package, c.built_froms[k].version)]
    BY <1>3 DEF FieldLines
  <2>8. [k \in DOMAIN c.built_froms |->
            Comma(c.built_froms[k].package, c.built_froms[k].version)] \in Seq(Text)
    <3>1. c.built_froms \in Seq(BuiltFroms)
      BY <2>2 DEF Controls
    <3>2. DOMAIN c.built_froms = 1..Len(c.built_froms) /\ Len(c.built_froms) \in Nat
      BY <3>1, LenProperties
    <3>3. \A k \in DOMAIN c.built_froms :
            c.built_froms[k].package \in Text /\ c.built_froms[k].version \in Text
      <4>1. \A k \in DOMAIN c.built_froms : c.built_froms[k] \in BuiltFroms
        BY <3>1, <3>2, ElementOfSeq
      <4> QED
        BY <4>1 DEF BuiltFroms
    <3>4. \A k \in DOMAIN c.built_froms :
            Comma(c.built_froms[k].package, c.built_froms[k].version) \in Text
      BY <3>3, TokensTyped
    <3> QED
      BY <3>2, <3>4, SeqDef
  <2>9. <<Comma(Str(c.src_package), Str(c.src_version))>> \in Seq(Text)
    <3>1. c.src_package \in Text /\ c.src_version \in Text
      BY <2>2 DEF Controls
    <3>2. Comma(Str(c.src_package), Str(c.src_version)) \in Text
      BY <3>1, TokensTyped
    <3> QED
      BY <3>2
  <2>10. <<c.package>> \in Seq(Text) /\ <<c.version>> \in Seq(Text) /\ c.run_depend \in Seq(Text)
    BY <2>2 DEF Controls
  <2> HIDE DEF f
  <2>11. FieldLines(prog, f, c) \in Seq(Text)
    BY <2>1, <2>3, <2>4, <2>5, <2>6, <2>7, <2>8, <2>9, <2>10
  <2> QED
    BY <2>11 DEF f
<1> QED
  BY <1>1, <1>2, <1>3

\* No step of the programs or a fault breaks the types of their options and files.
LEMMA ProgramKeepsTypes ==
  ASSUME TypeInv, TNext
  PROVE  ProgramTyped'
<1> USE DEF ProgramTyped
<1>0. ProgramTyped
  BY DEF TypeInv
<1>1. ASSUME UNCHANGED <<todo, operands, reader, opts, files, printed, faults>>,
             prog' = prog, stage' \in {"options", "operands", "parse"} \cup Ended
      PROVE  ProgramTyped'
  BY <1>0, <1>1
<1>2. ASSUME todo # <<>> PROVE Option \in STRING /\ Arg \in Text /\ Tail(todo) \in Seq([opt : STRING, arg : Text])
  <2>1. Head(todo) \in [opt : STRING, arg : Text] /\ Tail(todo) \in Seq([opt : STRING, arg : Text])
    BY <1>0, <1>2, HeadAndTail
  <2> QED
    BY <2>1 DEF Option, Arg
<1>3. CASE FieldOption \/ VersionOption
  <2>1. /\ todo # <<>> /\ todo' = Tail(todo)
        /\ UNCHANGED <<prog, operands, reader, stage, printed, faults, files>>
    BY <1>3 DEF FieldOption, VersionOption, Parses
  <2>2. opts' \in OptRecords
    <3>1. CASE FieldOption
      BY <1>0, <1>2, <2>1, <3>1 DEF FieldOption, Parses, OptRecords
    <3>2. CASE VersionOption
      BY <1>0, <1>2, <2>1, <3>2 DEF VersionOption, Parses, OptRecords
    <3> QED
      BY <1>3, <3>1, <3>2
  <2> QED
    BY <1>0, <1>2, <2>1, <2>2
<1>4. CASE BuiltFromOption
  <2> DEFINE bf == [package |-> Before(Arg, ","), version |-> After(Arg, ",")]
  <2>1. /\ todo # <<>> /\ todo' = Tail(todo)
        /\ UNCHANGED <<prog, operands, reader, stage, printed, faults, files>>
        /\ opts' = [opts EXCEPT !.bf_extra = Append(@, bf)]
    BY <1>4 DEF BuiltFromOption, Parses
  <2>2. bf \in BuiltFroms
    <3>1. Before(Arg, ",") \in Text /\ After(Arg, ",") \in Text
      BY <1>2, <2>1, AroundTyped DEF Text
    <3> QED
      BY <3>1 DEF BuiltFroms
  <2> HIDE DEF bf
  <2>3. Append(opts.bf_extra, bf) \in Seq(BuiltFroms)
    BY <1>0, <2>2, AppendProperties DEF OptRecords
  <2>4. opts' \in OptRecords
    BY <1>0, <2>1, <2>3 DEF OptRecords
  <2> QED
    BY <1>0, <1>2, <2>1, <2>4
<1>5. CASE OutputOption
  <2>1. /\ todo # <<>> /\ todo' = Tail(todo)
        /\ UNCHANGED <<prog, operands, reader, stage, printed, faults>>
        /\ opts' = [opts EXCEPT !.outf = Arg]
        /\ files' = [f \in DOMAIN files \cup {Arg} |-> IF f = Arg THEN <<>> ELSE files[f]]
    BY <1>5 DEF OutputOption, Parses
  <2>2. opts' \in OptRecords
    BY <1>0, <1>2, <2>1 DEF OptRecords
  <2>3. \A f \in DOMAIN files' : files'[f] \in Seq(Text)
    <3>1. <<>> \in Seq(Text)
      BY EmptySeq
    <3> QED
      BY <1>0, <2>1, <3>1
  <2> QED
    BY <1>0, <1>2, <2>1, <2>2, <2>3
<1>6. CASE Usage \/ OptionsParsed
  BY <1>1, <1>6 DEF Usage, OptionsParsed, Goes, cmdVars, Ended, Failures
<1>7. CASE OpenFile
  BY <1>1, <1>7 DEF OpenFile, cmdVars
<1>8. CASE OpenFails \/ ParsingFails \/ PrintsNull \/ AllPrinted \/ NotFound \/ UnnamedBin
            \/ Returns
  BY <1>1, <1>8 DEF OpenFails, ParsingFails, PrintsNull, AllPrinted, NotFound, UnnamedBin, Returns,
                    Goes, cmdVars, Ended, Failures
<1>9. CASE ParserStep
  BY <1>0, <1>1, <1>9 DEF ParserStep, toolVars, cmdVars
<1>10. CASE PrintField
  <2>1. /\ stage = "parse" /\ prog # "gencontrol" /\ stage' = "operands"
        /\ printed' = printed \o FieldLines(prog, opts.field, c) /\ operands' = Tail(operands)
        /\ UNCHANGED <<prog, todo, opts, reader, files, faults>>
    BY <1>10 DEF PrintField
  <2>2. printed' \in Seq(Text)
    BY <1>0, <2>1, FieldLinesTyped, ConcatProperties
  <2>3. operands' \in Seq(Text)
    <3>1. operands \in Seq(Text) /\ operands # <<>>
      BY <1>0, <2>1 DEF TypeInv, OptionGiven
    <3> QED
      BY <2>1, <3>1, HeadTailProperties
  <2> QED
    BY <1>0, <2>1, <2>2, <2>3
<1>11. CASE PrintControl
  <2>1. PICK k \in DOMAIN c.bins :
            IF opts.outf = Stdout
            THEN printed' = ControlFile(c, c.bins[k], opts) /\ UNCHANGED files
            ELSE /\ files' = [files EXCEPT ![opts.outf] = ControlFile(c, c.bins[k], opts)]
                 /\ UNCHANGED printed
    BY <1>11 DEF PrintControl
  <2>2. stage = "parse" /\ prog = "gencontrol" /\ stage' = "closed" /\ UNCHANGED <<cmdVars, faults>>
    BY <1>11 DEF PrintControl, Looking
  <2>3. ControlFile(c, c.bins[k], opts) \in Seq(Text)
    <3>1. kind = "source"
      BY <2>2 DEF TypeInv, OptionGiven, KindOf
    <3>2. c \in SourceControls
      BY <3>1 DEF TypeInv, RecordTyped
    <3>3. c.bins \in Seq(Bins)
      BY <3>2 DEF SourceControls
    <3>4. c.bins[k] \in Bins
      BY <3>3, ElementOfSeq, LenProperties
    <3> QED
      BY <1>0, <3>2, <3>4, ControlFileTyped
  <2>4. (\A f \in DOMAIN files' : files'[f] \in Seq(Text)) /\ printed' \in Seq(Text)
    BY <1>0, <2>1, <2>3
  <2> QED
    BY <1>0, <2>2, <2>4 DEF cmdVars, Ended
<1>12. CASE WriteCutShort
  <2>1. /\ stage = "parse" /\ prog = "gencontrol" /\ stage' = "closed" /\ UNCHANGED <<cmdVars, printed>>
        /\ faults > 0 /\ faults' = faults - 1
    BY <1>12 DEF WriteCutShort, Looking
  <2>2. PICK k \in DOMAIN c.bins : \E n \in 0..(Len(ControlFile(c, c.bins[k], opts)) - 1) :
            files' = [files EXCEPT ![opts.outf] = SubSeq(ControlFile(c, c.bins[k], opts), 1, n)]
    BY <1>12 DEF WriteCutShort
  <2> DEFINE control == ControlFile(c, c.bins[k], opts)
  <2>3. control \in Seq(Text)
    <3>1. kind = "source"
      BY <2>1 DEF TypeInv, OptionGiven, KindOf
    <3>2. c \in SourceControls
      BY <3>1 DEF TypeInv, RecordTyped
    <3>3. c.bins \in Seq(Bins)
      BY <3>2 DEF SourceControls
    <3>4. c.bins[k] \in Bins
      BY <3>3, ElementOfSeq, LenProperties
    <3> QED
      BY <1>0, <3>2, <3>4, ControlFileTyped
  <2>4. PICK n \in 0..(Len(control) - 1) : files' = [files EXCEPT ![opts.outf] = SubSeq(control, 1, n)]
    BY <2>2
  <2> HIDE DEF control
  <2>5. n \in 0..Len(control)
    BY <2>3, LenProperties
  <2>6. SubSeq(control, 1, n) \in Seq(Text)
    BY <2>3, <2>5, PrefixOf
  <2>7. \A f \in DOMAIN files' : files'[f] \in Seq(Text)
    BY <1>0, <2>4, <2>6
  <2> QED
    BY <1>0, <2>1, <2>7 DEF cmdVars, Ended
<1>13. CASE Killed
  BY <1>0, <1>13 DEF Killed, cmdVars, Ended, Failures
<1>14. CASE ParserStarves
  BY <1>0, <1>14 DEF ParserStarves, cmdVars, Ended, Failures
<1>15. CASE ReadBack
  <2>1. /\ prog' = "pkgcontrol" /\ todo' = <<[opt |-> reader, arg |-> NULL]>>
        /\ operands' = <<Output>> /\ opts' = NoOpts /\ stage' = "options" /\ printed' = <<>>
        /\ UNCHANGED <<files, reader, faults>> /\ opts.outf # Stdout
        /\ prog = "gencontrol" /\ stage \in Ended
    BY <1>15 DEF ReadBack
  <2>2. Output \in Text
    <3>1. CASE opts.outf = NULL
      BY <1>2, <2>1, <3>1 DEF TypeInv, OutputFailed, Output
    <3>2. CASE opts.outf # NULL
      BY <1>0, <2>1, <3>2 DEF OptRecords, Output
    <3> QED
      BY <3>1, <3>2
  <2>3. operands' \in Seq(Text) /\ printed' \in Seq(Text)
    BY <2>1, <2>2
  <2>4. todo' \in Seq([opt : STRING, arg : Text])
    <3>1. [opt |-> reader, arg |-> NULL] \in [opt : STRING, arg : Text]
      BY <1>0, NullTyped
    <3> QED
      BY <2>1, <3>1
  <2>5. opts' \in OptRecords
    <3>1. <<>> \in Seq(BuiltFroms) /\ NULL \in Text /\ Stdout \in Text \cup {Stdout}
      BY NullTyped, EmptySeq
    <3> QED
      BY <2>1, <3>1 DEF NoOpts, OptRecords
  <2>6. prog' \in Programs
    BY <2>1 DEF Programs
  <2> QED
    BY <1>0, <2>1, <2>3, <2>4, <2>5, <2>6
<1>16. CASE OutputOptionFails
  <2>1. /\ UNCHANGED <<prog, todo, operands, reader, files, printed>>
        /\ opts' = [opts EXCEPT !.outf = NULL] /\ stage' = "1" /\ faults' \in Nat
    BY <1>0, <1>16 DEF OutputOptionFails
  <2>2. opts' \in OptRecords
    BY <1>0, <2>1, NullTyped DEF OptRecords
  <2> QED
    BY <1>0, <2>1, <2>2 DEF Ended, Failures
<1>17. CASE BuiltFromStarves
  <2>1. /\ UNCHANGED <<prog, todo, operands, reader, opts, files, printed>>
        /\ stage' = "1" /\ faults > 0 /\ faults' = faults - 1
    BY <1>17, Zenon DEF BuiltFromStarves, cmdVars
  <2> QED
    BY <1>0, <2>1 DEF Ended, Failures
<1> QED
  BY <1>3, <1>4, <1>5, <1>6, <1>7, <1>8, <1>9, <1>10, <1>11, <1>12, <1>13, <1>14, <1>15, <1>16,
     <1>17 DEF TNext, ToolStep, Fault

(***************************************************************************)
(* Which program parses which kind of file, and that it has an option.     *)
(***************************************************************************)
LEMMA OptionStaysGiven ==
  ASSUME TypeInv, LinkedInv, TNext
  PROVE  OptionGiven'
<1> USE DEF OptionGiven
<1>0. OptionGiven /\ opts \in OptRecords
  BY DEF TypeInv, ProgramTyped
<1>1. ASSUME UNCHANGED <<prog, opts>>, stage' \in Ended
      PROVE  OptionGiven'
  BY <1>0, <1>1 DEF Ended, Failures
<1>2. CASE FieldOption
  <2>1. /\ stage = "options" /\ UNCHANGED <<prog, stage, kind>> /\ Option \in FieldOptions[prog]
        /\ opts' = [opts EXCEPT !.field = Option]
    BY <1>2 DEF FieldOption, Parses, controlVars
  <2> QED
    BY <1>0, <2>1 DEF OptRecords
<1>3. CASE VersionOption \/ BuiltFromOption \/ OutputOption
  <2>1. stage = "options" /\ UNCHANGED <<prog, stage, kind>> /\ opts'.field = opts.field
    BY <1>0, <1>3 DEF VersionOption, BuiltFromOption, OutputOption, Parses, OptRecords, controlVars
  <2> QED
    BY <1>0, <2>1
<1>11. CASE OutputOptionFails
  <2>1. stage' = "1" /\ UNCHANGED prog /\ opts'.field = opts.field
    BY <1>0, <1>11 DEF OutputOptionFails, OptRecords
  <2> QED
    BY <1>0, <2>1
<1>12. CASE BuiltFromStarves \/ Returns
  BY <1>1, <1>12 DEF BuiltFromStarves, Returns, Goes, cmdVars, Ended, Failures
<1>4. CASE OptionsParsed
  <2>1. /\ stage' = "operands" /\ UNCHANGED <<prog, opts>>
        /\ prog # "gencontrol" => opts.field # ""
    BY <1>4 DEF OptionsParsed, Goes, cmdVars
  <2> QED
    BY <1>0, <2>1
<1>5. CASE OpenFile
  <2>1. /\ stage = "operands" /\ stage' = "parse" /\ UNCHANGED <<prog, opts, operands, files>>
        /\ kind' = KindOf(prog) /\ operands # <<>> /\ operands[1] \in DOMAIN files
    BY <1>5 DEF OpenFile, ParseControl, cmdVars
  <2> QED
    BY <1>0, <2>1
<1>6. CASE Usage \/ OpenFails \/ ParsingFails \/ PrintsNull \/ AllPrinted \/ NotFound \/ UnnamedBin
            \/ Killed
  BY <1>1, <1>6 DEF Usage, OpenFails, ParsingFails, PrintsNull, AllPrinted, NotFound, UnnamedBin,
                    Killed, Goes, cmdVars, Ended, Failures
<1>13. CASE PrintControl \/ WriteCutShort
  BY <1>0, <1>13 DEF PrintControl, WriteCutShort, Looking, cmdVars
<1>7. CASE ParserStep
  <2>1. UNCHANGED <<prog, opts, stage, operands, files>> /\ UNCHANGED kind
    BY <1>7, ControlKeepsTypes DEF ParserStep, toolVars, cmdVars
  <2> QED
    BY <1>0, <2>1
<1>8. CASE PrintField
  BY <1>0, <1>8 DEF PrintField
<1>9. CASE ParserStarves
  <2>1. UNCHANGED <<prog, opts, kind, operands, files>> /\ stage' \in {"parse", "segv"} /\ stage = "parse"
    BY <1>9 DEF ParserStarves, Starves, FreesTwice, ControlStarves, ControlFails, cmdVars
  <2> QED
    BY <1>0, <2>1
<1>10. CASE ReadBack
  BY <1>10 DEF ReadBack, NoOpts
<1> QED
  BY <1>2, <1>3, <1>4, <1>5, <1>6, <1>7, <1>8, <1>9, <1>10, <1>11, <1>12, <1>13
     DEF TNext, ToolStep, Fault

\* TypeInv is inductive, given that the lists are linked.
LEMMA TypeStep ==
  ASSUME TypeInv, LinkedInv, [TNext]_tvars
  PROVE  TypeInv'
<1>1. CASE UNCHANGED tvars
  BY <1>1 DEF tvars, toolVars, cmdVars, controlVars, parseVars, TypeInv, ParserTyped, RecordTyped,
              ProgramTyped, OptionGiven, OutputFailed
<1>2. CASE TNext
  <2>0. OutputFailed'
    <3>1. OptsShaped /\ OutputFailed
      BY DEF TypeInv, ProgramTyped, OptRecords, OptsShaped, NoOpts
    <3> QED
      BY <1>2, <3>1, OutputStaysFailed
  <2>1. ProgramTyped' /\ OptionGiven'
    BY <1>2, ProgramKeepsTypes, OptionStaysGiven
  <2>2. ASSUME UNCHANGED controlVars PROVE ParserTyped' /\ RecordTyped'
    BY <2>2 DEF controlVars, parseVars, TypeInv, ParserTyped, RecordTyped
  <2>3. ParserTyped' /\ RecordTyped'
    <3>1. CASE OpenFile
      <4>1. PICK k \in {"binary", "source"} : ParseControl(k, files[operands[1]])
        BY <3>1 DEF OpenFile, KindOf
      <4>2. files[operands[1]] \in Seq(Text)
        BY <3>1 DEF OpenFile, TypeInv, ProgramTyped
      <4>3. ParserTyped'
        BY <4>1, <4>2, EmptySeq DEF ParseControl, ParseFile, ParserTyped, TypeInv, Statuses
      <4>4. /\ kind' = k /\ para' = 1 /\ field' = 1 /\ Len(paras') = 0
            /\ c' = IF k = "binary" THEN NoControl ELSE NoSource
        BY <4>1 DEF ParseControl, ParseFile
      <4>5. NoControl \in Controls
        BY NullTyped, EmptySeq DEF NoControl, Controls
      <4>6. NoSource \in SourceControls /\ Len(NoSource.bins) = 0
        BY NullTyped, EmptySeq DEF NoSource, SourceControls
      <4> QED
        BY <4>3, <4>4, <4>5, <4>6 DEF RecordTyped
    <3>2. CASE ParserStep
      BY <3>2, ControlKeepsTypes DEF ParserStep
    <3>3. CASE ParserStarves
      <4>1. /\ UNCHANGED <<unread, paras, in_break, kind, c, para, field>>
            /\ status' = "failed" /\ starved' = TRUE
        BY <3>3 DEF ParserStarves, Starves, FreesTwice, ParseStarves, ControlStarves, ControlFails
      <4> QED
        BY <4>1 DEF TypeInv, ParserTyped, RecordTyped, Statuses
    <3>4. CASE FieldOption \/ VersionOption \/ BuiltFromOption \/ OutputOption
                \/ OutputOptionFails \/ BuiltFromStarves \/ Usage \/ OptionsParsed
      BY <2>2, <3>4 DEF FieldOption, VersionOption, BuiltFromOption, OutputOption, OutputOptionFails,
                        BuiltFromStarves, Usage, OptionsParsed, Parses, Goes
    <3>5. CASE OpenFails \/ ParsingFails \/ PrintField \/ PrintsNull \/ AllPrinted \/ NotFound
                \/ UnnamedBin
      BY <2>2, <3>5 DEF OpenFails, ParsingFails, PrintField, PrintsNull, AllPrinted, NotFound,
                        UnnamedBin, Goes
    <3>6. CASE PrintControl \/ Returns \/ ReadBack \/ WriteCutShort \/ Killed
      BY <2>2, <3>6 DEF PrintControl, Returns, ReadBack, WriteCutShort, Killed, Goes
    <3> QED
      BY <1>2, <3>1, <3>2, <3>3, <3>4, <3>5, <3>6 DEF TNext, ToolStep, Fault
  <2> QED
    BY <2>0, <2>1, <2>3 DEF TypeInv
<1> QED
  BY <1>1, <1>2

(***************************************************************************)
(* Whatever the files and the command line are, the parser and the         *)
(* programs keep their types: no text is ever taken for a list, and no     *)
(* record of one kind for one of the other (control.c, gencontrol.c,       *)
(* srccontrol.c, pkgcontrol.c).                                            *)
(***************************************************************************)
THEOREM ToolsKeepTypes == TSpec => []ToolsTypeOK
<1>1. TInit => TypeInv /\ LinkedInv
  <2>1. TInit => LinkedInv
    BY EmptySeq DEF TInit, ControlInit, ParseInit, LinkedInv, GoodParas, IsSequence
  <2> QED
    BY <2>1, TypeInit
<1>2. TypeInv /\ LinkedInv /\ [TNext]_tvars => (TypeInv /\ LinkedInv)'
  BY TypeStep, LinkedStep
<1>3. TypeInv => ToolsTypeOK
  <2>1. opts \in OptRecords => opts.bf_extra \in Seq(BuiltFroms)
    BY DEF OptRecords
  <2> QED
    BY <2>1 DEF TypeInv, ParserTyped, RecordTyped, ProgramTyped, ToolsTypeOK
<1> QED
  BY <1>1, <1>2, <1>3, PTL DEF TSpec

(***************************************************************************)
(* How a rank grows from one line to the next.                             *)
(***************************************************************************)
LEMMA RankStep ==
  ASSUME NEW S \in SUBSET Nat, IsFiniteSet(S), NEW n \in Nat
  PROVE  /\ Rank(S, n) \in Nat
         /\ Rank(S, n + 1) = IF n + 1 \in S THEN Rank(S, n) + 1 ELSE Rank(S, n)
         /\ (\A i \in S : n < i) => Rank(S, n) = 0
<1> DEFINE U == {i \in S : i <= n}
           W == {i \in S : i <= n + 1}
<1>1. IsFiniteSet(U) /\ Cardinality(U) \in Nat
  BY FS_Subset, FS_CardinalityType
<1>0. /\ \A i \in S : i \in Nat
      /\ \A i \in Nat : (i <= n + 1 <=> i <= n \/ i = n + 1) /\ (n < i => ~(i <= n))
      /\ ~(n + 1 <= n)
  OBVIOUS
<1>2. W = IF n + 1 \in S THEN U \cup {n + 1} ELSE U
  <2>1. \A i : i \in W <=> i \in S /\ (i <= n \/ i = n + 1)
    BY <1>0
  <2>2. \A i : i \in U <=> i \in S /\ i <= n
    OBVIOUS
  <2> HIDE DEF U, W
  <2>3. CASE n + 1 \in S
    BY <2>1, <2>2, <2>3
  <2>4. CASE n + 1 \notin S
    BY <2>1, <2>2, <2>4
  <2> QED
    BY <2>3, <2>4
<1>3. n + 1 \notin U
  BY <1>0
<1>4. (\A i \in S : n < i) => U = {}
  BY <1>0
<1> HIDE DEF U, W
<1>5. Cardinality(U \cup {n + 1}) = Cardinality(U) + 1
  BY <1>1, <1>3, FS_AddElement
<1>6. U = {} => Cardinality(U) = 0
  BY FS_EmptySet
<1> QED
  BY <1>1, <1>2, <1>4, <1>5, <1>6 DEF Rank, U, W

\* Ranks in between two positions of a set.
LEMMA RankUntil ==
  ASSUME NEW S \in SUBSET Nat, IsFiniteSet(S), NEW i \in Nat, NEW k \in Nat, i <= k
  PROVE  /\ Rank(S, i) <= Rank(S, k)
         /\ Rank(S, i) \in Nat /\ Rank(S, k) \in Nat
         /\ (\A j \in S : j <= k => j <= i) => Rank(S, i) = Rank(S, k)
<1> DEFINE U == {j \in S : j <= i}
           W == {j \in S : j <= k}
<1>1. IsFiniteSet(U) /\ IsFiniteSet(W)
  BY FS_Subset
<1>0. (\A j \in S : j \in Nat) /\ (\A j \in Nat : j <= i => j <= k)
  OBVIOUS
<1>2. U \in SUBSET W
  BY <1>0
<1>3. (\A j \in S : j <= k => j <= i) => U = W
  BY <1>0
<1> HIDE DEF U, W
<1>4. Cardinality(U) <= Cardinality(W)
  BY <1>1, <1>2, FS_Subset
<1>5. Cardinality(U) \in Nat /\ Cardinality(W) \in Nat
  BY <1>1, FS_CardinalityType
<1> QED
  BY <1>3, <1>4, <1>5 DEF Rank, U, W

-----------------------------------------------------------------------------
HeadsOf(lines, p) == {i \in Heads(lines) : Reading(lines)[i].para = p}

(***************************************************************************)
(* The reading of a file, line by line.                                    *)
(***************************************************************************)
LEMMA ReadingSets ==
  ASSUME NEW lines \in Seq(Text)
  PROVE  /\ Len(lines) \in Nat /\ DOMAIN lines = 1..Len(lines)
         /\ \A i \in 1..Len(lines) : lines[i] \in Text
         /\ Texts(lines) \in SUBSET (1..Len(lines))
         /\ Texts(lines) \in SUBSET Nat /\ IsFiniteSet(Texts(lines))
         /\ Starts(lines) \in SUBSET Texts(lines)
         /\ Starts(lines) \in SUBSET Nat /\ IsFiniteSet(Starts(lines))
         /\ Heads(lines) \in SUBSET Texts(lines)
         /\ DOMAIN Reading(lines) = Texts(lines)
<1>1. /\ Len(lines) \in Nat /\ DOMAIN lines = 1..Len(lines)
      /\ \A i \in 1..Len(lines) : lines[i] \in Text
  BY LenProperties, ElementOfSeq
<1>2. Texts(lines) \in SUBSET (1..Len(lines))
  BY <1>1 DEF Texts
<1>3. Texts(lines) \in SUBSET Nat
  BY <1>1, <1>2
<1>4. IsFiniteSet(1..Len(lines))
  BY <1>1, FS_Interval
<1>5. IsFiniteSet(Texts(lines))
  BY <1>2, <1>4, FS_Subset
<1>6. Starts(lines) \in SUBSET Texts(lines) /\ Heads(lines) \in SUBSET Texts(lines)
  BY DEF Starts, Heads
<1>7. IsFiniteSet(Starts(lines)) /\ Starts(lines) \in SUBSET Nat
  BY <1>3, <1>5, <1>6, FS_Subset
<1>8. DOMAIN Reading(lines) = Texts(lines)
  BY DEF Reading
<1> QED
  BY <1>1, <1>2, <1>3, <1>5, <1>6, <1>7, <1>8

\* The names in a paragraph are finitely many.
LEMMA HeadsOfFinite ==
  ASSUME NEW lines \in Seq(Text), NEW p
  PROVE  HeadsOf(lines, p) \in SUBSET Nat /\ IsFiniteSet(HeadsOf(lines, p))
<1>1. HeadsOf(lines, p) \in SUBSET Texts(lines)
  BY ReadingSets DEF HeadsOf
<1> QED
  BY <1>1, ReadingSets, FS_Subset

\* What the reading says of one line, by ranks.
LEMMA ReadingAt ==
  ASSUME NEW lines \in Seq(Text), NEW i \in Texts(lines)
  PROVE  /\ Reading(lines)[i].para = Rank(Starts(lines), i)
         /\ Reading(lines)[i].field = Rank(HeadsOf(lines, Reading(lines)[i].para), i)
         /\ Reading(lines)[i].para \in Nat /\ Reading(lines)[i].field \in Nat
         /\ Reading(lines)[i].text =
                Trim(IF i \in Heads(lines) THEN After(lines[i], ":") ELSE lines[i])
         /\ Reading(lines)[i].field = 0 => Reading(lines)[i].name = <<>>
         /\ Reading(lines)[i].field # 0 =>
                \E h \in HeadsOf(lines, Reading(lines)[i].para) :
                    /\ h <= i /\ Reading(lines)[i].name = Before(lines[h], ":")
                    /\ \A j \in HeadsOf(lines, Reading(lines)[i].para) : j <= i => j <= h
<1> DEFINE R == Reading(lines)
           H(k) == {j \in Heads(lines) : j <= k /\ ParaAt(lines)[j] = ParaAt(lines)[k]}
<1>1. \A k \in Texts(lines) : ParaAt(lines)[k] = Rank(Starts(lines), k)
  BY DEF ParaAt
<1>2. \A k \in Texts(lines) : HeadsAt(lines)[k] = H(k)
  BY DEF HeadsAt
<1>3. \A k \in Texts(lines) :
        /\ R[k].para = ParaAt(lines)[k]
        /\ R[k].field = Cardinality(HeadsAt(lines)[k])
        /\ R[k].name = IF HeadsAt(lines)[k] = {} THEN <<>>
                       ELSE Before(lines[Max(HeadsAt(lines)[k])], ":")
        /\ R[k].text = Trim(IF StartsField(lines[k]) THEN After(lines[k], ":") ELSE lines[k])
  BY DEF Reading
<1> HIDE DEF R
<1> DEFINE P == R[i].para
<1>4. H(i) = {j \in HeadsOf(lines, P) : j <= i}
  <2>1. \A j \in Heads(lines) : ParaAt(lines)[j] = ParaAt(lines)[i] <=> R[j].para = P
    <3>1. Heads(lines) \in SUBSET Texts(lines)
      BY ReadingSets
    <3> QED
      BY <1>3, <3>1
  <2> QED
    BY <2>1 DEF HeadsOf, R
<1>5. R[i].field = Rank(HeadsOf(lines, P), i)
  BY <1>2, <1>3, <1>4 DEF Rank
<1>6. i \in Nat
  BY ReadingSets
<1>7. R[i].para \in Nat /\ R[i].field \in Nat
  <2>1. Rank(Starts(lines), i) \in Nat
    BY <1>6, ReadingSets, RankStep
  <2>2. Rank(HeadsOf(lines, P), i) \in Nat
    BY <1>6, HeadsOfFinite, RankStep
  <2> QED
    BY <1>1, <1>3, <1>5, <2>1, <2>2
<1>8. R[i].text = Trim(IF i \in Heads(lines) THEN After(lines[i], ":") ELSE lines[i])
  BY <1>3 DEF Heads
<1>9. H(i) \in SUBSET (0..i) /\ IsFiniteSet(H(i))
  <2>1. H(i) \in SUBSET HeadsOf(lines, P)
    BY <1>4
  <2>2. IsFiniteSet(H(i)) /\ H(i) \in SUBSET Nat
    BY <2>1, HeadsOfFinite, FS_Subset
  <2> QED
    BY <1>4, <1>6, <2>2
<1>10. R[i].field = 0 <=> H(i) = {}
  BY <1>2, <1>3, <1>9, FS_EmptySet
<1> HIDE DEF H, P
<1>11. ASSUME R[i].field # 0
       PROVE  \E h \in HeadsOf(lines, P) :
                /\ h <= i /\ R[i].name = Before(lines[h], ":")
                /\ \A j \in HeadsOf(lines, P) : j <= i => j <= h
  <2>1. H(i) # {}
    BY <1>10, <1>11
  <2>2. Max(H(i)) \in H(i) /\ \A k \in H(i) : k <= Max(H(i))
    BY <1>6, <1>9, <2>1, GreatestPosition
  <2>3. R[i].name = Before(lines[Max(H(i))], ":")
    BY <1>2, <1>3, <2>1
  <2> QED
    BY <1>4, <2>2, <2>3
<1> QED
  BY <1>1, <1>2, <1>3, <1>5, <1>7, <1>8, <1>10, <1>11 DEF R, P

(***************************************************************************)
(* A field's name is that before the colon of its first line.              *)
(***************************************************************************)
LEMMA NameOfHead ==
  ASSUME NEW lines \in Seq(Text), NEW i \in Texts(lines)
  PROVE  /\ i \in Heads(lines) =>
                Reading(lines)[i].field # 0 /\ Reading(lines)[i].name = Before(lines[i], ":")
         /\ Reading(lines)[i].field # 0 =>
                \E h \in Heads(lines) :
                    /\ h <= i
                    /\ Reading(lines)[h].para = Reading(lines)[i].para
                    /\ Reading(lines)[h].field = Reading(lines)[i].field
                    /\ Reading(lines)[h].name = Reading(lines)[i].name
<1> DEFINE R == Reading(lines)
           P == R[i].para
<1>0. /\ i \in Nat /\ HeadsOf(lines, P) \in SUBSET Nat /\ IsFiniteSet(HeadsOf(lines, P))
      /\ Heads(lines) \in SUBSET Texts(lines)
  BY ReadingSets, HeadsOfFinite
<1>1. ASSUME NEW h \in Heads(lines)
      PROVE  R[h].field # 0 /\ R[h].name = Before(lines[h], ":")
  <2> DEFINE S == HeadsOf(lines, R[h].para)
  <2>1. h \in Texts(lines) /\ h \in Nat /\ h \in S
    BY <1>0, ReadingSets DEF HeadsOf
  <2>2. S \in SUBSET Nat /\ IsFiniteSet(S)
    BY HeadsOfFinite
  <2>3. R[h].field = Rank(S, h)
    BY <2>1, ReadingAt
  <2>4. R[h].field # 0
    <3> HIDE DEF S
    <3>1. Rank(S, h) \in 1..Cardinality(S) /\ Cardinality(S) \in Nat
      BY <2>1, <2>2, RankTyped
    <3> QED
      BY <2>3, <3>1
  <2>5. PICK g \in S : /\ g <= h /\ R[h].name = Before(lines[g], ":")
                       /\ \A j \in S : j <= h => j <= g
    BY <2>1, <2>4, ReadingAt
  <2>6. g = h
    BY <2>1, <2>2, <2>5
  <2> QED
    BY <2>4, <2>5, <2>6
<1>2. ASSUME R[i].field # 0
      PROVE  \E h \in Heads(lines) : /\ h <= i /\ R[h].para = R[i].para
                                     /\ R[h].field = R[i].field /\ R[h].name = R[i].name
  <2>1. PICK h \in HeadsOf(lines, P) :
            /\ h <= i /\ R[i].name = Before(lines[h], ":")
            /\ \A j \in HeadsOf(lines, P) : j <= i => j <= h
    BY <1>2, ReadingAt
  <2>2. h \in Heads(lines) /\ R[h].para = P /\ h \in Texts(lines)
    BY <1>0 DEF HeadsOf
  <2>3. R[h].field = Rank(HeadsOf(lines, P), h) /\ R[i].field = Rank(HeadsOf(lines, P), i)
    BY <2>2, ReadingAt
  <2>4. Rank(HeadsOf(lines, P), h) = Rank(HeadsOf(lines, P), i)
    <3>1. h \in Nat
      BY <1>0
    <3> DEFINE S == HeadsOf(lines, P)
    <3>2. S \in SUBSET Nat /\ IsFiniteSet(S) /\ \A j \in S : j <= i => j <= h
      BY <1>0, <2>1
    <3> HIDE DEF S
    <3>3. Rank(S, h) = Rank(S, i)
      BY <1>0, <2>1, <3>1, <3>2, RankUntil
    <3> QED
      BY <3>3 DEF S
  <2>5. R[h].name = R[i].name
    BY <1>1, <2>1, <2>2
  <2> QED
    BY <2>1, <2>2, <2>3, <2>4, <2>5
<1> QED
  BY <1>1, <1>2

(***************************************************************************)
(* Lines, and those of them that are not empty, are what the first n lines *)
(* of a file say at some positions.                                        *)
(***************************************************************************)
UpTo(lines, X, n) == {i \in X : i <= n}
TextUpTo(lines, X, n) == {i \in X : i <= n /\ Reading(lines)[i].text # <<>>}

LinesOf(ls, lines, X, n) ==
    /\ ls \in Seq(Text)
    /\ ls = TextsAt(Reading(lines), UpTo(lines, X, n))
    /\ NonEmpty(ls) = TextsAt(Reading(lines), TextUpTo(lines, X, n))

\* A line's text is text.
LEMMA TextOfLine ==
  ASSUME NEW lines \in Seq(Text), NEW i \in Texts(lines)
  PROVE  Reading(lines)[i].text \in Text
<1>1. lines[i] \in Text
  BY ReadingSets
<1>2. After(lines[i], ":") \in Text
  BY <1>1, AroundTyped DEF Text
<1>3. \A t \in Text : Trim(t) \in Text
  BY TrimText DEF Text
<1> QED
  BY <1>1, <1>2, <1>3, ReadingAt

\* The texts at positions of which one is behind all others.
LEMMA TextsAtMore ==
  ASSUME NEW lines \in Seq(Text), NEW S \in SUBSET Texts(lines), NEW m \in Texts(lines),
         \A k \in S : k < m
  PROVE  TextsAt(Reading(lines), S \cup {m}) =
            Append(TextsAt(Reading(lines), S), Reading(lines)[m].text)
<1> DEFINE t == [i \in DOMAIN Reading(lines) |-> Reading(lines)[i].text]
<1>1. /\ Texts(lines) \in SUBSET Nat /\ IsFiniteSet(Texts(lines))
      /\ DOMAIN Reading(lines) = Texts(lines)
  BY ReadingSets
<1>2. S \in SUBSET Nat /\ IsFiniteSet(S) /\ m \in Nat
  BY <1>1, FS_Subset
<1>3. t[m] = Reading(lines)[m].text
  BY <1>1
<1> HIDE DEF t
<1>4. AtPositions(t, S \cup {m}) = Append(AtPositions(t, S), t[m])
  BY <1>2, AtOneMore
<1> QED
  BY <1>3, <1>4 DEF TextsAt, t

\* A field none of whose lines has been read has no lines.
LEMMA LinesBegin ==
  ASSUME NEW lines \in Seq(Text), NEW X \in SUBSET Texts(lines), NEW n \in Nat,
         \A i \in X : ~(i <= n)
  PROVE  LinesOf(<<>>, lines, X, n)
<1>1. UpTo(lines, X, n) = {} /\ TextUpTo(lines, X, n) = {}
  BY DEF UpTo, TextUpTo
<1>2. TextsAt(Reading(lines), {}) = <<>>
  BY AtNoPositions DEF TextsAt
<1>3. NonEmpty(<<>>) = <<>>
  <2>1. {k \in DOMAIN <<>> : <<>>[k] # <<>>} = {}
    OBVIOUS
  <2> QED
    BY <2>1, AtNoPositions DEF NonEmpty
<1>4. <<>> \in Seq(Text)
  BY EmptySeq
<1> QED
  BY <1>1, <1>2, <1>3, <1>4 DEF LinesOf

\* One more line has been read, of this field or of another one.
LEMMA LinesGrow ==
  ASSUME NEW lines \in Seq(Text), NEW X \in SUBSET Texts(lines), NEW n \in Nat, NEW ls,
         LinesOf(ls, lines, X, n)
  PROVE  /\ n + 1 \notin X => LinesOf(ls, lines, X, n + 1)
         /\ n + 1 \in X => LinesOf(Append(ls, Reading(lines)[n + 1].text), lines, X, n + 1)
<1> DEFINE R == Reading(lines)
           m == n + 1
           A == UpTo(lines, X, n)
           B == TextUpTo(lines, X, n)
<1>1. /\ m \in Nat /\ X \in SUBSET Nat
      /\ \A i \in Nat : (i <= m <=> i <= n \/ i = m) /\ (i <= n => i < m) /\ (i <= n => i # m)
  BY ReadingSets
<1>2. \A i \in X : i \in Nat
  BY <1>1
<1> HIDE DEF m
<1>3. /\ A \in SUBSET Texts(lines) /\ B \in SUBSET Texts(lines)
      /\ \A k \in A : k < m
      /\ \A k \in B : k < m
  BY <1>1, <1>2 DEF UpTo, TextUpTo
<1>4. ASSUME m \notin X PROVE LinesOf(ls, lines, X, m)
  <2>1. UpTo(lines, X, m) = A /\ TextUpTo(lines, X, m) = B
    BY <1>1, <1>2, <1>4 DEF UpTo, TextUpTo
  <2> QED
    BY <2>1 DEF LinesOf
<1>5. ASSUME m \in X PROVE LinesOf(Append(ls, R[m].text), lines, X, m)
  <2>1. UpTo(lines, X, m) = A \cup {m}
    BY <1>1, <1>2, <1>5 DEF UpTo
  <2>2. TextUpTo(lines, X, m) = IF R[m].text = <<>> THEN B ELSE B \cup {m}
    <3>1. CASE R[m].text = <<>>
      BY <1>1, <1>2, <1>5, <3>1 DEF TextUpTo
    <3>2. CASE R[m].text # <<>>
      <4>1. \A i : i \in TextUpTo(lines, X, m) <=> i \in B \/ i = m
        BY <1>1, <1>2, <1>5, <3>2 DEF TextUpTo
      <4> QED
        BY <3>2, <4>1
    <3> QED
      BY <3>1, <3>2
  <2>3. m \in Texts(lines) /\ R[m].text \in Text
    BY <1>5, TextOfLine
  <2> HIDE DEF A, B, R
  <2>4. /\ TextsAt(R, A \cup {m}) = Append(TextsAt(R, A), R[m].text)
        /\ TextsAt(R, B \cup {m}) = Append(TextsAt(R, B), R[m].text)
    BY <1>3, <2>3, TextsAtMore DEF R
  <2>5. /\ ls \in Seq(Text) /\ ls = TextsAt(R, A) /\ NonEmpty(ls) = TextsAt(R, B)
    BY DEF LinesOf, A, B, R
  <2>6. NonEmpty(Append(ls, R[m].text)) =
            IF R[m].text = <<>> THEN NonEmpty(ls) ELSE Append(NonEmpty(ls), R[m].text)
    BY <2>3, <2>5, NonEmptyAppend
  <2>7. Append(ls, R[m].text) \in Seq(Text)
    BY <2>3, <2>5, AppendProperties
  <2>8. NonEmpty(Append(ls, R[m].text)) = TextsAt(R, TextUpTo(lines, X, m))
    <3>1. CASE R[m].text = <<>>
      BY <2>2, <2>5, <2>6, <3>1
    <3>2. CASE R[m].text # <<>>
      BY <2>2, <2>4, <2>5, <2>6, <3>2
    <3> QED
      BY <3>1, <3>2
  <2>9. Append(ls, R[m].text) = TextsAt(R, UpTo(lines, X, m))
    BY <2>1, <2>4, <2>5
  <2> QED
    BY <2>7, <2>8, <2>9 DEF LinesOf, R
<1> QED
  BY <1>4, <1>5 DEF m

-----------------------------------------------------------------------------
(***************************************************************************)
(* Paragraphs are what the first n lines of a file say, but for how many   *)
(* there are.                                                              *)
(***************************************************************************)
LinesPlaced(ps, lines, n) ==
    LET R == Reading(lines) IN
    \A i \in Texts(lines) : i <= n =>
        /\ R[i].para \in 1..Len(ps) /\ R[i].field \in 1..Len(ps[R[i].para])
        /\ R[i].name = ps[R[i].para][R[i].field].name
        /\ i \in Heads(lines) => FirstOf(lines[i], ":") # 0

ParasFit(ps, lines, n) ==
    /\ ps \in Seq(Seq(Field))
    /\ \A p \in 1..Len(ps) : Len(ps[p]) = Rank(HeadsOf(lines, p), n)
    /\ LinesPlaced(ps, lines, n)
    /\ \A p \in 1..Len(ps) : \A f \in 1..Len(ps[p]) :
            LinesOf(ps[p][f].lines, lines, OfField(Reading(lines), p, f), n)

Fits(ps, lines, n) == ParasFit(ps, lines, n) /\ Len(ps) = Rank(Starts(lines), n)

\* No text is behind the last blank line.
Broken(lines, n) ==
    \A j \in Texts(lines) : j <= n => \E k \in Breaks(lines) : j < k /\ k <= n

\* Lines of a field are lines with text.
LEMMA FieldsTexts ==
  ASSUME NEW lines \in Seq(Text)
  PROVE  \A p, f : OfField(Reading(lines), p, f) \in SUBSET Texts(lines)
BY ReadingSets DEF OfField

\* Before the first line there is nothing to fit.
LEMMA FitsNothing ==
  ASSUME NEW lines \in Seq(Text)
  PROVE  Fits(<<>>, lines, 0) /\ Broken(lines, 0)
<1>1. /\ Texts(lines) \in SUBSET (1..Len(lines)) /\ Len(lines) \in Nat
      /\ Starts(lines) \in SUBSET Texts(lines)
      /\ Starts(lines) \in SUBSET Nat /\ IsFiniteSet(Starts(lines))
  BY ReadingSets
<1>2. \A i \in Texts(lines) : ~(i <= 0) /\ 0 < i
  BY <1>1
<1>3. Rank(Starts(lines), 0) = 0
  BY <1>1, <1>2, RankStep
<1>4. <<>> \in Seq(Seq(Field)) /\ Len(<<>>) = 0 /\ 1..0 = {}
  BY EmptySeq
<1> QED
  BY <1>2, <1>3, <1>4 DEF Fits, ParasFit, LinesPlaced, Broken

(***************************************************************************)
(* A line without text changes nothing but, when it is blank, the break.   *)
(***************************************************************************)
LEMMA RanksStay ==
  ASSUME NEW lines \in Seq(Text), NEW n \in Nat, NEW S \in SUBSET Texts(lines), n + 1 \notin S
  PROVE  Rank(S, n + 1) = Rank(S, n)
<1>1. S \in SUBSET Nat /\ IsFiniteSet(S)
  BY ReadingSets, FS_Subset
<1> QED
  BY <1>1, RankStep

\* A line without text changes nothing in the paragraphs.
LEMMA FitsSkipping ==
  ASSUME NEW lines \in Seq(Text), NEW n \in Nat, NEW ps, Fits(ps, lines, n),
         n + 1 \notin Texts(lines)
  PROVE  Fits(ps, lines, n + 1)
<1>1. Starts(lines) \in SUBSET Texts(lines) /\ Texts(lines) \in SUBSET Nat
  BY ReadingSets
<1>2. \A p : HeadsOf(lines, p) \in SUBSET Texts(lines)
  BY ReadingSets DEF HeadsOf
<1>3. \A i \in Texts(lines) : i <= n + 1 => i <= n
  <2>1. \A i \in Nat : i <= n + 1 => i <= n \/ i = n + 1
    OBVIOUS
  <2> QED
    BY <1>1, <2>1
<1>4. /\ Rank(Starts(lines), n + 1) = Rank(Starts(lines), n)
      /\ \A p : Rank(HeadsOf(lines, p), n + 1) = Rank(HeadsOf(lines, p), n)
  BY <1>1, <1>2, RanksStay
<1>5. LinesPlaced(ps, lines, n + 1)
  BY <1>3 DEF Fits, ParasFit, LinesPlaced
<1>6. ASSUME NEW p \in 1..Len(ps), NEW f \in 1..Len(ps[p])
      PROVE  LinesOf(ps[p][f].lines, lines, OfField(Reading(lines), p, f), n + 1)
  <2>1. OfField(Reading(lines), p, f) \in SUBSET Texts(lines)
    BY FieldsTexts
  <2>2. LinesOf(ps[p][f].lines, lines, OfField(Reading(lines), p, f), n)
    BY <1>6 DEF Fits, ParasFit
  <2> QED
    BY <2>1, <2>2, LinesGrow
<1> QED
  BY <1>4, <1>5, <1>6 DEF Fits, ParasFit

\* How each kind of line changes whether a break was the last.
LEMMA BreakSteps ==
  ASSUME NEW lines \in Seq(Text), NEW n \in Nat, n + 1 \in 1..Len(lines)
  PROVE  /\ n + 1 \in Breaks(lines) => Broken(lines, n + 1) /\ n + 1 \notin Texts(lines)
         /\ n + 1 \notin Texts(lines) \cup Breaks(lines) =>
                (Broken(lines, n + 1) <=> Broken(lines, n))
         /\ n + 1 \in Texts(lines) =>
                ~Broken(lines, n + 1) /\ (Broken(lines, n) <=> n + 1 \in Starts(lines))
<1> DEFINE m == n + 1
<1>1. Texts(lines) \in SUBSET (1..Len(lines)) /\ Len(lines) \in Nat /\ DOMAIN lines = 1..Len(lines)
  BY ReadingSets
<1>2. \A i \in Texts(lines) \cup Breaks(lines) : i \in Nat
  BY <1>1 DEF Breaks
<1>3. /\ m \in Nat /\ ~(m < m) /\ m <= m
      /\ \A i \in Nat : /\ i <= m <=> i <= n \/ i = m
                        /\ i <= n <=> i < m
                        /\ m < i => ~(i <= m)
  OBVIOUS
<1> HIDE DEF m
<1>4. ASSUME m \in Breaks(lines) PROVE Broken(lines, m) /\ m \notin Texts(lines)
  <2>1. m \notin Texts(lines)
    BY <1>4 DEF Breaks, Texts
  <2> QED
    BY <1>2, <1>3, <1>4, <2>1 DEF Broken
<1>5. ASSUME m \notin Texts(lines) \cup Breaks(lines)
      PROVE  Broken(lines, m) <=> Broken(lines, n)
  BY <1>2, <1>3, <1>5 DEF Broken
<1>6. ASSUME m \in Texts(lines)
      PROVE  ~Broken(lines, m) /\ (Broken(lines, n) <=> m \in Starts(lines))
  <2>1. ~Broken(lines, m)
    BY <1>2, <1>3, <1>6 DEF Broken
  <2>2. Broken(lines, n) <=> m \in Starts(lines)
    BY <1>2, <1>3, <1>6 DEF Broken, Starts
  <2> QED
    BY <2>1, <2>2
<1> QED
  BY <1>4, <1>5, <1>6 DEF m

\* A position is the last one or one of those before it.
LEMMA LastIndex ==
  \A q \in Nat \ {0} :
    /\ \A p \in 1..q : p \in 1..(q - 1) \/ p = q
    /\ \A p \in 1..(q - 1) : p \in 1..q /\ p # q
    /\ q \in 1..q
OBVIOUS

(***************************************************************************)
(* The paragraph that the next line with text belongs to is the last one   *)
(* of those opened for it.                                                 *)
(***************************************************************************)
OpenedFor(ps, brk) == IF brk THEN Append(ps, <<>>) ELSE ps

\* The paragraph of a line with text is the last one, once opened.
LEMMA FitsOpened ==
  ASSUME NEW lines \in Seq(Text), NEW n \in Nat, NEW ps, Fits(ps, lines, n),
         n + 1 \in Texts(lines), NEW brk \in BOOLEAN, brk <=> n + 1 \in Starts(lines)
  PROVE  /\ ParasFit(OpenedFor(ps, brk), lines, n)
         /\ Len(OpenedFor(ps, brk)) = Reading(lines)[n + 1].para
<1> DEFINE m == n + 1
           S == Starts(lines)
           more == Append(ps, <<>>)
<1>1. S \in SUBSET Nat /\ IsFiniteSet(S) /\ Texts(lines) \in SUBSET Nat
  BY ReadingSets
<1>2. Reading(lines)[m].para = Rank(S, m)
  BY ReadingAt
<1>3. Rank(S, n) \in Nat /\ Rank(S, m) = IF m \in S THEN Rank(S, n) + 1 ELSE Rank(S, n)
  BY <1>1, RankStep
<1>4. ps \in Seq(Seq(Field)) /\ Len(ps) = Rank(S, n)
  BY DEF Fits, ParasFit
<1>5. CASE ~brk
  <2>1. OpenedFor(ps, brk) = ps
    BY <1>5 DEF OpenedFor
  <2>2. m \notin S
    BY <1>5
  <2> QED
    BY <1>2, <1>3, <1>4, <2>1, <2>2 DEF Fits
<1>6. CASE brk
  <2>1. OpenedFor(ps, brk) = more /\ m \in S
    BY <1>6 DEF OpenedFor
  <2>2. /\ more \in Seq(Seq(Field)) /\ Len(more) = Len(ps) + 1
        /\ \A p \in 1..Len(ps) : more[p] = ps[p]
        /\ more[Len(ps) + 1] = <<>>
    BY <1>4, EmptySeq, AppendProperties
  <2> DEFINE q == Len(ps) + 1
  <2>3. /\ \A p \in 1..q : p \in 1..Len(ps) \/ p = q
        /\ \A p \in 1..Len(ps) : p \in 1..q
        /\ q \in 1..q
    BY <1>3, <1>4
  <2>4. Rank(HeadsOf(lines, q), n) = 0
    <3>1. ASSUME NEW i \in HeadsOf(lines, q) PROVE n < i
      <4>1. i \in Texts(lines) /\ i \in Nat /\ Reading(lines)[i].para = q
        BY <1>1, ReadingSets DEF HeadsOf
      <4>2. Rank(S, i) = q
        BY <4>1, ReadingAt
      <4>3. i <= n => Rank(S, i) <= Rank(S, n) /\ Rank(S, i) \in Nat
        BY <1>1, <4>1, RankUntil
      <4>4. ~(q <= Rank(S, n))
        BY <1>3, <1>4
      <4> HIDE DEF q
      <4>5. ~(i <= n)
        BY <4>2, <4>3, <4>4
      <4> QED
        BY <4>1, <4>5
    <3> HIDE DEF q
    <3> QED
      BY <3>1, HeadsOfFinite, RankStep
  <2> HIDE DEF q, more
  <2>5. Len(more) = q /\ more[q] = <<>> /\ \A p \in 1..Len(ps) : more[p] = ps[p]
    BY <2>2 DEF q
  <2>6. ASSUME NEW p \in 1..q PROVE Len(more[p]) = Rank(HeadsOf(lines, p), n)
    <3>1. CASE p \in 1..Len(ps)
      BY <2>5, <3>1 DEF Fits, ParasFit
    <3>2. CASE p = q
      BY <2>4, <2>5, <3>2
    <3> QED
      BY <2>3, <3>1, <3>2
  <2>7. LinesPlaced(more, lines, n)
    BY <2>3, <2>5 DEF Fits, ParasFit, LinesPlaced
  <2>8. ASSUME NEW p \in 1..q, NEW f \in 1..Len(more[p])
        PROVE  LinesOf(more[p][f].lines, lines, OfField(Reading(lines), p, f), n)
    <3>1. CASE p \in 1..Len(ps)
      <4>1. more[p] = ps[p] /\ f \in 1..Len(ps[p])
        BY <2>5, <2>8, <3>1
      <4>2. LinesOf(ps[p][f].lines, lines, OfField(Reading(lines), p, f), n)
        BY <3>1, <4>1 DEF Fits, ParasFit
      <4> QED
        BY <4>1, <4>2
    <3>2. CASE p = q
      <4>1. Len(more[p]) = 0
        BY <2>5, <3>2
      <4> QED
        BY <2>8, <4>1
    <3> QED
      BY <2>3, <3>1, <3>2
  <2>9. Len(more) = Rank(S, m)
    BY <1>3, <1>4, <2>1, <2>2
  <2> QED
    BY <1>2, <2>1, <2>2, <2>5, <2>6, <2>7, <2>8, <2>9 DEF ParasFit
<1> QED
  BY <1>5, <1>6

-----------------------------------------------------------------------------
\* Appending to the last list of a list of lists.
LEMMA LastOfLast ==
  ASSUME NEW T, NEW s \in Seq(Seq(T)), s # <<>>, NEW e \in T
  PROVE  /\ OnLast(s, Append(Last(s), e)) \in Seq(Seq(T))
         /\ Len(OnLast(s, Append(Last(s), e))) = Len(s)
         /\ \A k \in 1..(Len(s) - 1) : OnLast(s, Append(Last(s), e))[k] = s[k]
         /\ OnLast(s, Append(Last(s), e))[Len(s)] = Append(Last(s), e)
<1> DEFINE n == Append(Last(s), e)
           U == Seq(T)
<1>1. s \in Seq(U) /\ n \in U
  BY LastElement, AppendProperties
<1> HIDE DEF n, U
<1>2. /\ OnLast(s, n) \in Seq(U) /\ Len(OnLast(s, n)) = Len(s)
      /\ \A k \in 1..(Len(s) - 1) : OnLast(s, n)[k] = s[k]
      /\ OnLast(s, n)[Len(s)] = n
  BY <1>1, LastReplaced
<1> QED
  BY <1>2 DEF n, U

(***************************************************************************)
(* A line that starts a field, where it has a colon.                       *)
(***************************************************************************)
LEMMA FitsField ==
  ASSUME NEW lines \in Seq(Text), NEW n \in Nat, NEW ps, ParasFit(ps, lines, n), ps # <<>>,
         n + 1 \in Heads(lines), Len(ps) = Reading(lines)[n + 1].para,
         FirstOf(lines[n + 1], ":") # 0,
         NEW fld, fld = [name |-> Before(lines[n + 1], ":"),
                         lines |-> <<Trim(After(lines[n + 1], ":"))>>],
         fld \in Field
  PROVE  Fits(OnLast(ps, Append(Last(ps), fld)), lines, n + 1)
<1> DEFINE R == Reading(lines)
           m == n + 1
           q == Len(ps)
           old == Last(ps)
           new == Append(old, fld)
           more == OnLast(ps, new)
           F == Len(old) + 1
<1>1. ps \in Seq(Seq(Field)) /\ q \in Nat \ {0} /\ old = ps[q] /\ old \in Seq(Field)
  BY LastElement DEF ParasFit
<1>2. /\ new \in Seq(Field) /\ Len(old) \in Nat /\ Len(new) = F
      /\ \A f \in 1..Len(old) : new[f] = old[f]
      /\ new[F] = fld
  BY <1>1, AppendProperties, LenProperties
<1>3. /\ more \in Seq(Seq(Field)) /\ Len(more) = q
      /\ \A p \in 1..(q - 1) : more[p] = ps[p]
      /\ more[q] = new
  <2>1. \A e \in Field :
            /\ OnLast(ps, Append(Last(ps), e)) \in Seq(Seq(Field))
            /\ Len(OnLast(ps, Append(Last(ps), e))) = Len(ps)
            /\ \A k \in 1..(Len(ps) - 1) : OnLast(ps, Append(Last(ps), e))[k] = ps[k]
            /\ OnLast(ps, Append(Last(ps), e))[Len(ps)] = Append(Last(ps), e)
    BY <1>1, LastOfLast
  <2> QED
    BY <2>1
<1>4. m \in Texts(lines) /\ m \in Nat /\ R[m].para = q /\ Texts(lines) \in SUBSET Nat
  BY ReadingSets
<1>5. /\ R[m].field = Rank(HeadsOf(lines, q), m) /\ R[m].name = Before(lines[m], ":")
      /\ R[m].text = Trim(After(lines[m], ":"))
  BY <1>4, ReadingAt, NameOfHead
<1>6. /\ \A p \in 1..q : p \in 1..(q - 1) \/ p = q
      /\ \A p \in 1..(q - 1) : p \in 1..q /\ p # q
      /\ q \in 1..q /\ F \in 1..F
      /\ \A f \in 1..F : f \in 1..Len(old) \/ f = F
      /\ \A f \in 1..Len(old) : f \in 1..F /\ f # F
  <2>1. q \in Nat \ {0} /\ Len(old) \in Nat
    BY <1>1, <1>2
  <2> HIDE DEF q, old
  <2> DEFINE k == Len(old)
  <2>2. k \in Nat
    BY <2>1
  <2> HIDE DEF k
  <2>3. /\ k + 1 \in 1..(k + 1)
        /\ \A f \in 1..(k + 1) : f \in 1..k \/ f = k + 1
        /\ \A f \in 1..k : f \in 1..(k + 1) /\ f # k + 1
    BY <2>2
  <2>4. /\ \A p \in 1..q : p \in 1..(q - 1) \/ p = q
        /\ \A p \in 1..(q - 1) : p \in 1..q /\ p # q
        /\ q \in 1..q
    BY <2>1
  <2> QED
    BY <2>3, <2>4 DEF k
<1>7. \A i \in Texts(lines) : i <= m <=> i <= n \/ i = m
  BY <1>4
<1>8. Len(old) = Rank(HeadsOf(lines, q), n)
  BY <1>1, <1>6 DEF ParasFit
<1>9. /\ Rank(HeadsOf(lines, q), m) = F
      /\ \A p : p # q => Rank(HeadsOf(lines, p), m) = Rank(HeadsOf(lines, p), n)
  <2>1. m \in HeadsOf(lines, q) /\ \A p : p # q => m \notin HeadsOf(lines, p)
    BY <1>4 DEF HeadsOf
  <2>2. \A p : HeadsOf(lines, p) \in SUBSET Texts(lines)
    BY ReadingSets DEF HeadsOf
  <2> QED
    <3>1. \A p : p # q => Rank(HeadsOf(lines, p), m) = Rank(HeadsOf(lines, p), n)
      BY <2>1, <2>2, RanksStay
    <3> DEFINE H == HeadsOf(lines, q)
    <3>2. H \in SUBSET Nat /\ IsFiniteSet(H)
      BY HeadsOfFinite
    <3>3. m \in H
      BY <2>1
    <3> HIDE DEF H
    <3>4. Rank(H, n + 1) = Rank(H, n) + 1
      BY <3>2, <3>3, RankStep
    <3> QED
      BY <1>8, <3>1, <3>4 DEF H
<1> HIDE DEF R, q, old, new, F
<1>10. ASSUME NEW p \in 1..q PROVE Len(more[p]) = Rank(HeadsOf(lines, p), m)
  <2>1. CASE p = q
    BY <1>2, <1>3, <1>9, <2>1
  <2>2. CASE p \in 1..(q - 1)
    <3>1. Len(ps[p]) = Rank(HeadsOf(lines, p), n)
      BY <1>6, <2>2 DEF ParasFit, q
    <3> QED
      BY <1>3, <1>6, <1>9, <2>2, <3>1
  <2> QED
    BY <1>6, <2>1, <2>2
<1>11. ASSUME NEW i \in Texts(lines), i <= n
       PROVE  /\ R[i].para \in 1..q /\ R[i].field \in 1..Len(ps[R[i].para])
              /\ R[i].name = ps[R[i].para][R[i].field].name
              /\ i \in Heads(lines) => FirstOf(lines[i], ":") # 0
  BY <1>11 DEF ParasFit, LinesPlaced, R, q
<1>12. R[m].field = F
  BY <1>5, <1>9
<1>13. fld.name = Before(lines[m], ":") /\ fld.lines = <<Trim(After(lines[m], ":"))>>
  OBVIOUS
<1>14. ASSUME NEW i \in Texts(lines), i <= m
       PROVE  /\ R[i].para \in 1..Len(more) /\ R[i].field \in 1..Len(more[R[i].para])
              /\ R[i].name = more[R[i].para][R[i].field].name
              /\ i \in Heads(lines) => FirstOf(lines[i], ":") # 0
  <2>1. CASE i = m
    BY <1>2, <1>3, <1>4, <1>5, <1>6, <1>12, <1>13, <2>1
  <2>2. CASE i <= n
    <3>1. CASE R[i].para = q
      <4>1. R[i].field \in 1..Len(old) /\ R[i].name = old[R[i].field].name
        BY <1>1, <1>11, <2>2, <3>1
      <4> QED
        BY <1>2, <1>3, <1>6, <1>11, <2>2, <3>1, <4>1
    <3>2. CASE R[i].para \in 1..(q - 1)
      BY <1>3, <1>11, <2>2, <3>2
    <3> QED
      BY <1>6, <1>11, <2>2, <3>1, <3>2
  <2> QED
    BY <1>7, <1>14, <2>1, <2>2
<1>15. ASSUME NEW p \in 1..q, NEW f \in 1..Len(more[p])
       PROVE  LinesOf(more[p][f].lines, lines, OfField(R, p, f), m)
  <2> DEFINE X == OfField(R, p, f)
  <2>1. X \in SUBSET Texts(lines)
    BY FieldsTexts DEF R
  <2>2. \A i : i \in X <=> i \in Texts(lines) /\ R[i].para = p /\ R[i].field = f
    BY ReadingSets DEF OfField, R
  <2> HIDE DEF X
  <2>3. CASE p \in 1..(q - 1)
    <3>1. more[p] = ps[p] /\ p \in 1..Len(ps) /\ p # q /\ f \in 1..Len(ps[p])
      BY <1>3, <1>6, <1>15, <2>3 DEF q
    <3>2. LinesOf(ps[p][f].lines, lines, X, n)
      BY <3>1 DEF ParasFit, X, R
    <3>3. m \notin X
      BY <1>4, <2>2, <3>1
    <3> QED
      BY <2>1, <3>1, <3>2, <3>3, LinesGrow DEF X
  <2>4. CASE p = q /\ f \in 1..Len(old)
    <3>1. more[p][f] = old[f] /\ q \in 1..Len(ps) /\ old = ps[q] /\ f # F
      BY <1>1, <1>2, <1>3, <1>6, <2>4 DEF q
    <3>2. LinesOf(ps[q][f].lines, lines, X, n)
      BY <2>4, <3>1 DEF ParasFit, X, R
    <3>3. m \notin X
      BY <1>12, <2>2, <3>1
    <3> QED
      BY <2>1, <3>1, <3>2, <3>3, LinesGrow DEF X
  <2>5. CASE p = q /\ f = F
    <3>1. \A i \in X : ~(i <= n)
      BY <1>1, <1>6, <1>11, <2>2, <2>5
    <3>2. LinesOf(<<>>, lines, X, n)
      BY <2>1, <3>1, LinesBegin
    <3>3. m \in X
      BY <1>4, <1>12, <2>2, <2>5
    <3>4. LinesOf(Append(<<>>, R[m].text), lines, X, m)
      BY <2>1, <3>2, <3>3, LinesGrow DEF R
    <3>5. Append(<<>>, R[m].text) = <<R[m].text>>
      OBVIOUS
    <3>6. more[p][f].lines = <<R[m].text>>
      BY <1>2, <1>3, <1>5, <1>13, <2>5
    <3> QED
      BY <3>4, <3>5, <3>6 DEF X
  <2> QED
    BY <1>2, <1>3, <1>6, <1>15, <2>3, <2>4, <2>5
<1>16. Len(more) = Rank(Starts(lines), m)
  BY <1>3, <1>4, ReadingAt DEF R
<1> HIDE DEF more, m
<1>17. LinesPlaced(more, lines, m)
  BY <1>14 DEF LinesPlaced, R
<1>18. ParasFit(more, lines, m)
  BY <1>3, <1>10, <1>15, <1>17 DEF ParasFit, R
<1> QED
  BY <1>16, <1>18 DEF Fits, more, m, new, old

(***************************************************************************)
(* A line that continues the last field of the last paragraph.             *)
(***************************************************************************)
LEMMA LastOfLastReplaced ==
  ASSUME NEW T, NEW s \in Seq(Seq(T)), s # <<>>, Last(s) # <<>>, NEW e \in T
  PROVE  /\ OnLast(s, OnLast(Last(s), e)) \in Seq(Seq(T))
         /\ Len(OnLast(s, OnLast(Last(s), e))) = Len(s)
         /\ \A k \in 1..(Len(s) - 1) : OnLast(s, OnLast(Last(s), e))[k] = s[k]
         /\ OnLast(s, OnLast(Last(s), e))[Len(s)] = OnLast(Last(s), e)
         /\ Len(OnLast(Last(s), e)) = Len(Last(s))
         /\ \A k \in 1..(Len(Last(s)) - 1) : OnLast(Last(s), e)[k] = Last(s)[k]
         /\ OnLast(Last(s), e)[Len(Last(s))] = e
<1> DEFINE n == OnLast(Last(s), e)
           l == Last(s)
           U == Seq(T)
<1>1. l \in Seq(T) /\ l # <<>>
  BY LastElement
<1> HIDE DEF l
<1>2. /\ OnLast(l, e) \in Seq(T) /\ Len(OnLast(l, e)) = Len(l)
      /\ \A k \in 1..(Len(l) - 1) : OnLast(l, e)[k] = l[k]
      /\ OnLast(l, e)[Len(l)] = e
  BY <1>1, LastReplaced
<1>3. s \in Seq(U) /\ n \in U
  BY <1>2 DEF l
<1> HIDE DEF n, U
<1>4. /\ OnLast(s, n) \in Seq(U) /\ Len(OnLast(s, n)) = Len(s)
      /\ \A k \in 1..(Len(s) - 1) : OnLast(s, n)[k] = s[k]
      /\ OnLast(s, n)[Len(s)] = n
  BY <1>3, LastReplaced
<1> QED
  BY <1>2, <1>4 DEF n, U, l

\* A line that continues a field.
LEMMA FitsContinuation ==
  ASSUME NEW lines \in Seq(Text), NEW n \in Nat, NEW ps, ParasFit(ps, lines, n), ps # <<>>,
         Last(ps) # <<>>,
         n + 1 \in Texts(lines), n + 1 \notin Heads(lines),
         Len(ps) = Reading(lines)[n + 1].para,
         NEW fld \in Field, fld.name = Last(Last(ps)).name,
         fld.lines = Append(Last(Last(ps)).lines, Trim(lines[n + 1]))
  PROVE  Fits(OnLast(ps, OnLast(Last(ps), fld)), lines, n + 1)
<1> DEFINE R == Reading(lines)
           m == n + 1
           q == Len(ps)
           old == Last(ps)
           new == OnLast(old, fld)
           more == OnLast(ps, new)
           F == Len(old)
<1>1. ps \in Seq(Seq(Field)) /\ q \in Nat \ {0} /\ old = ps[q] /\ old \in Seq(Field)
  BY LastElement DEF ParasFit
<1>2. /\ more \in Seq(Seq(Field)) /\ Len(more) = q
      /\ \A p \in 1..(q - 1) : more[p] = ps[p]
      /\ more[q] = new
      /\ Len(new) = F
      /\ \A f \in 1..(F - 1) : new[f] = old[f]
      /\ new[F] = fld
  <2>1. \A e \in Field :
        /\ OnLast(ps, OnLast(Last(ps), e)) \in Seq(Seq(Field))
        /\ Len(OnLast(ps, OnLast(Last(ps), e))) = Len(ps)
        /\ \A k \in 1..(Len(ps) - 1) : OnLast(ps, OnLast(Last(ps), e))[k] = ps[k]
        /\ OnLast(ps, OnLast(Last(ps), e))[Len(ps)] = OnLast(Last(ps), e)
        /\ Len(OnLast(Last(ps), e)) = Len(Last(ps))
        /\ \A k \in 1..(Len(Last(ps)) - 1) : OnLast(Last(ps), e)[k] = Last(ps)[k]
        /\ OnLast(Last(ps), e)[Len(Last(ps))] = e
    BY <1>1, LastOfLastReplaced
  <2> QED
    BY <2>1
<1>3. F \in Nat \ {0} /\ Last(old) = old[F] /\ old[F] \in Field
  BY <1>1, LastElement
<1>4. m \in Texts(lines) /\ m \in Nat /\ R[m].para = q /\ Texts(lines) \in SUBSET Nat
  BY ReadingSets
<1>5. R[m].field = Rank(HeadsOf(lines, q), m) /\ R[m].text = Trim(lines[m])
  BY <1>4, ReadingAt
<1>6. /\ \A p \in 1..q : p \in 1..(q - 1) \/ p = q
      /\ \A p \in 1..(q - 1) : p \in 1..q /\ p # q
      /\ q \in 1..q /\ F \in 1..F
      /\ \A f \in 1..F : f \in 1..(F - 1) \/ f = F
      /\ \A f \in 1..(F - 1) : f \in 1..F /\ f # F
  <2> HIDE DEF q
  <2>1. /\ \A p \in 1..q : p \in 1..(q - 1) \/ p = q
        /\ \A p \in 1..(q - 1) : p \in 1..q /\ p # q
        /\ q \in 1..q
    BY <1>1, LastIndex
  <2> HIDE DEF F
  <2>2. /\ \A f \in 1..F : f \in 1..(F - 1) \/ f = F
        /\ \A f \in 1..(F - 1) : f \in 1..F /\ f # F
        /\ F \in 1..F
    BY <1>3, LastIndex
  <2> QED
    BY <2>1, <2>2
<1>7. \A i \in Texts(lines) : i <= m <=> i <= n \/ i = m
  BY <1>4
<1>8. F = Rank(HeadsOf(lines, q), n)
  BY <1>1, <1>6 DEF ParasFit
<1>9. \A p : Rank(HeadsOf(lines, p), m) = Rank(HeadsOf(lines, p), n)
  <2>1. \A p : m \notin HeadsOf(lines, p) /\ HeadsOf(lines, p) \in SUBSET Texts(lines)
    BY ReadingSets DEF HeadsOf
  <2> QED
    BY <2>1, RanksStay
<1>10. R[m].field = F
  BY <1>5, <1>8, <1>9
<1>11. /\ fld.name = old[F].name /\ fld.lines = Append(old[F].lines, Trim(lines[m]))
  BY <1>3
<1> HIDE DEF R, q, old, new, F
<1>12. ASSUME NEW p \in 1..q PROVE Len(more[p]) = Rank(HeadsOf(lines, p), m)
  <2>1. CASE p = q
    BY <1>2, <1>8, <1>9, <2>1
  <2>2. CASE p \in 1..(q - 1)
    <3>1. Len(ps[p]) = Rank(HeadsOf(lines, p), n)
      BY <1>6, <2>2 DEF ParasFit, q
    <3> QED
      BY <1>2, <1>9, <2>2, <3>1
  <2> QED
    BY <1>6, <2>1, <2>2
<1>13. ASSUME NEW i \in Texts(lines), i <= n
       PROVE  /\ R[i].para \in 1..q /\ R[i].field \in 1..Len(ps[R[i].para])
              /\ R[i].name = ps[R[i].para][R[i].field].name
              /\ i \in Heads(lines) => FirstOf(lines[i], ":") # 0
  BY <1>13 DEF ParasFit, LinesPlaced, R, q
<1>14. \A f \in 1..F : new[f].name = old[f].name
  BY <1>2, <1>6, <1>11
<1>15. R[m].name = old[F].name
  <2>1. R[m].field # 0
    BY <1>3, <1>10
  <2>2. PICK h \in Heads(lines) : /\ h <= m /\ R[h].para = q /\ R[h].field = F
                                  /\ R[h].name = R[m].name
    BY <1>4, <1>10, <2>1, NameOfHead DEF R
  <2>3. h \in Texts(lines) /\ h # m
    BY <2>2, ReadingSets
  <2>4. h <= n
    BY <1>7, <2>2, <2>3
  <2> QED
    BY <1>1, <1>13, <2>2, <2>3, <2>4
<1>16. ASSUME NEW i \in Texts(lines), i <= m
       PROVE  /\ R[i].para \in 1..Len(more) /\ R[i].field \in 1..Len(more[R[i].para])
              /\ R[i].name = more[R[i].para][R[i].field].name
              /\ i \in Heads(lines) => FirstOf(lines[i], ":") # 0
  <2>1. CASE i = m
    BY <1>2, <1>4, <1>6, <1>10, <1>14, <1>15, <2>1
  <2>2. CASE i <= n
    <3>1. CASE R[i].para = q
      <4>1. R[i].field \in 1..F /\ R[i].name = old[R[i].field].name
        BY <1>1, <1>13, <2>2, <3>1 DEF F
      <4> QED
        <5>1. /\ R[i].para \in 1..Len(more) /\ more[R[i].para] = new
              /\ i \in Heads(lines) => FirstOf(lines[i], ":") # 0
          BY <1>2, <1>6, <1>13, <2>2, <3>1
        <5>2. R[i].field \in 1..Len(new) /\ R[i].name = new[R[i].field].name
          BY <1>2, <1>14, <4>1
        <5> QED
          BY <5>1, <5>2
    <3>2. CASE R[i].para \in 1..(q - 1)
      BY <1>2, <1>13, <2>2, <3>2
    <3> QED
      BY <1>6, <1>13, <2>2, <3>1, <3>2
  <2> QED
    BY <1>7, <1>16, <2>1, <2>2
<1>17. ASSUME NEW p \in 1..q, NEW f \in 1..Len(more[p])
       PROVE  LinesOf(more[p][f].lines, lines, OfField(R, p, f), m)
  <2> DEFINE X == OfField(R, p, f)
  <2>1. X \in SUBSET Texts(lines)
    BY FieldsTexts DEF R
  <2>2. \A i : i \in X <=> i \in Texts(lines) /\ R[i].para = p /\ R[i].field = f
    BY ReadingSets DEF OfField, R
  <2> HIDE DEF X
  <2>3. CASE p \in 1..(q - 1)
    <3>1. more[p] = ps[p] /\ p \in 1..Len(ps) /\ p # q /\ f \in 1..Len(ps[p])
      BY <1>2, <1>6, <1>17, <2>3 DEF q
    <3>2. LinesOf(ps[p][f].lines, lines, X, n)
      BY <3>1 DEF ParasFit, X, R
    <3>3. m \notin X
      BY <1>4, <2>2, <3>1
    <3> QED
      BY <2>1, <3>1, <3>2, <3>3, LinesGrow DEF X
  <2>4. CASE p = q /\ f \in 1..F
    <3>1. more[p] = new /\ q \in 1..Len(ps) /\ old = ps[q] /\ f \in 1..Len(ps[q])
      BY <1>1, <1>2, <1>6, <2>4 DEF q, F
    <3>2. LinesOf(old[f].lines, lines, X, n)
      BY <2>4, <3>1 DEF ParasFit, X, R
    <3>3. CASE f # F
      <4>1. m \notin X
        BY <1>10, <2>2, <3>3
      <4>2. new[f] = old[f]
        BY <1>2, <1>6, <2>4, <3>3
      <4> QED
        BY <2>1, <3>1, <3>2, <4>1, <4>2, LinesGrow DEF X
    <3>4. CASE f = F
      <4>1. m \in X
        BY <1>4, <1>10, <2>2, <2>4, <3>4
      <4>2. LinesOf(Append(old[f].lines, R[m].text), lines, X, m)
        BY <2>1, <3>2, <4>1, LinesGrow DEF R
      <4>3. new[f].lines = Append(old[f].lines, R[m].text)
        BY <1>2, <1>5, <1>11, <3>4
      <4> QED
        BY <3>1, <4>2, <4>3 DEF X
    <3> QED
      BY <3>3, <3>4
  <2> QED
    BY <1>2, <1>6, <1>17, <2>3, <2>4
<1>18. Len(more) = Rank(Starts(lines), m)
  BY <1>2, <1>4, ReadingAt DEF R
<1> HIDE DEF more, m
<1>19. LinesPlaced(more, lines, m)
  BY <1>16 DEF LinesPlaced, R
<1>20. ParasFit(more, lines, m)
  BY <1>2, <1>12, <1>17, <1>19 DEF ParasFit, R
<1> QED
  BY <1>18, <1>20 DEF Fits, more, m, new, old

(***************************************************************************)
(* What has been parsed is what the lines read by then say.                *)
(***************************************************************************)
LinesTaken(n) ==
    /\ n \in 0..Len(TheFile) /\ Len(unread) = Len(TheFile) - n
    /\ \A k \in 1..Len(unread) : unread[k] = TheFile[n + k]
    /\ Fits(paras, TheFile, n)
    /\ in_break <=> Broken(TheFile, n)

LinesInv ==
    Parsing =>
        /\ status # "idle"
        /\ status = "lines" => para = 1 /\ field = 1 /\ \E n \in Nat : LinesTaken(n)
        /\ status \in {"fields", "ok"} =>
                Fits(paras, TheFile, Len(TheFile)) /\ ~NoColon(TheFile)

\* The file being parsed is one of lines of text, and of the kind the program expects.
LEMMA FileTyped ==
  ASSUME TypeInv, Parsing
  PROVE  TheFile \in Seq(Text) /\ kind = KindOf(prog) /\ kind \in {"source", "binary"}
BY DEF TypeInv, ProgramTyped, OptionGiven, Parsing, TheFile, KindOf

\* The next unread line is the one after the n that have been taken.
LEMMA LineIs ==
  ASSUME TypeInv, Parsing, NextLine, NEW n \in Nat, LinesTaken(n)
  PROVE  /\ n + 1 \in 1..Len(TheFile) /\ line = TheFile[n + 1] /\ line \in Text
         /\ Len(unread') = Len(TheFile) - (n + 1)
         /\ \A k \in 1..Len(unread') : unread'[k] = TheFile[n + 1 + k]
         /\ n + 1 \in Texts(TheFile) <=> ~IsComment(line) /\ ~IsBlank(line)
         /\ n + 1 \in Breaks(TheFile) <=> ~IsComment(line) /\ IsBlank(line)
         /\ n + 1 \in Heads(TheFile) <=>
                ~IsComment(line) /\ ~IsBlank(line) /\ StartsField(line)
<1> DEFINE L == TheFile
           N == Len(L)
<1>1. L \in Seq(Text) /\ N \in Nat /\ DOMAIN L = 1..N
  BY FileTyped, LenProperties
<1>2. unread \in Seq(Text) /\ unread # <<>> /\ unread' = Tail(unread)
  BY DEF NextLine, TypeInv, ParserTyped
<1>3. /\ Len(unread) \in Nat \ {0} /\ line = unread[1] /\ line \in Text
      /\ Len(unread') = Len(unread) - 1
      /\ \A k \in 1..(Len(unread) - 1) : unread'[k] = unread[k + 1]
  BY <1>2, HeadTailProperties, LenProperties, EmptySeq, ElementOfSeq DEF line
<1>4. /\ Len(unread) = N - n
      /\ \A k \in 1..Len(unread) : unread[k] = L[n + k]
  BY DEF LinesTaken
<1> HIDE DEF L, N
<1>5. n + 1 \in 1..N /\ 1 \in 1..Len(unread)
  BY <1>1, <1>3, <1>4
<1>6. line = L[n + 1]
  BY <1>3, <1>4, <1>5
<1>7. Len(unread') = N - (n + 1)
  BY <1>1, <1>3, <1>4
<1>8. ASSUME NEW k \in 1..Len(unread') PROVE unread'[k] = L[n + 1 + k]
  <2>1. k \in 1..(Len(unread) - 1) /\ k + 1 \in 1..Len(unread) /\ n + (k + 1) = n + 1 + k
    BY <1>3, <1>8
  <2> QED
    BY <1>3, <1>4, <2>1
<1>9. n + 1 \in DOMAIN L
  BY <1>1, <1>5
<1>10. /\ n + 1 \in Texts(L) <=> ~IsComment(line) /\ ~IsBlank(line)
       /\ n + 1 \in Breaks(L) <=> ~IsComment(line) /\ IsBlank(line)
       /\ n + 1 \in Heads(L) <=> ~IsComment(line) /\ ~IsBlank(line) /\ StartsField(line)
  BY <1>6, <1>9 DEF Texts, Breaks, Heads
<1> QED
  BY <1>3, <1>5, <1>6, <1>7, <1>8, <1>10 DEF L, N

(***************************************************************************)
(* The paragraphs opened for a line with text, and the one it belongs to.  *)
(***************************************************************************)
LEMMA OpenedFits ==
  ASSUME TypeInv, LinkedInv, Parsing, TextLine, NEW n \in Nat, LinesTaken(n)
  PROVE  /\ n + 1 \in Texts(TheFile)
         /\ ParasFit(Opened, TheFile, n) /\ Opened # <<>>
         /\ Len(Opened) = Reading(TheFile)[n + 1].para
         /\ ~Broken(TheFile, n + 1)
<1>1. NextLine /\ ~IsComment(line) /\ ~IsBlank(line)
  BY DEF TextLine
<1>2. n + 1 \in Texts(TheFile) /\ n + 1 \in 1..Len(TheFile) /\ TheFile \in Seq(Text)
  BY <1>1, LineIs, FileTyped
<1>3. ~Broken(TheFile, n + 1) /\ (Broken(TheFile, n) <=> n + 1 \in Starts(TheFile))
  BY <1>2, BreakSteps
<1>4. in_break \in BOOLEAN /\ (in_break <=> Broken(TheFile, n)) /\ Fits(paras, TheFile, n)
  BY DEF TypeInv, ParserTyped, LinesTaken
<1>5. in_break <=> n + 1 \in Starts(TheFile)
  BY <1>3, <1>4, Zenon
<1>6. /\ ParasFit(OpenedFor(paras, in_break), TheFile, n)
      /\ Len(OpenedFor(paras, in_break)) = Reading(TheFile)[n + 1].para
  BY <1>2, <1>4, <1>5, FitsOpened
<1>7. Opened = OpenedFor(paras, in_break)
  BY DEF Opened, OpenedFor
<1> QED
  BY <1>2, <1>3, <1>6, <1>7, OpenedTyped

\* Each kind of line is taken as the count has it.
LEMMA LineTaken ==
  ASSUME TypeInv, LinkedInv, Parsing, UNCHANGED toolVars, NEW n \in Nat, LinesTaken(n),
         CommentLine \/ BlankLine \/ FieldLine \/ ContinuationLine
  PROVE  LinesTaken(n + 1)' /\ n + 1 \in Nat
<1>1. TheFile' = TheFile /\ TheFile \in Seq(Text) /\ n + 1 \in Nat
  BY FileTyped DEF toolVars, cmdVars, TheFile
<1>2. NextLine /\ status = "lines"
  BY DEF CommentLine, BlankLine, FieldLine, ContinuationLine, TextLine, NextLine
<1>3. /\ n + 1 \in 0..Len(TheFile) /\ n + 1 \in 1..Len(TheFile) /\ line = TheFile[n + 1]
      /\ Len(unread') = Len(TheFile) - (n + 1)
      /\ \A k \in 1..Len(unread') : unread'[k] = TheFile[n + 1 + k]
  <2>1. /\ n + 1 \in 1..Len(TheFile) /\ line = TheFile[n + 1]
        /\ Len(unread') = Len(TheFile) - (n + 1)
        /\ \A k \in 1..Len(unread') : unread'[k] = TheFile[n + 1 + k]
    BY <1>2, LineIs
  <2>2. n + 1 \in 0..Len(TheFile)
    <3> DEFINE N == Len(TheFile)
    <3>1. N \in Nat
      BY <1>1, LenProperties
    <3> HIDE DEF N
    <3>2. \A k \in 1..N : k \in 0..N
      BY <3>1
    <3> QED
      BY <2>1, <3>2 DEF N
  <2> QED
    BY <2>1, <2>2
<1>4. Fits(paras, TheFile, n) /\ (in_break <=> Broken(TheFile, n))
  BY DEF LinesTaken
<1>5. SUFFICES Fits(paras', TheFile, n + 1) /\ (in_break' <=> Broken(TheFile, n + 1))
  BY <1>1, <1>3 DEF LinesTaken
<1>6. CASE CommentLine
  <2>1. UNCHANGED <<paras, in_break>> /\ IsComment(line)
    BY <1>6 DEF CommentLine
  <2>2. n + 1 \notin Texts(TheFile) /\ n + 1 \notin Breaks(TheFile)
    BY <1>2, <2>1, LineIs
  <2>3. Fits(paras, TheFile, n + 1)
    BY <1>1, <1>4, <2>2, FitsSkipping
  <2>4. Broken(TheFile, n + 1) <=> Broken(TheFile, n)
    BY <1>1, <1>3, <2>2, BreakSteps
  <2>5. in_break' <=> Broken(TheFile, n + 1)
    BY <1>4, <2>1, <2>4, Zenon
  <2> QED
    BY <2>1, <2>3, <2>5
<1>7. CASE BlankLine
  <2>1. UNCHANGED paras /\ in_break' = TRUE /\ ~IsComment(line) /\ IsBlank(line)
    BY <1>7 DEF BlankLine
  <2>2. n + 1 \in Breaks(TheFile)
    BY <1>2, <2>1, LineIs
  <2>3. Broken(TheFile, n + 1) /\ n + 1 \notin Texts(TheFile)
    BY <1>1, <1>3, <2>2, BreakSteps
  <2>4. Fits(paras, TheFile, n + 1)
    BY <1>1, <1>4, <2>3, FitsSkipping
  <2> QED
    BY <2>1, <2>3, <2>4
<1>8. CASE FieldLine
  <2> DEFINE f == [name |-> Before(line, ":"), lines |-> <<Trim(After(line, ":"))>>]
  <2>1. /\ TextLine /\ StartsField(line) /\ FirstOf(line, ":") # 0 /\ in_break' = FALSE
        /\ paras' = OnLast(Opened, Append(Last(Opened), f))
    BY <1>8 DEF FieldLine
  <2>2. /\ ParasFit(Opened, TheFile, n) /\ Opened # <<>>
        /\ Len(Opened) = Reading(TheFile)[n + 1].para
        /\ ~Broken(TheFile, n + 1)
    BY <2>1, OpenedFits
  <2>3. n + 1 \in Heads(TheFile)
    BY <1>2, <2>1, LineIs DEF TextLine
  <2>4. f \in Field
    <3>1. Before(line, ":") \in Text /\ Trim(After(line, ":")) \in Text
      BY <1>2, LineTyped
    <3>2. <<Trim(After(line, ":"))>> \in Seq(Text)
      BY <3>1
    <3> QED
      BY <3>1, <3>2 DEF Field
  <2>5. f = [name |-> Before(TheFile[n + 1], ":"), lines |-> <<Trim(After(TheFile[n + 1], ":"))>>]
    BY <1>3
  <2>6. FirstOf(TheFile[n + 1], ":") # 0
    BY <1>3, <2>1
  <2> HIDE DEF f
  <2>7. Fits(OnLast(Opened, Append(Last(Opened), f)), TheFile, n + 1)
    BY <1>1, <2>2, <2>3, <2>4, <2>5, <2>6, FitsField
  <2> QED
    BY <2>1, <2>2, <2>7
<1>9. CASE ContinuationLine
  <2> DEFINE p == Last(paras)
             f == Last(p)
             longer == [f EXCEPT !.lines = Append(@, Trim(line))]
  <2>1. /\ TextLine /\ ~StartsField(line) /\ UNCHANGED in_break
        /\ paras' = OnLast(paras, OnLast(p, longer))
        /\ Last(Opened) # <<>>
    BY <1>9 DEF ContinuationLine
  <2>2. ~in_break /\ Opened = paras
    BY <2>1, OpenedTyped DEF LinkedInv, Opened
  <2>3. /\ ParasFit(paras, TheFile, n) /\ paras # <<>>
        /\ Len(paras) = Reading(TheFile)[n + 1].para
        /\ n + 1 \in Texts(TheFile) /\ ~Broken(TheFile, n + 1)
    BY <2>1, <2>2, OpenedFits
  <2>4. n + 1 \notin Heads(TheFile)
    BY <1>2, <2>1, LineIs
  <2>5. p \in Seq(Field) /\ p # <<>>
    BY <2>1, <2>2, OpenedTyped
  <2>6. f \in Field
    BY <2>5, LastElement
  <2>7. /\ longer \in Field /\ longer.name = f.name
        /\ longer.lines = Append(f.lines, Trim(TheFile[n + 1]))
    <3>1. Append(f.lines, Trim(line)) \in Seq(Text)
      BY <1>2, <2>6, LineTyped, AppendProperties DEF Field
    <3> HIDE DEF f
    <3>2. longer \in Field /\ longer.name = f.name /\ longer.lines = Append(f.lines, Trim(line))
      BY <2>6, <3>1 DEF Field
    <3> QED
      BY <1>3, <3>2
  <2> HIDE DEF longer
  <2>8. Fits(OnLast(paras, OnLast(p, longer)), TheFile, n + 1)
    BY <1>1, <2>3, <2>4, <2>5, <2>7, FitsContinuation
  <2>9. in_break' <=> Broken(TheFile, n + 1)
    BY <2>1, <2>2, <2>3
  <2> QED
    BY <2>1, <2>8, <2>9
<1> QED
  BY <1>6, <1>7, <1>8, <1>9

(***************************************************************************)
(* A line that fails has no colon or is of no field.                       *)
(***************************************************************************)
LEMMA LineFailsMalformed ==
  ASSUME TypeInv, LinkedInv, Parsing, NEW n \in Nat, LinesTaken(n), LineFails
  PROVE  Malformed(kind, TheFile)
<1>1. NextLine /\ TextLine
  BY DEF LineFails, TextLine
<1>2. TheFile \in Seq(Text) /\ n + 1 \in 1..Len(TheFile) /\ line = TheFile[n + 1]
  BY <1>1, FileTyped, LineIs
<1>3. CASE StartsField(line)
  <2>1. FirstOf(line, ":") = 0 /\ n + 1 \in Heads(TheFile)
    BY <1>1, <1>3, LineIs DEF LineFails, TextLine
  <2>2. NoColon(TheFile)
    BY <1>2, <2>1 DEF NoColon
  <2> QED
    BY <2>2 DEF Malformed
<1>4. CASE ~StartsField(line)
  <2> DEFINE R == Reading(TheFile)
             q == R[n + 1].para
             H == HeadsOf(TheFile, q)
  <2>1. Last(Opened) = <<>> /\ n + 1 \notin Heads(TheFile)
    BY <1>1, <1>4, LineIs DEF LineFails
  <2>2. /\ ParasFit(Opened, TheFile, n) /\ Opened # <<>>
        /\ Len(Opened) = q /\ n + 1 \in Texts(TheFile)
    BY <1>1, OpenedFits
  <2>3. Last(Opened) = Opened[Len(Opened)] /\ Len(Opened) \in Nat \ {0}
    BY OpenedTyped, LastElement
  <2>4. Len(Opened[q]) = Rank(H, n)
    BY <2>2, <2>3 DEF ParasFit
  <2>5. Rank(H, n) = 0
    BY <2>1, <2>2, <2>3, <2>4
  <2>6. n + 1 \notin H /\ H \in SUBSET Texts(TheFile)
    BY <1>2, <2>1, ReadingSets DEF HeadsOf
  <2>7. R[n + 1].field = Rank(H, n + 1)
    BY <1>2, <2>2, ReadingAt
  <2>8. R[n + 1].field = 0 /\ n + 1 \in DOMAIN R
    <3> HIDE DEF H, q
    <3>1. Rank(H, n + 1) = Rank(H, n)
      BY <1>2, <2>6, RanksStay
    <3>2. DOMAIN R = Texts(TheFile)
      BY <1>2, ReadingSets
    <3> QED
      BY <2>2, <2>5, <2>7, <3>1, <3>2
  <2>9. \E i \in DOMAIN R : Unexpected(kind, R, i)
    BY <2>8 DEF Unexpected
  <2> QED
    BY <2>9 DEF Malformed
<1> QED
  BY <1>3, <1>4

\* At the end of the file everything has been taken.
LEMMA AllLinesTaken ==
  ASSUME TypeInv, Parsing, NEW n \in Nat, LinesTaken(n), unread = <<>>
  PROVE  Fits(paras, TheFile, Len(TheFile)) /\ ~NoColon(TheFile)
<1>1. TheFile \in Seq(Text) /\ Len(TheFile) \in Nat
  BY FileTyped, LenProperties
<1>2. n = Len(TheFile)
  <2>1. Len(unread) = 0 /\ Len(unread) = Len(TheFile) - n
    BY DEF LinesTaken
  <2> QED
    BY <1>1, <2>1
<1>3. Fits(paras, TheFile, n)
  BY DEF LinesTaken
<1>4. ASSUME NEW i \in Heads(TheFile) PROVE FirstOf(TheFile[i], ":") # 0
  <2>1. i \in Texts(TheFile) /\ i \in 1..Len(TheFile)
    BY <1>1, ReadingSets
  <2>2. i <= n
    BY <1>2, <2>1
  <2> QED
    BY <1>3, <2>1, <2>2 DEF Fits, ParasFit, LinesPlaced
<1> QED
  BY <1>2, <1>3, <1>4 DEF NoColon

(***************************************************************************)
(* What happens while a file is parsed.                                    *)
(***************************************************************************)
LEMMA ParsingSteps ==
  ASSUME [TNext]_tvars, Parsing'
  PROVE  \/ OpenFile
         \/ Parsing /\ UNCHANGED toolVars /\ (ControlStep \/ UNCHANGED controlVars)
         \/ Parsing /\ UNCHANGED <<cmdVars, files, stage>> /\ Starves
<1> USE DEF Parsing
<1>1. CASE UNCHANGED tvars
  BY <1>1 DEF tvars, toolVars
<1>2. CASE OpenFile
  BY <1>2
<1>3. CASE ParserStep
  BY <1>3 DEF ParserStep
<1>4. CASE ParserStarves
  BY <1>4 DEF ParserStarves
<1>5. CASE FieldOption \/ VersionOption \/ BuiltFromOption \/ OutputOption
            \/ OutputOptionFails \/ BuiltFromStarves
  BY <1>5 DEF FieldOption, VersionOption, BuiltFromOption, OutputOption, OutputOptionFails,
              BuiltFromStarves, Parses
<1>6. CASE Usage \/ OptionsParsed \/ OpenFails \/ ParsingFails \/ PrintsNull \/ AllPrinted
            \/ NotFound \/ UnnamedBin
  BY <1>6 DEF Usage, OptionsParsed, OpenFails, ParsingFails, PrintsNull, AllPrinted, NotFound,
              UnnamedBin, Goes
<1>7. CASE PrintField \/ PrintControl \/ Returns \/ ReadBack \/ WriteCutShort \/ Killed
  BY <1>7 DEF PrintField, PrintControl, Returns, ReadBack, WriteCutShort, Killed, Goes
<1> QED
  BY <1>1, <1>2, <1>3, <1>4, <1>5, <1>6, <1>7 DEF TNext, ToolStep, Fault

\* A file is opened with nothing taken.
LEMMA OpeningFile ==
  ASSUME TypeInv, OpenFile
  PROVE  /\ TheFile' \in Seq(Text) /\ TheFile' = TheFile /\ unread' = TheFile'
         /\ paras' = <<>> /\ in_break' = TRUE /\ status' = "lines"
         /\ para' = 1 /\ field' = 1 /\ kind' = KindOf(prog)
         /\ c' = IF kind' = "binary" THEN NoControl ELSE NoSource
<1>1. /\ UNCHANGED <<operands, files>> /\ operands[1] \in DOMAIN files
      /\ ParseControl(KindOf(prog), files[operands[1]])
  BY DEF OpenFile, cmdVars
<1>2. files[operands[1]] \in Seq(Text)
  BY <1>1 DEF TypeInv, ProgramTyped
<1> QED
  BY <1>1, <1>2 DEF ParseControl, ParseFile, TheFile

\* LinesInv is inductive.
LEMMA LinesStep ==
  ASSUME TypeInv, LinkedInv, LinesInv, [TNext]_tvars
  PROVE  LinesInv'
<1>1. SUFFICES ASSUME Parsing'
               PROVE  /\ status' # "idle"
                      /\ status' = "lines" =>
                            para' = 1 /\ field' = 1 /\ \E n \in Nat : LinesTaken(n)'
                      /\ status' \in {"fields", "ok"} =>
                            Fits(paras', TheFile', Len(TheFile')) /\ ~NoColon(TheFile')
  BY DEF LinesInv
<1>2. CASE OpenFile
  <2>1. /\ TheFile' \in Seq(Text) /\ unread' = TheFile'
        /\ paras' = <<>> /\ in_break' = TRUE /\ status' = "lines" /\ para' = 1 /\ field' = 1
    BY <1>2, OpeningFile
  <2>2. Fits(<<>>, TheFile', 0) /\ Broken(TheFile', 0)
    BY <2>1, FitsNothing
  <2> DEFINE L == TheFile'
  <2>3. Len(L) \in Nat
    BY <2>1, LenProperties
  <2> HIDE DEF L
  <2>4. 0 \in 0..Len(L) /\ Len(L) = Len(L) - 0 /\ \A k \in 1..Len(L) : 0 + k = k
    BY <2>3
  <2>5. LinesTaken(0)'
    BY <2>1, <2>2, <2>4 DEF LinesTaken, L
  <2> QED
    BY <2>1, <2>5
<1>3. CASE Parsing /\ UNCHANGED toolVars /\ (ControlStep \/ UNCHANGED controlVars)
  <2>1. TheFile' = TheFile
    BY <1>3 DEF toolVars, cmdVars, TheFile
  <2>2. /\ status # "idle"
        /\ status = "lines" => para = 1 /\ field = 1 /\ \E n \in Nat : LinesTaken(n)
        /\ status \in {"fields", "ok"} =>
                Fits(paras, TheFile, Len(TheFile)) /\ ~NoColon(TheFile)
    BY <1>3 DEF LinesInv
  <2>3. CASE UNCHANGED controlVars
    <3>1. UNCHANGED <<unread, paras, in_break, status, para, field>>
      BY <2>3 DEF controlVars, parseVars
    <3>2. \A n : LinesTaken(n) => LinesTaken(n)'
      BY <2>1, <3>1 DEF LinesTaken
    <3> QED
      BY <2>1, <2>2, <3>1, <3>2
  <2>4. CASE (CommentLine \/ BlankLine \/ FieldLine \/ ContinuationLine)
             /\ UNCHANGED <<kind, c, para, field>>
    <3>1. status = "lines" /\ status' = "lines"
      BY <2>4 DEF CommentLine, BlankLine, FieldLine, ContinuationLine, TextLine, NextLine
    <3>2. PICK n \in Nat : LinesTaken(n)
      BY <2>2, <3>1
    <3>3. LinesTaken(n + 1)' /\ n + 1 \in Nat
      BY <1>3, <2>4, <3>2, LineTaken
    <3> QED
      BY <2>2, <2>4, <3>1, <3>3
  <2>5. CASE ParseEof
    <3>1. status = "lines" /\ unread = <<>> /\ status' = "fields" /\ paras' = paras
      BY <2>5 DEF ParseEof
    <3>2. PICK n \in Nat : LinesTaken(n)
      BY <2>2, <3>1
    <3> QED
      BY <1>3, <2>1, <3>1, <3>2, AllLinesTaken
  <2>6. CASE LineFails \/ ParagraphsFail \/ FieldFails
    BY <2>6 DEF LineFails, ParagraphsFail, FieldFails, ControlFails
  <2>7. CASE ParseField \/ NextParagraph \/ LastParagraph
    <3>1. status = "fields" /\ status' \in {"fields", "ok"} /\ paras' = paras
      BY <2>7 DEF ParseField, NextParagraph, LastParagraph, AtField, parseVars
    <3> QED
      BY <2>1, <2>2, <3>1
  <2> QED
    BY <1>3, <2>3, <2>4, <2>5, <2>6, <2>7 DEF ControlStep, ParseStep
<1>4. CASE Parsing /\ UNCHANGED <<cmdVars, files, stage>> /\ Starves
  <2>1. status' = "failed"
    BY <1>4 DEF Starves, ParseStarves, ControlStarves, ControlFails
  <2> QED
    BY <2>1
<1> QED
  BY <1>1, <1>2, <1>3, <1>4, ParsingSteps

(***************************************************************************)
(* For every file: when it is read to its end, its paragraphs, fields and  *)
(* lines are those that counting breaks, names and lines finds in it       *)
(* (controlparse_line).                                                    *)
(***************************************************************************)
THEOREM LinesAreCounted == TSpec => []ParsesByCounting
<1> DEFINE Inv == TypeInv /\ LinkedInv /\ LinesInv
<1>1. TInit => Inv
  <2>1. TInit => LinkedInv
    BY EmptySeq DEF TInit, ControlInit, ParseInit, LinkedInv, GoodParas, IsSequence
  <2>2. TInit => LinesInv
    BY DEF TInit, LinesInv, Parsing
  <2> QED
    BY <2>1, <2>2, TypeInit
<1>2. Inv /\ [TNext]_tvars => Inv'
  BY TypeStep, LinkedStep, LinesStep
<1>3. Inv => ParsesByCounting
  <2>1. SUFFICES ASSUME TypeInv, LinesInv, Parsing, status = "fields" PROVE ParsesByCounting
    BY DEF ParsesByCounting
  <2> DEFINE L == TheFile
             R == Reading(L)
             N == Len(L)
  <2>2. L \in Seq(Text) /\ paras \in Seq(Seq(Field))
    BY <2>1, FileTyped DEF TypeInv, ParserTyped
  <2>3. ParasFit(paras, L, N)
    BY <2>1 DEF LinesInv, Fits
  <2>4. DOMAIN R = Texts(L) /\ Texts(L) \in SUBSET (1..N) /\ N \in Nat
    BY <2>2, ReadingSets
  <2>5. \A i \in Texts(L) : i <= N
    BY <2>4
  <2>6. /\ DOMAIN paras = 1..Len(paras)
        /\ \A p \in 1..Len(paras) : DOMAIN paras[p] = 1..Len(paras[p])
    <3>1. \A p \in 1..Len(paras) : paras[p] \in Seq(Field)
      BY <2>2, ElementOfSeq
    <3> QED
      BY <2>2, <3>1, LenProperties
  <2> HIDE DEF L, N, R
  <2>7. ASSUME NEW i \in DOMAIN R
        PROVE  /\ R[i].para \in DOMAIN paras /\ R[i].field \in DOMAIN paras[R[i].para]
               /\ R[i].name = paras[R[i].para][R[i].field].name
    BY <2>3, <2>4, <2>5, <2>6 DEF ParasFit, LinesPlaced, R
  <2>8. ASSUME NEW p \in DOMAIN paras, NEW f \in DOMAIN paras[p]
        PROVE  paras[p][f].lines = TextsAt(R, OfField(R, p, f))
    <3>1. LinesOf(paras[p][f].lines, L, OfField(R, p, f), N)
      BY <2>3, <2>6, <2>8 DEF ParasFit, R
    <3>2. OfField(R, p, f) \in SUBSET Texts(L)
      BY <2>2, FieldsTexts DEF R
    <3>3. UpTo(L, OfField(R, p, f), N) = OfField(R, p, f)
      BY <2>5, <3>2 DEF UpTo
    <3> QED
      BY <3>1, <3>3 DEF LinesOf, R
  <2> QED
    BY <2>7, <2>8 DEF ParsesByCounting, R, L
<1> QED
  BY <1>1, <1>2, <1>3, PTL DEF TSpec

(***************************************************************************)
(* Paragraphs that are what a whole file says.                             *)
(***************************************************************************)
Whole(ps, lines) == lines \in Seq(Text) /\ Fits(ps, lines, Len(lines))

\* Paragraphs that fit a file have the lines of its reading.
LEMMA WholeFile ==
  ASSUME NEW lines, NEW ps, Whole(ps, lines)
  PROVE  LET R == Reading(lines) IN
         /\ DOMAIN R \in SUBSET Nat /\ IsFiniteSet(DOMAIN R)
         /\ ps \in Seq(Seq(Field)) /\ Len(ps) \in Nat
         /\ \A p \in 1..Len(ps) : ps[p] \in Seq(Field) /\ Len(ps[p]) \in Nat
         /\ \A i \in DOMAIN R :
                /\ R[i].para \in 1..Len(ps) /\ R[i].field \in 1..Len(ps[R[i].para])
                /\ R[i].para \in Nat \ {0} /\ R[i].field \in Nat \ {0}
                /\ R[i].name = ps[R[i].para][R[i].field].name
                /\ R[i].text \in Text
                /\ R[i].text # <<>> => R[i].text[1] \notin Spaces
<1> DEFINE R == Reading(lines)
           N == Len(lines)
<1>1. lines \in Seq(Text) /\ Fits(ps, lines, N)
  BY DEF Whole
<1>2. /\ DOMAIN R = Texts(lines) /\ Texts(lines) \in SUBSET Nat /\ IsFiniteSet(Texts(lines))
      /\ N \in Nat /\ Texts(lines) \in SUBSET (1..N)
  BY <1>1, ReadingSets
<1>3. ps \in Seq(Seq(Field)) /\ LinesPlaced(ps, lines, N)
  BY <1>1 DEF Fits, ParasFit
<1>4. Len(ps) \in Nat /\ \A p \in 1..Len(ps) : ps[p] \in Seq(Field) /\ Len(ps[p]) \in Nat
  <2>1. \A p \in 1..Len(ps) : ps[p] \in Seq(Field)
    BY <1>3, ElementOfSeq
  <2> QED
    BY <1>3, <2>1, LenProperties
<1>5. \A i \in Texts(lines) : i <= N
  BY <1>2
<1>6. ASSUME NEW i \in Texts(lines)
      PROVE  /\ R[i].para \in 1..Len(ps) /\ R[i].field \in 1..Len(ps[R[i].para])
             /\ R[i].name = ps[R[i].para][R[i].field].name
  BY <1>3, <1>5 DEF LinesPlaced
<1>7. ASSUME NEW i \in Texts(lines)
      PROVE  R[i].text \in Text /\ (R[i].text # <<>> => R[i].text[1] \notin Spaces)
  <2> DEFINE t == IF i \in Heads(lines) THEN After(lines[i], ":") ELSE lines[i]
  <2>1. lines[i] \in Text
    BY <1>1, ReadingSets
  <2>2. After(lines[i], ":") \in Text
    BY <2>1, AroundTyped DEF Text
  <2>3. R[i].text = Trim(t) /\ t \in Text
    BY <1>1, <2>1, <2>2, ReadingAt
  <2> HIDE DEF t, R
  <2>4. IsBlank(t) \/ ~IsBlank(t)
    OBVIOUS
  <2>5. /\ Trim(t) \in Text
        /\ IsBlank(t) => Trim(t) = <<>>
        /\ ~IsBlank(t) => Trim(t)[1] \notin Spaces
    BY <2>3, TrimText DEF Text
  <2> QED
    BY <2>3, <2>4, <2>5
<1>8. ASSUME NEW i \in Texts(lines) PROVE R[i].para \in Nat \ {0} /\ R[i].field \in Nat \ {0}
  <2> HIDE DEF R
  <2> QED
    BY <1>4, <1>6
<1> HIDE DEF R
<1> QED
  BY <1>2, <1>3, <1>4, <1>6, <1>7, <1>8 DEF R

(***************************************************************************)
(* Each paragraph and each field there is begins in some line.             *)
(***************************************************************************)
LEMMA WholeFields ==
  ASSUME NEW lines, NEW ps, Whole(ps, lines), NEW p \in 1..Len(ps)
  PROVE  /\ \E k \in DOMAIN Reading(lines) : Reading(lines)[k].para = p
         /\ \A f \in 1..Len(ps[p]) :
                \E k \in DOMAIN Reading(lines) :
                    Reading(lines)[k].para = p /\ Reading(lines)[k].field = f
<1> DEFINE N == Len(lines)
           S == Starts(lines)
           H == HeadsOf(lines, p)
<1>1. /\ lines \in Seq(Text) /\ Fits(ps, lines, N)
      /\ DOMAIN Reading(lines) = Texts(lines) /\ N \in Nat
      /\ Texts(lines) \in SUBSET (1..N)
      /\ S \in SUBSET Nat /\ IsFiniteSet(S) /\ S \in SUBSET Texts(lines)
      /\ Heads(lines) \in SUBSET Texts(lines)
  BY ReadingSets DEF Whole
<1>2. H \in SUBSET Nat /\ IsFiniteSet(H) /\ H \in SUBSET Texts(lines)
  BY <1>1, HeadsOfFinite DEF HeadsOf
<1>3. \A i \in Texts(lines) : i <= N
  BY <1>1
<1>4. Len(ps) = Rank(S, N) /\ Len(ps[p]) = Rank(H, N)
  BY <1>1 DEF Fits, ParasFit
<1>5. Rank(S, N) = Cardinality(S) /\ Rank(H, N) = Cardinality(H)
  <2>1. (\A j \in S : j <= N) /\ (\A j \in H : j <= N)
    BY <1>1, <1>2, <1>3
  <2> HIDE DEF S, H, N
  <2> QED
    BY <1>1, <1>2, <2>1, RankTyped
<1>6. \E k \in S : Rank(S, k) = p
  <2> HIDE DEF S
  <2> QED
    BY <1>1, <1>4, <1>5, RankOnto
<1>7. \A f \in 1..Len(ps[p]) : \E k \in H : Rank(H, k) = f
  <2> HIDE DEF H
  <2> QED
    BY <1>2, <1>4, <1>5, RankOnto
<1>8. \E k \in Texts(lines) : Reading(lines)[k].para = p
  BY <1>1, <1>6, ReadingAt
<1>9. ASSUME NEW f \in 1..Len(ps[p])
      PROVE  \E k \in Texts(lines) : Reading(lines)[k].para = p /\ Reading(lines)[k].field = f
  <2>1. PICK k \in H : Rank(H, k) = f
    BY <1>7
  <2>2. k \in Texts(lines) /\ Reading(lines)[k].para = p
    BY <1>2 DEF HeadsOf
  <2>3. Reading(lines)[k].field = Rank(HeadsOf(lines, Reading(lines)[k].para), k)
    BY <1>1, <2>2, ReadingAt
  <2> QED
    BY <2>1, <2>2, <2>3
<1> QED
  BY <1>1, <1>8, <1>9

(***************************************************************************)
(* The lines of a field.                                                   *)
(***************************************************************************)
Spoken(R, S) == {i \in S : R[i].text # <<>>}

\* The lines of one field of them.
LEMMA WholeLines ==
  ASSUME NEW lines, NEW ps, Whole(ps, lines), NEW p \in 1..Len(ps), NEW f \in 1..Len(ps[p])
  PROVE  LET R == Reading(lines)
             X == OfField(R, p, f)
             ls == ps[p][f].lines
         IN  /\ X \in SUBSET DOMAIN R /\ X # {}
             /\ ls \in Seq(Text) /\ ls = TextsAt(R, X)
             /\ NonEmpty(ls) = TextsAt(R, Spoken(R, X))
             /\ \A i \in X : R[i].para = p /\ R[i].field = f /\ R[i].name = ps[p][f].name
<1> DEFINE R == Reading(lines)
           X == OfField(R, p, f)
           N == Len(lines)
<1>1. /\ lines \in Seq(Text) /\ Fits(ps, lines, N)
      /\ DOMAIN R = Texts(lines) /\ N \in Nat /\ Texts(lines) \in SUBSET (1..N)
  BY ReadingSets DEF Whole
<1>2. X \in SUBSET DOMAIN R /\ \A i \in X : R[i].para = p /\ R[i].field = f
  BY DEF OfField
<1>3. LinesOf(ps[p][f].lines, lines, X, N)
  BY <1>1 DEF Fits, ParasFit
<1>4. \A i \in X : i <= N
  BY <1>1, <1>2
<1>5. UpTo(lines, X, N) = X /\ TextUpTo(lines, X, N) = Spoken(R, X)
  BY <1>4 DEF UpTo, TextUpTo, Spoken
<1>6. X # {}
  <2>1. PICK k \in DOMAIN R : R[k].para = p /\ R[k].field = f
    BY WholeFields
  <2> QED
    BY <2>1 DEF OfField
<1>7. \A i \in X : R[i].name = ps[p][f].name
  BY <1>2, WholeFile
<1> HIDE DEF X, R
<1> QED
  BY <1>2, <1>3, <1>5, <1>6, <1>7 DEF LinesOf, X, R

(***************************************************************************)
(* What is said at some lines is nothing only where there are none.        *)
(***************************************************************************)
LEMMA TextsAtElements ==
  ASSUME NEW lines \in Seq(Text), NEW S \in SUBSET DOMAIN Reading(lines)
  PROVE  LET R == Reading(lines)
             said == TextsAt(R, S)
         IN  /\ IsFiniteSet(S) /\ Cardinality(S) \in Nat
             /\ said \in Seq(Text) /\ Len(said) = Cardinality(S)
             /\ said = <<>> <=> S = {}
             /\ \A n \in 1..Len(said) : \E i \in S : said[n] = R[i].text
             /\ \A i \in S : \E n \in 1..Len(said) : said[n] = R[i].text
<1> DEFINE R == Reading(lines)
           t == [i \in DOMAIN R |-> R[i].text]
           said == AtPositions(t, S)
<1>1. DOMAIN R \in SUBSET Nat /\ IsFiniteSet(DOMAIN R) /\ DOMAIN R = Texts(lines)
  BY ReadingSets
<1>2. S \in SUBSET Nat /\ IsFiniteSet(S)
  BY <1>1, FS_Subset
<1>3. \A i \in S : t[i] = R[i].text /\ t[i] \in Text
  BY <1>1, TextOfLine
<1>4. said = TextsAt(R, S)
  BY DEF TextsAt
<1> HIDE DEF t, said
<1>5. /\ Cardinality(S) \in Nat /\ said \in Seq(Text) /\ Len(said) = Cardinality(S)
      /\ \A n \in 1..Cardinality(S) : \E i \in S : said[n] = t[i]
      /\ \A i \in S : Rank(S, i) \in 1..Cardinality(S) /\ said[Rank(S, i)] = t[i]
  BY <1>2, <1>3, AtPositionsElements DEF said
<1>6. S = {} => said = <<>>
  BY AtNoPositions DEF said
<1>7. S # {} => said # <<>>
  <2>1. said = <<>> => Len(said) = 0
    OBVIOUS
  <2>2. Cardinality(S) = 0 => S = {}
    BY <1>2, FS_EmptySet
  <2> QED
    BY <1>5, <2>1, <2>2
<1> HIDE DEF R
<1>8. \A n \in 1..Len(said) : \E i \in S : said[n] = R[i].text
  BY <1>3, <1>5
<1>9. \A i \in S : \E n \in 1..Len(said) : said[n] = R[i].text
  BY <1>3, <1>5
<1> QED
  BY <1>2, <1>4, <1>5, <1>6, <1>7, <1>8, <1>9 DEF R

(***************************************************************************)
(* A field of a single line, that is not empty.                            *)
(***************************************************************************)
LEMMA SingleLines ==
  ASSUME NEW lines, NEW ps, Whole(ps, lines), NEW p \in 1..Len(ps), NEW f \in 1..Len(ps[p]),
         NEW k \in OfField(Reading(lines), p, f)
  PROVE  LET R == Reading(lines)
             X == OfField(R, p, f)
             ls == ps[p][f].lines
         IN  /\ X = {k} => Len(ls) = 1 /\ ls[1] = R[k].text
             /\ X = {k} /\ R[k].text # <<>> => IsSingleLine(ls)
             /\ IsSingleLine(ls) => X = {k} /\ R[k].text # <<>> /\ ls[1] = R[k].text
<1> DEFINE R == Reading(lines)
           X == OfField(R, p, f)
           ls == ps[p][f].lines
<1>1. lines \in Seq(Text) /\ X \in SUBSET DOMAIN R /\ ls = TextsAt(R, X) /\ k \in X
  BY WholeLines DEF Whole
<1>2. /\ IsFiniteSet(X) /\ Len(ls) = Cardinality(X) /\ Cardinality(X) \in Nat
      /\ \A n \in 1..Len(ls) : \E i \in X : ls[n] = R[i].text
  <2> HIDE DEF X, ls
  <2> DEFINE said == TextsAt(R, X)
  <2>1. /\ IsFiniteSet(X) /\ Cardinality(X) \in Nat /\ Len(said) = Cardinality(X)
        /\ \A n \in 1..Len(said) : \E i \in X : said[n] = R[i].text
    BY <1>1, TextsAtElements
  <2> HIDE DEF said
  <2> QED
    BY <1>1, <2>1 DEF said
<1> HIDE DEF X, ls, R
<1>3. ASSUME X = {k} PROVE Len(ls) = 1 /\ ls[1] = R[k].text
  <2>1. Cardinality(X) = 1
    BY <1>3, FS_Singleton
  <2>2. 1 \in 1..Len(ls)
    BY <1>2, <2>1
  <2>3. \E i \in X : ls[1] = R[i].text
    BY <1>2, <2>2
  <2> QED
    BY <1>2, <1>3, <2>1, <2>3
<1>4. ASSUME Len(ls) = 1 PROVE X = {k}
  <2>1. Cardinality(X) = 1
    BY <1>2, <1>4
  <2>2. \E x : X = {x}
    BY <1>2, <2>1, FS_Singleton
  <2> QED
    BY <1>1, <2>2
<1>5. X = {k} /\ R[k].text # <<>> => IsSingleLine(ls)
  BY <1>3 DEF IsSingleLine
<1>6. IsSingleLine(ls) => X = {k} /\ R[k].text # <<>> /\ ls[1] = R[k].text
  BY <1>3, <1>4 DEF IsSingleLine
<1> QED
  BY <1>3, <1>5, <1>6 DEF X, ls, R

(***************************************************************************)
(* The lines whose fields have been parsed when the loop is at field F of  *)
(* paragraph P; those of them of one name; what these say; and that each   *)
(* is one its field may have.                                              *)
(***************************************************************************)
DoneIn(R, P, F) == {i \in DOMAIN R : R[i].para < P \/ (R[i].para = P /\ R[i].field < F)}

NamedIn(R, D, p, w) == {i \in D : R[i].para = p /\ R[i].name = <<w>>}

Kept(R, D, p, w) == TextsAt(R, Spoken(R, NamedIn(R, D, p, w)))

FitIn(R, k, D, i, w) ==
    LET member == FieldsOf(k, R[i].para)[w]
        same == NamedIn(R, D, R[i].para, w)
    IN  /\ w \in DOMAIN FieldsOf(k, R[i].para)
        /\ R[i].name = <<w>>
        /\ ~IsList(member) => same = {i} /\ R[i].text # <<>>
        /\ IsList(member) /\ R[i].text # <<>> => \A j \in same : ~(R[j].field > R[i].field)
        /\ member \in {"src_package", "built_froms"} /\ R[i].text # <<>> => HasSpace(R[i].text)

AllFit(R, k, D) == \A i \in D : \E w : FitIn(R, k, D, i, w)

\* What is done grows by one field, and by nothing from one paragraph to the next.
LEMMA DoneGrows ==
  ASSUME NEW lines, NEW ps, Whole(ps, lines)
  PROVE  LET R == Reading(lines) IN
         /\ DoneIn(R, 1, 1) = {}
         /\ \A P \in 1..Len(ps) : \A F \in 1..Len(ps[P]) :
                DoneIn(R, P, F + 1) = DoneIn(R, P, F) \cup OfField(R, P, F)
         /\ \A P \in 1..Len(ps) : DoneIn(R, P + 1, 1) = DoneIn(R, P, Len(ps[P]) + 1)
         /\ \A P \in 1..Len(ps) : P = Len(ps) => DoneIn(R, P, Len(ps[P]) + 1) = DOMAIN R
<1> DEFINE R == Reading(lines)
<1>1. /\ Len(ps) \in Nat /\ \A p \in 1..Len(ps) : Len(ps[p]) \in Nat
      /\ \A i \in DOMAIN R :
            /\ R[i].para \in Nat \ {0} /\ R[i].field \in Nat \ {0}
            /\ R[i].para \in 1..Len(ps) /\ R[i].field \in 1..Len(ps[R[i].para])
  BY WholeFile
<1> HIDE DEF R
<1>2. /\ \A x \in Nat \ {0} : ~(x < 1)
      /\ \A P \in Nat, x \in Nat : (x < P + 1 <=> x < P \/ x = P)
  OBVIOUS
<1>3. DoneIn(R, 1, 1) = {}
  BY <1>1, <1>2 DEF DoneIn
<1>4. ASSUME NEW P \in 1..Len(ps), NEW F \in 1..Len(ps[P])
      PROVE  DoneIn(R, P, F + 1) = DoneIn(R, P, F) \cup OfField(R, P, F)
  <2>1. \A i \in DOMAIN R : R[i].field < F + 1 <=> R[i].field < F \/ R[i].field = F
    <3>1. F \in Nat
      BY <1>1
    <3> QED
      BY <1>1, <1>2, <3>1
  <2> QED
    BY <2>1 DEF DoneIn, OfField
<1>5. ASSUME NEW P \in 1..Len(ps)
      PROVE  DoneIn(R, P + 1, 1) = DoneIn(R, P, Len(ps[P]) + 1)
  <2>1. \A i \in DOMAIN R : R[i].para < P + 1 <=> R[i].para < P \/ R[i].para = P
    BY <1>1, <1>2
  <2>2. \A i \in DOMAIN R : R[i].para = P => R[i].field < Len(ps[P]) + 1
    <3>1. \A n \in Nat : \A x \in 1..n : x < n + 1
      OBVIOUS
    <3> QED
      BY <1>1, <3>1
  <2>3. \A i \in DOMAIN R : ~(R[i].field < 1)
    BY <1>1, <1>2
  <2> QED
    BY <2>1, <2>2, <2>3 DEF DoneIn
<1>6. ASSUME NEW P \in 1..Len(ps), P = Len(ps)
      PROVE  DoneIn(R, P, Len(ps[P]) + 1) = DOMAIN R
  <2>1. \A i \in DOMAIN R : R[i].para < P \/ R[i].para = P
    BY <1>1, <1>6
  <2>2. \A i \in DOMAIN R : R[i].para = P => R[i].field < Len(ps[P]) + 1
    <3>1. \A n \in Nat : \A x \in 1..n : x < n + 1
      OBVIOUS
    <3> QED
      BY <1>1, <3>1
  <2> QED
    BY <2>1, <2>2 DEF DoneIn
<1> QED
  BY <1>3, <1>4, <1>5, <1>6 DEF R

(***************************************************************************)
(* What is kept of the lines of a name when another field is done.         *)
(***************************************************************************)
LEMMA NothingKept ==
  ASSUME NEW lines \in Seq(Text), NEW D \in SUBSET DOMAIN Reading(lines), NEW p, NEW w
  PROVE  /\ Kept(Reading(lines), D, p, w) \in Seq(Text)
         /\ Kept(Reading(lines), D, p, w) = <<>> <=>
                \A i \in NamedIn(Reading(lines), D, p, w) : Reading(lines)[i].text = <<>>
         /\ \A n \in 1..Len(Kept(Reading(lines), D, p, w)) :
                Kept(Reading(lines), D, p, w)[n] # <<>>
<1> DEFINE R == Reading(lines)
           S == Spoken(R, NamedIn(R, D, p, w))
<1>1. S \in SUBSET DOMAIN R /\ \A i \in S : R[i].text # <<>>
  BY DEF Spoken, NamedIn
<1>2. S = {} <=> \A i \in NamedIn(R, D, p, w) : R[i].text = <<>>
  BY DEF Spoken
<1> DEFINE said == TextsAt(R, S)
<1>3. Kept(R, D, p, w) = said
  BY DEF Kept
<1> HIDE DEF S
<1>4. /\ said \in Seq(Text) /\ (said = <<>> <=> S = {})
      /\ \A n \in 1..Len(said) : \E i \in S : said[n] = R[i].text
  BY <1>1, TextsAtElements
<1> HIDE DEF said, R
<1>5. \A n \in 1..Len(said) : said[n] # <<>>
  BY <1>1, <1>4
<1> QED
  BY <1>2, <1>3, <1>4, <1>5 DEF R

\* What is kept under a name grows by the lines of the field just done.
LEMMA KeptGrows ==
  ASSUME NEW lines, NEW ps, Whole(ps, lines), NEW P \in 1..Len(ps), NEW F \in 1..Len(ps[P]),
         NEW w, ps[P][F].name = <<w>>
  PROVE  LET R == Reading(lines)
             D == DoneIn(R, P, F)
             E == DoneIn(R, P, F + 1)
         IN  /\ NamedIn(R, E, P, w) = NamedIn(R, D, P, w) \cup OfField(R, P, F)
             /\ \A p, v : p # P \/ v # w => NamedIn(R, E, p, v) = NamedIn(R, D, p, v)
             /\ \A p, v : p # P \/ v # w => Kept(R, E, p, v) = Kept(R, D, p, v)
             /\ Kept(R, D, P, w) = <<>> => Kept(R, E, P, w) = NonEmpty(ps[P][F].lines)
<1> DEFINE R == Reading(lines)
           D == DoneIn(R, P, F)
           E == DoneIn(R, P, F + 1)
           X == OfField(R, P, F)
<1>1. E = D \cup X
  BY DoneGrows
<1>2. /\ X \in SUBSET DOMAIN R
      /\ NonEmpty(ps[P][F].lines) = TextsAt(R, Spoken(R, X))
      /\ \A i \in X : R[i].para = P /\ R[i].name = <<w>>
  BY WholeLines
<1>3. D \in SUBSET DOMAIN R /\ lines \in Seq(Text)
  BY DEF DoneIn, Whole
<1>4. \A v : <<v>> = <<w>> => v = w
  OBVIOUS
<1> HIDE DEF D, E, X, R
<1>5. NamedIn(R, E, P, w) = NamedIn(R, D, P, w) \cup X
  BY <1>1, <1>2 DEF NamedIn
<1>6. ASSUME NEW p, NEW v, p # P \/ v # w PROVE NamedIn(R, E, p, v) = NamedIn(R, D, p, v)
  <2>1. \A i \in X : ~(R[i].para = p /\ R[i].name = <<v>>)
    BY <1>2, <1>4, <1>6
  <2> QED
    BY <1>1, <2>1 DEF NamedIn
<1>7. ASSUME NEW p, NEW v, p # P \/ v # w PROVE Kept(R, E, p, v) = Kept(R, D, p, v)
  BY <1>6, <1>7 DEF Kept
<1>8. ASSUME Kept(R, D, P, w) = <<>> PROVE Kept(R, E, P, w) = NonEmpty(ps[P][F].lines)
  <2>1. \A i \in NamedIn(R, D, P, w) : R[i].text = <<>>
    BY <1>3, <1>8, NothingKept DEF R
  <2>2. Spoken(R, NamedIn(R, E, P, w)) = Spoken(R, X)
    BY <1>5, <2>1 DEF Spoken
  <2> QED
    BY <1>2, <2>2 DEF Kept
<1> QED
  BY <1>5, <1>6, <1>7, <1>8 DEF D, E, X, R

(***************************************************************************)
(* One more field that control.c takes.                                    *)
(***************************************************************************)
LEMMA FitGrows ==
  ASSUME NEW lines, NEW ps, Whole(ps, lines), NEW P \in 1..Len(ps), NEW F \in 1..Len(ps[P]),
         NEW k, AllFit(Reading(lines), k, DoneIn(Reading(lines), P, F)),
         NEW w \in DOMAIN FieldsOf(k, P), ps[P][F].name = <<w>>,
         Kept(Reading(lines), DoneIn(Reading(lines), P, F), P, w) = <<>>,
         NEW old, CanParse(FieldsOf(k, P)[w], old, ps[P][F].lines),
         ~IsList(FieldsOf(k, P)[w]) => FieldsOf(k, P)[w] \in {"package", "version", "source", "src_package"}
  PROVE  AllFit(Reading(lines), k, DoneIn(Reading(lines), P, F + 1))
<1> DEFINE R == Reading(lines)
           D == DoneIn(R, P, F)
           E == DoneIn(R, P, F + 1)
           X == OfField(R, P, F)
           m == FieldsOf(k, P)[w]
           ls == ps[P][F].lines
<1>1. E = D \cup X /\ lines \in Seq(Text)
  BY DoneGrows DEF Whole
<1>2. /\ X \in SUBSET DOMAIN R /\ ls \in Seq(Text)
      /\ ls = TextsAt(R, X) /\ NonEmpty(ls) = TextsAt(R, Spoken(R, X))
      /\ \A i \in X : R[i].para = P /\ R[i].field = F /\ R[i].name = <<w>>
  BY WholeLines
<1>3. /\ NamedIn(R, E, P, w) = NamedIn(R, D, P, w) \cup X
      /\ \A p, v : p # P \/ v # w => NamedIn(R, E, p, v) = NamedIn(R, D, p, v)
  BY KeptGrows
<1>4. D \in SUBSET DOMAIN R /\ \A i \in D : R[i].para = P => R[i].field < F
  <2>1. \A i \in D : R[i].para < P \/ (R[i].para = P /\ R[i].field < F)
    BY DEF DoneIn
  <2>2. \A i \in D : R[i].para = P => ~(R[i].para < P)
    BY WholeFile
  <2> QED
    BY <2>1, <2>2 DEF DoneIn
<1>5. \A i \in NamedIn(R, D, P, w) : R[i].text = <<>>
  BY <1>1, <1>4, NothingKept
<1>6. \A v : <<v>> = <<w>> => v = w
  OBVIOUS
<1>7. F \in Nat /\ ~(F > F) /\ \A x \in Nat : x < F => ~(x > F)
  BY WholeFile
<1>8. \A i \in DOMAIN R : R[i].field \in Nat
  BY WholeFile
<1>9. ~IsList(m) => IsSingleLine(ls)
  BY DEF CanParse
<1>10. m = "built_froms" => \A l \in ToSet(NonEmpty(ls)) : HasSpace(l)
  BY DEF CanParse
<1>11. m = "src_package" => IsSingleLine(ls) /\ HasSpace(ls[1])
  BY DEF CanParse
<1>12. \A i \in X : IsSingleLine(ls) => X = {i} /\ R[i].text # <<>> /\ ls[1] = R[i].text
  BY SingleLines
<1>13. ASSUME NEW i \in X, R[i].text # <<>> PROVE R[i].text \in ToSet(NonEmpty(ls))
  <2> DEFINE S == Spoken(R, X)
  <2>1. S \in SUBSET DOMAIN R /\ i \in S
    BY <1>2, <1>13 DEF Spoken
  <2> HIDE DEF S
  <2> DEFINE said == TextsAt(R, S)
  <2>2. said \in Seq(Text) /\ \E n \in 1..Len(said) : said[n] = R[i].text
    BY <1>1, <2>1, TextsAtElements
  <2>3. said = NonEmpty(ls)
    BY <1>2 DEF S
  <2> HIDE DEF said
  <2>4. DOMAIN said = 1..Len(said)
    BY <2>2, LenProperties
  <2>5. R[i].text \in ToSet(said)
    BY <2>2, <2>4 DEF ToSet
  <2> QED
    BY <2>3, <2>5
<1>14. w \in DOMAIN FieldsOf(k, P)
  OBVIOUS
<1>15. AllFit(R, k, D)
  OBVIOUS
<1> HIDE DEF R, D, E, X, ls
<1>16. ASSUME NEW j \in NamedIn(R, D, P, w) PROVE IsList(m)
  <2>1. j \in D /\ R[j].para = P /\ R[j].name = <<w>>
    BY DEF NamedIn
  <2>2. PICK v : FitIn(R, k, D, j, v)
    BY <1>15, <2>1 DEF AllFit
  <2>3. v = w
    BY <1>6, <2>1, <2>2 DEF FitIn
  <2>4. ~IsList(m) => R[j].text # <<>>
    BY <2>1, <2>2, <2>3 DEF FitIn
  <2> QED
    BY <1>5, <2>4
<1> HIDE DEF m
<1>17. ASSUME NEW i \in X PROVE FitIn(R, k, E, i, w)
  <2>1. R[i].para = P /\ R[i].field = F /\ R[i].name = <<w>>
    BY <1>2
  <2>2. ASSUME ~IsList(m) PROVE NamedIn(R, E, P, w) = {i} /\ R[i].text # <<>>
    BY <1>3, <1>9, <1>12, <1>16, <2>2
  <2>3. ASSUME NEW j \in NamedIn(R, E, P, w) PROVE ~(R[j].field > F)
    <3>1. CASE j \in X
      BY <1>2, <1>7, <3>1
    <3>2. CASE j \in NamedIn(R, D, P, w)
      <4>1. j \in D /\ R[j].para = P
        BY <3>2 DEF NamedIn
      <4>2. R[j].field < F /\ R[j].field \in Nat
        BY <1>4, <1>8, <4>1
      <4> QED
        BY <1>7, <4>2
    <3> QED
      BY <1>3, <2>3, <3>1, <3>2
  <2>4. ASSUME m \in {"src_package", "built_froms"}, R[i].text # <<>> PROVE HasSpace(R[i].text)
    <3>1. CASE m = "src_package"
      BY <1>11, <1>12, <3>1
    <3>2. CASE m = "built_froms"
      BY <1>10, <1>13, <2>4, <3>2
    <3> QED
      BY <2>4, <3>1, <3>2
  <2> QED
    BY <1>14, <2>1, <2>2, <2>3, <2>4 DEF FitIn, m
<1>18. ASSUME NEW i \in D PROVE \E v : FitIn(R, k, E, i, v)
  <2>1. PICK v : FitIn(R, k, D, i, v)
    BY <1>15 DEF AllFit
  <2>2. CASE R[i].para # P \/ v # w
    <3>1. NamedIn(R, E, R[i].para, v) = NamedIn(R, D, R[i].para, v)
      BY <1>3, <2>2
    <3> QED
      BY <2>1, <3>1 DEF FitIn
  <2>3. CASE R[i].para = P /\ v = w
    <3>1. R[i].name = <<w>> /\ i \in NamedIn(R, D, P, w)
      BY <2>1, <2>3 DEF FitIn, NamedIn
    <3>2. R[i].text = <<>> /\ IsList(m)
      BY <1>5, <1>16, <3>1
    <3>3. FitIn(R, k, E, i, w)
      BY <1>14, <2>3, <3>1, <3>2 DEF FitIn, m
    <3> QED
      BY <3>3
  <2> QED
    BY <2>2, <2>3
<1>19. AllFit(R, k, E)
  BY <1>1, <1>17, <1>18 DEF AllFit
<1> QED
  BY <1>19 DEF E, R

\* Each field is parsed into a list or into a string.
LEMMA Members ==
  ASSUME NEW k, NEW p, NEW w \in DOMAIN FieldsOf(k, p)
  PROVE  /\ FieldsOf(k, p)[w] \in Lists \cup {"built_froms", "package", "version", "source",
                                              "src_package"}
         /\ ~IsList(FieldsOf(k, p)[w]) <=>
                FieldsOf(k, p)[w] \in {"package", "version", "source", "src_package"}
<1>1. FieldsOf(k, p) \in {ControlFields, SourceFields, BinFields}
  BY DEF FieldsOf
<1>2. FieldsOf(k, p)[w] \in Lists \cup {"built_froms", "package", "version", "source", "src_package"}
  BY <1>1, FieldTables DEF Lists
<1>3. \A m \in {"package", "version", "source", "src_package"} : ~IsList(m)
  BY DEF IsList, Lists
<1>4. \A m \in Lists \cup {"built_froms"} : IsList(m)
  BY DEF IsList
<1> QED
  BY <1>2, <1>3, <1>4

\* When all is done, what is kept is what is said.
LEMMA NamedInAll ==
  ASSUME NEW R, NEW p, NEW w
  PROVE  /\ NamedIn(R, DOMAIN R, p, w) = OfName(R, p, w)
         /\ Kept(R, DOMAIN R, p, w) = Said(R, p, w)
<1>1. NamedIn(R, DOMAIN R, p, w) = OfName(R, p, w)
  BY DEF NamedIn, OfName
<1> QED
  BY <1>1 DEF Kept, Said, Spoken

\* Paragraphs are numbered without gaps.
LEMMA WholeParagraphs ==
  ASSUME NEW lines, NEW ps, Whole(ps, lines)
  PROVE  /\ Paragraphs(Reading(lines)) = 1..Len(ps) /\ Len(ps) \in Nat
         /\ ps = <<>> => DOMAIN Reading(lines) = {}
         /\ ps # <<>> => DOMAIN Reading(lines) # {} /\ Len(ps) # 0
         /\ 2 \in Paragraphs(Reading(lines)) <=> Len(ps) >= 2
<1> DEFINE R == Reading(lines)
<1>1. /\ \A i \in DOMAIN R : R[i].para \in 1..Len(ps)
      /\ Len(ps) \in Nat /\ ps \in Seq(Seq(Field))
  BY WholeFile
<1>2. \A p \in 1..Len(ps) : \E i \in DOMAIN R : R[i].para = p
  BY WholeFields
<1>3. ps = <<>> <=> Len(ps) = 0
  BY <1>1, EmptySeq
<1> HIDE DEF R
<1>4. Paragraphs(R) = 1..Len(ps)
  BY <1>1, <1>2 DEF Paragraphs
<1>5. Len(ps) = 0 <=> DOMAIN R = {}
  <2>1. Len(ps) # 0 => 1 \in 1..Len(ps)
    BY <1>1
  <2>2. Len(ps) = 0 => 1..Len(ps) = {}
    BY <1>1
  <2> QED
    BY <1>1, <1>2, <2>1, <2>2
<1> DEFINE n == Len(ps)
<1>6. n \in Nat
  BY <1>1
<1> HIDE DEF n
<1>7. 2 \in 1..n <=> n >= 2
  BY <1>6
<1> QED
  BY <1>1, <1>3, <1>4, <1>5, <1>7 DEF R, n

(***************************************************************************)
(* A file all of whose fields have been taken.                             *)
(***************************************************************************)
LEMMA AcceptedWellFormed ==
  ASSUME NEW lines, NEW ps, Whole(ps, lines), ~NoColon(lines), ps # <<>>,
         NEW k, k = "binary" => Len(ps) = 1,
         AllFit(Reading(lines), k, DOMAIN Reading(lines))
  PROVE  ~Malformed(k, lines)
<1> DEFINE R == Reading(lines)
<1>1. DOMAIN R # {} /\ (2 \in Paragraphs(R) <=> Len(ps) >= 2)
  BY WholeParagraphs
<1>2. ~WrongParagraphs(k, R)
  BY <1>1 DEF WrongParagraphs
<1>3. \A i \in DOMAIN R : R[i].field # 0
  BY WholeFile
<1> HIDE DEF R
<1>4. ASSUME NEW i \in DOMAIN R PROVE ~Unexpected(k, R, i) /\ ~Unfit(k, R, i)
  <2>1. PICK w : FitIn(R, k, DOMAIN R, i, w)
    BY DEF AllFit, R
  <2>2. /\ w \in DOMAIN FieldsOf(k, R[i].para) /\ R[i].name = <<w>> /\ R[i].name[1] = w
    BY <2>1 DEF FitIn
  <2>3. ~Unexpected(k, R, i)
    BY <1>3, <2>2 DEF Unexpected
  <2> DEFINE m == FieldsOf(k, R[i].para)[w]
             same == OfName(R, R[i].para, w)
  <2>4. same = NamedIn(R, DOMAIN R, R[i].para, w)
    BY NamedInAll
  <2>5. /\ ~IsList(m) => same = {i} /\ R[i].text # <<>>
        /\ IsList(m) /\ R[i].text # <<>> => \A j \in same : ~(R[j].field > R[i].field)
        /\ m \in {"src_package", "built_froms"} /\ R[i].text # <<>> => HasSpace(R[i].text)
    BY <2>1, <2>4 DEF FitIn
  <2> HIDE DEF m, same
  <2>6. ~Unfit(k, R, i)
    BY <2>2, <2>5 DEF Unfit, m, same
  <2> QED
    BY <2>3, <2>6
<1> QED
  BY <1>2, <1>4 DEF Malformed, R

(***************************************************************************)
(* A file that control.c refuses for its paragraphs, and one that it       *)
(* refuses for a field.                                                    *)
(***************************************************************************)
LEMMA ParagraphsMalformed ==
  ASSUME NEW lines, NEW ps, Whole(ps, lines), NEW k,
         ps = <<>> \/ (k = "binary" /\ Len(ps) # 1)
  PROVE  Malformed(k, lines)
<1> DEFINE R == Reading(lines)
<1>1. /\ Len(ps) \in Nat /\ (2 \in Paragraphs(R) <=> Len(ps) >= 2)
      /\ ps = <<>> => DOMAIN R = {}
      /\ ps # <<>> => Len(ps) # 0
  BY WholeParagraphs
<1> HIDE DEF R
<1>2. WrongParagraphs(k, R)
  <2>1. CASE ps = <<>>
    BY <1>1, <2>1 DEF WrongParagraphs
  <2>2. CASE ps # <<>>
    <3> DEFINE n == Len(ps)
    <3>1. n \in Nat /\ n # 0 /\ n # 1 /\ k = "binary"
      BY <1>1, <2>2
    <3> HIDE DEF n
    <3>2. n >= 2
      BY <3>1
    <3> QED
      BY <1>1, <3>1, <3>2 DEF WrongParagraphs, n
  <2> QED
    BY <2>1, <2>2
<1> QED
  BY <1>2 DEF Malformed, R

Refused(lines, ps, P, F, k, old) ==
    \A w \in DOMAIN FieldsOf(k, P) : ps[P][F].name = <<w>> =>
        /\ old = <<>> <=> Kept(Reading(lines), DoneIn(Reading(lines), P, F), P, w) = <<>>
        /\ ~CanParse(FieldsOf(k, P)[w], old, ps[P][F].lines)

\* A field that is refused is a reason to call the file malformed.
LEMMA FieldMalformed ==
  ASSUME NEW lines, NEW ps, Whole(ps, lines), NEW P \in 1..Len(ps), NEW F \in 1..Len(ps[P]),
         NEW k, NEW old, Refused(lines, ps, P, F, k, old)
  PROVE  Malformed(k, lines)
<1> DEFINE R == Reading(lines)
           D == DoneIn(R, P, F)
           X == OfField(R, P, F)
           ls == ps[P][F].lines
<1>1. SUFFICES \E i \in DOMAIN R : Unexpected(k, R, i) \/ Unfit(k, R, i)
  BY DEF Malformed
<1>2. /\ X \in SUBSET DOMAIN R /\ ls \in Seq(Text) /\ X # {}
      /\ NonEmpty(ls) = TextsAt(R, Spoken(R, X))
      /\ \A i \in X : R[i].para = P /\ R[i].field = F /\ R[i].name = ps[P][F].name
  BY WholeLines
<1>3. PICK h \in X : TRUE
  BY <1>2
<1>4. h \in DOMAIN R /\ R[h].para = P /\ R[h].field = F /\ R[h].name = ps[P][F].name
  BY <1>2
<1>5. lines \in Seq(Text) /\ D \in SUBSET DOMAIN R
  BY DEF Whole, DoneIn
<1>6. /\ X = {h} /\ R[h].text # <<>> => IsSingleLine(ls) /\ ls[1] = R[h].text
  BY SingleLines
<1>7. /\ \A i \in DOMAIN R : R[i].para \in Nat /\ R[i].field \in Nat
      /\ F \in Nat /\ P \in Nat
  BY WholeFile
<1>8. CASE \A w \in DOMAIN FieldsOf(k, P) : ps[P][F].name # <<w>>
  <2>1. Unexpected(k, R, h)
    BY <1>4, <1>8 DEF Unexpected
  <2> QED
    BY <1>4, <2>1
<1>9. CASE \E w \in DOMAIN FieldsOf(k, P) : ps[P][F].name = <<w>>
  <2>1. PICK w \in DOMAIN FieldsOf(k, P) : ps[P][F].name = <<w>>
    BY <1>9
  <2> DEFINE m == FieldsOf(k, P)[w]
             same == OfName(R, P, w)
  <2>2. /\ old = <<>> <=> Kept(R, D, P, w) = <<>>
        /\ ~CanParse(m, old, ls)
    BY <2>1 DEF Refused
  <2>3. X \in SUBSET same /\ \A i \in same : i \in DOMAIN R /\ R[i].para = P /\ R[i].name = <<w>>
    BY <1>2, <2>1 DEF OfName
  <2>4. \A i \in same : R[i].name[1] = w
    BY <2>3
  <2>5. m \in {"package", "version", "source", "src_package"} => ~IsList(m)
    BY DEF IsList, Lists
  <2>6. m = "built_froms" => IsList(m)
    BY DEF IsList
  <2> HIDE DEF R, X, D, ls, same
  <2>7. ASSUME NEW i \in same,
               \/ ~IsList(m) /\ (same # {i} \/ R[i].text = <<>>)
               \/ IsList(m) /\ R[i].text # <<>> /\ \E j \in same : R[j].field > R[i].field
               \/ m \in {"src_package", "built_froms"} /\ R[i].text # <<>> /\ ~HasSpace(R[i].text)
        PROVE  \E l \in DOMAIN R : Unfit(k, R, l)
    <3>1. i \in DOMAIN R /\ R[i].para = P /\ R[i].name[1] = w
      BY <2>3, <2>4
    <3> HIDE DEF m
    <3>2. Unfit(k, R, i)
      BY <2>7, <3>1 DEF Unfit, m, same
    <3> QED
      BY <3>1, <3>2
  <2>8. CASE old # <<>>
    <3>1. PICK i \in NamedIn(R, D, P, w) : R[i].text # <<>>
      BY <1>5, <2>2, <2>8, NothingKept DEF R
    <3>2. i \in same /\ i \in D /\ R[i].para = P /\ i \in DOMAIN R
      BY <1>5, <3>1 DEF NamedIn, OfName, same
    <3>3. R[i].field < F
      <4>1. R[i].para < P \/ (R[i].para = P /\ R[i].field < F)
        BY <3>2 DEF D, DoneIn
      <4>2. ~(R[i].para < P)
        BY <1>7, <3>2
      <4> QED
        BY <4>1, <4>2
    <3>4. R[h].field > R[i].field /\ h # i /\ h \in same
      BY <1>4, <1>7, <2>3, <3>2, <3>3
    <3>5. same # {i}
      BY <3>4
    <3> QED
      BY <2>7, <3>1, <3>2, <3>4, <3>5
  <2>9. CASE old = <<>> /\ m = "built_froms"
    <3>1. PICK l \in ToSet(NonEmpty(ls)) : ~HasSpace(l)
      BY <2>2, <2>9 DEF CanParse
    <3> DEFINE S == Spoken(R, X)
               said == TextsAt(R, S)
    <3>2. S \in SUBSET DOMAIN R /\ \A i \in S : i \in same /\ R[i].text # <<>>
      BY <1>2, <2>3 DEF Spoken
    <3> HIDE DEF S
    <3>3. said \in Seq(Text) /\ \A n \in 1..Len(said) : \E i \in S : said[n] = R[i].text
      BY <1>5, <3>2, TextsAtElements DEF R
    <3>4. said = NonEmpty(ls)
      BY <1>2 DEF S
    <3> HIDE DEF said
    <3>5. DOMAIN said = 1..Len(said)
      BY <3>3, LenProperties
    <3>6. \E n \in 1..Len(said) : said[n] = l
      BY <3>1, <3>4, <3>5 DEF ToSet
    <3>7. PICK i \in S : l = R[i].text
      BY <3>3, <3>6
    <3> QED
      BY <2>7, <2>9, <3>1, <3>2, <3>7
  <2>10. CASE old = <<>> /\ m \in {"package", "version", "source", "src_package"}
    <3>1. CASE X = {h} /\ R[h].text # <<>>
      <4>1. IsSingleLine(ls) /\ ls[1] = R[h].text
        BY <1>6, <3>1
      <4>2. m = "src_package" /\ ~HasSpace(R[h].text)
        BY <2>2, <2>10, <4>1 DEF CanParse
      <4> QED
        BY <2>3, <2>7, <3>1, <4>2
    <3>2. CASE X # {h} \/ R[h].text = <<>>
      <4>1. same # {h} \/ R[h].text = <<>>
        BY <1>3, <2>3, <3>2
      <4> QED
        BY <2>3, <2>5, <2>7, <2>10, <4>1
    <3> QED
      BY <3>1, <3>2
  <2>11. CASE old = <<>> /\ m \in Lists
    <3>1. m \notin {"built_froms", "package", "version", "source", "src_package"}
      BY <2>11 DEF Lists
    <3> QED
      BY <2>2, <2>11, <3>1 DEF CanParse
  <2> QED
    BY <2>8, <2>9, <2>10, <2>11, Members
<1> QED
  BY <1>8, <1>9

(***************************************************************************)
(* A record has, in the members that fields are parsed into, what the      *)
(* fields done so far say.                                                 *)
(***************************************************************************)
\* A string, or what parse_source and parse_builtfromlist make of a line, is what is said.
TextSaid(r, m, texts) ==
    /\ m \in {"package", "version", "source"} => texts = <<>> \/ texts = <<r[m]>>
    /\ m = "src_package" =>
            /\ "src_version" \in DOMAIN r
            /\ texts = <<>> \/ (r.src_package = Before(texts[1], " ") /\
                                r.src_version = After(texts[1], " "))
    /\ m = "built_froms" => r.built_froms = PairsOf(texts)

TargetSays(r, R, D, p, fields) ==
    \A w \in DOMAIN fields :
        /\ fields[w] \in DOMAIN r
        /\ r[fields[w]] = <<>> <=> Kept(R, D, p, w) = <<>>
        /\ fields[w] \in Lists => r[fields[w]] = Kept(R, D, p, w)
        /\ TextSaid(r, fields[w], Kept(R, D, p, w))

BinSays(bin, R, D, p, deps) ==
    /\ bin.package = <<>> <=> Kept(R, D, p, "Package") = <<>>
    /\ Kept(R, D, p, "Package") = <<>> \/ Kept(R, D, p, "Package") = <<bin.package>>
    /\ bin.run_depend = Kept(R, D, p, "Depends-Run") \o deps

\* A list is set to nothing only by a field without text.
LEMMA NothingToSet ==
  ASSUME NEW lines \in Seq(Text)
  PROVE  /\ IsSingleLine(lines) => NonEmpty(lines) # <<>> /\ lines[1] # <<>> /\ lines[1] \in Text
         /\ BuiltFromsOf(lines) = <<>> <=> NonEmpty(lines) = <<>>
<1> DEFINE t == NonEmpty(lines)
           b == BuiltFromsOf(lines)
<1>1. t \in Seq(Text) /\ b \in Seq(BuiltFroms) /\ Len(b) = Len(t)
  BY NonEmptyTyped, BuiltFromsTyped
<1>2. ASSUME IsSingleLine(lines) PROVE t # <<>> /\ lines[1] # <<>> /\ lines[1] \in Text
  <2>1. 1 \in 1..Len(lines) /\ lines[1] # <<>>
    BY <1>2 DEF IsSingleLine
  <2>2. lines[1] \in Text
    BY <2>1, ElementOfSeq
  <2>3. \E n \in 1..Len(t) : t[n] = lines[1]
    BY <2>1, NonEmptyElements
  <2>4. t = <<>> => 1..Len(t) = {}
    OBVIOUS
  <2> QED
    BY <2>1, <2>2, <2>3, <2>4
<1> HIDE DEF t, b
<1>3. (t = <<>> <=> Len(t) = 0) /\ (b = <<>> <=> Len(b) = 0)
  BY <1>1, EmptySeq
<1>4. b = <<>> <=> t = <<>>
  BY <1>1, <1>3
<1> QED
  BY <1>2, <1>4 DEF t, b

\* A single line that is not empty is kept as it is.
LEMMA SingleKept ==
  ASSUME NEW lines \in Seq(Text), IsSingleLine(lines)
  PROVE  NonEmpty(lines) = <<lines[1]>>
<1> DEFINE t == lines[1]
           none == <<>>
<1>1. Len(lines) = 1 /\ t # <<>> /\ t \in Text
  <2>1. Len(lines) = 1 /\ t # <<>>
    BY DEF IsSingleLine
  <2>2. 1 \in 1..Len(lines)
    BY <2>1
  <2>3. \A k \in 1..Len(lines) : lines[k] \in Text
    BY ElementOfSeq, Zenon
  <2>4. t \in Text
    BY <2>2, <2>3, Zenon
  <2> QED
    BY <2>1, <2>4
<1> HIDE DEF t
<1>2. lines = <<t>>
  <2>1. lines = <<lines[1]>>
    BY <1>1
  <2> QED
    BY <2>1 DEF t
<1>3. none \in Seq(Text) /\ lines = Append(none, t)
  BY <1>2, EmptySeq
<1>4. NonEmpty(none) = <<>>
  <2>1. {k \in DOMAIN none : none[k] # <<>>} = {}
    OBVIOUS
  <2> QED
    BY <2>1, AtNoPositions DEF NonEmpty
<1> HIDE DEF none
<1>5. NonEmpty(Append(none, t)) = Append(NonEmpty(none), t)
  BY <1>1, <1>3, NonEmptyAppend
<1>6. NonEmpty(lines) = <<t>>
  BY <1>3, <1>4, <1>5
<1> QED
  BY <1>6 DEF t

\* A field sets its member of the record and no other.
LEMMA SetMember ==
  ASSUME NEW k, NEW p, NEW r,
         \A v \in DOMAIN FieldsOf(k, p) : FieldsOf(k, p)[v] \in DOMAIN r,
         NEW w \in DOMAIN FieldsOf(k, p), NEW lines \in Seq(Text),
         CanParse(FieldsOf(k, p)[w], <<>>, lines),
         \A n \in 1..Len(lines) : lines[n] # <<>> => lines[n][1] \notin Spaces,
         FieldsOf(k, p)[w] = "src_package" => "src_version" \in DOMAIN r
  PROVE  LET m == FieldsOf(k, p)[w]
             s == Set(r, m, lines)
         IN  /\ DOMAIN s = DOMAIN r
             /\ s[m] = <<>> <=> NonEmpty(lines) = <<>>
             /\ m \in Lists => s[m] = NonEmpty(lines)
             /\ TextSaid(s, m, NonEmpty(lines))
             /\ m # "src_package" /\ "src_version" \in DOMAIN r => s.src_version = r.src_version
             /\ \A v \in DOMAIN FieldsOf(k, p) :
                    v # w => s[FieldsOf(k, p)[v]] = r[FieldsOf(k, p)[v]]
<1> DEFINE m == FieldsOf(k, p)[w]
           s == Set(r, m, lines)
           parts == IF m = "src_package" THEN {} ELSE {"src_version"} \cap DOMAIN r
           others == ({FieldsOf(k, p)[v] : v \in DOMAIN FieldsOf(k, p)} \ {m}) \cup parts
<1>1. m \in DOMAIN r /\ others \in SUBSET DOMAIN r
  OBVIOUS
<1>2. \A v \in DOMAIN FieldsOf(k, p) : v # w => FieldsOf(k, p)[v] \in others
  BY OneFieldEach
<1>3. m \in Lists \cup {"built_froms", "package", "version", "source", "src_package"}
  BY Members
<1>4. /\ m \notin others /\ (m = "src_package" => "src_version" \notin others)
      /\ m # "src_package" /\ "src_version" \in DOMAIN r => "src_version" \in others
      /\ m = "src_package" => "src_version" \in DOMAIN r
  <2>1. \A v \in DOMAIN FieldsOf(k, p) : FieldsOf(k, p)[v] # "src_version"
    BY Members DEF Lists
  <2>2. m # "src_version"
    BY <2>1
  <2> QED
    BY <2>1, <2>2
<1>5. CanParse(m, <<>>, lines)
  OBVIOUS
<1> HIDE DEF m, parts, others
<1>6. SUFFICES /\ DOMAIN s = DOMAIN r
               /\ s[m] = <<>> <=> NonEmpty(lines) = <<>>
               /\ m \in Lists => s[m] = NonEmpty(lines)
               /\ TextSaid(s, m, NonEmpty(lines))
               /\ \A x \in others : s[x] = r[x]
  BY <1>2, <1>4 DEF m
<1> DEFINE texts == NonEmpty(lines)
<1>7. CASE m \in Lists
  <2>1. s = [r EXCEPT ![m] = NonEmpty(lines)]
    BY <1>7, SetList
  <2>2. TextSaid(s, m, texts)
    BY <1>7 DEF TextSaid, Lists
  <2> QED
    BY <1>1, <1>4, <2>1, <2>2
<1>8. CASE m = "built_froms"
  <2> DEFINE b == BuiltFromsOf(lines)
  <2>1. s = [r EXCEPT !["built_froms"] = b] /\ m \notin Lists
    BY <1>8, SetBuiltFroms DEF Lists
  <2>2. b = <<>> <=> NonEmpty(lines) = <<>>
    BY NothingToSet
  <2>4. b = PairsOf(texts)
    BY DEF BuiltFromsOf
  <2> HIDE DEF b, s, texts
  <2>3. DOMAIN s = DOMAIN r /\ s[m] = b /\ \A x \in others : s[x] = r[x]
    BY <1>1, <1>4, <1>8, <2>1
  <2>5. TextSaid(s, m, texts)
    BY <1>8, <2>3, <2>4 DEF TextSaid
  <2> QED
    BY <2>1, <2>2, <2>3, <2>5 DEF texts
<1>9. CASE m \in {"package", "version", "source"}
  <2>1. s = [r EXCEPT ![m] = lines[1]] /\ m \notin Lists
    BY <1>9, SetText DEF Lists
  <2>5. IsSingleLine(lines)
    BY <1>5, <1>9 DEF CanParse
  <2>2. lines[1] # <<>> /\ NonEmpty(lines) # <<>> /\ texts = <<lines[1]>>
    BY <2>5, NothingToSet, SingleKept
  <2> HIDE DEF s
  <2> DEFINE t == lines[1]
  <2>4. s = [r EXCEPT ![m] = t] /\ t # <<>> /\ texts = <<t>>
    BY <2>1, <2>2
  <2> HIDE DEF t, texts
  <2>3. DOMAIN s = DOMAIN r /\ s[m] = t /\ \A x \in others : s[x] = r[x]
    BY <1>1, <1>4, <2>4
  <2>6. TextSaid(s, m, texts)
    BY <1>9, <2>3, <2>4 DEF TextSaid
  <2> QED
    BY <2>1, <2>2, <2>3, <2>4, <2>6 DEF texts
<1>10. CASE m = "src_package"
  <2> DEFINE b == Before(lines[1], " ")
             a == After(lines[1], " ")
  <2>1. s = [r EXCEPT !["src_package"] = b, !["src_version"] = a] /\ m \notin Lists
    BY <1>10, SetSource DEF Lists
  <2>2. IsSingleLine(lines) /\ HasSpace(lines[1])
    BY <1>5, <1>10 DEF CanParse
  <2>3. lines[1] # <<>> /\ NonEmpty(lines) # <<>> /\ lines[1] \in Text /\ lines[1][1] \notin Spaces
    <3>1. 1 \in 1..Len(lines)
      BY <2>2 DEF IsSingleLine
    <3> QED
      BY <2>2, <3>1, NothingToSet
  <2>4. b # <<>>
    BY <2>2, <2>3, SpaceInside DEF Text
  <2>6. texts = <<lines[1]>>
    BY <2>2, SingleKept
  <2>7. texts[1] = lines[1]
    BY <2>6
  <2>8. b = Before(texts[1], " ") /\ a = After(texts[1], " ")
    BY <2>7
  <2> HIDE DEF s, a, b, texts
  <2>5. DOMAIN s = DOMAIN r /\ s[m] = b /\ s["src_version"] = a /\ \A x \in others : s[x] = r[x]
    <3>1. "src_package" # "src_version"
      OBVIOUS
    <3>2. "src_package" \in DOMAIN r /\ "src_package" \notin others /\ "src_version" \notin others
      BY <1>1, <1>4, <1>10
    <3>3. DOMAIN s = DOMAIN r /\ s["src_package"] = b /\ s["src_version"] = a
      BY <1>4, <1>10, <2>1, <3>1, <3>2
    <3>4. \A x \in others : s[x] = r[x]
      <4>1. SUFFICES ASSUME NEW x \in others PROVE s[x] = r[x]
        OBVIOUS
      <4>2. x # "src_package" /\ x # "src_version" /\ x \in DOMAIN r
        BY <1>1, <3>2
      <4> QED
        BY <2>1, <4>2
    <3> QED
      BY <1>10, <3>3, <3>4
  <2>9. TextSaid(s, m, texts)
    <3>1. "src_version" \in DOMAIN s
      BY <1>4, <1>10, <2>5
    <3> QED
      BY <1>10, <2>5, <2>8, <3>1 DEF TextSaid
  <2> QED
    BY <2>1, <2>3, <2>4, <2>5, <2>9 DEF texts
<1> QED
  BY <1>3, <1>7, <1>8, <1>9, <1>10

(***************************************************************************)
(* A field more of a record.                                               *)
(***************************************************************************)
LEMMA TargetGrows ==
  ASSUME NEW lines, NEW ps, Whole(ps, lines), NEW P \in 1..Len(ps), NEW F \in 1..Len(ps[P]),
         NEW k, NEW w \in DOMAIN FieldsOf(k, P), ps[P][F].name = <<w>>, NEW r,
         TargetSays(r, Reading(lines), DoneIn(Reading(lines), P, F), P, FieldsOf(k, P)),
         CanParse(FieldsOf(k, P)[w], r[FieldsOf(k, P)[w]], ps[P][F].lines)
  PROVE  TargetSays(Set(r, FieldsOf(k, P)[w], ps[P][F].lines), Reading(lines),
                    DoneIn(Reading(lines), P, F + 1), P, FieldsOf(k, P))
<1> DEFINE R == Reading(lines)
           D == DoneIn(R, P, F)
           E == DoneIn(R, P, F + 1)
           fs == FieldsOf(k, P)
           ls == ps[P][F].lines
           m == fs[w]
           s == Set(r, m, ls)
<1>1. /\ \A v \in DOMAIN fs : fs[v] \in DOMAIN r
      /\ r[m] = <<>> <=> Kept(R, D, P, w) = <<>>
      /\ TextSaid(r, m, Kept(R, D, P, w))
  BY DEF TargetSays
<1>2. r[m] = <<>>
  BY DEF CanParse
<1>3. /\ \A v : v # w => Kept(R, E, P, v) = Kept(R, D, P, v)
      /\ Kept(R, E, P, w) = NonEmpty(ls)
  BY <1>1, <1>2, KeptGrows
<1>4. ls \in Seq(Text) /\ ls = TextsAt(R, OfField(R, P, F))
      /\ OfField(R, P, F) \in SUBSET DOMAIN R /\ lines \in Seq(Text)
  BY WholeLines DEF Whole
<1>5. \A n \in 1..Len(ls) : ls[n] # <<>> => ls[n][1] \notin Spaces
  <2> DEFINE X == OfField(R, P, F)
             said == TextsAt(R, X)
  <2>1. ls = said /\ X \in SUBSET DOMAIN R
    BY <1>4
  <2> HIDE DEF X
  <2>2. \A n \in 1..Len(said) : \E i \in X : said[n] = R[i].text
    BY <1>4, <2>1, TextsAtElements
  <2>3. \A i \in X : R[i].text # <<>> => R[i].text[1] \notin Spaces
    BY <2>1, WholeFile
  <2> HIDE DEF said, R, ls
  <2> QED
    BY <2>1, <2>2, <2>3
<1>6. /\ DOMAIN s = DOMAIN r
      /\ s[m] = <<>> <=> NonEmpty(ls) = <<>>
      /\ m \in Lists => s[m] = NonEmpty(ls)
      /\ TextSaid(s, m, NonEmpty(ls))
      /\ m # "src_package" /\ "src_version" \in DOMAIN r => s.src_version = r.src_version
      /\ \A v \in DOMAIN fs : v # w => s[fs[v]] = r[fs[v]]
  <2>1. CanParse(FieldsOf(k, P)[w], <<>>, ls)
    BY <1>2
  <2>2. \A v \in DOMAIN FieldsOf(k, P) : FieldsOf(k, P)[v] \in DOMAIN r
    BY <1>1
  <2>4. FieldsOf(k, P)[w] = "src_package" => "src_version" \in DOMAIN r
    BY <1>1 DEF TextSaid
  <2> HIDE DEF ls
  <2>3. LET x == Set(r, FieldsOf(k, P)[w], ls) IN
        /\ DOMAIN x = DOMAIN r
        /\ x[FieldsOf(k, P)[w]] = <<>> <=> NonEmpty(ls) = <<>>
        /\ FieldsOf(k, P)[w] \in Lists => x[FieldsOf(k, P)[w]] = NonEmpty(ls)
        /\ TextSaid(x, FieldsOf(k, P)[w], NonEmpty(ls))
        /\ FieldsOf(k, P)[w] # "src_package" /\ "src_version" \in DOMAIN r =>
                x.src_version = r.src_version
        /\ \A v \in DOMAIN FieldsOf(k, P) :
              v # w => x[FieldsOf(k, P)[v]] = r[FieldsOf(k, P)[v]]
    BY <1>4, <1>5, <2>1, <2>2, <2>4, SetMember
  <2> QED
    BY <2>3
<1>7. TargetSays(r, R, D, P, fs)
  OBVIOUS
<1>9. \A v \in DOMAIN fs : v # w => fs[v] # m
  BY OneFieldEach
<1> HIDE DEF R, D, E, fs, ls, s
<1>8. TargetSays(s, R, E, P, fs)
  <2> SUFFICES ASSUME NEW v \in DOMAIN fs
               PROVE  /\ fs[v] \in DOMAIN s
                      /\ s[fs[v]] = <<>> <=> Kept(R, E, P, v) = <<>>
                      /\ fs[v] \in Lists => s[fs[v]] = Kept(R, E, P, v)
                      /\ TextSaid(s, fs[v], Kept(R, E, P, v))
    BY DEF TargetSays
  <2>1. CASE v = w
    BY <1>1, <1>3, <1>6, <2>1
  <2>2. CASE v # w
    <3>1. /\ fs[v] \in DOMAIN s /\ s[fs[v]] = r[fs[v]] /\ fs[v] # m
          /\ Kept(R, E, P, v) = Kept(R, D, P, v)
      BY <1>1, <1>3, <1>6, <1>9, <2>2
    <3>2. /\ r[fs[v]] = <<>> <=> Kept(R, D, P, v) = <<>>
          /\ fs[v] \in Lists => r[fs[v]] = Kept(R, D, P, v)
          /\ TextSaid(r, fs[v], Kept(R, D, P, v))
      BY <1>7 DEF TargetSays
    <3> DEFINE x == fs[v]
               texts == Kept(R, D, P, v)
    <3>3. /\ s[x] = r[x] /\ DOMAIN s = DOMAIN r /\ TextSaid(r, x, texts)
          /\ x = "src_package" /\ "src_version" \in DOMAIN r => s.src_version = r.src_version
      BY <1>6, <3>1, <3>2
    <3> HIDE DEF x, texts
    <3>4. TextSaid(s, x, texts)
      BY <3>3 DEF TextSaid
    <3> QED
      BY <3>1, <3>2, <3>4 DEF x, texts
  <2> QED
    BY <2>1, <2>2
<1> QED
  BY <1>8 DEF R, E, fs, ls, s

(***************************************************************************)
(* A record whose paragraph is not that of the field.                      *)
(***************************************************************************)
LEMMA OthersSay ==
  ASSUME NEW lines, NEW ps, Whole(ps, lines), NEW P \in 1..Len(ps), NEW F \in 1..Len(ps[P]),
         NEW w, ps[P][F].name = <<w>>
  PROVE  LET R == Reading(lines)
             D == DoneIn(R, P, F)
             E == DoneIn(R, P, F + 1)
         IN  /\ \A r, p, fields : p # P => (TargetSays(r, R, E, p, fields) <=> TargetSays(r, R, D, p, fields))
             /\ \A bin, p, deps : p # P => (BinSays(bin, R, E, p, deps) <=> BinSays(bin, R, D, p, deps))
<1> DEFINE R == Reading(lines)
           D == DoneIn(R, P, F)
           E == DoneIn(R, P, F + 1)
<1>1. \A p, v : p # P => Kept(R, E, p, v) = Kept(R, D, p, v)
  BY KeptGrows
<1> HIDE DEF R, D, E
<1>2. \A r, p, fields : p # P => (TargetSays(r, R, E, p, fields) <=> TargetSays(r, R, D, p, fields))
  BY <1>1 DEF TargetSays
<1>3. \A bin, p, deps : p # P => (BinSays(bin, R, E, p, deps) <=> BinSays(bin, R, D, p, deps))
  BY <1>1 DEF BinSays
<1> QED
  BY <1>2, <1>3 DEF R, D, E

\* At the start of a paragraph nothing has been kept of it.
LEMMA NoneSay ==
  ASSUME NEW lines, NEW ps, Whole(ps, lines)
  PROVE  LET R == Reading(lines) IN
         /\ \A p, v : Kept(R, DoneIn(R, 1, 1), p, v) = <<>>
         /\ \A P \in 1..Len(ps) : \A v : Kept(R, DoneIn(R, P, 1), P, v) = <<>>
<1> DEFINE R == Reading(lines)
<1>1. DoneIn(R, 1, 1) = {} /\ lines \in Seq(Text)
  BY DoneGrows DEF Whole
<1>2. ASSUME NEW p, NEW v, NEW D, NamedIn(R, D, p, v) = {} PROVE Kept(R, D, p, v) = <<>>
  <2>1. Spoken(R, NamedIn(R, D, p, v)) = {}
    BY <1>2 DEF Spoken
  <2> QED
    BY <2>1, AtNoPositions DEF Kept, TextsAt
<1>3. \A p, v : NamedIn(R, DoneIn(R, 1, 1), p, v) = {}
  BY <1>1 DEF NamedIn
<1>4. ASSUME NEW P \in 1..Len(ps), NEW v PROVE NamedIn(R, DoneIn(R, P, 1), P, v) = {}
  <2>1. \A i \in DOMAIN R : R[i].para = P => ~(R[i].para < P) /\ ~(R[i].field < 1)
    BY WholeFile
  <2> QED
    BY <2>1 DEF NamedIn, DoneIn
<1> QED
  BY <1>2, <1>3, <1>4

(***************************************************************************)
(* The record when the loop is at field F of paragraph P, and when all is  *)
(* parsed.                                                                 *)
(***************************************************************************)
BinsSay(r, R, D, n) == \A b \in 1..n : BinSays(r.bins[b], R, D, b + 1, r.run_deps)

Halfway(lines, ps, k, r, P, F) ==
    LET R == Reading(lines)
        D == DoneIn(R, P, F)
    IN  /\ AllFit(R, k, D)
        /\ ps = <<>> => P = 1
        /\ ps # <<>> => P \in 1..Len(ps) /\ F \in 1..(Len(ps[P]) + 1)
        /\ k = "binary" => P = 1
        /\ TargetSays(r, R, D, 1, FieldsOf(k, 1))
        /\ k = "source" /\ P # 1 =>
                BinsSay(r, R, D, P - 2) /\ TargetSays(r.bins[P - 1], R, D, P, BinFields)

Complete(lines, ps, k, r) ==
    LET R == Reading(lines)
    IN  /\ ps # <<>> /\ (k = "binary" => Len(ps) = 1)
        /\ AllFit(R, k, DOMAIN R)
        /\ TargetSays(r, R, DOMAIN R, 1, FieldsOf(k, 1))
        /\ k = "source" => Len(r.bins) = Len(ps) - 1 /\ BinsSay(r, R, DOMAIN R, Len(ps) - 1)

RecordInv ==
    Parsing =>
        /\ status = "lines" => c = IF kind = "binary" THEN NoControl ELSE NoSource
        /\ status = "fields" => Halfway(TheFile, paras, kind, c, para, field)
        /\ status = "ok" => Complete(TheFile, paras, kind, c)

(***************************************************************************)
(* An empty record says nothing yet.                                       *)
(***************************************************************************)
LEMMA EmptyRecords ==
  /\ \A w \in DOMAIN ControlFields : ControlFields[w] \in DOMAIN NoControl /\ NoControl[ControlFields[w]] = <<>>
  /\ \A w \in DOMAIN SourceFields : SourceFields[w] \in DOMAIN NoSource /\ NoSource[SourceFields[w]] = <<>>
  /\ \A w \in DOMAIN BinFields : BinFields[w] \in DOMAIN NoBin /\ NoBin[BinFields[w]] = <<>>
  /\ "src_version" \in DOMAIN NoControl
  /\ \A w \in DOMAIN SourceFields : SourceFields[w] # "src_package"
  /\ \A w \in DOMAIN BinFields : BinFields[w] # "src_package"
<1>1. \A w \in DOMAIN ControlFields :
            ControlFields[w] \in {"run_depend", "built_froms", "package", "version", "src_package"}
  BY FieldTables
<1>2. \A w \in DOMAIN SourceFields :
            SourceFields[w] \in {"build_depend", "unpack_depend", "run_deps", "sources", "source", "version"}
  BY FieldTables
<1>3. \A w \in DOMAIN BinFields : BinFields[w] \in {"run_depend", "package"}
  BY FieldTables
<1>4. \A m \in {"run_depend", "built_froms", "package", "version", "src_package"} :
            m \in DOMAIN NoControl /\ NoControl[m] = <<>>
  BY DEF NoControl, NULL
<1>5. \A m \in {"build_depend", "unpack_depend", "run_deps", "sources", "source", "version"} :
            m \in DOMAIN NoSource /\ NoSource[m] = <<>>
  BY DEF NoSource, NULL
<1>6. \A m \in {"run_depend", "package"} : m \in DOMAIN NoBin /\ NoBin[m] = <<>>
  BY DEF NoBin, NULL
<1>7. \A w \in DOMAIN ControlFields : ControlFields[w] \in DOMAIN NoControl /\ NoControl[ControlFields[w]] = <<>>
  BY <1>1, <1>4
<1>8. \A w \in DOMAIN SourceFields : SourceFields[w] \in DOMAIN NoSource /\ NoSource[SourceFields[w]] = <<>>
  BY <1>2, <1>5
<1>9. \A w \in DOMAIN BinFields : BinFields[w] \in DOMAIN NoBin /\ NoBin[BinFields[w]] = <<>>
  BY <1>3, <1>6
<1>10. "src_version" \in DOMAIN NoControl
  BY DEF NoControl
<1> QED
  BY <1>2, <1>3, <1>7, <1>8, <1>9, <1>10

\* An empty record says what nothing says.
LEMMA EmptySays ==
  ASSUME NEW r, NEW R, NEW D, NEW p, NEW fields,
         \A w \in DOMAIN fields : fields[w] \in DOMAIN r /\ r[fields[w]] = <<>>,
         \A w \in DOMAIN fields : fields[w] = "src_package" => "src_version" \in DOMAIN r,
         \A w : Kept(R, D, p, w) = <<>>
  PROVE  TargetSays(r, R, D, p, fields)
<1>1. PairsOf(<<>>) = <<>>
  BY DEF PairsOf
<1>2. \A w \in DOMAIN fields : TextSaid(r, fields[w], <<>>)
  BY <1>1 DEF TextSaid
<1> QED
  BY <1>2 DEF TargetSays

\* Before the first field the record is as it should be.
LEMMA Starting ==
  ASSUME NEW lines, NEW ps, Whole(ps, lines), NEW k \in {"binary", "source"}
  PROVE  Halfway(lines, ps, k, IF k = "binary" THEN NoControl ELSE NoSource, 1, 1)
<1> DEFINE R == Reading(lines)
           D == DoneIn(R, 1, 1)
           r == IF k = "binary" THEN NoControl ELSE NoSource
<1>1. D = {}
  BY DoneGrows
<1>2. \A w : Kept(R, D, 1, w) = <<>>
  BY NoneSay
<1>3. \A w \in DOMAIN FieldsOf(k, 1) : FieldsOf(k, 1)[w] \in DOMAIN r /\ r[FieldsOf(k, 1)[w]] = <<>>
  BY EmptyRecords DEF FieldsOf
<1>7. \A w \in DOMAIN FieldsOf(k, 1) :
        FieldsOf(k, 1)[w] = "src_package" => "src_version" \in DOMAIN r
  BY EmptyRecords DEF FieldsOf
<1>4. ps # <<>> => 1 \in 1..Len(ps) /\ 1 \in 1..(Len(ps[1]) + 1)
  <2>1. /\ Len(ps) \in Nat /\ ps \in Seq(Seq(Field))
        /\ \A p \in 1..Len(ps) : Len(ps[p]) \in Nat
    BY WholeFile
  <2>2. ps # <<>> => Len(ps) # 0
    BY <2>1, EmptySeq
  <2>3. ps # <<>> => 1 \in 1..Len(ps)
    BY <2>1, <2>2
  <2>4. \A n \in Nat : 1 \in 1..(n + 1)
    OBVIOUS
  <2> QED
    BY <2>1, <2>3, <2>4
<1>5. AllFit(R, k, D)
  BY <1>1 DEF AllFit
<1> HIDE DEF R, D, r
<1>6. TargetSays(r, R, D, 1, FieldsOf(k, 1))
  BY <1>2, <1>3, <1>7, EmptySays
<1> QED
  BY <1>4, <1>5, <1>6 DEF Halfway, R, D, r

(***************************************************************************)
(* The binary packages of a source may change, and nothing else of it.     *)
(***************************************************************************)
LEMMA BinsChange ==
  ASSUME NEW r \in SourceControls, NEW bins, NEW R, NEW D,
         TargetSays(r, R, D, 1, SourceFields)
  PROVE  /\ TargetSays([r EXCEPT !.bins = bins], R, D, 1, SourceFields)
         /\ [r EXCEPT !.bins = bins].bins = bins
         /\ [r EXCEPT !.bins = bins].run_deps = r.run_deps
<1> DEFINE s == [r EXCEPT !.bins = bins]
<1>1. /\ DOMAIN s = DOMAIN r /\ s.bins = bins /\ s.run_deps = r.run_deps
      /\ \A m \in DOMAIN r : m # "bins" => s[m] = r[m]
  BY DEF SourceControls
<1>2. \A w \in DOMAIN SourceFields : SourceFields[w] \notin {"bins", "src_package", "built_froms"}
  BY FieldTables
<1> HIDE DEF s
<1>4. \A w \in DOMAIN SourceFields : \A texts :
        TextSaid(r, SourceFields[w], texts) /\ SourceFields[w] \in DOMAIN r =>
            TextSaid(s, SourceFields[w], texts)
  BY <1>1, <1>2 DEF TextSaid
<1>3. TargetSays(s, R, D, 1, SourceFields)
  BY <1>1, <1>2, <1>4 DEF TargetSays
<1> QED
  BY <1>1, <1>3 DEF s

\* A binary package is complete with the dependencies of its source.
LEMMA BinEnds ==
  ASSUME NEW b \in Bins, NEW R, NEW D, NEW p, TargetSays(b, R, D, p, BinFields), NEW deps
  PROVE  BinSays([b EXCEPT !.run_depend = @ \o deps], R, D, p, deps)
<1>1. /\ b["package"] = <<>> <=> Kept(R, D, p, "Package") = <<>>
      /\ b["run_depend"] = Kept(R, D, p, "Depends-Run")
      /\ Kept(R, D, p, "Package") = <<>> \/ Kept(R, D, p, "Package") = <<b["package"]>>
  <2>1. "run_depend" \in Lists
    BY DEF Lists
  <2>2. \A texts : TextSaid(b, "package", texts) => texts = <<>> \/ texts = <<b["package"]>>
    BY DEF TextSaid
  <2> QED
    BY <2>1, <2>2, FieldTables DEF TargetSays
<1> DEFINE m == [b EXCEPT !.run_depend = @ \o deps]
<1>2. m.package = b["package"] /\ m.run_depend = b["run_depend"] \o deps
  BY DEF Bins
<1> HIDE DEF m
<1>3. BinSays(m, R, D, p, deps)
  BY <1>1, <1>2 DEF BinSays
<1> QED
  BY <1>3 DEF m

(***************************************************************************)
(* WithRunDeps: the paragraph of a binary package is done.                 *)
(***************************************************************************)
LEMMA RunDepsSaid ==
  ASSUME TypeInv, kind = "source", NEW R, NEW D, TargetSays(c, R, D, 1, SourceFields),
         para # 1 => BinsSay(c, R, D, para - 2) /\ TargetSays(c.bins[para - 1], R, D, para, BinFields)
  PROVE  /\ WithRunDeps \in SourceControls /\ Len(WithRunDeps.bins) = para - 1
         /\ WithRunDeps.bins \in Seq(Bins)
         /\ TargetSays(WithRunDeps, R, D, 1, SourceFields)
         /\ BinsSay(WithRunDeps, R, D, para - 1)
<1>1. /\ c \in SourceControls /\ c.bins \in Seq(Bins) /\ Len(c.bins) = para - 1
      /\ para \in Nat \ {0}
  BY TargetTyped DEF TypeInv, RecordTyped, SourceControls
<1>2. WithRunDeps \in SourceControls /\ Len(WithRunDeps.bins) = para - 1
  BY <1>1, RunDepsTyped
<1>3. WithRunDeps.bins \in Seq(Bins)
  BY <1>2 DEF SourceControls
<1>4. CASE para = 1
  <2>1. WithRunDeps = c
    BY <1>4 DEF WithRunDeps
  <2>2. \A b \in 1..(para - 1) : FALSE
    BY <1>4
  <2> QED
    BY <1>2, <1>3, <2>1, <2>2 DEF BinsSay
<1>5. CASE para # 1
  <2> DEFINE b == Last(c.bins)
             more == [b EXCEPT !.run_depend = @ \o c.run_deps]
             bins == OnLast(c.bins, more)
  <2>1. InBin
    BY <1>1, <1>5 DEF InBin
  <2>2. c.bins # <<>> /\ b = c.bins[para - 1] /\ b \in Bins
    BY <2>1, TargetTyped DEF Target
  <2>3. more \in Bins
    <3>1. c.run_deps \in Seq(Text) /\ b.run_depend \in Seq(Text)
      BY <1>1, <2>2 DEF SourceControls, Bins
    <3>2. b.run_depend \o c.run_deps \in Seq(Text)
      BY <3>1, ConcatProperties
    <3> QED
      BY <2>2, <3>2 DEF Bins
  <2>4. BinSays(more, R, D, para, c.run_deps)
    BY <1>5, <2>2, BinEnds
  <2> HIDE DEF more, b
  <2>5. WithRunDeps = [c EXCEPT !.bins = bins]
    BY <1>5 DEF WithRunDeps, more, b
  <2>6. /\ \A n \in 1..(Len(c.bins) - 1) : bins[n] = c.bins[n]
        /\ bins[Len(c.bins)] = more
    <3> DEFINE s == c.bins
    <3>1. s \in Seq(Bins) /\ s # <<>>
      BY <1>1, <2>2
    <3> HIDE DEF s
    <3>2. /\ \A n \in 1..(Len(s) - 1) : OnLast(s, more)[n] = s[n]
          /\ OnLast(s, more)[Len(s)] = more
      BY <2>3, <3>1, LastReplaced
    <3> QED
      BY <3>2 DEF s
  <2> HIDE DEF bins
  <2>7. /\ TargetSays(WithRunDeps, R, D, 1, SourceFields)
        /\ WithRunDeps.bins = bins /\ WithRunDeps.run_deps = c.run_deps
    BY <1>1, <2>5, BinsChange
  <2>8. ASSUME NEW n \in 1..(para - 1)
        PROVE  BinSays(WithRunDeps.bins[n], R, D, n + 1, WithRunDeps.run_deps)
    <3>1. CASE n = para - 1
      BY <1>1, <2>4, <2>6, <2>7, <3>1
    <3>2. CASE n # para - 1
      <4>1. n \in 1..(para - 2) /\ n \in 1..(Len(c.bins) - 1)
        BY <1>1, <3>2
      <4>2. BinSays(c.bins[n], R, D, n + 1, c.run_deps)
        BY <1>5, <4>1 DEF BinsSay
      <4> QED
        BY <2>6, <2>7, <4>1, <4>2
    <3> QED
      BY <3>1, <3>2
  <2> QED
    BY <1>2, <1>3, <2>7, <2>8 DEF BinsSay
<1> QED
  BY <1>4, <1>5

(***************************************************************************)
(* ParseField: what is in the record is said by one field more.            *)
(***************************************************************************)
LEMMA FieldNamed ==
  ASSUME TypeInv, AtField, IsExpected
  PROVE  /\ pf.name[1] \in DOMAIN FieldsOf(kind, para)
         /\ Member = FieldsOf(kind, para)[pf.name[1]]
         /\ paras[para][field].name = <<pf.name[1]>>
         /\ paras[para][field].lines = pf.lines
<1>1. pf.name \in Text /\ Len(pf.name) = 1
  BY FieldTyped DEF IsExpected
<1> DEFINE n == pf.name
<1>2. n \in Text /\ Len(n) = 1
  BY <1>1
<1> HIDE DEF n
<1>3. n = <<n[1]>>
  BY <1>2 DEF Text
<1> QED
  BY <1>3 DEF IsExpected, Member, pf, n

\* The record that the next field goes to says what has been done of the paragraph.
LEMMA TargetSaid ==
  ASSUME TypeInv, NEW lines, NEW ps, Halfway(lines, ps, kind, c, para, field)
  PROVE  TargetSays(Target, Reading(lines), DoneIn(Reading(lines), para, field), para,
                    FieldsOf(kind, para))
<1>1. CASE InBin
  <2>1. Target = c.bins[para - 1] /\ FieldsOf(kind, para) = BinFields /\ kind = "source" /\ para # 1
    BY <1>1, TargetTyped DEF InBin
  <2> QED
    BY <2>1 DEF Halfway
<1>2. CASE ~InBin
  <2>1. Target = c /\ para = 1
    BY <1>2, TargetTyped DEF Halfway
  <2> QED
    BY <2>1 DEF Halfway
<1> QED
  BY <1>1, <1>2

\* One more field is recorded.
LEMMA FieldRecorded ==
  ASSUME TypeInv, ParseField, NEW lines, Whole(paras, lines),
         Halfway(lines, paras, kind, c, para, field)
  PROVE  Halfway(lines, paras, kind, c', para, field + 1)
<1> DEFINE R == Reading(lines)
           D == DoneIn(R, para, field)
           E == DoneIn(R, para, field + 1)
           w == pf.name[1]
           fs == FieldsOf(kind, para)
           record == Set(Target, fs[w], pf.lines)
<1>1. /\ AtField /\ IsExpected /\ status = "fields"
      /\ CanParse(Member, Target[Member], pf.lines)
      /\ c' = IF InBin THEN [c EXCEPT !.bins = OnLast(@, record)] ELSE record
      /\ kind' = kind
  BY FieldNamed DEF ParseField, AtField
<1>2. /\ w \in DOMAIN fs /\ Member = fs[w]
      /\ paras[para][field].name = <<w>> /\ paras[para][field].lines = pf.lines
  BY <1>1, FieldNamed
<1>3. /\ para \in 1..Len(paras) /\ field \in 1..Len(paras[para]) /\ Len(paras[para]) \in Nat
      /\ para \in Nat \ {0}
  BY <1>1, FieldTyped, TargetTyped
<1>4. TargetSays(Target, R, D, para, fs)
  BY TargetSaid
<1>5. AllFit(R, kind, D) /\ TargetSays(c, R, D, 1, FieldsOf(kind, 1)) /\ (kind = "binary" => para = 1)
  BY DEF Halfway
<1>6. CanParse(fs[w], Target[fs[w]], paras[para][field].lines)
  BY <1>1, <1>2
<1>7. AllFit(R, kind, E)
  <2>1. Kept(R, D, para, w) = <<>>
    <3>1. Target[fs[w]] = <<>>
      BY <1>6 DEF CanParse
    <3> QED
      BY <1>2, <1>4, <3>1 DEF TargetSays
  <2>2. ~IsList(fs[w]) => fs[w] \in {"package", "version", "source", "src_package"}
    BY <1>2, Members
  <2> QED
    BY <1>2, <1>3, <1>5, <1>6, <2>1, <2>2, FitGrows
<1>8. TargetSays(record, R, E, para, fs)
  <2>1. TargetSays(Set(Target, fs[w], paras[para][field].lines), R, E, para, fs)
    BY <1>2, <1>3, <1>4, <1>6, TargetGrows
  <2> QED
    BY <1>2, <2>1
<1>9. paras = <<>> => para = 1
  BY DEF Halfway
<1>10. field + 1 \in 1..(Len(paras[para]) + 1)
  BY <1>3
<1>11. /\ \A r, p, fields : 
            p # para /\ TargetSays(r, R, D, p, fields) => TargetSays(r, R, E, p, fields)
       /\ \A b, p, deps : 
            p # para /\ BinSays(b, R, D, p, deps) => BinSays(b, R, E, p, deps)
  BY <1>2, <1>3, OthersSay
<1>12. c' \in SourceControls \/ kind = "binary"
  BY <1>1, FieldKeepsTypes DEF RecordTyped
<1>13. CASE InBin
  <2>1. /\ c \in SourceControls /\ c.bins \in Seq(Bins) /\ c.bins # <<>> /\ Len(c.bins) = para - 1
        /\ Target \in Bins /\ fs = BinFields /\ kind = "source" /\ para # 1
    BY <1>13, TargetTyped DEF InBin
  <2>2. BinsSay(c, R, D, para - 2)
    BY <2>1 DEF Halfway
  <2>3. pf.lines \in Seq(Text)
    BY <1>1, FieldTyped
  <2>4. record \in Bins
    BY <1>2, <1>6, <2>1, <2>3, BinSet
  <2> DEFINE bins == OnLast(c.bins, record)
  <2>5. c' = [c EXCEPT !.bins = bins]
    BY <1>1, <1>13
  <2> HIDE DEF record, R, D, E, fs, w
  <2>6. /\ \A n \in 1..(Len(c.bins) - 1) : bins[n] = c.bins[n]
        /\ bins[Len(c.bins)] = record
    <3> DEFINE s == c.bins
    <3>1. s \in Seq(Bins) /\ s # <<>>
      BY <2>1
    <3> HIDE DEF s
    <3>2. /\ \A n \in 1..(Len(s) - 1) : OnLast(s, record)[n] = s[n]
          /\ OnLast(s, record)[Len(s)] = record
      BY <2>4, <3>1, LastReplaced
    <3> QED
      BY <3>2 DEF s
  <2> HIDE DEF bins
  <2>7. TargetSays(c, R, E, 1, SourceFields)
    BY <1>5, <1>11, <2>1 DEF FieldsOf
  <2>8. TargetSays(c', R, E, 1, SourceFields) /\ c'.bins = bins /\ c'.run_deps = c.run_deps
    BY <2>1, <2>5, <2>7, BinsChange
  <2>9. TargetSays(c'.bins[para - 1], R, E, para, BinFields)
    BY <1>8, <2>1, <2>6, <2>8
  <2>10. ASSUME NEW n \in 1..(para - 2) PROVE BinSays(c'.bins[n], R, E, n + 1, c'.run_deps)
    <3>1. n \in 1..(Len(c.bins) - 1) /\ n + 1 # para
      BY <1>3, <2>1
    <3>2. BinSays(c.bins[n], R, D, n + 1, c.run_deps)
      BY <2>2 DEF BinsSay
    <3> QED
      BY <1>11, <2>6, <2>8, <3>1, <3>2
  <2>11. BinsSay(c', R, E, para - 2)
    BY <2>10 DEF BinsSay
  <2>12. FieldsOf(kind, 1) = SourceFields
    BY <2>1 DEF FieldsOf
  <2> QED
    BY <1>3, <1>7, <1>9, <1>10, <2>1, <2>8, <2>9, <2>11, <2>12 DEF Halfway, R, E
<1>14. CASE ~InBin
  <2>1. para = 1 /\ c' = record
    BY <1>1, <1>14, <1>5, TargetTyped
  <2> HIDE DEF record
  <2>2. TargetSays(c', R, E, 1, FieldsOf(kind, 1))
    BY <1>8, <2>1
  <2> QED
    BY <1>3, <1>7, <1>9, <1>10, <2>1, <2>2 DEF Halfway
<1> QED
  BY <1>13, <1>14

(***************************************************************************)
(* The end of a paragraph, and of the last one.                            *)
(***************************************************************************)
LEMMA ParagraphEnds ==
  ASSUME TypeInv, NEW lines, Whole(paras, lines),
         Halfway(lines, paras, kind, c, para, field), para <= Len(paras), field > Len(paras[para])
  PROVE  /\ paras # <<>> /\ para \in 1..Len(paras) /\ field = Len(paras[para]) + 1
         /\ AllFit(Reading(lines), kind, DoneIn(Reading(lines), para + 1, 1))
         /\ DoneIn(Reading(lines), para + 1, 1) = DoneIn(Reading(lines), para, field)
         /\ para = Len(paras) => DoneIn(Reading(lines), para, field) = DOMAIN Reading(lines)
<1> DEFINE R == Reading(lines)
<1>1. /\ Len(paras) \in Nat /\ para \in Nat \ {0} /\ paras \in Seq(Seq(Field))
      /\ \A p \in 1..Len(paras) : Len(paras[p]) \in Nat
  BY TargetTyped, WholeFile
<1>2. paras # <<>>
  <2>1. paras = <<>> => Len(paras) = 0
    OBVIOUS
  <2> QED
    BY <1>1, <2>1
<1>3. para \in 1..Len(paras) /\ field \in 1..(Len(paras[para]) + 1)
  BY <1>2 DEF Halfway
<1>4. field = Len(paras[para]) + 1
  BY <1>1, <1>3
<1>5. DoneIn(R, para + 1, 1) = DoneIn(R, para, field)
  BY <1>3, <1>4, DoneGrows
<1>6. para = Len(paras) => DoneIn(R, para, field) = DOMAIN R
  BY <1>3, <1>4, DoneGrows
<1>7. AllFit(R, kind, DoneIn(R, para, field))
  BY DEF Halfway
<1> QED
  BY <1>2, <1>3, <1>4, <1>5, <1>6, <1>7

\* One more binary package is complete.
LEMMA NextParagraphRecorded ==
  ASSUME TypeInv, NextParagraph, NEW lines, Whole(paras, lines),
         Halfway(lines, paras, kind, c, para, field)
  PROVE  Halfway(lines, paras, kind, c', para + 1, 1)
<1> DEFINE R == Reading(lines)
           D == DoneIn(R, para, field)
           E == DoneIn(R, para + 1, 1)
           d == WithRunDeps
           bins == Append(d.bins, NoBin)
<1>1. /\ kind = "source" /\ para < Len(paras) /\ field > Len(paras[para])
      /\ c' = [d EXCEPT !.bins = bins]
  BY DEF NextParagraph
<1>2. Len(paras) \in Nat /\ para \in Nat \ {0} /\ \A p \in 1..Len(paras) : Len(paras[p]) \in Nat
  BY TargetTyped, WholeFile
<1>3. para <= Len(paras) /\ para + 1 \in 1..Len(paras) /\ para + 1 # 1
  BY <1>1, <1>2
<1>4. paras # <<>> /\ AllFit(R, kind, E) /\ E = D
  BY <1>1, <1>3, ParagraphEnds
<1>5. 1 \in 1..(Len(paras[para + 1]) + 1)
  <2>1. \A n \in Nat : 1 \in 1..(n + 1)
    OBVIOUS
  <2> QED
    BY <1>2, <1>3, <2>1
<1>6. \A v : Kept(R, E, para + 1, v) = <<>>
  BY <1>3, NoneSay
<1>7. /\ TargetSays(c, R, E, 1, SourceFields)
      /\ para # 1 => BinsSay(c, R, E, para - 2) /\ TargetSays(c.bins[para - 1], R, E, para, BinFields)
  BY <1>1, <1>4 DEF Halfway, FieldsOf
<1> HIDE DEF R, D, E
<1>8. /\ d \in SourceControls /\ Len(d.bins) = para - 1 /\ d.bins \in Seq(Bins)
      /\ TargetSays(d, R, E, 1, SourceFields) /\ BinsSay(d, R, E, para - 1)
  BY <1>1, <1>7, RunDepsSaid
<1>9. NoBin \in Bins
  BY NullTyped DEF NoBin, Bins
<1> HIDE DEF d
<1>10. /\ \A n \in 1..Len(d.bins) : bins[n] = d.bins[n]
       /\ bins[Len(d.bins) + 1] = NoBin
  <2> DEFINE s == d.bins
  <2>1. s \in Seq(Bins)
    BY <1>8
  <2> HIDE DEF s
  <2>2. (\A n \in 1..Len(s) : Append(s, NoBin)[n] = s[n]) /\ Append(s, NoBin)[Len(s) + 1] = NoBin
    BY <1>9, <2>1, AppendProperties
  <2> QED
    BY <2>2 DEF s
<1> HIDE DEF bins
<1>11. TargetSays(c', R, E, 1, SourceFields) /\ c'.bins = bins /\ c'.run_deps = d.run_deps
  BY <1>1, <1>8, BinsChange
<1>12. TargetSays(NoBin, R, E, para + 1, BinFields)
  BY <1>6, EmptyRecords, EmptySays
<1>13. TargetSays(c'.bins[para + 1 - 1], R, E, para + 1, BinFields)
  BY <1>2, <1>8, <1>10, <1>11, <1>12
<1>14. BinsSay(c', R, E, para + 1 - 2)
  <2>1. para + 1 - 2 = para - 1
    BY <1>2
  <2>2. \A n \in 1..(para - 1) : BinSays(c'.bins[n], R, E, n + 1, c'.run_deps)
    BY <1>8, <1>10, <1>11 DEF BinsSay
  <2> QED
    BY <2>1, <2>2 DEF BinsSay
<1>15. FieldsOf(kind, 1) = SourceFields /\ kind # "binary"
  BY <1>1 DEF FieldsOf
<1> QED
  BY <1>3, <1>4, <1>5, <1>11, <1>13, <1>14, <1>15 DEF Halfway, R, E

\* The whole record is complete.
LEMMA LastParagraphRecorded ==
  ASSUME TypeInv, LastParagraph, NEW lines, Whole(paras, lines),
         Halfway(lines, paras, kind, c, para, field)
  PROVE  Complete(lines, paras, kind, c')
<1> DEFINE R == Reading(lines)
           D == DoneIn(R, para, field)
<1>1. /\ para = Len(paras) /\ field > Len(paras[para])
      /\ c' = IF kind = "source" THEN WithRunDeps ELSE c
  BY DEF LastParagraph
<1>2. Len(paras) \in Nat /\ para \in Nat \ {0} /\ kind \in {"binary", "source"}
  BY TargetTyped, WholeFile
<1>3. paras # <<>> /\ D = DOMAIN R /\ para \in 1..Len(paras)
  BY <1>1, <1>2, ParagraphEnds
<1>4. /\ AllFit(R, kind, D) /\ (kind = "binary" => para = 1) /\ TargetSays(c, R, D, 1, FieldsOf(kind, 1))
      /\ kind = "source" /\ para # 1 =>
            BinsSay(c, R, D, para - 2) /\ TargetSays(c.bins[para - 1], R, D, para, BinFields)
  BY DEF Halfway
<1> HIDE DEF R, D
<1>5. CASE kind = "source"
  <2>1. FieldsOf(kind, 1) = SourceFields
    BY <1>5 DEF FieldsOf
  <2>2. /\ Len(WithRunDeps.bins) = para - 1
        /\ TargetSays(WithRunDeps, R, D, 1, SourceFields) /\ BinsSay(WithRunDeps, R, D, para - 1)
    BY <1>4, <1>5, <2>1, RunDepsSaid
  <2> QED
    BY <1>1, <1>3, <1>4, <1>5, <2>1, <2>2 DEF Complete, R
<1>6. CASE kind = "binary"
  BY <1>1, <1>3, <1>4, <1>6 DEF Complete, R
<1> QED
  BY <1>2, <1>5, <1>6

(***************************************************************************)
(* What makes control.c refuse a file is in the file, while memory lasts.  *)
(***************************************************************************)
FailInv == Parsing /\ status = "failed" /\ ~starved => Malformed(kind, TheFile)

\* Behind the end of the file the paragraphs fit all of it.
LEMMA FileIsWhole ==
  ASSUME TypeInv, LinesInv, Parsing, status \in {"fields", "ok"}
  PROVE  Whole(paras, TheFile) /\ ~NoColon(TheFile)
BY FileTyped DEF LinesInv, Whole

\* control.c refuses a field only in a malformed file.
LEMMA FieldRefused ==
  ASSUME TypeInv, FieldFails, NEW lines, Whole(paras, lines),
         Halfway(lines, paras, kind, c, para, field)
  PROVE  Malformed(kind, lines)
<1> DEFINE R == Reading(lines)
           D == DoneIn(R, para, field)
           old == Target[Member]
<1>1. AtField /\ (IsExpected => ~CanParse(Member, old, pf.lines))
  BY DEF FieldFails
<1>2. para \in 1..Len(paras) /\ field \in 1..Len(paras[para])
  BY <1>1, FieldTyped
<1>3. ASSUME NEW w \in DOMAIN FieldsOf(kind, para), paras[para][field].name = <<w>>
      PROVE  /\ old = <<>> <=> Kept(R, D, para, w) = <<>>
             /\ ~CanParse(FieldsOf(kind, para)[w], old, paras[para][field].lines)
  <2>1. pf.name = <<w>> /\ pf.lines = paras[para][field].lines
    BY <1>3 DEF pf
  <2>2. Len(pf.name) = 1 /\ pf.name[1] = w
    BY <2>1
  <2>3. IsExpected /\ Member = FieldsOf(kind, para)[w]
    BY <2>2 DEF IsExpected, Member
  <2>4. TargetSays(Target, R, D, para, FieldsOf(kind, para))
    BY TargetSaid
  <2> HIDE DEF R, D
  <2>5. old = <<>> <=> Kept(R, D, para, w) = <<>>
    BY <2>3, <2>4 DEF TargetSays
  <2> QED
    BY <1>1, <2>1, <2>3, <2>5
<1>4. Refused(lines, paras, para, field, kind, old)
  BY <1>3 DEF Refused
<1> HIDE DEF old
<1> QED
  BY <1>2, <1>4, FieldMalformed

\* RecordInv and FailInv are inductive, given the others.
LEMMA RecordStep ==
  ASSUME TypeInv, LinkedInv, LinesInv, RecordInv, FailInv, [TNext]_tvars
  PROVE  RecordInv' /\ FailInv'
<1>0. TypeInv' /\ LinesInv'
  BY TypeStep, LinesStep
<1>1. SUFFICES ASSUME Parsing'
               PROVE  /\ status' = "lines" =>
                            c' = IF kind' = "binary" THEN NoControl ELSE NoSource
                      /\ status' = "fields" =>
                            Halfway(TheFile', paras', kind', c', para', field')
                      /\ status' = "ok" => Complete(TheFile', paras', kind', c')
                      /\ status' = "failed" /\ ~starved' => Malformed(kind', TheFile')
  BY DEF RecordInv, FailInv
<1>2. CASE OpenFile
  BY <1>2, OpeningFile
<1>3. CASE Parsing /\ UNCHANGED toolVars /\ (ControlStep \/ UNCHANGED controlVars)
  <2>1. TheFile' = TheFile
    BY <1>3 DEF toolVars, cmdVars, TheFile
  <2>2. /\ status = "lines" => c = IF kind = "binary" THEN NoControl ELSE NoSource
        /\ status = "fields" => Halfway(TheFile, paras, kind, c, para, field)
        /\ status = "ok" => Complete(TheFile, paras, kind, c)
        /\ status = "failed" /\ ~starved => Malformed(kind, TheFile)
    BY <1>3 DEF RecordInv, FailInv
  <2>3. CASE UNCHANGED controlVars
    <3>1. UNCHANGED <<paras, status, starved, kind, c, para, field>>
      BY <2>3 DEF controlVars, parseVars
    <3> QED
      BY <2>1, <2>2, <3>1
  <2>4. CASE (CommentLine \/ BlankLine \/ FieldLine \/ ContinuationLine)
             /\ UNCHANGED <<kind, c, para, field>>
    <3>1. status = "lines" /\ status' = "lines"
      BY <2>4 DEF CommentLine, BlankLine, FieldLine, ContinuationLine, TextLine, NextLine
    <3> QED
      BY <2>2, <2>4, <3>1
  <2>5. CASE ParseEof /\ UNCHANGED <<kind, c, para, field>>
    <3>1. status = "lines" /\ status' = "fields" /\ paras' = paras
      BY <2>5 DEF ParseEof
    <3>2. para = 1 /\ field = 1 /\ kind \in {"binary", "source"}
      BY <1>3, <3>1, FileTyped DEF LinesInv
    <3>3. Whole(paras', TheFile')
      BY <1>0, <1>1, <3>1, FileTyped DEF LinesInv, Whole, TypeInv, ProgramTyped, OptionGiven,
                                         Parsing, TheFile
    <3>4. Halfway(TheFile, paras, kind, c, 1, 1)
      BY <2>1, <2>2, <3>1, <3>2, <3>3, Starting
    <3> QED
      BY <2>1, <2>5, <3>1, <3>2, <3>4
  <2>6. CASE LineFails /\ UNCHANGED <<kind, c, para, field>>
    <3>1. status = "lines" /\ status' = "failed"
      BY <2>6 DEF LineFails, TextLine, NextLine
    <3>2. PICK n \in Nat : LinesTaken(n)
      BY <1>3, <3>1 DEF LinesInv
    <3>3. Malformed(kind, TheFile)
      BY <1>3, <2>6, <3>2, LineFailsMalformed
    <3> QED
      BY <2>1, <2>6, <3>1, <3>3
  <2>7. CASE ParagraphsFail \/ FieldFails
    <3>1. status = "fields" /\ status' = "failed" /\ UNCHANGED kind
      BY <2>7 DEF ParagraphsFail, FieldFails, AtField, ControlFails
    <3>2. Whole(paras, TheFile) /\ Halfway(TheFile, paras, kind, c, para, field)
      BY <1>3, <2>2, <3>1, FileIsWhole
    <3>3. CASE ParagraphsFail
      BY <2>1, <3>1, <3>2, <3>3, ParagraphsMalformed DEF ParagraphsFail
    <3>4. CASE FieldFails
      BY <2>1, <3>1, <3>2, <3>4, FieldRefused
    <3> QED
      BY <2>7, <3>3, <3>4
  <2>8. CASE ParseField \/ NextParagraph \/ LastParagraph
    <3>1. status = "fields" /\ UNCHANGED <<paras, kind>>
      BY <2>8 DEF ParseField, NextParagraph, LastParagraph, AtField, parseVars
    <3>2. Whole(paras, TheFile) /\ Halfway(TheFile, paras, kind, c, para, field)
      BY <1>3, <2>2, <3>1, FileIsWhole
    <3>3. CASE ParseField
      <4>1. Halfway(TheFile, paras, kind, c', para, field + 1)
        BY <3>2, <3>3, FieldRecorded
      <4>2. para' = para /\ field' = field + 1 /\ status' = "fields"
        BY <3>1, <3>3 DEF ParseField, parseVars
      <4> QED
        BY <2>1, <3>1, <4>1, <4>2
    <3>4. CASE NextParagraph
      <4>1. Halfway(TheFile, paras, kind, c', para + 1, 1)
        BY <3>2, <3>4, NextParagraphRecorded
      <4>2. para' = para + 1 /\ field' = 1 /\ status' = "fields"
        BY <3>1, <3>4 DEF NextParagraph, parseVars
      <4> QED
        BY <2>1, <3>1, <4>1, <4>2
    <3>5. CASE LastParagraph
      <4>1. Complete(TheFile, paras, kind, c')
        BY <3>2, <3>5, LastParagraphRecorded
      <4>2. status' = "ok"
        BY <3>5 DEF LastParagraph
      <4> QED
        BY <2>1, <3>1, <4>1, <4>2
    <3> QED
      BY <2>8, <3>3, <3>4, <3>5
  <2> QED
    BY <1>3, <2>3, <2>4, <2>5, <2>6, <2>7, <2>8 DEF ControlStep, ParseStep
<1>4. CASE Parsing /\ UNCHANGED <<cmdVars, files, stage>> /\ Starves
  <2>1. status' = "failed" /\ starved' = TRUE
    BY <1>4 DEF Starves, ParseStarves, ControlStarves, ControlFails
  <2> QED
    BY <2>1
<1> QED
  BY <1>1, <1>2, <1>3, <1>4, ParsingSteps

ControlInv == TypeInv /\ LinkedInv /\ LinesInv /\ RecordInv /\ FailInv

\* The conjunction of all parts is inductive.
LEMMA ControlInvHolds ==
  /\ TInit => ControlInv
  /\ ControlInv /\ [TNext]_tvars => ControlInv'
<1>1. TInit => ControlInv
  <2>1. TInit => LinkedInv
    BY EmptySeq DEF TInit, ControlInit, ParseInit, LinkedInv, GoodParas, IsSequence
  <2>2. TInit => LinesInv /\ RecordInv /\ FailInv
    BY DEF TInit, LinesInv, RecordInv, FailInv, Parsing
  <2> QED
    BY <2>1, <2>2, TypeInit DEF ControlInv
<1>2. ControlInv /\ [TNext]_tvars => ControlInv'
  BY TypeStep, LinkedStep, LinesStep, RecordStep DEF ControlInv
<1> QED
  BY <1>1, <1>2

(***************************************************************************)
(* control.c accepts a file, with memory to spare, exactly if it is well   *)
(* formed (control_parsefd, source_control_parsefd).                       *)
(***************************************************************************)
THEOREM WellFormedIsAccepted == TSpec => []AcceptsWellFormed
<1>1. ControlInv => AcceptsWellFormed
  <2>1. SUFFICES ASSUME ControlInv, Parsing, status \in {"ok", "failed"}, ~starved
                 PROVE  status = "failed" <=> Malformed(kind, TheFile)
    BY DEF AcceptsWellFormed
  <2>2. CASE status = "failed"
    BY <2>1, <2>2 DEF ControlInv, FailInv
  <2>3. CASE status = "ok"
    <3>1. Whole(paras, TheFile) /\ ~NoColon(TheFile)
      BY <2>1, <2>3, FileIsWhole DEF ControlInv
    <3>2. Complete(TheFile, paras, kind, c)
      BY <2>1, <2>3 DEF ControlInv, RecordInv
    <3>3. ~Malformed(kind, TheFile)
      BY <3>1, <3>2, AcceptedWellFormed DEF Complete
    <3> QED
      BY <2>3, <3>3
  <2> QED
    BY <2>1, <2>2, <2>3
<1> QED
  BY <1>1, ControlInvHolds, PTL DEF TSpec

\* A string of the record is the only line that is said of it.
LEMMA SaidOnly ==
  ASSUME NEW R, NEW w, NEW r, NEW m \in {"package", "version", "source"},
         r[m] = <<>> <=> Said(R, 1, w) = <<>>, TextSaid(r, m, Said(R, 1, w))
  PROVE  r[m] = OnlySaid(R, 1, w)
<1>1. Said(R, 1, w) = <<>> \/ Said(R, 1, w) = <<r[m]>>
  BY DEF TextSaid
<1>2. \A t : <<t>>[1] = t
  OBVIOUS
<1> QED
  BY <1>1, <1>2 DEF OnlySaid, NULL

(***************************************************************************)
(* The record has what the file says, for every file that is accepted:     *)
(* names, versions, dependencies, sources, and the dependencies of the     *)
(* source again behind the own ones of each binary package                 *)
(* (control_parsefd, source_control_parsefd).                              *)
(***************************************************************************)
THEOREM RecordsSayAll == TSpec => []RecordSaysAll
<1>1. ControlInv => RecordSaysAll
  <2>1. SUFFICES ASSUME ControlInv, Parsing, status = "ok" PROVE RecordSaysAll
    BY DEF RecordSaysAll
  <2> DEFINE R == Reading(TheFile)
  <2>2. Whole(paras, TheFile) /\ Complete(TheFile, paras, kind, c)
    BY <2>1, FileIsWhole DEF ControlInv, RecordInv
  <2>3. TargetSays(c, R, DOMAIN R, 1, FieldsOf(kind, 1)) /\ kind \in {"binary", "source"}
    BY <2>1, <2>2, FileTyped DEF Complete, ControlInv
  <2>4. Paragraphs(R) = 1..Len(paras) /\ Len(paras) \in Nat
    BY <2>2, WholeParagraphs
  <2>5. \A p, w : Kept(R, DOMAIN R, p, w) = Said(R, p, w)
    BY NamedInAll
  <2>6. CASE kind = "binary"
    <3>1. TargetSays(c, R, DOMAIN R, 1, ControlFields)
      BY <2>3, <2>6 DEF FieldsOf
    <3> HIDE DEF R
    <3>2. c["run_depend"] = Said(R, 1, "Depends-Run")
      BY <2>5, <3>1, FieldTables DEF TargetSays, Lists
    <3>3. \A w \in DOMAIN ControlFields :
            /\ c[ControlFields[w]] = <<>> <=> Said(R, 1, w) = <<>>
            /\ TextSaid(c, ControlFields[w], Said(R, 1, w))
      BY <2>5, <3>1 DEF TargetSays
    <3>4. c["package"] = OnlySaid(R, 1, "Package") /\ c["version"] = OnlySaid(R, 1, "Version")
      <4>1. /\ c["package"] = <<>> <=> Said(R, 1, "Package") = <<>>
            /\ TextSaid(c, "package", Said(R, 1, "Package"))
        BY <3>3, FieldTables
      <4>2. /\ c["version"] = <<>> <=> Said(R, 1, "Version") = <<>>
            /\ TextSaid(c, "version", Said(R, 1, "Version"))
        BY <3>3, FieldTables
      <4>3. c["package"] = OnlySaid(R, 1, "Package")
        BY <4>1, SaidOnly
      <4>4. c["version"] = OnlySaid(R, 1, "Version")
        BY <4>2, SaidOnly
      <4> QED
        BY <4>3, <4>4
    <3>5. Said(R, 1, "Source") # <<>> =>
            /\ c.src_package = Before(OnlySaid(R, 1, "Source"), " ")
            /\ c.src_version = After(OnlySaid(R, 1, "Source"), " ")
      <4>1. TextSaid(c, "src_package", Said(R, 1, "Source"))
        BY <3>3, FieldTables
      <4> QED
        BY <4>1 DEF TextSaid, OnlySaid
    <3>6. c.built_froms = PairsOf(Said(R, 1, "Built-From"))
      <4>1. TextSaid(c, "built_froms", Said(R, 1, "Built-From"))
        BY <3>3, FieldTables
      <4> QED
        BY <4>1 DEF TextSaid
    <3> QED
      BY <2>6, <3>2, <3>4, <3>5, <3>6 DEF RecordSaysAll, PairsOf, R
  <2>7. CASE kind = "source"
    <3>1. TargetSays(c, R, DOMAIN R, 1, SourceFields)
      BY <2>3, <2>7 DEF FieldsOf
    <3>2. Len(c.bins) = Len(paras) - 1 /\ BinsSay(c, R, DOMAIN R, Len(paras) - 1)
      BY <2>2, <2>7 DEF Complete
    <3>3. DOMAIN c.bins = 1..Len(c.bins)
      BY <2>1, <2>7, LenProperties DEF ControlInv, TypeInv, RecordTyped, SourceControls
    <3> HIDE DEF R
    <3>4. /\ c["build_depend"] = Said(R, 1, "Depends-Build")
          /\ c["unpack_depend"] = Said(R, 1, "Depends-Unpack")
          /\ c["sources"] = Said(R, 1, "Sources")
          /\ c["run_deps"] = Said(R, 1, "Depends-Run")
      BY <2>5, <3>1, FieldTables DEF TargetSays, Lists
    <3>5. Paragraphs(R) = 1..(Len(c.bins) + 1)
      BY <2>4, <3>2
    <3>7. c["source"] = OnlySaid(R, 1, "Source") /\ c["version"] = OnlySaid(R, 1, "Version")
      <4>3. \A w \in DOMAIN SourceFields :
              /\ c[SourceFields[w]] = <<>> <=> Said(R, 1, w) = <<>>
              /\ TextSaid(c, SourceFields[w], Said(R, 1, w))
        BY <2>5, <3>1 DEF TargetSays
      <4>1. /\ c["source"] = <<>> <=> Said(R, 1, "Source") = <<>>
            /\ TextSaid(c, "source", Said(R, 1, "Source"))
        BY <4>3, FieldTables
      <4>2. /\ c["version"] = <<>> <=> Said(R, 1, "Version") = <<>>
            /\ TextSaid(c, "version", Said(R, 1, "Version"))
        BY <4>3, FieldTables
      <4>4. c["source"] = OnlySaid(R, 1, "Source")
        BY <4>1, SaidOnly
      <4>5. c["version"] = OnlySaid(R, 1, "Version")
        BY <4>2, SaidOnly
      <4> QED
        BY <4>4, <4>5
    <3>6. ASSUME NEW b \in DOMAIN c.bins
          PROVE  /\ c.bins[b].package = OnlySaid(R, b + 1, "Package")
                 /\ c.bins[b].run_depend =
                        Said(R, b + 1, "Depends-Run") \o Said(R, 1, "Depends-Run")
      <4>1. b \in 1..(Len(paras) - 1)
        BY <3>2, <3>3
      <4>2. BinSays(c.bins[b], R, DOMAIN R, b + 1, c.run_deps)
        BY <3>2, <4>1 DEF BinsSay
      <4>3. /\ Kept(R, DOMAIN R, b + 1, "Depends-Run") = Said(R, b + 1, "Depends-Run")
            /\ Kept(R, DOMAIN R, b + 1, "Package") = Said(R, b + 1, "Package")
            /\ c.run_deps = Said(R, 1, "Depends-Run")
        BY <2>5, <3>4
      <4>4. /\ c.bins[b].package = <<>> <=> Said(R, b + 1, "Package") = <<>>
            /\ Said(R, b + 1, "Package") = <<>> \/ Said(R, b + 1, "Package") = <<c.bins[b].package>>
        BY <4>2, <4>3 DEF BinSays
      <4>5. \A t : <<t>>[1] = t
        OBVIOUS
      <4>6. c.bins[b].package = OnlySaid(R, b + 1, "Package")
        BY <4>4, <4>5 DEF OnlySaid, NULL
      <4> QED
        BY <4>2, <4>3, <4>6 DEF BinSays
    <3> QED
      BY <2>7, <3>4, <3>5, <3>6, <3>7 DEF RecordSaysAll, R
  <2> QED
    BY <2>3, <2>6, <2>7
<1> QED
  BY <1>1, ControlInvHolds, PTL DEF TSpec

(***************************************************************************)
(* What there is in the record of a file that has its required fields.     *)
(***************************************************************************)
LEMMA ListsHaveText ==
  ASSUME NEW lines, NEW ps, Whole(ps, lines), NEW r, NEW fields,
         TargetSays(r, Reading(lines), DOMAIN Reading(lines), 1, fields)
  PROVE  \A w \in DOMAIN fields : fields[w] \in Lists =>
            r[fields[w]] \in Seq(Text) /\ <<>> \notin ToSet(r[fields[w]])
<1> DEFINE R == Reading(lines)
<1>1. SUFFICES ASSUME NEW w \in DOMAIN fields, fields[w] \in Lists
               PROVE  r[fields[w]] \in Seq(Text) /\ <<>> \notin ToSet(r[fields[w]])
  OBVIOUS
<1> DEFINE s == Kept(R, DOMAIN R, 1, w)
<1>2. r[fields[w]] = s
  BY <1>1 DEF TargetSays
<1>3. s \in Seq(Text) /\ \A n \in 1..Len(s) : s[n] # <<>>
  <2>1. lines \in Seq(Text) /\ DOMAIN R \in SUBSET DOMAIN R
    BY DEF Whole
  <2> QED
    BY <2>1, NothingKept
<1> HIDE DEF s
<1>4. <<>> \notin ToSet(s)
  BY <1>3, LenProperties DEF ToSet
<1> QED
  BY <1>2, <1>3, <1>4

\* The record of a complete source file has no string missing.
LEMMA SourceSaid ==
  ASSUME NEW lines, NEW ps, Whole(ps, lines), NEW r \in SourceControls,
         Complete(lines, ps, "source", r), IsComplete("source", lines)
  PROVE  /\ r.source # <<>> /\ r.version # <<>>
         /\ <<>> \notin ToSet(r.build_depend) /\ <<>> \notin ToSet(r.unpack_depend)
         /\ <<>> \notin ToSet(r.sources)
         /\ \A b \in DOMAIN r.bins : r.bins[b].package # <<>>
<1> DEFINE R == Reading(lines)
           D == DOMAIN R
<1>1. \A p, w : Kept(R, D, p, w) = Said(R, p, w)
  BY NamedInAll
<1>2. /\ TargetSays(r, R, D, 1, SourceFields)
      /\ Len(r.bins) = Len(ps) - 1 /\ BinsSay(r, R, D, Len(ps) - 1)
  BY DEF Complete, FieldsOf
<1>3. Paragraphs(R) = 1..Len(ps) /\ Len(ps) \in Nat
  BY WholeParagraphs
<1>4. /\ Said(R, 1, "Source") # <<>> /\ Said(R, 1, "Version") # <<>>
      /\ \A p \in Paragraphs(R) \ {1} : Said(R, p, "Package") # <<>>
  BY DEF IsComplete
<1>5. \A w \in DOMAIN SourceFields : SourceFields[w] \in Lists =>
            <<>> \notin ToSet(r[SourceFields[w]])
  BY <1>2, ListsHaveText
<1> HIDE DEF R, D
<1>6. r["source"] # <<>> /\ r["version"] # <<>>
  BY <1>1, <1>2, <1>4, FieldTables DEF TargetSays
<1>7. /\ <<>> \notin ToSet(r["build_depend"]) /\ <<>> \notin ToSet(r["unpack_depend"])
      /\ <<>> \notin ToSet(r["sources"])
  BY <1>5, FieldTables DEF Lists
<1>8. ASSUME NEW b \in DOMAIN r.bins PROVE r.bins[b].package # <<>>
  <2>1. b \in 1..(Len(ps) - 1)
    BY <1>2, LenProperties DEF SourceControls
  <2>2. b + 1 \in 1..Len(ps) /\ b + 1 # 1
    BY <1>3, <2>1
  <2>3. Kept(R, D, b + 1, "Package") # <<>>
    BY <1>1, <1>3, <1>4, <2>2
  <2> QED
    BY <1>2, <2>1, <2>3 DEF BinsSay, BinSays
<1> QED
  BY <1>6, <1>7, <1>8

\* The record of a complete binary file has no string missing.
LEMMA BinarySaid ==
  ASSUME NEW lines, NEW ps, Whole(ps, lines), NEW r,
         Complete(lines, ps, "binary", r), IsComplete("binary", lines)
  PROVE  r.package # <<>> /\ r.version # <<>> /\ <<>> \notin ToSet(r.run_depend)
<1> DEFINE R == Reading(lines)
           D == DOMAIN R
<1>1. \A p, w : Kept(R, D, p, w) = Said(R, p, w)
  BY NamedInAll
<1>2. TargetSays(r, R, D, 1, ControlFields)
  BY DEF Complete, FieldsOf
<1>3. Said(R, 1, "Package") # <<>> /\ Said(R, 1, "Version") # <<>>
  BY DEF IsComplete
<1>4. \A w \in DOMAIN ControlFields : ControlFields[w] \in Lists =>
            <<>> \notin ToSet(r[ControlFields[w]])
  BY <1>2, ListsHaveText
<1> HIDE DEF R, D
<1>5. r["package"] # <<>> /\ r["version"] # <<>>
  BY <1>1, <1>2, <1>3, FieldTables DEF TargetSays
<1>6. <<>> \notin ToSet(r["run_depend"])
  BY <1>4, FieldTables DEF Lists
<1> QED
  BY <1>5, <1>6

\* Two texts with a comma in between are not NULL.
LEMMA CommaText ==
  ASSUME NEW a \in Text, NEW b \in Text
  PROVE  Comma(a, b) # <<>>
<1>1. <<",">> \in Seq(Tokens) /\ Len(<<",">>) = 1
  <2>1. "," \in Tokens
    BY DEF Tokens
  <2> DEFINE x == ","
  <2>2. x \in Tokens
    BY <2>1
  <2> HIDE DEF x
  <2>3. <<x>> \in Seq(Tokens) /\ Len(<<x>>) = 1
    BY <2>2, ShortSeqs
  <2> QED
    BY <2>3 DEF x
<1>2. a \o <<",">> \in Text /\ Len(a \o <<",">>) = Len(a) + 1
  <2>1. a \in Seq(Tokens)
    BY DEF Text
  <2>2. a \o <<",">> \in Seq(Tokens) /\ Len(a \o <<",">>) = Len(a) + Len(<<",">>)
    BY <1>1, <2>1, ConcatProperties
  <2> QED
    BY <1>1, <2>2 DEF Text
<1>3. Comma(a, b) = (a \o <<",">>) \o b
  BY DEF Comma
<1> DEFINE s == a \o <<",">>
<1>4. s \in Text /\ Len(s) = Len(a) + 1 /\ Len(a) \in Nat /\ Len(b) \in Nat
  BY <1>2, LenProperties DEF Text
<1> HIDE DEF s
<1>5. Len(s \o b) = Len(s) + Len(b)
  BY <1>4, ConcatProperties DEF Text
<1>6. Len(s \o b) # 0
  BY <1>4, <1>5
<1>7. s \o b # <<>>
  BY <1>6
<1> QED
  BY <1>3, <1>7 DEF s

(***************************************************************************)
(* No line to print is NULL, and no binary package without a name, where   *)
(* the file is complete.                                                   *)
(***************************************************************************)
LEMMA LinesPrinted ==
  ASSUME TypeInv, Parsing, NEW ps, Whole(ps, TheFile), Complete(TheFile, ps, kind, c),
         prog # "gencontrol", IsComplete(kind, TheFile)
  PROVE  NULL \notin ToSet(FieldLines(prog, opts.field, c))
<1>1. opts.field \in FieldOptions[prog] /\ prog \in {"srccontrol", "pkgcontrol"} /\ kind = KindOf(prog)
  BY DEF TypeInv, OptionGiven, ProgramTyped, Programs, Parsing
<1> DEFINE f == opts.field
<1>2. \A x : ToSet(<<x>>) = {x}
  BY DEF ToSet
<1>3. CASE prog = "srccontrol"
  <2>1. f \in {"-n", "-v", "-b", "-u", "-s", "-p"} /\ kind = "source"
    BY <1>1, <1>3 DEF FieldOptions, KindOf, Programs
  <2>2. c \in SourceControls
    BY <2>1 DEF TypeInv, RecordTyped
  <2>3. /\ c.source # <<>> /\ c.version # <<>>
        /\ <<>> \notin ToSet(c.build_depend) /\ <<>> \notin ToSet(c.unpack_depend)
        /\ <<>> \notin ToSet(c.sources)
        /\ \A b \in DOMAIN c.bins : c.bins[b].package # <<>>
    BY <2>1, <2>2, SourceSaid
  <2> HIDE DEF f
  <2>4. CASE f \in {"-n", "-v"}
    <3>1. FieldLines(prog, f, c) = <<c.source>> \/ FieldLines(prog, f, c) = <<c.version>>
      BY <1>3, <2>4 DEF FieldLines
    <3> QED
      BY <1>2, <2>3, <3>1 DEF NULL, f
  <2>5. CASE f \in {"-b", "-u", "-s"}
    <3>1. FieldLines(prog, f, c) \in {c.build_depend, c.unpack_depend, c.sources}
      BY <1>3, <2>5 DEF FieldLines
    <3> QED
      BY <2>3, <3>1 DEF NULL, f
  <2>6. CASE f = "-p"
    <3> DEFINE names == [k \in DOMAIN c.bins |-> c.bins[k].package]
    <3>1. FieldLines(prog, f, c) = names
      BY <1>3, <2>6 DEF FieldLines
    <3>2. <<>> \notin ToSet(names)
      BY <2>3 DEF ToSet
    <3> HIDE DEF names
    <3> QED
      BY <3>1, <3>2 DEF NULL, f
  <2> QED
    BY <2>1, <2>4, <2>5, <2>6 DEF f
<1>4. CASE prog = "pkgcontrol"
  <2>1. f \in {"-n", "-v", "-s", "-r", "-b"} /\ kind = "binary"
    BY <1>1, <1>4 DEF FieldOptions, KindOf, Programs
  <2>2. c \in Controls
    BY <2>1 DEF TypeInv, RecordTyped
  <2>3. c.package # <<>> /\ c.version # <<>> /\ <<>> \notin ToSet(c.run_depend)
    BY <2>1, BinarySaid
  <2> HIDE DEF f
  <2>4. CASE f \in {"-n", "-v"}
    <3>1. FieldLines(prog, f, c) = <<c.package>> \/ FieldLines(prog, f, c) = <<c.version>>
      BY <1>4, <2>4 DEF FieldLines
    <3> QED
      BY <1>2, <2>3, <3>1 DEF NULL, f
  <2>5. CASE f = "-r"
    <3>1. FieldLines(prog, f, c) = c.run_depend
      BY <1>4, <2>5 DEF FieldLines
    <3> QED
      BY <2>3, <3>1 DEF NULL, f
  <2>6. CASE f = "-s"
    <3> DEFINE l == Comma(Str(c.src_package), Str(c.src_version))
    <3>1. FieldLines(prog, f, c) = <<l>>
      BY <1>4, <2>6 DEF FieldLines
    <3>2. c.src_package \in Text /\ c.src_version \in Text
      BY <2>2 DEF Controls
    <3>3. l # <<>>
      BY <3>2, TokensTyped, CommaText
    <3> HIDE DEF l
    <3> QED
      BY <1>2, <3>1, <3>3 DEF NULL, f
  <2>7. CASE f = "-b"
    <3> DEFINE ls == [k \in DOMAIN c.built_froms |->
                        Comma(c.built_froms[k].package, c.built_froms[k].version)]
    <3>1. FieldLines(prog, f, c) = ls
      BY <1>4, <2>7 DEF FieldLines
    <3>2. \A k \in DOMAIN c.built_froms : c.built_froms[k] \in BuiltFroms
      BY <2>2, ElementOfSeq, LenProperties DEF Controls
    <3>3. \A k \in DOMAIN c.built_froms :
            c.built_froms[k].package \in Text /\ c.built_froms[k].version \in Text
      BY <3>2 DEF BuiltFroms
    <3>4. \A k \in DOMAIN c.built_froms :
            Comma(c.built_froms[k].package, c.built_froms[k].version) # <<>>
      BY <3>3, CommaText
    <3>5. <<>> \notin ToSet(ls)
      BY <3>4 DEF ToSet
    <3> HIDE DEF ls
    <3> QED
      BY <3>1, <3>5 DEF NULL, f
  <2> QED
    BY <2>1, <2>4, <2>5, <2>6, <2>7 DEF f
<1> QED
  BY <1>1, <1>3, <1>4

\* No step reaches a crash over a complete file.
LEMMA CrashStep ==
  ASSUME ControlInv, CompleteNeverCrashes, [TNext]_tvars
  PROVE  CompleteNeverCrashes'
<1>1. SUFFICES ASSUME stage' = "segv", ~starved' PROVE ~IsComplete(kind', TheFile')
  BY DEF CompleteNeverCrashes
<1>2. CASE UNCHANGED tvars
  <2>1. UNCHANGED <<kind, stage, starved, operands, files>>
    BY <1>2 DEF tvars, toolVars, cmdVars, controlVars, parseVars
  <2>2. TheFile' = TheFile
    BY <2>1 DEF TheFile
  <2> QED
    BY <1>1, <2>1, <2>2 DEF CompleteNeverCrashes
<1>3. ASSUME Parsing, status = "ok" PROVE Whole(paras, TheFile) /\ Complete(TheFile, paras, kind, c)
  BY <1>3, FileIsWhole DEF ControlInv, RecordInv
<1>4. CASE PrintsNull
  <2>1. /\ Parsing /\ status = "ok" /\ prog # "gencontrol"
        /\ NULL \in ToSet(FieldLines(prog, opts.field, c))
        /\ UNCHANGED kind /\ TheFile' = TheFile
    BY <1>4 DEF PrintsNull, Parsing, Goes, controlVars, cmdVars, TheFile
  <2> QED
    BY <1>3, <2>1, LinesPrinted DEF ControlInv
<1>5. CASE UnnamedBin
  <2>1. /\ Parsing /\ status = "ok" /\ prog = "gencontrol"
        /\ \E k \in DOMAIN c.bins : c.bins[k].package = <<>>
        /\ UNCHANGED kind /\ TheFile' = TheFile
    BY <1>5 DEF UnnamedBin, Looking, Parsing, Goes, controlVars, cmdVars, TheFile, NULL
  <2>2. kind = "source"
    BY <2>1, FileTyped DEF ControlInv, KindOf
  <2>3. c \in SourceControls
    BY <2>2 DEF ControlInv, TypeInv, RecordTyped
  <2> QED
    BY <1>3, <2>1, <2>2, <2>3, SourceSaid
<1>6. CASE FieldOption \/ VersionOption \/ BuiltFromOption \/ OutputOption
            \/ OutputOptionFails \/ BuiltFromStarves
  BY <1>1, <1>6 DEF FieldOption, VersionOption, BuiltFromOption, OutputOption, OutputOptionFails,
                    BuiltFromStarves, Parses
<1>7. CASE Usage \/ OptionsParsed \/ OpenFails \/ ParsingFails \/ AllPrinted \/ NotFound
  BY <1>1, <1>7 DEF Usage, OptionsParsed, OpenFails, ParsingFails, AllPrinted, NotFound, Goes
<1>8. CASE OpenFile \/ PrintField \/ PrintControl \/ Returns \/ ReadBack \/ WriteCutShort
            \/ Killed
  BY <1>1, <1>8 DEF OpenFile, PrintField, PrintControl, Returns, ReadBack, WriteCutShort, Killed, Goes
<1>9. CASE ParserStep
  BY <1>1, <1>9 DEF ParserStep, toolVars
<1>10. CASE ParserStarves
  BY <1>1, <1>10 DEF ParserStarves, Starves, FreesTwice, ParseStarves, ControlStarves
<1> QED
  BY <1>2, <1>4, <1>5, <1>6, <1>7, <1>8, <1>9, <1>10 DEF TNext, ToolStep, Fault

(***************************************************************************)
(* No file that has its required fields crashes a tool that has memory to  *)
(* spare: not by a string that is missing in the record, or a binary       *)
(* package without a name (gencontrol.c, srccontrol.c, pkgcontrol.c).      *)
(***************************************************************************)
THEOREM CompleteFilesDoNotCrash == TSpec => []CompleteNeverCrashes
<1>1. TInit => ControlInv /\ CompleteNeverCrashes
  <2>1. TInit => CompleteNeverCrashes
    BY DEF TInit, CompleteNeverCrashes
  <2> QED
    BY <2>1, ControlInvHolds
<1>2. ControlInv /\ CompleteNeverCrashes /\ [TNext]_tvars => (ControlInv /\ CompleteNeverCrashes)'
  BY ControlInvHolds, CrashStep
<1> QED
  BY <1>1, <1>2, PTL DEF TSpec

(***************************************************************************)
(* Texts as the parser leaves them, without spaces around.                 *)
(***************************************************************************)
IsClean(text) == text # <<>> /\ text[1] \notin Spaces /\ text[Len(text)] \notin Spaces

\* Two sequences, one behind the other.
LEMMA ConcatTwo ==
  ASSUME NEW T, NEW s \in Seq(T), NEW t \in Seq(T), NEW u, u = s \o t
  PROVE  /\ Len(s) \in Nat /\ Len(t) \in Nat
         /\ u \in Seq(T) /\ Len(u) = Len(s) + Len(t)
         /\ \A k \in 1..Len(s) : u[k] = s[k]
         /\ \A k \in 1..Len(t) : u[Len(s) + k] = t[k]
<1> DEFINE n == Len(s)
           m == Len(t)
<1>1. n \in Nat /\ m \in Nat
  BY LenProperties
<1>2. /\ u \in Seq(T) /\ Len(u) = n + m
      /\ \A k \in 1..n + m : u[k] = IF k <= n THEN s[k] ELSE t[k - n]
  BY ConcatProperties
<1> HIDE DEF n, m
<1>3. \A k \in 1..n : k \in 1..n + m /\ k <= n
  BY <1>1
<1>5. \A k \in 1..n : u[k] = s[k]
  BY <1>2, <1>3
<1>6. ASSUME NEW k \in 1..m PROVE u[n + k] = t[k]
  <2> DEFINE q == n + k
  <2>1. q \in 1..n + m /\ ~(q <= n) /\ q - n = k
    BY <1>1
  <2> HIDE DEF q
  <2>2. u[q] = t[k]
    BY <1>2, <2>1
  <2> QED
    BY <2>2 DEF q
<1> QED
  BY <1>1, <1>2, <1>5, <1>6 DEF n, m

\* One text, a separator and another text.
LEMMA AroundSeparator ==
  ASSUME NEW T, NEW a \in Seq(T), NEW b \in Seq(T), NEW tok \in T,
         \A k \in 1..Len(a) : a[k] # tok
  PROVE  LET text == a \o <<tok>> \o b IN
         /\ text \in Seq(T) /\ Len(text) = Len(a) + 1 + Len(b)
         /\ \A k \in 1..Len(a) : text[k] = a[k]
         /\ text[Len(a) + 1] = tok
         /\ \A k \in 1..Len(b) : text[Len(a) + 1 + k] = b[k]
         /\ FirstOf(text, tok) = Len(a) + 1
         /\ Before(text, tok) = a /\ After(text, tok) = b
<1> DEFINE s == a \o <<tok>>
           text == s \o b
           n == Len(a)
           m == Len(b)
<1>1. n \in Nat /\ m \in Nat
  BY LenProperties
<1>2. <<tok>> \in Seq(T) /\ Len(<<tok>>) = 1 /\ <<tok>>[1] = tok
  OBVIOUS
<1>3. /\ s \in Seq(T) /\ Len(s) = n + 1
      /\ \A k \in 1..n : s[k] = a[k]
      /\ s[n + 1] = tok
  <2> DEFINE e == <<tok>>
  <2>1. Len(e) = 1 /\ e[1] = tok /\ 1 \in 1..1
    BY <1>2
  <2>4. e \in Seq(T)
    BY <1>2
  <2>5. s = a \o e
    OBVIOUS
  <2> HIDE DEF e, s, text, n, m
  <2>2. /\ s \in Seq(T) /\ Len(s) = Len(a) + Len(e)
        /\ \A k \in 1..Len(a) : s[k] = a[k]
        /\ \A k \in 1..Len(e) : s[Len(a) + k] = e[k]
    BY <2>4, <2>5, ConcatTwo
  <2>3. s[Len(a) + 1] = tok
    BY <2>1, <2>2
  <2> QED
    BY <2>1, <2>2, <2>3 DEF n
<1> HIDE DEF s
<1>4. /\ text \in Seq(T) /\ Len(text) = n + 1 + m
      /\ \A k \in 1..(n + 1) : text[k] = s[k]
      /\ \A k \in 1..m : text[n + 1 + k] = b[k]
  <2>0. text = s \o b
    OBVIOUS
  <2>2. s \in Seq(T)
    BY <1>3
  <2> HIDE DEF text, n, m
  <2>1. /\ text \in Seq(T) /\ Len(text) = Len(s) + Len(b)
        /\ \A k \in 1..Len(s) : text[k] = s[k]
        /\ \A k \in 1..Len(b) : text[Len(s) + k] = b[k]
    BY <2>2, <2>0, ConcatTwo
  <2> QED
    BY <1>3, <2>1 DEF n, m
<1>5. /\ \A k \in 1..n : text[k] = a[k] /\ text[k] # tok
      /\ text[n + 1] = tok
  <2>1. \A k \in 1..n : k \in 1..(n + 1)
    BY <1>1
  <2>2. n + 1 \in 1..(n + 1)
    BY <1>1
  <2> HIDE DEF text, n
  <2> QED
    BY <1>3, <1>4, <2>1, <2>2 DEF n
<1> HIDE DEF text
<1>6. FirstOf(text, tok) = n + 1
  <2> DEFINE f == FirstOf(text, tok)
  <2>1. /\ f \in 0..Len(text) /\ (f # 0 => text[f] = tok)
        /\ \A k \in 1..Len(text) : text[k] = tok => f # 0 /\ f <= k
    BY <1>4, FirstOfPosition
  <2> HIDE DEF f, n, m
  <2>2. n + 1 \in 1..Len(text)
    BY <1>1, <1>4
  <2>3. f # 0 /\ f <= n + 1
    BY <1>5, <2>1, <2>2
  <2>4. f \notin 1..n
    BY <1>5, <2>1, <2>3
  <2>5. f \in 1..(n + 1)
    BY <1>1, <1>4, <2>1, <2>3
  <2>6. f = n + 1
    BY <1>1, <2>4, <2>5
  <2> QED
    BY <2>6 DEF f
<1>7. Before(text, tok) = a
  <2>1. n \in 0..Len(text) /\ n + 1 - 1 = n
    BY <1>1, <1>4
  <2> DEFINE t == SubSeq(text, 1, n)
  <2> HIDE DEF n
  <2>2. t \in Seq(T) /\ Len(t) = n /\ \A k \in 1..n : t[k] = text[k]
    BY <1>4, <2>1, PrefixOf
  <2> HIDE DEF t
  <2>3. t = a
    BY <1>5, <2>2, SeqEqual DEF n
  <2> QED
    BY <1>6, <2>1, <2>3 DEF t, Before
<1>8. After(text, tok) = b
  <2> DEFINE q == n + 1
             t == SubSeq(text, q + 1, Len(text))
  <2>1. q \in 0..Len(text) /\ Len(text) - q = m
    BY <1>1, <1>4
  <2>2. \A k \in 1..m : text[q + k] = b[k]
    BY <1>4
  <2>3. FirstOf(text, tok) = q
    BY <1>6
  <2> HIDE DEF q, m
  <2>4. t \in Seq(T) /\ Len(t) = m /\ \A k \in 1..m : t[k] = text[q + k]
    <3>1. /\ t \in Seq(T) /\ Len(t) = Len(text) - q
          /\ \A k \in 1..(Len(text) - q) : t[k] = text[q + k]
      BY <1>4, <2>1, RestOf
    <3> QED
      BY <2>1, <3>1
  <2> HIDE DEF t
  <2>5. t = b
    BY <2>2, <2>4, SeqEqual DEF m
  <2> QED
    BY <2>3, <2>5 DEF t, After
<1> QED
  BY <1>4, <1>5, <1>6, <1>7, <1>8 DEF text, s, n, m

\* A text behind spaces, trimmed.
LEMMA TrimBehind ==
  ASSUME NEW T, NEW s \in Seq(T), NEW t \in Seq(T), IsClean(t),
         \A k \in 1..Len(s) : s[k] \in Spaces
  PROVE  /\ Trim(s \o t) = t /\ ~IsBlank(s \o t)
         /\ s \o t \in Seq(T) /\ Len(s \o t) = Len(s) + Len(t) /\ Len(t) \in Nat \ {0}
         /\ s # <<>> => (s \o t)[1] \in Spaces
<1> DEFINE text == s \o t
           n == Len(s)
           m == Len(t)
           S == {k \in 1..Len(text) : text[k] \notin Spaces}
<1>1. n \in Nat /\ m \in Nat \ {0}
  BY LenProperties, EmptySeq DEF IsClean
<1>2. /\ text \in Seq(T) /\ Len(text) = n + m
      /\ \A k \in 1..n : text[k] = s[k]
      /\ \A k \in 1..m : text[n + k] = t[k]
  <2>1. text = s \o t
    OBVIOUS
  <2> HIDE DEF text
  <2> QED
    BY <2>1, ConcatTwo
<1> HIDE DEF text
<1>3. \A k \in 1..n : text[k] \in Spaces
  BY <1>2
<1>4. text[n + 1] \notin Spaces /\ text[n + m] \notin Spaces
  <2>1. 1 \in 1..m /\ m \in 1..m
    BY <1>1
  <2>2. t[1] \notin Spaces /\ t[m] \notin Spaces
    BY DEF IsClean
  <2> QED
    BY <1>2, <2>1, <2>2
<1> HIDE DEF n, m
<1>5. n + 1 \in S /\ n + m \in S
  BY <1>1, <1>2, <1>4
<1>6. \A k \in S : k \in (n + 1)..(n + m)
  <2>1. \A k \in 1..(n + m) : k \in 1..n \/ k \in (n + 1)..(n + m)
    BY <1>1
  <2> QED
    BY <1>2, <1>3, <2>1
<1>7. S \in SUBSET Nat /\ S \in SUBSET (0..(n + m)) /\ S # {} /\ n + m \in Nat
  <2>1. Len(text) = n + m /\ n + m \in Nat
    BY <1>1, <1>2
  <2>2. S \in SUBSET (1..(n + m))
    BY <2>1
  <2> HIDE DEF S
  <2> QED
    BY <1>1, <1>5, <2>1, <2>2
<1>8. Min(S) = n + 1
  <2> HIDE DEF S
  <2>1. Min(S) \in S /\ \A k \in S : Min(S) <= k
    BY <1>7, LeastPosition
  <2> DEFINE l == Min(S)
  <2>2. l \in (n + 1)..(n + m) /\ l <= n + 1
    BY <1>5, <1>6, <2>1
  <2> HIDE DEF l
  <2>3. l = n + 1
    BY <1>1, <2>2
  <2> QED
    BY <2>3 DEF l
<1>9. Max(S) = n + m
  <2> HIDE DEF S
  <2> DEFINE e == n + m
  <2>0. e \in Nat /\ S \in SUBSET (0..e)
    BY <1>7
  <2> HIDE DEF e
  <2>1. Max(S) \in S /\ \A k \in S : k <= Max(S)
    BY <1>7, <2>0, GreatestPosition
  <2> DEFINE l == Max(S)
  <2>2. l \in (n + 1)..(n + m) /\ n + m <= l
    BY <1>5, <1>6, <2>1
  <2> HIDE DEF l
  <2>3. l = n + m
    BY <1>1, <2>2
  <2> QED
    BY <2>3 DEF l
<1>10. ~IsBlank(text)
  <2>1. n + 1 \in DOMAIN text
    BY <1>1, <1>2, LenProperties
  <2> QED
    BY <1>4, <2>1 DEF IsBlank
<1>11. Trim(text) = SubSeq(text, n + 1, Len(text))
  <2>1. SelectInSeq(text, LAMBDA x : x \notin Spaces) = n + 1
    BY <1>7, <1>8 DEF SelectInSeq
  <2>2. SelectLastInSeq(text, LAMBDA x : x \notin Spaces) = Len(text)
    BY <1>2, <1>7, <1>9 DEF SelectLastInSeq
  <2> QED
    BY <1>10, <2>1, <2>2 DEF Trim
<1>12. SubSeq(text, n + 1, Len(text)) = t
  <2> DEFINE u == SubSeq(text, n + 1, Len(text))
  <2>1. n \in 0..Len(text) /\ Len(text) - n = m
    BY <1>1, <1>2
  <2>2. u \in Seq(T) /\ Len(u) = m /\ \A k \in 1..m : u[k] = text[n + k]
    <3>1. /\ u \in Seq(T) /\ Len(u) = Len(text) - n
          /\ \A k \in 1..(Len(text) - n) : u[k] = text[n + k]
      BY <1>2, <2>1, RestOf
    <3> QED
      BY <2>1, <3>1
  <2> HIDE DEF u
  <2>3. u = t
    BY <1>2, <2>2, SeqEqual DEF m
  <2> QED
    BY <2>3 DEF u
<1>13. s # <<>> => text[1] \in Spaces
  <2>1. s # <<>> => 1 \in 1..n
    BY <1>1, EmptySeq DEF n
  <2> QED
    BY <1>3, <2>1
<1> QED
  BY <1>1, <1>2, <1>10, <1>11, <1>12, <1>13 DEF text, n, m

(***************************************************************************)
(* What one printed line is when it is read: the head of a field, or one   *)
(* more line of it.                                                        *)
(***************************************************************************)
HeadLine(l, w, t) ==
    /\ ~IsComment(l) /\ ~IsBlank(l) /\ StartsField(l)
    /\ FirstOf(l, ":") # 0 /\ Before(l, ":") = <<w>> /\ Trim(After(l, ":")) = t

\* An indented line of it.
TailLine(l, t) == ~IsComment(l) /\ ~IsBlank(l) /\ ~StartsField(l) /\ Trim(l) = t

\* A line that begins with a label and a colon.
LEMMA LabelAndColon ==
  ASSUME NEW w \in Labels, NEW b \in Text, NEW l, l = <<w>> \o <<":">> \o b
  PROVE  HeadLine(l, w, Trim(b))
<1>1. w \in Tokens /\ ":" \in Tokens /\ w \notin Spaces \cup {"#", ":"}
  BY ToolsAssumption DEF Tokens, Labels, Spaces
<1> DEFINE a == <<w>>
<1>2. a \in Seq(Tokens)
  BY <1>1
<1>3. Len(a) = 1 /\ a[1] = w
  OBVIOUS
<1>4. b \in Seq(Tokens)
  BY DEF Text
<1>5. l = a \o <<":">> \o b
  OBVIOUS
<1> HIDE DEF a
<1>6. \A k \in 1..Len(a) : a[k] # ":"
  BY <1>1, <1>3
<1> DEFINE text == a \o <<":">> \o b
<1>7. /\ text \in Seq(Tokens) /\ Len(text) = Len(a) + 1 + Len(b)
      /\ \A k \in 1..Len(a) : text[k] = a[k]
      /\ FirstOf(text, ":") = Len(a) + 1
      /\ Before(text, ":") = a /\ After(text, ":") = b
  BY <1>1, <1>2, <1>4, <1>6, AroundSeparator
<1>8. l = text
  BY <1>5
<1> HIDE DEF text
<1>9. /\ l \in Seq(Tokens) /\ l[1] = w /\ Len(l) = 2 + Len(b) /\ FirstOf(l, ":") = 2
      /\ Before(l, ":") = <<w>> /\ After(l, ":") = b
  <2>1. l[1] = w
    BY <1>3, <1>7, <1>8
  <2>2. Len(b) \in Nat
    BY <1>4, LenProperties
  <2> DEFINE m == Len(b)
  <2>5. m \in Nat /\ Len(l) = Len(a) + 1 + m /\ FirstOf(l, ":") = Len(a) + 1 /\ Len(a) = 1
    BY <1>3, <1>7, <1>8, <2>2
  <2> HIDE DEF m
  <2>6. Len(l) = 2 + m /\ FirstOf(l, ":") = 2
    BY <2>5
  <2>3. Len(l) = 2 + Len(b) /\ FirstOf(l, ":") = 2
    BY <2>6 DEF m
  <2>4. Before(l, ":") = <<w>> /\ After(l, ":") = b /\ l \in Seq(Tokens)
    BY <1>7, <1>8 DEF a
  <2> QED
    BY <2>1, <2>3, <2>4
<1>10. 1 \in DOMAIN l
  BY <1>4, <1>9, LenProperties
<1>11. ~IsBlank(l) /\ ~IsComment(l) /\ StartsField(l)
  BY <1>1, <1>9, <1>10 DEF IsBlank, IsComment, StartsField
<1> QED
  BY <1>9, <1>11 DEF HeadLine

\* A field with its text in the line of its label, as fprintf has it.
LEMMA LabelledLine ==
  ASSUME NEW w \in Labels, NEW t \in Text, IsClean(t)
  PROVE  HeadLine(Labelled(w, t), w, t)
<1>1. w \in Tokens /\ ":" \in Tokens /\ " " \in Tokens
  BY ToolsAssumption DEF Tokens, Spaces
<1> DEFINE sp == <<" ">>
           b == sp \o t
           c3 == <<w, ":", " ">>
           l == c3 \o t
           a == <<w>>
           d == <<":">>
           ad == a \o d
           u == ad \o b
<1>2. t \in Seq(Tokens)
  BY DEF Text
<1>3. sp \in Seq(Tokens) /\ Len(sp) = 1 /\ sp[1] = " "
  <2>1. Len(sp) = 1 /\ sp[1] = " "
    OBVIOUS
  <2> QED
    BY <1>1, <2>1, ShortSeqs
<1>4. c3 \in Seq(Tokens) /\ Len(c3) = 3 /\ c3[1] = w /\ c3[2] = ":" /\ c3[3] = " "
  <2>1. Len(c3) = 3 /\ c3[1] = w /\ c3[2] = ":" /\ c3[3] = " "
    OBVIOUS
  <2> QED
    BY <1>1, <2>1, ShortSeqs
<1>5. a \in Seq(Tokens) /\ d \in Seq(Tokens) /\ Len(a) = 1 /\ Len(d) = 1 /\ a[1] = w /\ d[1] = ":"
  <2>1. Len(a) = 1 /\ Len(d) = 1 /\ a[1] = w /\ d[1] = ":"
    OBVIOUS
  <2> QED
    BY <1>1, <2>1, ShortSeqs
<1>6. b = sp \o t /\ l = c3 \o t /\ ad = a \o d /\ u = ad \o b
  OBVIOUS
<1>7. Labelled(w, t) = l
  BY DEF Labelled
<1>8. u = <<w>> \o <<":">> \o b
  OBVIOUS
<1> HIDE DEF sp, b, c3, l, a, d, ad, u
<1> DEFINE m == Len(t)
<1>9. m \in Nat
  BY <1>2, LenProperties
<1>10. b \in Seq(Tokens) /\ Len(b) = 1 + m /\ b[1] = " " /\ \A k \in 1..m : b[1 + k] = t[k]
  <2>1. sp \in Seq(Tokens)
    BY <1>3
  <2>2. b = sp \o t
    BY <1>6
  <2>3. /\ b \in Seq(Tokens) /\ Len(b) = Len(sp) + Len(t)
        /\ \A k \in 1..Len(sp) : b[k] = sp[k]
        /\ \A k \in 1..Len(t) : b[Len(sp) + k] = t[k]
    BY <1>2, <2>1, <2>2, ConcatTwo
  <2>4. 1 \in 1..1
    OBVIOUS
  <2> QED
    BY <1>3, <2>3, <2>4
<1>11. l \in Seq(Tokens) /\ Len(l) = 3 + m /\ (\A k \in 1..3 : l[k] = c3[k]) /\ \A k \in 1..m : l[3 + k] = t[k]
  <2>1. c3 \in Seq(Tokens)
    BY <1>4
  <2>2. l = c3 \o t
    BY <1>6
  <2>3. /\ l \in Seq(Tokens) /\ Len(l) = Len(c3) + Len(t)
        /\ \A k \in 1..Len(c3) : l[k] = c3[k]
        /\ \A k \in 1..Len(t) : l[Len(c3) + k] = t[k]
    BY <1>2, <2>1, <2>2, ConcatTwo
  <2> QED
    BY <1>4, <2>3
<1>12. ad \in Seq(Tokens) /\ Len(ad) = 2 /\ ad[1] = w /\ ad[2] = ":"
  <2>1. a \in Seq(Tokens)
    BY <1>5
  <2>2. d \in Seq(Tokens)
    BY <1>5
  <2>3. ad = a \o d
    BY <1>6
  <2>4. /\ ad \in Seq(Tokens) /\ Len(ad) = Len(a) + Len(d)
        /\ \A k \in 1..Len(a) : ad[k] = a[k]
        /\ \A k \in 1..Len(d) : ad[Len(a) + k] = d[k]
    BY <2>1, <2>2, <2>3, ConcatTwo
  <2>5. 1 \in 1..1 /\ 1 + 1 = 2
    OBVIOUS
  <2>6. ad[1] = w /\ ad[1 + 1] = ":"
    BY <1>5, <2>4, <2>5
  <2> QED
    BY <1>5, <2>4, <2>5, <2>6
<1>13. /\ u \in Seq(Tokens) /\ Len(u) = 2 + (1 + m)
       /\ \A k \in 1..2 : u[k] = ad[k]
       /\ \A k \in 1..(1 + m) : u[2 + k] = b[k]
  <2>1. ad \in Seq(Tokens)
    BY <1>12
  <2>2. b \in Seq(Tokens)
    BY <1>10
  <2>3. u = ad \o b
    BY <1>6
  <2>4. /\ u \in Seq(Tokens) /\ Len(u) = Len(ad) + Len(b)
        /\ \A k \in 1..Len(ad) : u[k] = ad[k]
        /\ \A k \in 1..Len(b) : u[Len(ad) + k] = b[k]
    BY <2>1, <2>2, <2>3, ConcatTwo
  <2> QED
    BY <1>10, <1>12, <2>4
<1> HIDE DEF m
<1>14. l = u
  <2>1. Len(l) = Len(u)
    BY <1>9, <1>11, <1>13
  <2>2. ASSUME NEW k \in 1..m PROVE l[3 + k] = t[k] /\ u[3 + k] = t[k]
    <3>1. 1 + k \in 1..(1 + m) /\ 2 + (1 + k) = 3 + k
      BY <1>9
    <3>2. u[2 + (1 + k)] = b[1 + k]
      BY <1>13, <3>1
    <3>3. l[3 + k] = t[k] /\ b[1 + k] = t[k]
      BY <1>10, <1>11
    <3> QED
      BY <3>1, <3>2, <3>3
  <2>3. l[1] = w /\ l[2] = ":" /\ l[3] = " "
    <3>1. 1 \in 1..3 /\ 2 \in 1..3 /\ 3 \in 1..3
      OBVIOUS
    <3> QED
      BY <1>4, <1>11, <3>1
  <2>4. u[1] = w /\ u[2] = ":" /\ u[3] = " "
    <3>1. 1 \in 1..2 /\ 2 \in 1..2 /\ 1 \in 1..(1 + m) /\ 2 + 1 = 3
      BY <1>9
    <3>2. u[2 + 1] = b[1]
      BY <1>13, <3>1
    <3> QED
      BY <1>10, <1>12, <1>13, <3>1, <3>2
  <2>5. ASSUME NEW k \in 1..Len(l) PROVE l[k] = u[k]
    <3>1. k = 1 \/ k = 2 \/ k = 3 \/ k - 3 \in 1..m
      BY <1>9, <1>11
    <3>2. CASE k - 3 \in 1..m
      <4> DEFINE j == k - 3
      <4>1. j \in 1..m /\ k = 3 + j
        BY <1>9, <1>11, <3>2
      <4> HIDE DEF j
      <4> QED
        BY <2>2, <4>1
    <3> QED
      BY <2>3, <2>4, <3>1, <3>2
  <2>6. l \in Seq(Tokens)
    BY <1>11
  <2>7. u \in Seq(Tokens)
    BY <1>13
  <2> QED
    BY <2>1, <2>5, <2>6, <2>7, SeqEqual
<1>15. Trim(b) = t
  <2>1. sp \in Seq(Tokens)
    BY <1>3
  <2>2. \A k \in 1..Len(sp) : sp[k] \in Spaces
    <3>1. \A k \in 1..1 : k = 1
      OBVIOUS
    <3> QED
      BY <1>3, <3>1 DEF Spaces
  <2>3. Trim(sp \o t) = t
    BY <1>2, <2>1, <2>2, TrimBehind
  <2> QED
    BY <1>6, <2>3
<1>16. b \in Text
  BY <1>10 DEF Text
<1>17. HeadLine(u, w, Trim(b))
  BY <1>8, <1>16, LabelAndColon
<1> QED
  BY <1>7, <1>14, <1>15, <1>17

\* A label and nothing else.
LEMMA LabelLine ==
  ASSUME NEW w \in Labels
  PROVE  HeadLine(<<w, ":">>, w, <<>>)
<1> DEFINE l == <<w, ":">>
<1>1. l = <<w>> \o <<":">> \o <<>>
  OBVIOUS
<1>2. <<>> \in Text
  BY EmptySeq DEF Text
<1>3. Trim(<<>>) = <<>>
  BY DEF Trim, IsBlank
<1> HIDE DEF l
<1>4. HeadLine(l, w, Trim(<<>>))
  BY <1>1, <1>2, LabelAndColon
<1> QED
  BY <1>3, <1>4 DEF l

\* An indented line.
LEMMA IndentedLine ==
  ASSUME NEW t \in Text, IsClean(t)
  PROVE  TailLine(Indented(t), t)
<1> DEFINE s == <<" ", " ">>
           l == s \o t
<1>1. t \in Seq(Tokens)
  BY DEF Text
<1>2. s \in Seq(Tokens)
  BY DEF Tokens, Spaces
<1>3. s # <<>> /\ \A k \in 1..Len(s) : s[k] \in Spaces
  <2>1. Len(s) = 2 /\ s[1] = " " /\ s[2] = " "
    OBVIOUS
  <2>2. \A k \in 1..2 : k = 1 \/ k = 2
    OBVIOUS
  <2>3. s # <<>>
    OBVIOUS
  <2> HIDE DEF s
  <2> QED
    BY <2>1, <2>2, <2>3 DEF Spaces
<1>4. l = s \o t
  OBVIOUS
<1>5. Indented(t) = l
  BY DEF Indented
<1> HIDE DEF s, l
<1>6. /\ Trim(s \o t) = t /\ ~IsBlank(s \o t) /\ (s \o t)[1] \in Spaces
  BY <1>1, <1>2, <1>3, TrimBehind
<1> DEFINE u == s \o t
<1>7. Trim(u) = t /\ ~IsBlank(u) /\ u[1] \in Spaces
  BY <1>6
<1> HIDE DEF u
<1>8. ~IsComment(u) /\ ~StartsField(u)
  BY <1>7 DEF IsComment, StartsField, Spaces
<1> QED
  BY <1>4, <1>5, <1>7, <1>8 DEF TailLine, u

\* The positions behind a, n of them, and what is there.
LEMMA AtInterval ==
  ASSUME NEW a \in Nat, NEW n \in Nat, NEW seq
  PROVE  AtPositions(seq, (a + 1)..(a + n)) = [k \in 1..n |-> seq[a + k]]
<1> DEFINE S == (a + 1)..(a + n)
<1>1. S \in SUBSET Nat /\ \A k \in 1..n : a + k \in S
  OBVIOUS
<1>2. \A m \in 0..n : IsFiniteSet((a + 1)..(a + m)) /\ Cardinality((a + 1)..(a + m)) = m
  <2> SUFFICES ASSUME NEW m \in 0..n
               PROVE  IsFiniteSet((a + 1)..(a + m)) /\ Cardinality((a + 1)..(a + m)) = m
    OBVIOUS
  <2> DEFINE x == a + 1
             y == a + m
  <2>1. x \in Int /\ y \in Int /\ (IF x > y THEN 0 ELSE y - x + 1) = m
    OBVIOUS
  <2> HIDE DEF x, y
  <2>2. IsFiniteSet(x..y) /\ Cardinality(x..y) = IF x > y THEN 0 ELSE y - x + 1
    BY <2>1, FS_Interval
  <2> QED
    BY <2>1, <2>2 DEF x, y
<1>3. IsFiniteSet(S) /\ Cardinality(S) = n
  <2>1. n \in 0..n
    OBVIOUS
  <2> QED
    BY <1>2, <2>1
<1>4. \A k \in 1..n : Rank(S, a + k) = k
  <2> SUFFICES ASSUME NEW k \in 1..n PROVE Rank(S, a + k) = k
    OBVIOUS
  <2>1. {j \in S : j <= a + k} = (a + 1)..(a + k)
    OBVIOUS
  <2>2. k \in 0..n
    OBVIOUS
  <2> QED
    BY <1>2, <2>1, <2>2 DEF Rank
<1> HIDE DEF S
<1> DEFINE A == AtPositions(seq, S)
<1>5. \A k \in 1..n : A[k] = seq[a + k]
  <2>1. \A p \in S : A[Rank(S, p)] = seq[p]
    BY <1>1, <1>3, AtPositionsElements
  <2> HIDE DEF A
  <2> QED
    BY <1>1, <1>4, <2>1
<1>6. A = [k \in 1..n |-> A[k]]
  BY <1>3 DEF AtPositions
<1> HIDE DEF A
<1> QED
  BY <1>5, <1>6 DEF A, S

(***************************************************************************)
(* The lines that gencontrol prints: four fields, the last of which is a   *)
(* list, and a fifth one that is left out when its list is empty.          *)
(***************************************************************************)
Sheet(L, p, v, s, deps, froms) ==
    /\ L \in Seq(Text) /\ Len(deps) \in Nat /\ Len(froms) \in Nat
    /\ Len(L) = 4 + Len(deps) + (IF Len(froms) = 0 THEN 0 ELSE 1 + Len(froms))
    /\ HeadLine(L[1], "Package", p) /\ HeadLine(L[2], "Version", v)
    /\ HeadLine(L[3], "Source", s) /\ HeadLine(L[4], "Depends-Run", <<>>)
    /\ \A k \in 1..Len(deps) : TailLine(L[4 + k], deps[k])
    /\ Len(froms) # 0 => HeadLine(L[5 + Len(deps)], "Built-From", <<>>)
    /\ \A k \in 1..Len(froms) : TailLine(L[5 + Len(deps) + k], froms[k])

\* Where the fields of it begin.
FieldStart(i, n) == IF i <= 4 THEN i ELSE IF i <= 4 + n THEN 4 ELSE 5 + n

\* Each line of it has text, and its field is the one that begins last before it.
LEMMA SheetLines ==
  ASSUME NEW L, NEW p, NEW v, NEW s, NEW deps, NEW froms, Sheet(L, p, v, s, deps, froms)
  PROVE  /\ Len(L) \in Nat /\ Texts(L) = 1..Len(L) /\ Breaks(L) = {} /\ Starts(L) = {1}
         /\ \A i \in 1..Len(L) :
                /\ FieldStart(i, Len(deps)) \in Heads(L) /\ FieldStart(i, Len(deps)) <= i
                /\ \A h \in Heads(L) : h <= i => h <= FieldStart(i, Len(deps))
         /\ ~NoColon(L)
<1> DEFINE n == Len(deps)
           m == Len(froms)
           size == IF m = 0 THEN 0 ELSE 1 + m
           Marks == {1, 2, 3, 4} \cup (IF m = 0 THEN {} ELSE {5 + n})
<1>1. n \in Nat /\ m \in Nat /\ Len(L) = 4 + n + size /\ L \in Seq(Text)
  BY DEF Sheet
<1>2. DOMAIN L = 1..Len(L)
  BY <1>1, LenProperties
<1>0. size \in Nat /\ (m = 0 => size = 0) /\ (m # 0 => size = 1 + m)
  BY <1>1
<1> DEFINE e == Len(L)
<1>13. e \in Nat /\ e = 4 + n + size /\ e >= 4
  <2> HIDE DEF size, n
  <2> QED
    BY <1>0, <1>1
<1>14. \A k \in 1..n : 4 + k \notin Marks
  <2> HIDE DEF n
  <2> QED
    BY <1>1
<1>15. \A k \in 1..m : 5 + n + k \notin Marks
  <2> HIDE DEF n, m
  <2> QED
    BY <1>1
<1> HIDE DEF size
<1>3. \A i \in 1..e : i \in Marks \/ (\E k \in 1..n : i = 4 + k) \/ (\E k \in 1..m : i = 5 + n + k)
  <2> SUFFICES ASSUME NEW i \in 1..e, i \notin Marks, i \notin (4 + 1)..(4 + n)
               PROVE  \E k \in 1..m : i = 5 + n + k
    <3>1. \A i \in (4 + 1)..(4 + n) : i - 4 \in 1..n /\ i = 4 + (i - 4)
      BY <1>1
    <3> QED
      BY <3>1
  <2>1. e = 4 + n + size
    BY <1>1
  <2> HIDE DEF e, n, m
  <2>2. CASE m = 0
    <3>1. i \in 1..(4 + n)
      BY <1>0, <1>1, <2>1, <2>2
    <3>2. i \in {1, 2, 3, 4} \/ i \in (4 + 1)..(4 + n)
      BY <1>1, <3>1
    <3> QED
      BY <2>2, <3>2
  <2>3. CASE m # 0
    <3>1. i \in 1..(5 + n + m)
      BY <1>0, <1>1, <2>1, <2>3
    <3>2. i \notin {1, 2, 3, 4, 5 + n}
      BY <2>3
    <3>3. i - (5 + n) \in 1..m /\ i = 5 + n + (i - (5 + n))
      BY <1>1, <3>1, <3>2
    <3> QED
      BY <3>3
  <2> QED
    BY <2>2, <2>3
<1>4. \A i \in Marks : i \in 1..e /\ \E w, t : HeadLine(L[i], w, t)
  <2>1. {1, 2, 3, 4} \in SUBSET (1..e)
    <3> HIDE DEF e
    <3> QED
      BY <1>13
  <2>2. m # 0 => 5 + n \in 1..e
    <3> HIDE DEF e, n, m
    <3> QED
      BY <1>0, <1>1, <1>13
  <2>3. \A i \in {1, 2, 3, 4} : \E w, t : HeadLine(L[i], w, t)
    BY DEF Sheet
  <2>4. m # 0 => \E w, t : HeadLine(L[5 + n], w, t)
    BY DEF Sheet
  <2> QED
    BY <2>1, <2>2, <2>3, <2>4
<1>5. /\ \A k \in 1..n : \E t : TailLine(L[4 + k], t)
      /\ \A k \in 1..m : \E t : TailLine(L[5 + n + k], t)
  BY DEF Sheet
<1>6. \A i \in 1..e : /\ ~IsComment(L[i]) /\ ~IsBlank(L[i])
                      /\ StartsField(L[i]) <=> i \in Marks
                      /\ i \in Marks => FirstOf(L[i], ":") # 0
  <2> SUFFICES ASSUME NEW i \in 1..e
               PROVE  /\ ~IsComment(L[i]) /\ ~IsBlank(L[i])
                      /\ StartsField(L[i]) <=> i \in Marks
                      /\ i \in Marks => FirstOf(L[i], ":") # 0
    OBVIOUS
  <2>1. CASE i \in Marks
    BY <1>4, <2>1 DEF HeadLine
  <2>2. ASSUME NEW k \in 1..n, i = 4 + k PROVE \E t : TailLine(L[i], t) /\ i \notin Marks
    BY <1>5, <1>14, <2>2
  <2>3. ASSUME NEW k \in 1..m, i = 5 + n + k PROVE \E t : TailLine(L[i], t) /\ i \notin Marks
    BY <1>5, <1>15, <2>3
  <2>4. CASE i \notin Marks
    <3>1. \E t : TailLine(L[i], t)
      BY <1>3, <2>2, <2>3, <2>4
    <3> QED
      BY <2>4, <3>1 DEF TailLine
  <2> QED
    BY <2>1, <2>4
<1> HIDE DEF e, Marks
<1>7. Texts(L) = 1..e /\ Breaks(L) = {}
  BY <1>2, <1>6 DEF Texts, Breaks, e
<1>8. Heads(L) = Marks
  BY <1>4, <1>6, <1>7 DEF Heads
<1>9. e \in Nat /\ 1 \in 1..e /\ \A i \in 1..e : i < 1 => FALSE
  BY <1>13
<1>10. Starts(L) = {1}
  <2>1. 1 \in Starts(L)
    BY <1>7, <1>9 DEF Starts
  <2>2. ASSUME NEW i \in Starts(L) PROVE i = 1
    <3>1. i \in 1..e /\ \A j \in 1..e : ~(j < i)
      BY <1>7 DEF Starts
    <3> QED
      BY <1>9, <3>1
  <2> QED
    BY <2>1, <2>2
<1>11. ASSUME NEW i \in 1..e
       PROVE  LET f == FieldStart(i, n) IN
              f \in Marks /\ f <= i /\ \A h \in Marks : h <= i => h <= f
  <2>1. e = 4 + n + size
    BY <1>13
  <2> HIDE DEF n, m
  <2>2. CASE i <= 4
    BY <1>1, <1>9, <2>2 DEF FieldStart, Marks
  <2>3. CASE ~(i <= 4) /\ i <= 4 + n
    BY <1>1, <1>9, <2>3 DEF FieldStart, Marks
  <2>4. CASE ~(i <= 4) /\ ~(i <= 4 + n)
    <3>1. m # 0
      BY <1>0, <1>1, <1>9, <2>1, <2>4
    <3> QED
      BY <1>1, <1>9, <2>4, <3>1 DEF FieldStart, Marks
  <2> QED
    BY <2>2, <2>3, <2>4 DEF n
<1>12. ~NoColon(L)
  <2>1. \A i \in Heads(L) : FirstOf(L[i], ":") # 0
    BY <1>4, <1>6, <1>8 DEF e
  <2> QED
    BY <2>1 DEF NoColon
<1> QED
  BY <1>7, <1>8, <1>9, <1>10, <1>11, <1>12 DEF e

\* The name of the field that begins at a line.
NameAt(i, n) == IF i = 1 THEN "Package" ELSE IF i = 2 THEN "Version"
                ELSE IF i = 3 THEN "Source" ELSE IF i = 4 THEN "Depends-Run" ELSE "Built-From"

\* What each of its lines is read as.
LEMMA SheetReading ==
  ASSUME NEW L, NEW p, NEW v, NEW s, NEW deps, NEW froms, Sheet(L, p, v, s, deps, froms)
  PROVE  LET R == Reading(L)
             n == Len(deps)
         IN  /\ DOMAIN R = 1..Len(L)
             /\ \A i \in 1..Len(L) :
                    /\ R[i].para = 1 /\ R[i].field \in Nat \ {0}
                    /\ R[i].name = <<NameAt(FieldStart(i, n), n)>>
                    /\ \A j \in 1..Len(L) :
                           FieldStart(i, n) = FieldStart(j, n) => R[i].field = R[j].field
             /\ R[1].text = p /\ R[2].text = v /\ R[3].text = s /\ R[4].text = <<>>
             /\ \A k \in 1..n : R[4 + k].text = deps[k]
             /\ Len(froms) # 0 => R[5 + n].text = <<>>
             /\ \A k \in 1..Len(froms) : R[5 + n + k].text = froms[k]
<1> DEFINE R == Reading(L)
           n == Len(deps)
           m == Len(froms)
           e == Len(L)
<1>1. /\ e \in Nat /\ n \in Nat /\ m \in Nat /\ L \in Seq(Text)
      /\ e = 4 + n + (IF m = 0 THEN 0 ELSE 1 + m)
  BY SheetLines DEF Sheet
<1>2. /\ Texts(L) = 1..e /\ Starts(L) = {1} /\ DOMAIN R = 1..e
      /\ Heads(L) \in SUBSET (1..e)
      /\ \A i \in 1..e : /\ FieldStart(i, n) \in Heads(L) /\ FieldStart(i, n) <= i
                         /\ \A h \in Heads(L) : h <= i => h <= FieldStart(i, n)
  <2>1. DOMAIN R = Texts(L) /\ Heads(L) \in SUBSET Texts(L)
    BY <1>1, ReadingSets
  <2> QED
    BY <2>1, SheetLines
<1>19. \A i \in Texts(L) :
          /\ R[i].para = Rank(Starts(L), i)
          /\ R[i].field = Rank(HeadsOf(L, R[i].para), i) /\ R[i].field \in Nat
  <2>1. L \in Seq(Text)
    BY <1>1
  <2> QED
    BY <2>1, ReadingAt
<1>3. \A i \in 1..e : R[i].para = 1
  <2> SUFFICES ASSUME NEW i \in 1..e PROVE Rank({1}, i) = 1
    <3> HIDE DEF R, e
    <3> QED
      BY <1>2, <1>19
  <2>1. {j \in {1} : j <= i} = {1}
    BY <1>1
  <2>2. Cardinality({1}) = 1
    BY FS_Singleton
  <2> QED
    BY <2>1, <2>2 DEF Rank
<1>4. HeadsOf(L, 1) = Heads(L)
  BY <1>2, <1>3 DEF HeadsOf
<1> DEFINE H == Heads(L)
<1>5. H \in SUBSET Nat /\ IsFiniteSet(H)
  BY <1>1, <1>4, HeadsOfFinite
<1>6. \A i \in 1..e : R[i].field = Rank(H, i) /\ R[i].field \in Nat
  <2> HIDE DEF R, e
  <2> QED
    BY <1>2, <1>3, <1>4, <1>19
<1>7. \A i \in 1..e : Rank(H, i) = Rank(H, FieldStart(i, n)) /\ Rank(H, i) # 0
  <2> SUFFICES ASSUME NEW i \in 1..e
               PROVE  Rank(H, i) = Rank(H, FieldStart(i, n)) /\ Rank(H, i) # 0
    OBVIOUS
  <2> DEFINE f == FieldStart(i, n)
  <2>1. f \in H /\ f <= i /\ \A h \in H : h <= i => h <= f
    BY <1>2
  <2> HIDE DEF f, H
  <2>2. f \in Nat /\ i \in Nat
    BY <1>1, <1>5, <2>1
  <2>3. Rank(H, f) = Rank(H, i)
    BY <1>5, <2>1, <2>2, RankUntil
  <2>4. Rank(H, f) \in 1..Cardinality(H) /\ Cardinality(H) \in Nat
    BY <1>5, <2>1, <2>2, RankTyped
  <2> QED
    BY <2>3, <2>4 DEF f
<1>8. ASSUME NEW i \in 1..e PROVE R[i].name = Before(L[FieldStart(i, n)], ":")
  <2>1. PICK h \in H : /\ h <= i /\ R[i].name = Before(L[h], ":")
                       /\ \A j \in H : j <= i => j <= h
    <3>1. R[i].field # 0 /\ i \in Texts(L)
      BY <1>2, <1>6, <1>7
    <3>2. \E h \in HeadsOf(L, R[i].para) :
              /\ h <= i /\ R[i].name = Before(L[h], ":")
              /\ \A j \in HeadsOf(L, R[i].para) : j <= i => j <= h
      BY <1>1, <3>1, ReadingAt
    <3> QED
      BY <1>3, <1>4, <3>2
  <2> DEFINE f == FieldStart(i, n)
  <2>2. f \in H /\ f <= i /\ \A x \in H : x <= i => x <= f
    BY <1>2
  <2> HIDE DEF f, H
  <2>3. f = h
    BY <1>5, <2>1, <2>2
  <2> QED
    BY <2>1, <2>3 DEF f
<1>9. \A i \in 1..e : R[i].text = Trim(IF i \in H THEN After(L[i], ":") ELSE L[i])
  BY <1>1, <1>2, ReadingAt
<1>10. \A i \in 1..e : i \in H <=> StartsField(L[i])
  BY <1>2 DEF Heads
<1>11. /\ \A i \in 1..4 : i \in 1..e
       /\ \A k \in 1..n : 4 + k \in 1..e
       /\ m # 0 => 5 + n \in 1..e
       /\ \A k \in 1..m : 5 + n + k \in 1..e
  <2> HIDE DEF e, n, m
  <2>1. CASE m = 0
    BY <1>1, <2>1
  <2>2. CASE m # 0
    BY <1>1, <2>2
  <2> QED
    BY <2>1, <2>2
<1>12. /\ HeadLine(L[1], "Package", p) /\ HeadLine(L[2], "Version", v)
       /\ HeadLine(L[3], "Source", s) /\ HeadLine(L[4], "Depends-Run", <<>>)
       /\ \A k \in 1..n : TailLine(L[4 + k], deps[k])
       /\ m # 0 => HeadLine(L[5 + n], "Built-From", <<>>)
       /\ \A k \in 1..m : TailLine(L[5 + n + k], froms[k])
  BY DEF Sheet
<1>13. \A i \in 1..e : \A w, t : HeadLine(L[i], w, t) => R[i].text = t /\ Before(L[i], ":") = <<w>>
  BY <1>9, <1>10 DEF HeadLine
<1>14. \A i \in 1..e : \A t : TailLine(L[i], t) => R[i].text = t
  BY <1>9, <1>10 DEF TailLine
<1>15. ASSUME NEW i \in 1..e PROVE R[i].name = <<NameAt(FieldStart(i, n), n)>>
  <2> DEFINE f == FieldStart(i, n)
  <2>1. f \in {1, 2, 3, 4} \/ (f = 5 + n /\ m # 0)
    <3> HIDE DEF e, n, m
    <3> QED
      BY <1>1 DEF FieldStart
  <2>2. f \in 1..e /\ R[i].name = Before(L[f], ":")
    BY <1>2, <1>8
  <2> HIDE DEF f
  <2>3. /\ Before(L[1], ":") = <<"Package">> /\ Before(L[2], ":") = <<"Version">>
        /\ Before(L[3], ":") = <<"Source">> /\ Before(L[4], ":") = <<"Depends-Run">>
        /\ m # 0 => Before(L[5 + n], ":") = <<"Built-From">>
    BY <1>12 DEF HeadLine
  <2>4. f = 5 + n => f \notin {1, 2, 3, 4}
    BY <1>1
  <2>5. Before(L[f], ":") = <<NameAt(f, n)>>
    <3>1. CASE f \in {1, 2, 3, 4}
      BY <2>3, <3>1 DEF NameAt
    <3>2. CASE f = 5 + n /\ m # 0
      BY <2>3, <2>4, <3>2 DEF NameAt
    <3> QED
      BY <2>1, <3>1, <3>2
  <2> QED
    BY <2>2, <2>5 DEF f
<1>16. \A i, j \in 1..e : FieldStart(i, n) = FieldStart(j, n) => R[i].field = R[j].field
  BY <1>6, <1>7
<1>17. /\ R[1].text = p /\ R[2].text = v /\ R[3].text = s /\ R[4].text = <<>>
       /\ \A k \in 1..n : R[4 + k].text = deps[k]
       /\ m # 0 => R[5 + n].text = <<>>
       /\ \A k \in 1..m : R[5 + n + k].text = froms[k]
  <2>1. 1 \in 1..4 /\ 2 \in 1..4 /\ 3 \in 1..4 /\ 4 \in 1..4
    OBVIOUS
  <2> HIDE DEF R, n, m, e
  <2>2. R[1].text = p /\ R[2].text = v /\ R[3].text = s /\ R[4].text = <<>>
    BY <1>11, <1>12, <1>13, <2>1
  <2>3. \A k \in 1..n : R[4 + k].text = deps[k]
    BY <1>11, <1>12, <1>14
  <2>4. ASSUME m # 0 PROVE R[5 + n].text = <<>>
    <3>1. 5 + n \in 1..e /\ HeadLine(L[5 + n], "Built-From", <<>>)
      BY <1>11, <1>12, <2>4
    <3> DEFINE q == 5 + n
    <3> HIDE DEF q
    <3>2. q \in 1..e /\ HeadLine(L[q], "Built-From", <<>>)
      BY <3>1 DEF q
    <3>3. R[q].text = <<>>
      BY <1>13, <3>2
    <3> QED
      BY <3>3 DEF q
  <2>5. \A k \in 1..m : R[5 + n + k].text = froms[k]
    BY <1>11, <1>12, <1>14
  <2> QED
    BY <2>2, <2>3, <2>4, <2>5
<1>18. \A i \in 1..e : R[i].field \in Nat \ {0}
  BY <1>6, <1>7
<1> QED
  BY <1>2, <1>3, <1>15, <1>16, <1>17, <1>18

\* These texts stand at the lines behind a.
StandAt(R, a, ts) == \A k \in 1..Len(ts) : a + k \in DOMAIN R /\ R[a + k].text = ts[k]

\* What the texts at an interval of lines are.
LEMMA TextsAtInterval ==
  ASSUME NEW R, NEW a \in Nat, NEW ts \in Seq(Text), StandAt(R, a, ts)
  PROVE  TextsAt(R, (a + 1)..(a + Len(ts))) = ts
<1> DEFINE seq == [i \in DOMAIN R |-> R[i].text]
           n == Len(ts)
<1>1. n \in Nat /\ ts = [k \in 1..n |-> ts[k]]
  BY LenProperties
<1>2. \A k \in 1..n : seq[a + k] = ts[k]
  BY DEF StandAt
<1> HIDE DEF seq, n
<1>3. n \in Nat
  BY <1>1
<1>4. AtPositions(seq, (a + 1)..(a + n)) = [k \in 1..n |-> seq[a + k]]
  <2>1. a \in Nat /\ n \in Nat
    BY <1>3
  <2> QED
    BY <2>1, AtInterval, Zenon
<1>5. [k \in 1..n |-> seq[a + k]] = [k \in 1..n |-> ts[k]]
  BY <1>2
<1>6. AtPositions(seq, (a + 1)..(a + n)) = ts
  BY <1>1, <1>4, <1>5
<1> QED
  BY <1>6 DEF TextsAt, seq, n

\* The lines of each field.
LEMMA SheetFields ==
  ASSUME NEW L, NEW p, NEW v, NEW s, NEW deps, NEW froms, Sheet(L, p, v, s, deps, froms)
  PROVE  LET R == Reading(L)
             n == Len(deps)
         IN  /\ OfName(R, 1, "Package") = {1} /\ OfName(R, 1, "Version") = {2}
             /\ OfName(R, 1, "Source") = {3}
             /\ OfName(R, 1, "Depends-Run") = 4..(4 + n)
             /\ OfName(R, 1, "Built-From") = (5 + n)..Len(L)
<1> DEFINE R == Reading(L)
           n == Len(deps)
           m == Len(froms)
           e == Len(L)
<1>1. /\ e \in Nat /\ n \in Nat /\ m \in Nat
      /\ e = 4 + n + (IF m = 0 THEN 0 ELSE 1 + m)
  BY SheetLines DEF Sheet
<1>2. /\ DOMAIN R = 1..e
      /\ \A i \in 1..e : R[i].para = 1 /\ R[i].name = <<NameAt(FieldStart(i, n), n)>>
  BY SheetReading
<1> HIDE DEF R, n, m, e
<1>3. \A w : OfName(R, 1, w) = {i \in 1..e : NameAt(FieldStart(i, n), n) = w}
  BY <1>2 DEF OfName
<1>4. e >= 4 + n
  BY <1>1
<1>5. \A i \in 1..e : /\ FieldStart(i, n) = 1 <=> i = 1
                      /\ FieldStart(i, n) = 2 <=> i = 2
                      /\ FieldStart(i, n) = 3 <=> i = 3
                      /\ FieldStart(i, n) = 4 <=> i \in 4..(4 + n)
                      /\ FieldStart(i, n) \in {1, 2, 3, 4} \/ i \in (5 + n)..e
                      /\ i \in (5 + n)..e => FieldStart(i, n) \notin {1, 2, 3, 4}
  BY <1>1 DEF FieldStart
<1>6. /\ 1 \in 1..e /\ 2 \in 1..e /\ 3 \in 1..e
      /\ \A i \in 4..(4 + n) : i \in 1..e
      /\ \A i \in (5 + n)..e : i \in 1..e
  BY <1>1, <1>4
<1>7. \A f : /\ NameAt(f, n) = "Package" <=> f = 1
             /\ NameAt(f, n) = "Version" <=> f = 2
             /\ NameAt(f, n) = "Source" <=> f = 3
             /\ NameAt(f, n) = "Depends-Run" <=> f = 4
             /\ NameAt(f, n) = "Built-From" <=> f \notin {1, 2, 3, 4}
  BY DEF NameAt
<1>8. OfName(R, 1, "Package") = {1}
  BY <1>3, <1>5, <1>6, <1>7
<1>9. OfName(R, 1, "Version") = {2}
  BY <1>3, <1>5, <1>6, <1>7
<1>10. OfName(R, 1, "Source") = {3}
  BY <1>3, <1>5, <1>6, <1>7
<1>11. OfName(R, 1, "Depends-Run") = 4..(4 + n)
  <2> DEFINE w == "Depends-Run"
             X == 4..(4 + n)
             O == OfName(R, 1, w)
  <2>1. O = {i \in 1..e : NameAt(FieldStart(i, n), n) = w}
    BY <1>3
  <2>2. \A i \in 1..e : NameAt(FieldStart(i, n), n) = w <=> i \in X
    BY <1>5, <1>7
  <2>3. \A i \in X : i \in 1..e
    BY <1>6
  <2> HIDE DEF w, X, O
  <2>4. O = X
    BY <2>1, <2>2, <2>3
  <2> QED
    BY <2>4 DEF w, X, O
<1>12. OfName(R, 1, "Built-From") = (5 + n)..e
  <2> DEFINE w == "Built-From"
             X == (5 + n)..e
             O == OfName(R, 1, w)
  <2>1. O = {i \in 1..e : NameAt(FieldStart(i, n), n) = w}
    BY <1>3
  <2>2. \A i \in 1..e : NameAt(FieldStart(i, n), n) = w <=> i \in X
    <3>1. ASSUME NEW i \in 1..e
          PROVE  FieldStart(i, n) \in {1, 2, 3, 4} <=> i \notin X
      BY <1>5
    <3> QED
      BY <3>1, <1>7
  <2>3. \A i \in X : i \in 1..e
    BY <1>6
  <2> HIDE DEF w, X, O
  <2>4. O = X
    BY <2>1, <2>2, <2>3
  <2> QED
    BY <2>4 DEF w, X, O
<1> QED
  BY <1>8, <1>9, <1>10, <1>11, <1>12 DEF R, n, e

\* A sheet whose texts are not empty, as they are said.
LEMMA SheetSays ==
  ASSUME NEW L, NEW p \in Text, NEW v \in Text, NEW s \in Text,
         NEW deps \in Seq(Text), NEW froms \in Seq(Text), Sheet(L, p, v, s, deps, froms),
         p # <<>>, v # <<>>, s # <<>>,
         \A k \in 1..Len(deps) : deps[k] # <<>>,
         \A k \in 1..Len(froms) : froms[k] # <<>>
  PROVE  LET R == Reading(L) IN
         /\ Said(R, 1, "Package") = <<p>> /\ Said(R, 1, "Version") = <<v>>
         /\ Said(R, 1, "Source") = <<s>>
         /\ Said(R, 1, "Depends-Run") = deps /\ Said(R, 1, "Built-From") = froms
<1> DEFINE R == Reading(L)
           n == Len(deps)
           m == Len(froms)
           e == Len(L)
<1>1. /\ e \in Nat /\ n \in Nat /\ m \in Nat
      /\ e = 4 + n + (IF m = 0 THEN 0 ELSE 1 + m)
  BY SheetLines DEF Sheet
<1>2. /\ DOMAIN R = 1..e
      /\ R[1].text = p /\ R[2].text = v /\ R[3].text = s /\ R[4].text = <<>>
      /\ \A k \in 1..n : R[4 + k].text = deps[k]
      /\ m # 0 => R[5 + n].text = <<>>
      /\ \A k \in 1..m : R[5 + n + k].text = froms[k]
  BY SheetReading
<1>3. /\ OfName(R, 1, "Package") = {1} /\ OfName(R, 1, "Version") = {2}
      /\ OfName(R, 1, "Source") = {3}
      /\ OfName(R, 1, "Depends-Run") = 4..(4 + n)
      /\ OfName(R, 1, "Built-From") = (5 + n)..e
  BY SheetFields
<1> DEFINE Spoke(w) == {i \in OfName(R, 1, w) : R[i].text # <<>>}
<1>4. \A w : Said(R, 1, w) = TextsAt(R, Spoke(w))
  BY DEF Said
<1> HIDE DEF R, n, m, e
<1>5. ASSUME NEW i \in {1, 2, 3}, NEW t \in Text, R[i].text = t PROVE TextsAt(R, {i}) = <<t>>
  <2> DEFINE a == i - 1
             ts == <<t>>
  <2>1. a \in Nat /\ a + 1 = i /\ i \in 1..e
    BY <1>1
  <2>2. ts \in Seq(Text) /\ Len(ts) = 1 /\ ts[1] = t
    OBVIOUS
  <2>3. (a + 1)..(a + 1) = {i}
    OBVIOUS
  <2> HIDE DEF a, ts
  <2>4. StandAt(R, a, ts)
    BY <1>2, <1>5, <2>1, <2>2 DEF StandAt
  <2>5. TextsAt(R, (a + 1)..(a + Len(ts))) = ts
    BY <2>1, <2>2, <2>4, TextsAtInterval
  <2> QED
    BY <2>2, <2>3, <2>5 DEF ts
<1>6. Said(R, 1, "Package") = <<p>>
  <2>1. Spoke("Package") = {1}
    BY <1>2, <1>3
  <2>2. R[1].text = p /\ 1 \in {1, 2, 3}
    BY <1>2
  <2>3. TextsAt(R, {1}) = <<p>>
    BY <1>5, <2>2
  <2> QED
    BY <1>4, <2>1, <2>3
<1>7. Said(R, 1, "Version") = <<v>>
  <2>1. Spoke("Version") = {2}
    BY <1>2, <1>3
  <2>2. R[2].text = v /\ 2 \in {1, 2, 3}
    BY <1>2
  <2>3. TextsAt(R, {2}) = <<v>>
    BY <1>5, <2>2
  <2> QED
    BY <1>4, <2>1, <2>3
<1>8. Said(R, 1, "Source") = <<s>>
  <2>1. Spoke("Source") = {3}
    BY <1>2, <1>3
  <2>2. R[3].text = s /\ 3 \in {1, 2, 3}
    BY <1>2
  <2>3. TextsAt(R, {3}) = <<s>>
    BY <1>5, <2>2
  <2> QED
    BY <1>4, <2>1, <2>3
<1>9. Said(R, 1, "Depends-Run") = deps
  <2> DEFINE a == 4
             X == (a + 1)..(a + n)
  <2>1. \A i \in 4..(4 + n) : i = 4 \/ \E k \in 1..n : i = 4 + k
    <3>1. \A i \in 4..(4 + n) : i # 4 => i - 4 \in 1..n /\ i = 4 + (i - 4)
      BY <1>1
    <3> QED
      BY <3>1
  <2>2. \A k \in 1..n : deps[k] # <<>> /\ 4 + k \in 4..(4 + n) /\ 4 + k \in (4 + 1)..(4 + n)
    BY <1>1 DEF n
  <2>3. Spoke("Depends-Run") = X
    <3>1. ASSUME NEW i \in Spoke("Depends-Run") PROVE i \in X
      <4>1. i \in 4..(4 + n) /\ R[i].text # <<>>
        BY <1>3
      <4> QED
        BY <1>2, <2>1, <2>2, <4>1
    <3>2. ASSUME NEW i \in X PROVE i \in Spoke("Depends-Run")
      <4>1. i \in 4..(4 + n) /\ i # 4
        BY <1>1
      <4>2. PICK k \in 1..n : i = 4 + k
        BY <2>1, <4>1
      <4>3. R[i].text # <<>>
        BY <1>2, <2>2, <4>2
      <4> QED
        BY <1>3, <4>1, <4>3
    <3> QED
      BY <3>1, <3>2
  <2>4. a \in Nat /\ \A k \in 1..n : a + k \in 1..e
    BY <1>1
  <2>5. Len(deps) = n
    BY DEF n
  <2>6. X = (a + 1)..(a + n)
    OBVIOUS
  <2>8. \A k \in 1..n : R[a + k].text = deps[k]
    BY <1>2
  <2> HIDE DEF a, X
  <2>9. StandAt(R, a, deps)
    BY <1>2, <2>4, <2>5, <2>8 DEF StandAt
  <2>7. TextsAt(R, X) = deps
    BY <2>4, <2>5, <2>6, <2>9, TextsAtInterval
  <2> QED
    BY <1>4, <2>3, <2>7
<1>10. Said(R, 1, "Built-From") = froms
  <2> DEFINE a == 5 + n
             X == (a + 1)..(a + m)
  <2>1. a \in Nat /\ (m = 0 => a > e /\ X = {}) /\ (m # 0 => e = a + m)
    BY <1>1
  <2>2. \A k \in 1..m : froms[k] # <<>> /\ R[a + k].text = froms[k]
    BY <1>2 DEF m
  <2>3. (OfName(R, 1, "Built-From") = a..e) /\ (m # 0 => R[a].text = <<>>)
    BY <1>2, <1>3
  <2>4. X \in SUBSET DOMAIN R /\ X = (a + 1)..(a + m)
    <3>1. \A i \in X : i \in 1..e
      <4> HIDE DEF a
      <4>1. CASE m = 0
        BY <2>1, <4>1
      <4>2. CASE m # 0
        BY <1>1, <2>1, <4>2
      <4> QED
        BY <4>1, <4>2
    <3> QED
      BY <1>2, <3>1
  <2> HIDE DEF a
  <2>5. \A i \in a..e : m # 0 /\ (i = a \/ \E k \in 1..m : i = a + k)
    <3> SUFFICES ASSUME NEW i \in a..e PROVE m # 0 /\ (i = a \/ \E k \in 1..m : i = a + k)
      OBVIOUS
    <3>1. m # 0
      BY <1>1, <2>1
    <3>2. i # a => i - a \in 1..m /\ i = a + (i - a)
      BY <1>1, <2>1, <3>1
    <3> QED
      BY <3>1, <3>2
  <2>6. \A i \in X : i \in a..e /\ \E k \in 1..m : i = a + k
    <3> SUFFICES ASSUME NEW i \in X PROVE i \in a..e /\ \E k \in 1..m : i = a + k
      OBVIOUS
    <3>1. m # 0 /\ e = a + m
      BY <2>1
    <3>2. i \in a..e /\ i - a \in 1..m /\ i = a + (i - a)
      BY <1>1, <2>1, <3>1
    <3> QED
      BY <3>2
  <2>7. \A k \in 1..m : a + k \in X
    BY <1>1, <2>1
  <2>8. Spoke("Built-From") = X
    <3>1. ASSUME NEW i \in Spoke("Built-From") PROVE i \in X
      <4>1. i \in a..e /\ R[i].text # <<>>
        BY <2>3
      <4> QED
        BY <2>3, <2>5, <2>7, <4>1
    <3>2. ASSUME NEW i \in X PROVE i \in Spoke("Built-From")
      BY <2>2, <2>3, <2>6
    <3> QED
      BY <3>1, <3>2
  <2>9. m \in Nat /\ Len(froms) = m
    BY <1>1 DEF m
  <2>11. \A k \in 1..m : a + k \in DOMAIN R
    BY <2>4, <2>7
  <2> HIDE DEF X
  <2>12. StandAt(R, a, froms)
    BY <2>2, <2>9, <2>11 DEF StandAt
  <2>13. a \in Nat /\ X = (a + 1)..(a + m)
    BY <2>1, <2>4
  <2>10. TextsAt(R, X) = froms
    BY <2>9, <2>12, <2>13, TextsAtInterval
  <2> QED
    BY <1>4, <2>8, <2>10
<1> QED
  BY <1>6, <1>7, <1>8, <1>9, <1>10 DEF R

(***************************************************************************)
(* A sheet is a file that control_parsefd takes: lines of one name are of  *)
(* one field, a single one unless it is a list.                            *)
(***************************************************************************)
LEMMA SheetFits ==
  ASSUME NEW L, NEW p \in Text, NEW v \in Text, NEW s \in Text,
         NEW deps \in Seq(Text), NEW froms \in Seq(Text), Sheet(L, p, v, s, deps, froms),
         p # <<>>, v # <<>>, s # <<>>, HasSpace(s),
         \A k \in 1..Len(froms) : HasSpace(froms[k])
  PROVE  ~Malformed("binary", L)
<1> DEFINE R == Reading(L)
           n == Len(deps)
           m == Len(froms)
           e == Len(L)
<1>1. /\ e \in Nat /\ n \in Nat /\ m \in Nat
      /\ e = 4 + n + (IF m = 0 THEN 0 ELSE 1 + m)
  BY SheetLines DEF Sheet
<1>2. /\ DOMAIN R = 1..e
      /\ \A i \in 1..e : /\ R[i].para = 1 /\ R[i].field \in Nat \ {0}
                         /\ R[i].name = <<NameAt(FieldStart(i, n), n)>>
                         /\ \A j \in 1..e :
                                FieldStart(i, n) = FieldStart(j, n) => R[i].field = R[j].field
      /\ R[1].text = p /\ R[2].text = v /\ R[3].text = s /\ R[4].text = <<>>
      /\ m # 0 => R[5 + n].text = <<>>
      /\ \A k \in 1..m : R[5 + n + k].text = froms[k]
  BY SheetReading
<1>3. /\ OfName(R, 1, "Package") = {1} /\ OfName(R, 1, "Version") = {2}
      /\ OfName(R, 1, "Source") = {3}
  BY SheetFields
<1>4. ~NoColon(L)
  BY SheetLines
<1> DEFINE name == [i \in 1..e |-> NameAt(FieldStart(i, n), n)]
<1> HIDE DEF R, n, m, e
<1>5. \A i \in 1..e : /\ FieldStart(i, n) = 1 => i = 1
                      /\ FieldStart(i, n) = 2 => i = 2
                      /\ FieldStart(i, n) = 3 => i = 3
                      /\ FieldStart(i, n) \in {1, 2, 3, 4, 5 + n}
                      /\ FieldStart(i, n) = 5 + n => i \in (5 + n)..e /\ m # 0
                      /\ FieldStart(i, n) \in {1, 2, 3, 4} => FieldStart(i, n) # 5 + n
  BY <1>1 DEF FieldStart
<1>6. \A f : /\ NameAt(f, n) = "Package" <=> f = 1
             /\ NameAt(f, n) = "Version" <=> f = 2
             /\ NameAt(f, n) = "Source" <=> f = 3
             /\ NameAt(f, n) = "Depends-Run" <=> f = 4
             /\ NameAt(f, n) = "Built-From" <=> f \notin {1, 2, 3, 4}
             /\ NameAt(f, n) \in {"Package", "Version", "Source", "Depends-Run", "Built-From"}
  BY DEF NameAt
<1>7. \A i \in 1..e : /\ R[i].name = <<name[i]>> /\ name[i] \in DOMAIN ControlFields
                      /\ name[i] = "Package" => i = 1
                      /\ name[i] = "Version" => i = 2
                      /\ name[i] = "Source" => i = 3
                      /\ name[i] = "Built-From" => i \in (5 + n)..e /\ m # 0
                      /\ \A j \in 1..e : name[i] = name[j] => R[i].field = R[j].field
  <2> SUFFICES ASSUME NEW i \in 1..e
               PROVE  /\ R[i].name = <<name[i]>> /\ name[i] \in DOMAIN ControlFields
                      /\ name[i] = "Package" => i = 1
                      /\ name[i] = "Version" => i = 2
                      /\ name[i] = "Source" => i = 3
                      /\ name[i] = "Built-From" => i \in (5 + n)..e /\ m # 0
                      /\ \A j \in 1..e : name[i] = name[j] => R[i].field = R[j].field
    OBVIOUS
  <2>1. R[i].name = <<name[i]>> /\ name[i] \in DOMAIN ControlFields
    BY <1>2, <1>6, FieldTables
  <2>2. /\ name[i] = "Package" => i = 1
        /\ name[i] = "Version" => i = 2
        /\ name[i] = "Source" => i = 3
        /\ name[i] = "Built-From" => i \in (5 + n)..e /\ m # 0
    BY <1>5, <1>6
  <2>3. ASSUME NEW j \in 1..e, name[i] = name[j] PROVE R[i].field = R[j].field
    <3>1. FieldStart(i, n) = FieldStart(j, n)
      BY <1>5, <1>6, <2>3
    <3> QED
      BY <1>2, <3>1
  <2> QED
    BY <2>1, <2>2, <2>3
<1> HIDE DEF name
<1>8. \A i \in (5 + n)..e : m # 0 => i \in 1..e /\ (i = 5 + n \/ i - (5 + n) \in 1..m) /\ i = 5 + n + (i - (5 + n))
  BY <1>1
<1>9. \A i \in 1..e : name[i] = "Built-From" /\ R[i].text # <<>> => HasSpace(R[i].text)
  <2> SUFFICES ASSUME NEW i \in 1..e, name[i] = "Built-From", R[i].text # <<>>
               PROVE  HasSpace(R[i].text)
    OBVIOUS
  <2>1. i \in (5 + n)..e /\ m # 0
    BY <1>7
  <2>2. i # 5 + n
    BY <1>2, <2>1
  <2> DEFINE k == i - (5 + n)
  <2>3. k \in 1..m /\ i = 5 + n + k
    BY <1>8, <2>1, <2>2
  <2> HIDE DEF k
  <2>4. R[i].text = froms[k]
    BY <1>2, <2>3
  <2> QED
    BY <2>3, <2>4 DEF m
<1>10. ~WrongParagraphs("binary", R)
  <2>1. 1 \in DOMAIN R
    BY <1>1, <1>2
  <2>2. 2 \notin Paragraphs(R)
    BY <1>2 DEF Paragraphs
  <2> QED
    BY <2>1, <2>2 DEF WrongParagraphs
<1>11. ASSUME NEW i \in 1..e PROVE ~Unexpected("binary", R, i) /\ ~Unfit("binary", R, i)
  <2>1. /\ R[i].para = 1 /\ R[i].field # 0 /\ R[i].name = <<name[i]>> /\ R[i].name[1] = name[i]
        /\ name[i] \in DOMAIN ControlFields /\ FieldsOf("binary", 1) = ControlFields
    BY <1>2, <1>7 DEF FieldsOf
  <2>2. ~Unexpected("binary", R, i)
    BY <2>1 DEF Unexpected
  <2> DEFINE member == ControlFields[name[i]]
             same == OfName(R, 1, name[i])
             text == R[i].text
  <2>3. /\ ~IsList(member) => name[i] \in {"Package", "Version", "Source"}
        /\ member \in {"src_package", "built_froms"} => name[i] \in {"Source", "Built-From"}
    BY <2>1, FieldTables DEF IsList, Lists
  <2>4. ~IsList(member) => same = {i} /\ text # <<>>
    BY <1>2, <1>3, <1>7, <2>3
  <2>5. \A j \in same : R[j].field = R[i].field /\ ~(R[j].field > R[i].field)
    <3> SUFFICES ASSUME NEW j \in same
                 PROVE  R[j].field = R[i].field /\ ~(R[j].field > R[i].field)
      OBVIOUS
    <3>1. j \in 1..e /\ R[j].name = <<name[i]>>
      BY <1>2 DEF OfName
    <3>2. name[j] = name[i]
      BY <1>7, <3>1
    <3>3. R[j].field = R[i].field
      BY <1>7, <3>1, <3>2
    <3>4. \A x \in Nat : ~(x > x)
      OBVIOUS
    <3> QED
      BY <1>2, <3>3, <3>4
  <2>6. member \in {"src_package", "built_froms"} /\ text # <<>> => HasSpace(text)
    BY <1>2, <1>7, <1>9, <2>3
  <2>7. ~Unfit("binary", R, i)
    <3> HIDE DEF member, same, text
    <3>1. /\ ~(~IsList(member) /\ (same # {i} \/ text = <<>>))
          /\ ~(IsList(member) /\ text # <<>> /\ \E j \in same : R[j].field > R[i].field)
          /\ ~(member \in {"src_package", "built_froms"} /\ text # <<>> /\ ~HasSpace(text))
      BY <2>4, <2>5, <2>6
    <3>2. /\ FieldsOf("binary", R[i].para)[R[i].name[1]] = member
          /\ OfName(R, R[i].para, R[i].name[1]) = same /\ R[i].text = text
      BY <2>1 DEF member, same, text
    <3> QED
      BY <3>1, <3>2 DEF Unfit
  <2> QED
    BY <2>2, <2>7
<1> QED
  BY <1>2, <1>4, <1>10, <1>11 DEF Malformed, R

\* Two texts with a space in between, the first of which has none.
LEMMA SpaceBetween ==
  ASSUME NEW a \in Text, NEW b \in Text, IsWord(a), IsClean(b)
  PROVE  LET t == a \o <<" ">> \o b IN
         /\ t \in Text /\ IsClean(t) /\ HasSpace(t)
         /\ Before(t, " ") = a /\ After(t, " ") = b
<1> DEFINE t == a \o <<" ">> \o b
           n == Len(a)
           m == Len(b)
<1>1. /\ n \in Nat \ {0} /\ m \in Nat \ {0} /\ \A k \in 1..n : a[k] \notin Spaces
      /\ b[m] \notin Spaces
  <2>1. n \in Nat /\ m \in Nat /\ DOMAIN a = 1..n /\ (n = 0 => a = <<>>) /\ (m = 0 => b = <<>>)
    BY LenProperties, EmptySeq DEF Text
  <2> HIDE DEF n, m
  <2> QED
    BY <2>1 DEF IsWord, IsClean, m
<1>2. " " \in Tokens /\ \A k \in 1..n : a[k] # " "
  BY <1>1 DEF Tokens, Spaces
<1>10. a \in Seq(Tokens) /\ b \in Seq(Tokens)
  BY DEF Text
<1>11. /\ t \in Seq(Tokens) /\ Len(t) = Len(a) + 1 + Len(b)
       /\ \A k \in 1..Len(a) : t[k] = a[k]
       /\ FirstOf(t, " ") = Len(a) + 1
       /\ Before(t, " ") = a /\ After(t, " ") = b
  <2> DEFINE x == a
             y == b
             tok == " "
             text == x \o <<tok>> \o y
  <2>1. \A k \in 1..Len(x) : x[k] # tok
    BY <1>2
  <2>2. tok \in Tokens
    BY <1>2
  <2>3. x \in Seq(Tokens) /\ y \in Seq(Tokens)
    BY <1>10
  <2> HIDE DEF n, m, t, x, y, tok
  <2>4. text \in Seq(Tokens)
    BY <2>1, <2>2, <2>3, AroundSeparator
  <2>5. Len(text) = Len(x) + 1 + Len(y)
    BY <2>1, <2>2, <2>3, AroundSeparator
  <2>6. \A k \in 1..Len(x) : text[k] = x[k]
    BY <2>1, <2>2, <2>3, AroundSeparator
  <2>7. FirstOf(text, tok) = Len(x) + 1
    BY <2>1, <2>2, <2>3, AroundSeparator
  <2>8. Before(text, tok) = x /\ After(text, tok) = y
    BY <2>1, <2>2, <2>3, AroundSeparator
  <2>9. t = text
    BY DEF t, x, y, tok
  <2> HIDE DEF text
  <2> QED
    BY <2>4, <2>5, <2>6, <2>7, <2>8, <2>9 DEF x, y, tok
<1> DEFINE u == a \o <<" ">>
<1>12. u \in Seq(Tokens) /\ Len(u) = n + 1
  <2>1. <<" ">> \in Seq(Tokens) /\ Len(<<" ">>) = 1
    BY <1>2, ShortSeqs
  <2>2. u \in Seq(Tokens) /\ Len(u) = Len(a) + Len(<<" ">>)
    BY <1>10, <2>1, ConcatProperties
  <2> QED
    BY <2>1, <2>2
<1>13. t = u \o b
  OBVIOUS
<1> HIDE DEF u
<1>14. \A k \in 1..Len(b) : t[Len(u) + k] = b[k]
  <2> HIDE DEF t
  <2>1. b \in Seq(Tokens)
    BY <1>10
  <2>2. u \in Seq(Tokens)
    BY <1>12
  <2> QED
    BY <1>13, <2>1, <2>2, ConcatTwo
<1>3. /\ t \in Seq(Tokens) /\ Len(t) = n + 1 + m
      /\ \A k \in 1..n : t[k] = a[k]
      /\ \A k \in 1..m : t[n + 1 + k] = b[k]
      /\ FirstOf(t, " ") = n + 1
      /\ Before(t, " ") = a /\ After(t, " ") = b
  <2> HIDE DEF t
  <2> QED
    BY <1>11, <1>12, <1>14
<1> HIDE DEF n, m, t
<1>9. n \in Nat \ {0} /\ m \in Nat \ {0} /\ Len(t) = n + 1 + m /\ FirstOf(t, " ") = n + 1
  BY <1>1, <1>3
<1>4. t[1] = a[1] /\ a[1] \notin Spaces
  <2>1. 1 \in 1..n
    BY <1>1
  <2> QED
    BY <1>1, <1>3, <2>1
<1>5. t[Len(t)] = b[m]
  <2>1. m \in 1..m
    BY <1>1
  <2> QED
    BY <1>3, <2>1
<1>6. t # <<>>
  <2>1. t = <<>> => Len(t) = 0
    OBVIOUS
  <2>4. n \in Nat /\ m \in Nat
    BY <1>9
  <2>3. n + 1 + m # 0
    BY <2>4
  <2>2. Len(t) # 0
    BY <1>9, <2>3
  <2> QED
    BY <2>1, <2>2
<1>7. HasSpace(t)
  <2>3. n \in Nat
    BY <1>9
  <2>2. n + 1 # 0
    BY <2>3
  <2>1. FirstOf(t, " ") # 0
    BY <1>9, <2>2
  <2> QED
    BY <2>1 DEF HasSpace
<1>8. IsClean(t)
  BY <1>1, <1>4, <1>5, <1>6 DEF IsClean
<1> QED
  BY <1>3, <1>7, <1>8 DEF t, Text

\* A word has no spaces around it.
LEMMA WordIsClean ==
  ASSUME NEW t \in Text, IsWord(t)
  PROVE  IsClean(t)
<1>1. Len(t) \in Nat /\ DOMAIN t = 1..Len(t) /\ (Len(t) = 0 => t = <<>>)
  BY LenProperties, EmptySeq DEF Text
<1>2. t # <<>> /\ \A k \in 1..Len(t) : t[k] \notin Spaces
  BY <1>1 DEF IsWord
<1> DEFINE n == Len(t)
<1>3. n \in Nat \ {0}
  BY <1>1, <1>2
<1> HIDE DEF n
<1>4. 1 \in 1..n /\ n \in 1..n
  BY <1>3
<1> QED
  BY <1>2, <1>4 DEF IsClean, n

\* A text that trimming does not change.
LEMMA TrimmedIsClean ==
  ASSUME NEW t \in Text, t # <<>>, NEW s \in Text, Trim(s) = t
  PROVE  IsClean(t)
<1>1. s \in Seq(Tokens)
  BY DEF Text
<1>2. ~IsBlank(s)
  BY <1>1, TrimText
<1> QED
  BY <1>1, <1>2, TrimText DEF IsClean

(***************************************************************************)
(* What gencontrol has to print, and when it can be printed.               *)
(***************************************************************************)
SourceLine(of) == of.source \o <<" ">> \o of.version

\* What stands behind Built-From, line by line.
FromLines(o) ==
    [k \in DOMAIN o.bf_extra |-> o.bf_extra[k].package \o <<" ">> \o o.bf_extra[k].version]

\* All of it is text that a control file can hold.
Printable(of, sb, o) ==
    /\ of.source \in Text /\ IsWord(of.source)
    /\ of.version \in Text /\ IsClean(of.version)
    /\ VersionOf(of, o) \in Text /\ IsClean(VersionOf(of, o))
    /\ sb.package \in Text /\ IsClean(sb.package)
    /\ sb.run_depend \in Seq(Text)
    /\ \A k \in 1..Len(sb.run_depend) : IsClean(sb.run_depend[k])
    /\ o.bf_extra \in Seq(BuiltFroms)
    /\ \A k \in 1..Len(o.bf_extra) : IsWord(o.bf_extra[k].package) /\ IsWord(o.bf_extra[k].version)

\* What is known of a list of -b and of its lines.
LinesOfFroms(froms, b) ==
    /\ froms \in Seq(Text) /\ Len(froms) = Len(b)
    /\ \A k \in 1..Len(b) :
           /\ froms[k] = b[k].package \o <<" ">> \o b[k].version
           /\ froms[k] \in Text /\ IsClean(froms[k]) /\ HasSpace(froms[k])
           /\ Before(froms[k], " ") = b[k].package
           /\ After(froms[k], " ") = b[k].version

\* The lines of a list of -b.
LEMMA FromsPrinted ==
  ASSUME NEW of, NEW sb, NEW o, Printable(of, sb, o)
  PROVE  LinesOfFroms(FromLines(o), o.bf_extra)
<1> DEFINE b == o.bf_extra
           froms == FromLines(o)
           n == Len(b)
<1>1. /\ b \in Seq(BuiltFroms) /\ n \in Nat /\ DOMAIN b = 1..n
      /\ \A k \in 1..n : b[k] \in BuiltFroms /\ IsWord(b[k].package) /\ IsWord(b[k].version)
  <2>1. b \in Seq(BuiltFroms)
    BY DEF Printable
  <2>2. n \in Nat /\ DOMAIN b = 1..n /\ \A k \in 1..n : b[k] \in BuiltFroms
    BY <2>1, LenProperties, ElementOfSeq
  <2> QED
    BY <2>1, <2>2 DEF Printable
<1>2. froms = [k \in 1..n |-> b[k].package \o <<" ">> \o b[k].version]
  BY <1>1 DEF FromLines
<1>3. ASSUME NEW k \in 1..n
      PROVE  LET t == b[k].package \o <<" ">> \o b[k].version IN
             /\ t \in Text /\ IsClean(t) /\ HasSpace(t)
             /\ Before(t, " ") = b[k].package /\ After(t, " ") = b[k].version
  <2>1. b[k].package \in Text /\ b[k].version \in Text
    BY <1>1 DEF BuiltFroms
  <2>2. IsWord(b[k].package) /\ IsClean(b[k].version)
    BY <1>1, <2>1, WordIsClean
  <2> DEFINE x == b[k].package
             y == b[k].version
  <2>3. x \in Text /\ y \in Text /\ IsWord(x) /\ IsClean(y)
    BY <2>1, <2>2
  <2> HIDE DEF x, y
  <2>4. LET t == x \o <<" ">> \o y IN
        /\ t \in Text /\ IsClean(t) /\ HasSpace(t)
        /\ Before(t, " ") = x /\ After(t, " ") = y
    BY <2>3, SpaceBetween
  <2> QED
    BY <2>4 DEF x, y
<1> DEFINE row(k) == b[k].package \o <<" ">> \o b[k].version
<1>4. \A k \in 1..n : /\ row(k) \in Text /\ IsClean(row(k)) /\ HasSpace(row(k))
                      /\ Before(row(k), " ") = b[k].package /\ After(row(k), " ") = b[k].version
  BY <1>3
<1>5. froms = [k \in 1..n |-> row(k)]
  BY <1>2
<1> HIDE DEF row, froms, n
<1>6. froms \in [1..n -> Text] /\ \A k \in 1..n : froms[k] = row(k)
  BY <1>4, <1>5
<1>7. froms \in Seq(Text) /\ Len(froms) = n
  BY <1>1, <1>6, SeqDef, LenProperties
<1>8. ASSUME NEW k \in 1..n
      PROVE  /\ froms[k] = row(k)
             /\ froms[k] \in Text /\ IsClean(froms[k]) /\ HasSpace(froms[k])
             /\ Before(froms[k], " ") = b[k].package
             /\ After(froms[k], " ") = b[k].version
  BY <1>4, <1>6
<1>9. \A k \in 1..n : /\ froms[k] = b[k].package \o <<" ">> \o b[k].version
                      /\ froms[k] \in Text /\ IsClean(froms[k]) /\ HasSpace(froms[k])
                      /\ Before(froms[k], " ") = b[k].package
                      /\ After(froms[k], " ") = b[k].version
  BY <1>8, Zenon DEF row
<1> HIDE DEF b
<1>10. LinesOfFroms(froms, b)
  BY <1>7, <1>9, Zenon DEF LinesOfFroms, n
<1> QED
  BY <1>10 DEF froms, b

(***************************************************************************)
(* The file is a sheet of them.                                            *)
(***************************************************************************)
LEMMA FileIsSheet ==
  ASSUME NEW of, NEW sb, NEW o, Printable(of, sb, o), ControlFile(of, sb, o) \in Seq(Text)
  PROVE  /\ Sheet(ControlFile(of, sb, o), sb.package, VersionOf(of, o), SourceLine(of),
                  sb.run_depend, FromLines(o))
         /\ SourceLine(of) \in Text /\ IsClean(SourceLine(of)) /\ HasSpace(SourceLine(of))
         /\ Before(SourceLine(of), " ") = of.source /\ After(SourceLine(of), " ") = of.version
<1> DEFINE L == ControlFile(of, sb, o)
           p == sb.package
           v == VersionOf(of, o)
           s == SourceLine(of)
           d == sb.run_depend
           froms == FromLines(o)
           n == Len(d)
           m == Len(froms)
           l1 == Labelled("Package", p)
           l2 == Labelled("Version", v)
           l3 == Labelled("Source", s)
           l4 == <<"Depends-Run", ":">>
           l5 == <<"Built-From", ":">>
           head == <<l1, l2, l3, l4>>
           deps == [k \in 1..n |-> Indented(d[k])]
           built == IF m = 0 THEN <<>> ELSE <<l5>>
           last == [k \in 1..m |-> Indented(froms[k])]
<1>1. /\ s \in Text /\ IsClean(s) /\ HasSpace(s)
      /\ Before(s, " ") = of.source /\ After(s, " ") = of.version
  BY SpaceBetween DEF Printable, SourceLine
<1>2. /\ p \in Text /\ IsClean(p) /\ v \in Text /\ IsClean(v) /\ d \in Seq(Text)
      /\ \A k \in 1..n : IsClean(d[k])
  BY DEF Printable
<1>3. /\ froms \in Seq(Text) /\ m \in Nat /\ m = Len(o.bf_extra)
      /\ o.bf_extra \in Seq(BuiltFroms) /\ DOMAIN o.bf_extra = 1..m
      /\ \A k \in 1..m : /\ froms[k] = o.bf_extra[k].package \o <<" ">> \o o.bf_extra[k].version
                         /\ froms[k] \in Text /\ IsClean(froms[k])
  <2>1. o.bf_extra \in Seq(BuiltFroms)
    BY DEF Printable
  <2>2. /\ froms \in Seq(Text) /\ m = Len(o.bf_extra)
        /\ \A k \in 1..m : /\ froms[k] = o.bf_extra[k].package \o <<" ">> \o o.bf_extra[k].version
                           /\ froms[k] \in Text /\ IsClean(froms[k])
    <3> DEFINE b == o.bf_extra
    <3>1. LinesOfFroms(froms, b)
      BY FromsPrinted
    <3> HIDE DEF froms, b
    <3>2. /\ froms \in Seq(Text) /\ Len(froms) = Len(b)
          /\ \A k \in 1..Len(b) :
                 /\ froms[k] = b[k].package \o <<" ">> \o b[k].version
                 /\ froms[k] \in Text /\ IsClean(froms[k])
      BY <3>1, Zenon DEF LinesOfFroms
    <3>3. Len(froms) = Len(b) => \A k \in 1..m : k \in 1..Len(b)
      OBVIOUS
    <3>4. m = Len(b)
      BY <3>2
    <3> QED
      BY <3>2, <3>3, <3>4 DEF b
  <2>3. DOMAIN o.bf_extra = 1..Len(o.bf_extra) /\ Len(o.bf_extra) \in Nat
    BY <2>1, LenProperties
  <2> QED
    BY <2>1, <2>2, <2>3
<1>4. n \in Nat /\ DOMAIN d = 1..n /\ \A k \in 1..n : d[k] \in Text
  BY <1>2, LenProperties, ElementOfSeq
<1>5. /\ l1 \in Text /\ l2 \in Text /\ l3 \in Text /\ l4 \in Text /\ l5 \in Text
      /\ HeadLine(l1, "Package", p) /\ HeadLine(l2, "Version", v) /\ HeadLine(l3, "Source", s)
      /\ HeadLine(l4, "Depends-Run", <<>>) /\ HeadLine(l5, "Built-From", <<>>)
  <2>1. /\ "Package" \in Labels /\ "Version" \in Labels /\ "Source" \in Labels
        /\ "Depends-Run" \in Labels /\ "Built-From" \in Labels
    BY DEF Labels
  <2> HIDE DEF p, v, s
  <2>2. l1 \in Text /\ l2 \in Text /\ l3 \in Text
    BY <1>1, <1>2, <2>1, TokensTyped
  <2>3. l4 \in Text /\ l5 \in Text
    <3>1. ":" \in Tokens /\ "Depends-Run" \in Tokens /\ "Built-From" \in Tokens
      BY <2>1, TokensTyped
    <3> QED
      BY <3>1, ShortSeqs DEF Text
  <2>4. HeadLine(l1, "Package", p) /\ HeadLine(l2, "Version", v) /\ HeadLine(l3, "Source", s)
    BY <1>1, <1>2, <2>1, LabelledLine
  <2>5. HeadLine(l4, "Depends-Run", <<>>) /\ HeadLine(l5, "Built-From", <<>>)
    BY <2>1, LabelLine
  <2> QED
    BY <2>2, <2>3, <2>4, <2>5
<1>6. /\ \A k \in 1..n : Indented(d[k]) \in Text /\ TailLine(Indented(d[k]), d[k])
      /\ \A k \in 1..m : Indented(froms[k]) \in Text /\ TailLine(Indented(froms[k]), froms[k])
  <2> HIDE DEF d, froms, n, m
  <2> QED
    BY <1>2, <1>3, <1>4, TokensTyped, IndentedLine
<1>7. L = head \o deps \o built \o last
  <2>1. Str(of.source) = of.source /\ Str(of.version) = of.version
    BY DEF Str, NULL, Printable, IsWord, IsClean
  <2>2. [k \in DOMAIN sb.run_depend |-> Indented(sb.run_depend[k])] = deps
    BY <1>4
  <2>3. [k \in DOMAIN o.bf_extra |->
            Indented(o.bf_extra[k].package \o <<" ">> \o o.bf_extra[k].version)] = last
    <3> HIDE DEF froms, m
    <3> QED
      BY <1>3
  <2>4. (IF o.bf_extra = <<>> THEN <<>> ELSE <<<<"Built-From", ":">>>>) = built
    <3>1. o.bf_extra = <<>> <=> m = 0
      <4> DEFINE b == o.bf_extra
      <4>1. b \in Seq(BuiltFroms) /\ m = Len(b)
        BY <1>3
      <4> HIDE DEF b, m
      <4>2. b = <<>> <=> m = 0
        BY <4>1, EmptySeq
      <4> QED
        BY <4>2 DEF b
    <3> HIDE DEF m
    <3> QED
      BY <3>1
  <2>5. Str(of.source) \o <<" ">> \o Str(of.version) = s
    BY <2>1 DEF SourceLine
  <2> HIDE DEF deps, built, last, s
  <2> QED
    BY <2>2, <2>3, <2>4, <2>5 DEF ControlFile
<1> DEFINE A == head \o deps
           B == A \o built
<1>8. /\ head \in Seq(Text) /\ Len(head) = 4
      /\ head[1] = l1 /\ head[2] = l2 /\ head[3] = l3 /\ head[4] = l4
  <2> HIDE DEF l1, l2, l3, l4
  <2>1. head \in Seq(Text)
    BY <1>5, ShortSeqs
  <2>2. Len(head) = 4 /\ head[1] = l1 /\ head[2] = l2 /\ head[3] = l3 /\ head[4] = l4
    OBVIOUS
  <2> QED
    BY <2>1, <2>2
<1>9. deps \in Seq(Text) /\ Len(deps) = n /\ \A k \in 1..n : TailLine(deps[k], d[k])
  <2> HIDE DEF n, d
  <2>1. deps \in [1..n -> Text] /\ \A k \in 1..n : deps[k] = Indented(d[k])
    BY <1>6
  <2> HIDE DEF deps
  <2> QED
    BY <1>4, <1>6, <2>1, SeqDef, LenProperties
<1>10. last \in Seq(Text) /\ Len(last) = m /\ \A k \in 1..m : TailLine(last[k], froms[k])
  <2> HIDE DEF m, froms
  <2>1. last \in [1..m -> Text] /\ \A k \in 1..m : last[k] = Indented(froms[k])
    BY <1>6
  <2>2. m \in Nat
    BY <1>3
  <2> HIDE DEF last
  <2>3. last \in Seq(Text) /\ Len(last) = m
    BY <2>1, <2>2, SeqDef, LenProperties
  <2> QED
    BY <1>6, <2>1, <2>3
<1> DEFINE size == IF m = 0 THEN 0 ELSE 1
<1>11. built \in Seq(Text) /\ Len(built) = size /\ (m # 0 => built[1] = l5)
  <2> HIDE DEF l5, m
  <2>1. <<>> \in Seq(Text) /\ Len(<<>>) = 0 /\ <<l5>> \in Seq(Text) /\ Len(<<l5>>) = 1 /\ <<l5>>[1] = l5
    BY <1>5, EmptySeq, ShortSeqs
  <2> QED
    BY <2>1
<1>12. size \in Nat /\ (m = 0 => size = 0) /\ (m # 0 => size = 1)
  OBVIOUS
<1> HIDE DEF L, head, deps, built, last, size, m, n, d, froms, l1, l2, l3, l4, l5, p, v, s
<1>13. /\ A \in Seq(Text) /\ Len(A) = 4 + n
       /\ A[1] = l1 /\ A[2] = l2 /\ A[3] = l3 /\ A[4] = l4
       /\ \A k \in 1..n : A[4 + k] = deps[k]
  <2>1. A = head \o deps
    OBVIOUS
  <2> HIDE DEF A
  <2>4. head \in Seq(Text)
    BY <1>8
  <2>5. deps \in Seq(Text)
    BY <1>9
  <2>2. /\ A \in Seq(Text) /\ Len(A) = Len(head) + Len(deps)
        /\ \A k \in 1..Len(head) : A[k] = head[k]
        /\ \A k \in 1..Len(deps) : A[Len(head) + k] = deps[k]
    BY <2>1, <2>4, <2>5, ConcatTwo
  <2>3. \A k \in {1, 2, 3, 4} : k \in 1..4
    OBVIOUS
  <2> QED
    BY <1>8, <1>9, <2>2, <2>3
<1>14. \A k \in 1..n : 4 + k \in 1..(4 + n)
  BY <1>4
<1>15. /\ B \in Seq(Text) /\ Len(B) = 4 + n + size
       /\ \A k \in 1..(4 + n) : B[k] = A[k]
       /\ m # 0 => B[5 + n] = l5
  <2>1. B = A \o built
    OBVIOUS
  <2> HIDE DEF A, B
  <2>4. A \in Seq(Text)
    BY <1>13
  <2>5. built \in Seq(Text)
    BY <1>11
  <2>2. /\ B \in Seq(Text) /\ Len(B) = Len(A) + Len(built)
        /\ \A k \in 1..Len(A) : B[k] = A[k]
        /\ \A k \in 1..Len(built) : B[Len(A) + k] = built[k]
    BY <2>1, <2>4, <2>5, ConcatTwo
  <2>3. ASSUME m # 0 PROVE B[5 + n] = l5
    <3>1. 1 \in 1..size
      BY <1>12, <2>3
    <3>2. B[4 + n + 1] = l5
      BY <1>11, <1>13, <2>2, <2>3, <3>1
    <3>3. 4 + n + 1 = 5 + n
      BY <1>4
    <3> QED
      BY <3>2, <3>3
  <2> QED
    BY <1>11, <1>13, <2>2, <2>3
<1>16. /\ L \in Seq(Text) /\ Len(L) = 4 + n + size + m
       /\ \A k \in 1..(4 + n + size) : L[k] = B[k]
       /\ \A k \in 1..m : L[4 + n + size + k] = last[k]
  <2>1. L = B \o last
    BY <1>7
  <2> HIDE DEF A, B
  <2>3. B \in Seq(Text)
    BY <1>15
  <2>4. last \in Seq(Text)
    BY <1>10
  <2>2. /\ L \in Seq(Text) /\ Len(L) = Len(B) + Len(last)
        /\ \A k \in 1..Len(B) : L[k] = B[k]
        /\ \A k \in 1..Len(last) : L[Len(B) + k] = last[k]
    BY <2>1, <2>3, <2>4, ConcatTwo
  <2> QED
    BY <1>10, <1>15, <2>2
<1> HIDE DEF A, B
<1>24. n \in Nat /\ m \in Nat /\ size \in Nat /\ (m = 0 => size = 0) /\ (m # 0 => size = 1)
  BY <1>3, <1>4, <1>12
<1>17. \A k \in 1..(4 + n) : L[k] = A[k]
  <2>1. \A k \in 1..(4 + n) : k \in 1..(4 + n + size)
    BY <1>4, <1>12
  <2> QED
    BY <1>15, <1>16, <2>1
<1>18. L[1] = l1 /\ L[2] = l2 /\ L[3] = l3 /\ L[4] = l4
  <2>1. \A k \in {1, 2, 3, 4} : k \in 1..(4 + n)
    BY <1>4
  <2> QED
    BY <1>13, <1>17, <2>1
<1>19. \A k \in 1..n : TailLine(L[4 + k], d[k])
  BY <1>9, <1>13, <1>14, <1>17
<1>20. m # 0 => L[5 + n] = l5
  <2>1. m # 0 => 5 + n \in 1..(4 + n + size)
    BY <1>4, <1>12
  <2> QED
    BY <1>15, <1>16, <2>1
<1>21. \A k \in 1..m : TailLine(L[5 + n + k], froms[k])
  <2> SUFFICES ASSUME NEW k \in 1..m PROVE TailLine(L[5 + n + k], froms[k])
    OBVIOUS
  <2>1. 4 + n + size + k = 5 + n + k
    BY <1>24
  <2> QED
    BY <1>10, <1>16, <2>1
<1>22. Len(L) = 4 + n + (IF m = 0 THEN 0 ELSE 1 + m)
  <2>1. Len(L) = 4 + n + size + m
    BY <1>16
  <2> QED
    BY <1>24, <2>1
<1>23. Sheet(L, p, v, s, d, froms)
  <2>1. L \in Seq(Text) /\ n \in Nat /\ m \in Nat
    BY <1>3, <1>4, <1>16
  <2>2. /\ HeadLine(L[1], "Package", p) /\ HeadLine(L[2], "Version", v)
        /\ HeadLine(L[3], "Source", s) /\ HeadLine(L[4], "Depends-Run", <<>>)
        /\ m # 0 => HeadLine(L[5 + n], "Built-From", <<>>)
    BY <1>5, <1>18, <1>20
  <2> QED
    BY <1>19, <1>21, <1>22, <2>1, <2>2 DEF Sheet, n, m
<1> QED
  BY <1>1, <1>23 DEF L, p, v, s, d, froms

(***************************************************************************)
(* The texts that gencontrol has from the source's control file have no    *)
(* spaces around them.                                                     *)
(***************************************************************************)
AllClean(texts) == \A n \in 1..Len(texts) : IsClean(texts[n])

\* What is said under a name, line by line.
LEMMA SaidClean ==
  ASSUME NEW lines \in Seq(Text), NEW p, NEW w
  PROVE  LET said == Kept(Reading(lines), DOMAIN Reading(lines), p, w) IN
         said \in Seq(Text) /\ AllClean(said)
<1> DEFINE R == Reading(lines)
           S == Spoken(R, NamedIn(R, DOMAIN R, p, w))
           said == TextsAt(R, S)
<1>1. S \in SUBSET DOMAIN R /\ \A i \in S : R[i].text # <<>>
  BY DEF Spoken, NamedIn
<1>2. DOMAIN R = Texts(lines)
  BY ReadingSets
<1>3. ASSUME NEW i \in S PROVE IsClean(R[i].text)
  <2>1. i \in Texts(lines) /\ R[i].text # <<>>
    BY <1>1, <1>2
  <2>2. R[i].text = Trim(IF i \in Heads(lines) THEN After(lines[i], ":") ELSE lines[i])
    BY <2>1, ReadingAt
  <2>3. lines[i] \in Seq(Tokens)
    BY <2>1, ReadingSets DEF Text
  <2>4. After(lines[i], ":") \in Seq(Tokens)
    BY <2>3, AroundTyped
  <2> DEFINE s == IF i \in Heads(lines) THEN After(lines[i], ":") ELSE lines[i]
  <2>5. s \in Text
    BY <2>3, <2>4 DEF Text
  <2>6. R[i].text = Trim(s)
    BY <2>2
  <2>7. R[i].text \in Text
    BY <2>1, TextOfLine
  <2> HIDE DEF s, R, S
  <2> QED
    BY <2>1, <2>5, <2>6, <2>7, TrimmedIsClean
<1>4. said \in Seq(Text) /\ \A n \in 1..Len(said) : \E i \in S : said[n] = R[i].text
  <2>1. S \in SUBSET DOMAIN Reading(lines)
    BY <1>1
  <2> HIDE DEF S
  <2> QED
    BY <2>1, TextsAtElements
<1>5. Kept(R, DOMAIN R, p, w) = said
  BY DEF Kept
<1> HIDE DEF said, S
<1>6. AllClean(said)
  BY <1>3, <1>4 DEF AllClean
<1> QED
  BY <1>4, <1>5, <1>6

\* One list of clean texts behind another.
LEMMA CleanTwo ==
  ASSUME NEW s \in Seq(Text), NEW t \in Seq(Text), AllClean(s), AllClean(t)
  PROVE  s \o t \in Seq(Text) /\ AllClean(s \o t)
<1> DEFINE u == s \o t
           n == Len(s)
           m == Len(t)
<1>1. u = s \o t
  OBVIOUS
<1> HIDE DEF u
<1>2. /\ n \in Nat /\ m \in Nat /\ u \in Seq(Text) /\ Len(u) = n + m
      /\ \A k \in 1..n : u[k] = s[k]
      /\ \A k \in 1..m : u[n + k] = t[k]
  BY <1>1, ConcatTwo
<1>3. \A k \in 1..n : IsClean(u[k])
  BY <1>2 DEF AllClean
<1>4. \A k \in 1..m : IsClean(u[n + k])
  BY <1>2 DEF AllClean
<1> HIDE DEF n, m
<1>5. \A k \in 1..(n + m) : k \in 1..n \/ (k - n \in 1..m /\ k = n + (k - n))
  BY <1>2
<1>6. \A k \in 1..(n + m) : IsClean(u[k])
  BY <1>3, <1>4, <1>5
<1>7. AllClean(u)
  BY <1>2, <1>6 DEF AllClean
<1> QED
  BY <1>1, <1>2, <1>7

\* The version and the binary packages of a source.
LEMMA SourceClean ==
  ASSUME NEW lines, NEW ps, Whole(ps, lines), NEW r \in SourceControls,
         Complete(lines, ps, "source", r)
  PROVE  /\ r.version = <<>> \/ IsClean(r.version)
         /\ \A b \in DOMAIN r.bins :
                /\ r.bins[b] \in Bins
                /\ r.bins[b].package = <<>> \/ IsClean(r.bins[b].package)
                /\ AllClean(r.bins[b].run_depend)
<1> DEFINE R == Reading(lines)
           D == DOMAIN R
<1>1. /\ TargetSays(r, R, D, 1, SourceFields)
      /\ Len(r.bins) = Len(ps) - 1 /\ BinsSay(r, R, D, Len(ps) - 1)
  BY DEF Complete, FieldsOf
<1>2. \A p, w : Kept(R, D, p, w) \in Seq(Text) /\ AllClean(Kept(R, D, p, w))
  BY SaidClean DEF Whole
<1> HIDE DEF R, D
<1>3. \A p, w, t : Kept(R, D, p, w) = <<t>> => IsClean(t)
  <2> SUFFICES ASSUME NEW p, NEW w, NEW t, Kept(R, D, p, w) = <<t>> PROVE IsClean(t)
    OBVIOUS
  <2>1. AllClean(<<t>>)
    BY <1>2
  <2>2. 1 \in 1..Len(<<t>>) /\ <<t>>[1] = t
    OBVIOUS
  <2> QED
    BY <2>1, <2>2 DEF AllClean
<1>4. r["version"] = <<>> \/ IsClean(r["version"])
  <2>1. "Version" \in DOMAIN SourceFields /\ SourceFields["Version"] = "version"
    BY FieldTables
  <2>2. /\ r["version"] = <<>> <=> Kept(R, D, 1, "Version") = <<>>
        /\ TextSaid(r, "version", Kept(R, D, 1, "Version"))
    BY <1>1, <2>1 DEF TargetSays
  <2>3. Kept(R, D, 1, "Version") = <<>> \/ Kept(R, D, 1, "Version") = <<r["version"]>>
    BY <2>2 DEF TextSaid
  <2> QED
    BY <1>3, <2>2, <2>3
<1>5. r.run_deps = Kept(R, D, 1, "Depends-Run")
  <2>1. "Depends-Run" \in DOMAIN SourceFields /\ SourceFields["Depends-Run"] = "run_deps"
    BY FieldTables
  <2>2. "run_deps" \in Lists
    BY DEF Lists
  <2> QED
    BY <1>1, <2>1, <2>2 DEF TargetSays
<1>6. ASSUME NEW b \in DOMAIN r.bins
      PROVE  /\ r.bins[b] \in Bins
             /\ r.bins[b].package = <<>> \/ IsClean(r.bins[b].package)
             /\ AllClean(r.bins[b].run_depend)
  <2>1. b \in 1..(Len(ps) - 1) /\ r.bins[b] \in Bins
    <3>1. r.bins \in Seq(Bins)
      BY DEF SourceControls
    <3> QED
      BY <1>1, <3>1, LenProperties, ElementOfSeq
  <2>2. /\ r.bins[b].package = <<>> <=> Kept(R, D, b + 1, "Package") = <<>>
        /\ Kept(R, D, b + 1, "Package") = <<>> \/
           Kept(R, D, b + 1, "Package") = <<r.bins[b].package>>
        /\ r.bins[b].run_depend = Kept(R, D, b + 1, "Depends-Run") \o r.run_deps
    BY <1>1, <2>1 DEF BinsSay, BinSays
  <2>3. AllClean(Kept(R, D, b + 1, "Depends-Run") \o r.run_deps)
    <3> DEFINE s == Kept(R, D, b + 1, "Depends-Run")
               t == r.run_deps
    <3>1. s \in Seq(Text) /\ t \in Seq(Text) /\ AllClean(s) /\ AllClean(t)
      BY <1>2, <1>5
    <3> HIDE DEF s, t
    <3>2. AllClean(s \o t)
      BY <3>1, CleanTwo
    <3> QED
      BY <3>2 DEF s, t
  <2> QED
    BY <1>3, <2>1, <2>2, <2>3
<1> QED
  BY <1>4, <1>6

(***************************************************************************)
(* What pkgcontrol has in its record when it has read a sheet.             *)
(***************************************************************************)
Filled(texts) == \A k \in 1..Len(texts) : texts[k] # <<>>

\* The members of the record are those texts.
HasSheet(r, p, v, s, deps, froms) ==
    /\ r.package = p /\ r.version = v
    /\ r.src_package = Before(s, " ") /\ r.src_version = After(s, " ")
    /\ r.run_depend = deps /\ r.built_froms = PairsOf(froms)

\* The record of a sheet that has been accepted.
LEMMA SheetRecord ==
  ASSUME NEW L, NEW p \in Text, NEW v \in Text, NEW s \in Text,
         NEW deps \in Seq(Text), NEW froms \in Seq(Text), Sheet(L, p, v, s, deps, froms),
         p # <<>>, v # <<>>, s # <<>>, Filled(deps), Filled(froms),
         NEW ps, Whole(ps, L), NEW r, Complete(L, ps, "binary", r)
  PROVE  IsComplete("binary", L) /\ HasSheet(r, p, v, s, deps, froms)
<1> DEFINE R == Reading(L)
           D == DOMAIN R
<1>1. \A w : Kept(R, D, 1, w) = Said(R, 1, w)
  BY NamedInAll
<1>2. /\ Said(R, 1, "Package") = <<p>> /\ Said(R, 1, "Version") = <<v>>
      /\ Said(R, 1, "Source") = <<s>>
      /\ Said(R, 1, "Depends-Run") = deps /\ Said(R, 1, "Built-From") = froms
  <2>1. /\ \A k \in 1..Len(deps) : deps[k] # <<>>
        /\ \A k \in 1..Len(froms) : froms[k] # <<>>
    BY DEF Filled
  <2> QED
    BY <2>1, SheetSays
<1>3. TargetSays(r, R, D, 1, ControlFields)
  BY DEF Complete, FieldsOf
<1>4. \A t : <<t>> # <<>> /\ <<t>>[1] = t
  OBVIOUS
<1>5. IsComplete("binary", L)
  BY <1>2, <1>4 DEF IsComplete
<1> HIDE DEF R, D
<1>6. \A w \in DOMAIN ControlFields :
        /\ ControlFields[w] \in Lists => r[ControlFields[w]] = Kept(R, D, 1, w)
        /\ TextSaid(r, ControlFields[w], Kept(R, D, 1, w))
  BY <1>3 DEF TargetSays
<1>7. \A t, q : <<t>> = <<q>> => t = q
  BY <1>4
<1>8. r["package"] = p
  <2>1. TextSaid(r, "package", <<p>>)
    BY <1>1, <1>2, <1>6, FieldTables
  <2> QED
    BY <1>4, <1>7, <2>1 DEF TextSaid
<1>9. r["version"] = v
  <2>1. TextSaid(r, "version", <<v>>)
    BY <1>1, <1>2, <1>6, FieldTables
  <2> QED
    BY <1>4, <1>7, <2>1 DEF TextSaid
<1>10. r.src_package = Before(s, " ") /\ r.src_version = After(s, " ")
  <2>1. TextSaid(r, "src_package", <<s>>)
    BY <1>1, <1>2, <1>6, FieldTables
  <2> QED
    BY <1>4, <2>1 DEF TextSaid
<1>11. r["run_depend"] = deps
  <2>1. "run_depend" \in Lists
    BY DEF Lists
  <2> QED
    BY <1>1, <1>2, <1>6, <2>1, FieldTables
<1>12. r.built_froms = PairsOf(froms)
  <2>1. TextSaid(r, "built_froms", froms)
    BY <1>1, <1>2, <1>6, FieldTables
  <2> QED
    BY <2>1 DEF TextSaid
<1> QED
  BY <1>5, <1>8, <1>9, <1>10, <1>11, <1>12 DEF HasSheet

\* The lines of -b, as they are read.
GivenAs(froms, b) ==
    /\ froms \in Seq(Text) /\ Len(froms) = Len(b)
    /\ \A k \in 1..Len(froms) :
           /\ HasSpace(froms[k]) /\ froms[k] # <<>>
           /\ Before(froms[k], " ") = b[k].package /\ After(froms[k], " ") = b[k].version

\* They are read as they were given.
LEMMA FromsGiven ==
  ASSUME NEW of, NEW sb, NEW o, Printable(of, sb, o)
  PROVE  GivenAs(FromLines(o), o.bf_extra)
<1> DEFINE froms == FromLines(o)
           b == o.bf_extra
<1>1. LinesOfFroms(froms, b)
  BY FromsPrinted
<1> HIDE DEF froms, b
<1>2. froms \in Seq(Text) /\ Len(froms) = Len(b)
  BY <1>1, Zenon DEF LinesOfFroms
<1>3. ASSUME NEW k \in 1..Len(froms)
      PROVE  /\ HasSpace(froms[k]) /\ froms[k] # <<>>
             /\ Before(froms[k], " ") = b[k].package /\ After(froms[k], " ") = b[k].version
  <2>1. k \in 1..Len(b)
    BY <1>2, Zenon
  <2> QED
    BY <1>1, <2>1, Zenon DEF LinesOfFroms, IsClean
<1>4. GivenAs(froms, b)
  BY <1>2, <1>3, Zenon DEF GivenAs
<1> QED
  BY <1>4 DEF froms, b

\* The pairs of the lines of -b are those that were given.
LEMMA PairsGiven ==
  ASSUME NEW of, NEW sb, NEW o, Printable(of, sb, o)
  PROVE  PairsOf(FromLines(o)) = o.bf_extra
<1> DEFINE b == o.bf_extra
           froms == FromLines(o)
           n == Len(b)
<1>1. b \in Seq(BuiltFroms) /\ n \in Nat /\ DOMAIN b = 1..n /\ \A k \in 1..n : b[k] \in BuiltFroms
  <2>1. b \in Seq(BuiltFroms)
    BY DEF Printable
  <2> QED
    BY <2>1, LenProperties, ElementOfSeq
<1>2. /\ froms \in Seq(Text) /\ Len(froms) = n
      /\ \A k \in 1..n : Before(froms[k], " ") = b[k].package /\ After(froms[k], " ") = b[k].version
  <2>1. GivenAs(froms, b)
    BY FromsGiven
  <2> HIDE DEF froms, b
  <2>2. /\ froms \in Seq(Text) /\ Len(froms) = Len(b)
        /\ \A k \in 1..Len(froms) : Before(froms[k], " ") = b[k].package /\
                                     After(froms[k], " ") = b[k].version
    BY <2>1, Zenon DEF GivenAs
  <2> QED
    BY <2>2
<1>3. DOMAIN froms = 1..n
  BY <1>2, LenProperties
<1> HIDE DEF froms, n
<1>4. \A k \in 1..n : b[k] = [package |-> Before(froms[k], " "), version |-> After(froms[k], " ")]
  BY <1>1, <1>2 DEF BuiltFroms
<1>5. PairsOf(froms) = [k \in 1..n |-> b[k]]
  BY <1>3, <1>4 DEF PairsOf
<1>6. b = [k \in 1..n |-> b[k]]
  BY <1>1 DEF n
<1> QED
  BY <1>5, <1>6 DEF froms

(***************************************************************************)
(* What pkgcontrol prints of a file that gencontrol has printed.           *)
(***************************************************************************)
Asked(of, sb, o, f) ==
    CASE f = "-n" -> <<sb.package>>
      [] f = "-v" -> <<VersionOf(of, o)>>
      [] f = "-s" -> <<Comma(of.source, of.version)>>
      [] f = "-r" -> sb.run_depend
      [] f = "-b" -> [k \in DOMAIN o.bf_extra |->
                        Comma(o.bf_extra[k].package, o.bf_extra[k].version)]

\* The file is accepted and each of its fields printed.
LEMMA FileReadBack ==
  ASSUME NEW of, NEW sb, NEW o, Printable(of, sb, o), NEW L, L = ControlFile(of, sb, o),
         L \in Seq(Text)
  PROVE  /\ ~Malformed("binary", L)
         /\ \A ps, r : Whole(ps, L) /\ Complete(L, ps, "binary", r) =>
                /\ IsComplete("binary", L)
                /\ \A f \in {"-n", "-v", "-s", "-r", "-b"} :
                        FieldLines("pkgcontrol", f, r) = Asked(of, sb, o, f)
<1> DEFINE p == sb.package
           v == VersionOf(of, o)
           s == SourceLine(of)
           d == sb.run_depend
           froms == FromLines(o)
<1>1. /\ Sheet(L, p, v, s, d, froms)
      /\ s \in Text /\ IsClean(s) /\ HasSpace(s)
      /\ Before(s, " ") = of.source /\ After(s, " ") = of.version
  BY FileIsSheet
<1>2. /\ p \in Text /\ p # <<>> /\ v \in Text /\ v # <<>> /\ s # <<>> /\ d \in Seq(Text)
      /\ Filled(d)
  BY <1>1 DEF Printable, IsClean, Filled
<1>3. /\ froms \in Seq(Text) /\ Filled(froms)
      /\ \A k \in 1..Len(froms) : HasSpace(froms[k])
  <2>1. GivenAs(froms, o.bf_extra)
    BY FromsGiven
  <2> HIDE DEF froms
  <2> QED
    BY <2>1 DEF GivenAs, Filled
<1>4. PairsOf(froms) = o.bf_extra
  BY PairsGiven
<1>5. of.source # NULL /\ of.version # NULL
  BY DEF Printable, IsWord, IsClean, NULL
<1> HIDE DEF p, v, s, d, froms
<1>6. ~Malformed("binary", L)
  BY <1>1, <1>2, <1>3, SheetFits
<1>7. ASSUME NEW ps, NEW r, Whole(ps, L), Complete(L, ps, "binary", r)
      PROVE  /\ IsComplete("binary", L)
             /\ \A f \in {"-n", "-v", "-s", "-r", "-b"} :
                    FieldLines("pkgcontrol", f, r) = Asked(of, sb, o, f)
  <2>1. IsComplete("binary", L) /\ HasSheet(r, p, v, s, d, froms)
    <3>1. p \in Text
      BY <1>2
    <3>2. v \in Text
      BY <1>2
    <3>3. s \in Text
      BY <1>1
    <3>4. d \in Seq(Text)
      BY <1>2
    <3>5. froms \in Seq(Text)
      BY <1>3
    <3>6. Sheet(L, p, v, s, d, froms)
      BY <1>1
    <3>7. p # <<>> /\ v # <<>> /\ s # <<>>
      BY <1>2
    <3>10. Filled(d) /\ Filled(froms)
      BY <1>2, <1>3
    <3>8. Whole(ps, L)
      BY <1>7
    <3>9. Complete(L, ps, "binary", r)
      BY <1>7
    <3> QED
      BY <3>1, <3>2, <3>3, <3>4, <3>5, <3>6, <3>7, <3>8, <3>9, <3>10, SheetRecord
  <2>2. r.src_package = of.source /\ r.src_version = of.version /\ r.built_froms = o.bf_extra
    BY <1>1, <1>4, <2>1 DEF HasSheet
  <2>3. Str(r.src_package) = of.source /\ Str(r.src_version) = of.version
    BY <1>5, <2>2 DEF Str
  <2>4. FieldLines("pkgcontrol", "-n", r) = Asked(of, sb, o, "-n")
    BY <2>1 DEF HasSheet, FieldLines, Asked, p
  <2>5. FieldLines("pkgcontrol", "-v", r) = Asked(of, sb, o, "-v")
    BY <2>1 DEF HasSheet, FieldLines, Asked, v
  <2>6. FieldLines("pkgcontrol", "-s", r) = Asked(of, sb, o, "-s")
    BY <2>3 DEF FieldLines, Asked
  <2>7. FieldLines("pkgcontrol", "-r", r) = Asked(of, sb, o, "-r")
    BY <2>1 DEF HasSheet, FieldLines, Asked, d
  <2>8. FieldLines("pkgcontrol", "-b", r) = Asked(of, sb, o, "-b")
    BY <2>2 DEF FieldLines, Asked
  <2> QED
    BY <2>1, <2>4, <2>5, <2>6, <2>7, <2>8
<1> QED
  BY <1>6, <1>7

(***************************************************************************)
(* The inductive invariant behind RoundTrip, in named parts.               *)
(***************************************************************************)
\* These lines are the control file of the first binary package of that name.
Written(of, o, ops, lines) ==
    /\ of \in SourceControls /\ o \in OptRecords
    /\ of.version = NULL \/ IsClean(of.version)
    /\ \E k \in DOMAIN of.bins :
        /\ of.bins[k].package = ops[2] /\ IsClean(ops[2])
        /\ \A j \in 1..(k - 1) : of.bins[j].package # ops[2]
        /\ AllClean(of.bins[k].run_depend)
        /\ lines = ControlFile(of, of.bins[k], o)

\* What gencontrol has printed when it has ended well.
OutputWritten ==
    /\ prog = "gencontrol" /\ stage \in {"operands", "parse"} => Len(operands) = 2
    /\ prog = "gencontrol" /\ stage \in {"closed", "0"} /\ opts.outf # Stdout /\ ~made.torn =>
        opts.outf \in DOMAIN files /\ Written(c, opts, operands, files[opts.outf])

\* What the reader was to have is printed.
Answered ==
    ~starved /\ IsPrintable(made) => printed = Expected(made, reader)

\* pkgcontrol has one option and one operand, and goes through that file.
OutputIsRead ==
    made.end = "0" /\ ~made.torn =>
        /\ made.by.outf \in DOMAIN files
        /\ Written(made.of, made.by, made.operands, files[made.by.outf])
        /\ \/ /\ stage = "options" /\ operands = <<made.by.outf>> /\ printed = <<>>
              /\ \/ todo = <<[opt |-> reader, arg |-> NULL]>>
                 \/ todo = <<>> /\ opts.field = reader
           \/ /\ stage \in {"operands", "parse"} /\ operands = <<made.by.outf>> /\ printed = <<>>
              /\ opts.field = reader
           \/ stage = "operands" /\ operands = <<>> /\ Answered
           \/ stage \in Ended /\ Answered /\ (~starved /\ IsPrintable(made) => stage = "0")

\* The invariant, and that pkgcontrol has such an option.
RoundInv == reader \in FieldOptions["pkgcontrol"] /\ OutputWritten /\ OutputIsRead

\* The package that was asked for, and what is read of its file.
LEMMA WrittenReadBack ==
  ASSUME NEW m, NEW L, Written(m.of, m.by, m.operands, L), IsPrintable(m)
  PROVE  /\ ~Malformed("binary", L)
         /\ \A ps, r : Whole(ps, L) /\ Complete(L, ps, "binary", r) =>
                /\ IsComplete("binary", L)
                /\ \A f \in {"-n", "-v", "-s", "-r", "-b"} :
                        FieldLines("pkgcontrol", f, r) = Expected(m, f)
<1> DEFINE of == m.of
           o == m.by
           v == VersionOf(of, o)
           name == m.operands[2]
<1>1. /\ of \in SourceControls /\ o \in OptRecords
      /\ of.version = NULL \/ IsClean(of.version)
  BY DEF Written
<1>2. PICK k \in DOMAIN of.bins :
        /\ of.bins[k].package = name /\ IsClean(name)
        /\ \A j \in 1..(k - 1) : of.bins[j].package # name
        /\ AllClean(of.bins[k].run_depend)
        /\ L = ControlFile(of, of.bins[k], o)
  BY DEF Written
<1> DEFINE sb == of.bins[k]
           b == o.bf_extra
<1>3. /\ IsWord(of.source) /\ of.version # NULL
      /\ v # <<>> /\ Trim(v) = v
      /\ \A bf \in ToSet(b) : IsWord(bf.package) /\ IsWord(bf.version)
  BY DEF IsPrintable
<1>4. of.bins \in Seq(Bins) /\ of.source \in Text /\ of.version \in Text
  BY <1>1 DEF SourceControls
<1>5. DOMAIN of.bins = 1..Len(of.bins) /\ Len(of.bins) \in Nat /\ sb \in Bins
  BY <1>2, <1>4, LenProperties, ElementOfSeq
<1>6. sb.package \in Text /\ sb.run_depend \in Seq(Text)
  BY <1>5 DEF Bins
<1>7. v \in Text
  BY <1>1, <1>4, VersionTyped
<1>8. IsClean(v)
  <2> HIDE DEF v
  <2> QED
    BY <1>3, <1>7, TrimmedIsClean
<1>9. b \in Seq(BuiltFroms)
  BY <1>1 DEF OptRecords
<1>10. \A i \in 1..Len(b) : IsWord(b[i].package) /\ IsWord(b[i].version)
  <2> HIDE DEF b
  <2>1. \A i \in 1..Len(b) : b[i] \in ToSet(b)
    BY <1>9, LenProperties DEF ToSet
  <2> QED
    BY <1>3, <2>1
<1>11. Printable(of, sb, o)
  <2>1. IsClean(sb.package) /\ AllClean(sb.run_depend)
    BY <1>2
  <2> QED
    BY <1>1, <1>3, <1>4, <1>6, <1>7, <1>8, <1>9, <1>10, <2>1 DEF Printable, AllClean
<1>12. ControlFile(of, sb, o) \in Seq(Text)
  BY <1>1, <1>5, ControlFileTyped
<1>13. BinOf(m) = sb
  <2> DEFINE S == {j \in DOMAIN of.bins : of.bins[j].package = name}
  <2>1. S \in SUBSET Nat /\ k \in S
    BY <1>2, <1>5
  <2>2. Min(S) \in S /\ \A j \in S : Min(S) <= j
    BY <2>1, LeastPosition
  <2> DEFINE j == Min(S)
  <2>3. j \in 1..Len(of.bins) /\ of.bins[j].package = name /\ j <= k
    BY <1>5, <2>1, <2>2
  <2>4. j \notin 1..(k - 1)
    BY <1>2, <2>3
  <2>5. k \in Nat
    BY <1>2, <1>5
  <2> HIDE DEF S, j
  <2>6. j = k
    BY <2>3, <2>4, <2>5
  <2> QED
    BY <2>6 DEF BinOf, S, j
<1>14. \A f \in {"-n", "-v", "-s", "-r", "-b"} : Asked(of, sb, o, f) = Expected(m, f)
  <2>1. sb.package = name
    BY <1>2
  <2>2. Asked(of, sb, o, "-n") = Expected(m, "-n")
    BY <2>1 DEF Asked, Expected
  <2>3. Asked(of, sb, o, "-v") = Expected(m, "-v")
    BY DEF Asked, Expected
  <2>4. Asked(of, sb, o, "-s") = Expected(m, "-s")
    BY DEF Asked, Expected
  <2>5. Asked(of, sb, o, "-r") = Expected(m, "-r")
    BY <1>13 DEF Asked, Expected
  <2>6. Asked(of, sb, o, "-b") = Expected(m, "-b")
    BY DEF Asked, Expected
  <2> QED
    BY <2>2, <2>3, <2>4, <2>5, <2>6
<1>15. L \in Seq(Text) /\ L = ControlFile(of, sb, o)
  BY <1>2, <1>12
<1> HIDE DEF of, sb, o
<1>16. /\ ~Malformed("binary", L)
       /\ \A ps, r : Whole(ps, L) /\ Complete(L, ps, "binary", r) =>
            /\ IsComplete("binary", L)
            /\ \A f \in {"-n", "-v", "-s", "-r", "-b"} :
                    FieldLines("pkgcontrol", f, r) = Asked(of, sb, o, f)
  BY <1>11, <1>15, FileReadBack
<1> QED
  BY <1>14, <1>16

\* gencontrol prints the file of the first package that has the name.
LEMMA ControlPrinted ==
  ASSUME ControlInv, FailureInv, RoundInv, PrintControl, opts.outf # Stdout
  PROVE  opts.outf \in DOMAIN files' /\ Written(c, opts, operands, files'[opts.outf])
<1>1. Parsing /\ status = "ok" /\ prog = "gencontrol"
  BY DEF PrintControl, Looking, Parsing
<1>2. kind = "source" /\ Whole(paras, TheFile) /\ Complete(TheFile, paras, "source", c)
  <2>1. kind = "source"
    BY <1>1, FileTyped DEF ControlInv, KindOf
  <2> QED
    BY <1>1, <2>1, FileIsWhole DEF ControlInv, RecordInv
<1>3. c \in SourceControls
  BY <1>2 DEF ControlInv, TypeInv, RecordTyped
<1>4. /\ c.version = <<>> \/ IsClean(c.version)
      /\ \A b \in DOMAIN c.bins :
            /\ c.bins[b].package = <<>> \/ IsClean(c.bins[b].package)
            /\ AllClean(c.bins[b].run_depend)
  BY <1>2, <1>3, SourceClean
<1>5. opts \in OptRecords
  BY DEF ControlInv, TypeInv, ProgramTyped
<1>6. opts.outf \in DOMAIN files
  BY <1>1 DEF FailureInv, EmptyUntilWritten, OutputFailed, Parsing
<1>7. PICK k \in DOMAIN c.bins :
        /\ StopsAtBin(k) /\ c.bins[k].package # NULL
        /\ files' = [files EXCEPT ![opts.outf] = ControlFile(c, c.bins[k], opts)]
  BY DEF PrintControl
<1>8. /\ opts.outf \in DOMAIN files'
      /\ files'[opts.outf] = ControlFile(c, c.bins[k], opts)
  BY <1>6, <1>7
<1>9. /\ c.bins[k].package = operands[2]
      /\ \A j \in 1..(k - 1) : c.bins[j].package # operands[2]
  BY <1>7 DEF StopsAtBin
<1>10. IsClean(operands[2]) /\ AllClean(c.bins[k].run_depend)
  BY <1>4, <1>7, <1>9 DEF NULL
<1> QED
  BY <1>3, <1>4, <1>5, <1>8, <1>9, <1>10 DEF Written, NULL

\* What is written is so when gencontrol ends.
LEMMA WritingStep ==
  ASSUME ControlInv, FailureInv, RoundInv, TNext
  PROVE  OutputWritten'
<1>1. ASSUME prog' = "gencontrol", UNCHANGED <<operands, prog>>, stage' \in {"operands", "parse"},
             stage \in {"operands", "parse"}
      PROVE  OutputWritten'
  BY <1>1 DEF RoundInv, OutputWritten
<1>2. CASE FieldOption \/ VersionOption \/ BuiltFromOption \/ OutputOption \/ OutputOptionFails
            \/ BuiltFromStarves
  BY <1>2 DEF FieldOption, VersionOption, BuiltFromOption, OutputOption, OutputOptionFails,
              BuiltFromStarves, Parses, OutputWritten
<1>3. CASE Usage \/ OpenFails \/ ParsingFails \/ PrintsNull \/ NotFound \/ UnnamedBin
  BY <1>3 DEF Usage, OpenFails, ParsingFails, PrintsNull, NotFound, UnnamedBin, Goes, OutputWritten
<1>4. CASE OptionsParsed
  BY <1>4 DEF OptionsParsed, Goes, cmdVars, OutputWritten
<1>5. CASE OpenFile
  BY <1>5 DEF OpenFile, cmdVars, RoundInv, OutputWritten
<1>6. CASE ParserStep
  BY <1>6 DEF ParserStep, toolVars, cmdVars, RoundInv, OutputWritten
<1>7. CASE ParserStarves
  BY <1>7 DEF ParserStarves, cmdVars, RoundInv, OutputWritten
<1>8. CASE PrintField
  BY <1>8 DEF PrintField, OutputWritten
<1>9. CASE AllPrinted
  <2>1. operands = <<>> => Len(operands) # 2
    OBVIOUS
  <2> QED
    BY <1>9, <2>1 DEF AllPrinted, Goes, cmdVars, RoundInv, OutputWritten
<1>10. CASE PrintControl
  <2>1. stage' = "closed" /\ UNCHANGED <<c, opts, operands>>
    BY <1>10 DEF PrintControl, controlVars, cmdVars
  <2>2. opts.outf # Stdout => opts.outf \in DOMAIN files' /\ Written(c, opts, operands, files'[opts.outf])
    BY <1>10, ControlPrinted
  <2> QED
    BY <2>1, <2>2 DEF OutputWritten
<1>11. CASE WriteCutShort
  <2>1. stage' = "closed" /\ made' = [made EXCEPT !.torn = TRUE] /\ prog = "gencontrol"
    BY <1>11 DEF WriteCutShort, Looking
  <2>2. made'.torn
    BY <2>1 DEF FailureInv, MadeOnce, NotMade
  <2> QED
    BY <2>1, <2>2 DEF OutputWritten
<1>12. CASE Killed
  BY <1>12 DEF Killed, OutputWritten
<1>13. CASE ReadBack
  BY <1>13 DEF ReadBack, OutputWritten
<1>14. CASE Returns
  BY <1>14 DEF Returns, Goes, controlVars, cmdVars, RoundInv, OutputWritten
<1> QED
  BY <1>2, <1>3, <1>4, <1>5, <1>6, <1>7, <1>8, <1>9, <1>10, <1>11, <1>12, <1>13, <1>14
     DEF TNext, ToolStep, Fault

\* Before gencontrol has ended, and where it has not run, nothing is read back.
LEMMA ReadingBegins ==
  ASSUME ControlInv, FailureInv, RoundInv, TNext, prog # "pkgcontrol"
  PROVE  OutputIsRead'
<1>1. CASE ReadBack
  <2>1. /\ prog = "gencontrol" /\ UNCHANGED <<files, reader>>
        /\ opts.outf # Stdout
        /\ made' = [made EXCEPT !.by = opts, !.of = c, !.end = stage, !.operands = operands]
        /\ todo' = <<[opt |-> reader, arg |-> NULL]>> /\ operands' = <<Output>>
        /\ stage' = "options" /\ printed' = <<>>
    BY <1>1 DEF ReadBack
  <2>2. /\ made'.by = opts /\ made'.of = c /\ made'.end = stage /\ made'.operands = operands
        /\ made'.torn = made.torn
    BY <2>1 DEF FailureInv, MadeOnce, NotMade
  <2>3. SUFFICES ASSUME stage = "0", ~made.torn PROVE OutputIsRead'
    BY <2>2 DEF OutputIsRead
  <2>4. opts.outf \in DOMAIN files /\ Written(c, opts, operands, files[opts.outf])
    BY <2>1, <2>3 DEF RoundInv, OutputWritten
  <2>5. made'.by.outf \in DOMAIN files' /\ Written(made'.of, made'.by, made'.operands, files'[made'.by.outf])
    BY <2>1, <2>2, <2>4
  <2>6. Output = opts.outf
    BY <2>3 DEF FailureInv, OutputFailed, Output
  <2> QED
    BY <2>1, <2>2, <2>5, <2>6 DEF OutputIsRead
<1>2. ASSUME UNCHANGED made PROVE OutputIsRead'
  <2>1. made.end = ""
    BY DEF FailureInv, MadeOnce
  <2> QED
    BY <1>2, <2>1 DEF OutputIsRead
<1>3. CASE WriteCutShort
  <2>1. made' = [made EXCEPT !.torn = TRUE]
    BY <1>3 DEF WriteCutShort
  <2>2. prog = "gencontrol"
    BY <1>3 DEF WriteCutShort, Looking
  <2>3. made'.end = ""
    BY <2>1, <2>2 DEF FailureInv, MadeOnce, NotMade
  <2> QED
    BY <2>3 DEF OutputIsRead
<1>4. CASE FieldOption \/ VersionOption \/ BuiltFromOption \/ OutputOption \/ OutputOptionFails
            \/ BuiltFromStarves \/ Usage \/ OptionsParsed
  BY <1>2, <1>4 DEF FieldOption, VersionOption, BuiltFromOption, OutputOption, OutputOptionFails,
                    BuiltFromStarves, Usage, OptionsParsed, Parses, Goes
<1>5. CASE OpenFile \/ OpenFails \/ ParserStep \/ ParsingFails \/ PrintField \/ PrintsNull \/ AllPrinted
  BY <1>2, <1>5 DEF OpenFile, OpenFails, ParserStep, ParsingFails, PrintField, PrintsNull,
                    AllPrinted, Goes, toolVars
<1>6. CASE NotFound \/ UnnamedBin \/ PrintControl \/ Returns \/ Killed \/ ParserStarves
  BY <1>2, <1>6 DEF NotFound, UnnamedBin, PrintControl, Returns, Killed, ParserStarves, Goes
<1> QED
  BY <1>1, <1>3, <1>4, <1>5, <1>6 DEF TNext, ToolStep, Fault

\* What pkgcontrol's parser makes of the file.
LEMMA OutputParsed ==
  ASSUME ControlInv, Parsing, prog = "pkgcontrol", IsPrintable(made), TheFile = files[made.by.outf],
         Written(made.of, made.by, made.operands, files[made.by.outf])
  PROVE  /\ status = "failed" => starved
         /\ status = "ok" =>
                /\ NULL \notin ToSet(FieldLines(prog, opts.field, c))
                /\ FieldLines(prog, opts.field, c) = Expected(made, opts.field)
<1>1. kind = "binary"
  BY FileTyped DEF ControlInv, KindOf
<1> DEFINE L == TheFile
<1>2. Written(made.of, made.by, made.operands, L)
  OBVIOUS
<1> HIDE DEF L
<1>3. /\ ~Malformed("binary", L)
      /\ \A ps, r : Whole(ps, L) /\ Complete(L, ps, "binary", r) =>
            /\ IsComplete("binary", L)
            /\ \A f \in {"-n", "-v", "-s", "-r", "-b"} :
                    FieldLines("pkgcontrol", f, r) = Expected(made, f)
  BY <1>2, WrittenReadBack
<1>4. status = "failed" => starved
  BY <1>1, <1>3 DEF ControlInv, FailInv, L
<1>5. ASSUME status = "ok"
      PROVE  /\ NULL \notin ToSet(FieldLines(prog, opts.field, c))
             /\ FieldLines(prog, opts.field, c) = Expected(made, opts.field)
  <2>1. Whole(paras, TheFile) /\ Complete(TheFile, paras, kind, c)
    BY <1>5, FileIsWhole DEF ControlInv, RecordInv
  <2>2. /\ IsComplete("binary", L)
        /\ \A f \in {"-n", "-v", "-s", "-r", "-b"} :
                FieldLines("pkgcontrol", f, c) = Expected(made, f)
    BY <1>1, <1>3, <2>1 DEF L
  <2>3. opts.field \in {"-n", "-v", "-s", "-r", "-b"}
    <3>1. opts.field \in {""} \cup FieldOptions[prog] /\ opts.field # ""
      BY DEF ControlInv, TypeInv, OptionGiven, Parsing
    <3> QED
      BY <3>1 DEF FieldOptions, Programs
  <2>4. NULL \notin ToSet(FieldLines(prog, opts.field, c))
    BY <1>1, <2>1, <2>2, LinesPrinted DEF ControlInv, L
  <2> QED
    BY <2>2, <2>3, <2>4
<1> QED
  BY <1>4, <1>5

\* Each step of pkgcontrol over that file.
LEMMA ReadingStep ==
  ASSUME ControlInv, FailureInv, RoundInv, TNext, prog = "pkgcontrol"
  PROVE  OutputIsRead'
<1>1. SUFFICES ASSUME made'.end = "0", ~made'.torn PROVE OutputIsRead'
  BY DEF OutputIsRead
<1>2. ~WriteCutShort /\ ~Killed /\ ~ReadBack /\ ~PrintControl /\ ~NotFound /\ ~UnnamedBin
      /\ ~VersionOption /\ ~BuiltFromOption /\ ~OutputOption /\ ~OutputOptionFails
      /\ ~BuiltFromStarves
  BY DEF WriteCutShort, Killed, ReadBack, PrintControl, NotFound, UnnamedBin, Looking,
         VersionOption, BuiltFromOption, OutputOption, OutputOptionFails, BuiltFromStarves
<1>3. UNCHANGED <<made, files, reader, prog>>
  <2>1. CASE FieldOption \/ Usage \/ OptionsParsed
    BY <2>1 DEF FieldOption, Usage, OptionsParsed, Parses, Goes, cmdVars
  <2>2. CASE OpenFile \/ OpenFails \/ ParserStep \/ ParsingFails
    BY <2>2 DEF OpenFile, OpenFails, ParserStep, ParsingFails, Goes, cmdVars, toolVars
  <2>3. CASE PrintField \/ PrintsNull \/ AllPrinted \/ Returns \/ ParserStarves
    BY <2>3 DEF PrintField, PrintsNull, AllPrinted, Returns, ParserStarves, Goes, cmdVars
  <2> QED
    BY <1>2, <2>1, <2>2, <2>3 DEF TNext, ToolStep, Fault
<1> DEFINE here == <<made.by.outf>>
           options == /\ stage = "options" /\ operands = here /\ printed = <<>>
                      /\ \/ todo = <<[opt |-> reader, arg |-> NULL]>>
                         \/ todo = <<>> /\ opts.field = reader
           reads == /\ stage \in {"operands", "parse"} /\ operands = here /\ printed = <<>>
                    /\ opts.field = reader
           done == stage = "operands" /\ operands = <<>> /\ Answered
           ended == stage \in Ended /\ Answered /\ (~starved /\ IsPrintable(made) => stage = "0")
<1>4. made.end = "0" /\ ~made.torn
  BY <1>1, <1>3
<1>5. /\ made.by.outf \in DOMAIN files
      /\ Written(made.of, made.by, made.operands, files[made.by.outf])
      /\ options \/ reads \/ done \/ ended
  BY <1>4 DEF RoundInv, OutputIsRead
<1>6. ASSUME options' \/ reads' \/ done' \/ ended' PROVE OutputIsRead'
  BY <1>3, <1>5, <1>6 DEF OutputIsRead
<1>7. reader \in {"-n", "-v", "-s", "-r", "-b"} /\ reader \in FieldOptions[prog] /\ reader # ""
  BY DEF RoundInv, FieldOptions, Programs
<1>8. here # <<>> /\ here[1] = made.by.outf /\ Tail(here) = <<>>
  OBVIOUS
<1>9. stage \in Ended => stage \notin {"options", "operands", "parse", "closed"}
  BY DEF Ended, Failures
<1>10. ~(stage \in Ended /\ ended)
  <2> SUFFICES ASSUME stage \in Ended PROVE FALSE
    OBVIOUS
  <2>1. stage \notin {"options", "operands", "parse", "closed"}
    BY <1>9
  <2> QED
    BY <1>2, <2>1 DEF TNext, ToolStep, Fault, FieldOption, Usage, OptionsParsed, OpenFile, OpenFails,
                      ParserStep, ParsingFails, PrintField, PrintsNull, AllPrinted, Returns,
                      ParserStarves
<1>11. CASE FieldOption
  <2>1. /\ stage = "options" /\ todo # <<>> /\ opts' = [opts EXCEPT !.field = Option]
        /\ todo' = Tail(todo) /\ UNCHANGED <<stage, operands, printed>>
    BY <1>11 DEF FieldOption, Parses
  <2>2. options /\ todo = <<[opt |-> reader, arg |-> NULL]>>
    BY <1>5, <2>1 DEF Ended, Failures
  <2>3. Option = reader /\ Tail(todo) = <<>>
    BY <2>2 DEF Option
  <2>4. opts'.field = reader
    BY <2>1, <2>3 DEF FailureInv, OptsShaped, NoOpts
  <2>5. options'
    BY <1>3, <2>1, <2>2, <2>3, <2>4
  <2> QED
    BY <1>6, <2>5
<1>12. ~Usage
  <2> SUFFICES ASSUME Usage PROVE FALSE
    OBVIOUS
  <2>1. /\ stage = "options"
        /\ \/ todo # <<>> /\ Option \notin FieldOptions[prog]
           \/ todo = <<>> /\ opts.field = ""
    BY DEF Usage
  <2>2. options
    BY <1>5, <2>1 DEF Ended, Failures
  <2>3. CASE todo = <<[opt |-> reader, arg |-> NULL]>>
    <3>1. Option = reader /\ todo # <<>>
      BY <2>3 DEF Option
    <3> QED
      BY <1>7, <2>1, <3>1
  <2>4. CASE todo = <<>> /\ opts.field = reader
    BY <1>7, <2>1, <2>4
  <2> QED
    BY <2>2, <2>3, <2>4
<1>13. CASE OptionsParsed
  <2>1. stage = "options" /\ todo = <<>> /\ stage' = "operands" /\ UNCHANGED <<operands, printed, opts>>
    BY <1>13 DEF OptionsParsed, Goes, cmdVars
  <2>2. options /\ opts.field = reader
    <3>1. options
      BY <1>5, <2>1 DEF Ended, Failures
    <3>2. todo # <<[opt |-> reader, arg |-> NULL]>>
      BY <2>1
    <3> QED
      BY <3>1, <3>2
  <2>3. reads'
    BY <1>3, <2>1, <2>2
  <2> QED
    BY <1>6, <2>3
<1>14. CASE OpenFile
  <2>1. stage = "operands" /\ operands # <<>> /\ stage' = "parse" /\ UNCHANGED <<operands, printed, opts>>
    BY <1>14 DEF OpenFile, cmdVars
  <2>2. reads
    BY <1>5, <2>1 DEF Ended, Failures
  <2>3. reads'
    BY <1>3, <2>1, <2>2
  <2> QED
    BY <1>6, <2>3
<1>15. ~OpenFails
  <2> SUFFICES ASSUME OpenFails PROVE FALSE
    OBVIOUS
  <2>1. stage = "operands" /\ operands # <<>> /\ operands[1] \notin DOMAIN files
    BY DEF OpenFails
  <2>2. reads
    BY <1>5, <2>1 DEF Ended, Failures
  <2> QED
    BY <1>5, <1>8, <2>1, <2>2
<1>16. CASE ParserStep
  <2>1. stage = "parse" /\ UNCHANGED <<stage, operands, printed, opts>>
    BY <1>16 DEF ParserStep, toolVars, cmdVars
  <2>2. reads
    BY <1>5, <2>1 DEF Ended, Failures
  <2>3. reads'
    BY <1>3, <2>1, <2>2
  <2> QED
    BY <1>6, <2>3
<1>17. CASE ParserStarves
  <2>1. stage = "parse" /\ stage' \in {"parse", "segv"} /\ UNCHANGED <<operands, printed, opts>>
    BY <1>17 DEF ParserStarves, cmdVars
  <2>2. starved'
    BY <1>17 DEF ParserStarves, Starves, FreesTwice, ParseStarves, ControlStarves
  <2>3. reads
    BY <1>5, <2>1 DEF Ended, Failures
  <2>4. reads' \/ ended'
    BY <1>3, <2>1, <2>2, <2>3 DEF Ended, Failures, Answered
  <2> QED
    BY <1>6, <2>4
<1>18. ASSUME stage = "parse"
       PROVE  /\ Parsing /\ reads /\ TheFile = files[made.by.outf]
              /\ IsPrintable(made) =>
                    /\ status = "failed" => starved
                    /\ status = "ok" =>
                        /\ NULL \notin ToSet(FieldLines(prog, opts.field, c))
                        /\ FieldLines(prog, opts.field, c) = Expected(made, reader)
  <2>1. reads
    BY <1>5, <1>18 DEF Ended, Failures
  <2>2. Parsing /\ TheFile = files[made.by.outf]
    BY <1>8, <1>18, <2>1 DEF Parsing, TheFile
  <2>3. opts.field = reader
    BY <2>1
  <2> QED
    BY <1>5, <2>1, <2>2, <2>3, OutputParsed
<1>19. CASE ParsingFails
  <2>1. stage = "parse" /\ status = "failed" /\ stage' = "1" /\ UNCHANGED <<starved, printed>>
    BY <1>19 DEF ParsingFails, Goes, controlVars, parseVars
  <2>2. ended'
    BY <1>3, <1>18, <2>1 DEF Ended, Failures, Answered
  <2> QED
    BY <1>6, <2>2
<1>20. CASE PrintField
  <2>1. /\ stage = "parse" /\ status = "ok" /\ stage' = "operands"
        /\ printed' = printed \o FieldLines(prog, opts.field, c)
        /\ operands' = Tail(operands) /\ UNCHANGED starved
    BY <1>20 DEF PrintField, controlVars, parseVars
  <2>2. operands' = <<>>
    BY <1>8, <1>18, <2>1
  <2>3. printed' = FieldLines(prog, opts.field, c)
    <3>1. FieldLines(prog, opts.field, c) \in Seq(Text)
      BY <1>20, FieldLinesTyped DEF ControlInv, PrintField
    <3>2. printed = <<>>
      BY <1>18, <2>1
    <3> DEFINE ls == FieldLines(prog, opts.field, c)
    <3>3. ls \in Seq(Text) /\ printed' = <<>> \o ls
      BY <2>1, <3>1, <3>2
    <3> HIDE DEF ls
    <3>4. printed' = ls
      BY <3>3
    <3> QED
      BY <3>4 DEF ls
  <2>4. IsPrintable(made) => printed' = Expected(made, reader)
    BY <1>18, <2>1, <2>3
  <2>5. done'
    BY <1>3, <2>1, <2>2, <2>4 DEF Answered
  <2> QED
    BY <1>6, <2>5
<1>21. CASE PrintsNull
  <2>1. /\ stage = "parse" /\ status = "ok" /\ stage' = "segv" /\ UNCHANGED starved
        /\ NULL \in ToSet(FieldLines(prog, opts.field, c))
    BY <1>21 DEF PrintsNull, Goes, controlVars, parseVars
  <2>2. ~IsPrintable(made)
    BY <1>18, <2>1
  <2>3. ended'
    BY <1>3, <2>1, <2>2 DEF Ended, Failures, Answered
  <2> QED
    BY <1>6, <2>3
<1>22. CASE AllPrinted
  <2>1. stage = "operands" /\ operands = <<>> /\ stage' = "0" /\ UNCHANGED <<starved, printed>>
    BY <1>22 DEF AllPrinted, Goes, controlVars, parseVars
  <2>2. Answered
    <3>1. ~reads
      BY <1>8, <2>1
    <3> QED
      BY <1>5, <2>1, <3>1 DEF Ended, Failures
  <2>3. ended'
    BY <1>3, <2>1, <2>2 DEF Ended, Failures, Answered
  <2> QED
    BY <1>6, <2>3
<1>23. ~Returns
  BY <1>5 DEF Returns, Ended, Failures
<1> QED
  BY <1>2, <1>11, <1>12, <1>13, <1>14, <1>15, <1>16, <1>17, <1>19, <1>20, <1>21, <1>22, <1>23
     DEF TNext, ToolStep, Fault

\* RoundInv is inductive, given the others.
LEMMA RoundStep ==
  ASSUME ControlInv, FailureInv, RoundInv, [TNext]_tvars
  PROVE  RoundInv'
<1>1. CASE UNCHANGED tvars
  <2>1. UNCHANGED <<prog, todo, operands, opts, reader, files, stage, printed, made, starved, c>>
    BY <1>1 DEF tvars, toolVars, cmdVars, controlVars, parseVars
  <2> QED
    BY <2>1 DEF RoundInv, OutputWritten, OutputIsRead, Answered
<1>2. CASE TNext
  <2>1. UNCHANGED reader
    <3>1. CASE FieldOption \/ VersionOption \/ BuiltFromOption \/ OutputOption \/ OutputOptionFails
                \/ BuiltFromStarves \/ Usage \/ OptionsParsed
      BY <3>1 DEF FieldOption, VersionOption, BuiltFromOption, OutputOption, OutputOptionFails,
                  BuiltFromStarves, Usage, OptionsParsed, Parses, Goes, cmdVars
    <3>2. CASE OpenFile \/ OpenFails \/ ParserStep \/ ParsingFails \/ PrintField \/ PrintsNull \/ AllPrinted
      BY <3>2 DEF OpenFile, OpenFails, ParserStep, ParsingFails, PrintField, PrintsNull, AllPrinted,
                  Goes, cmdVars, toolVars
    <3>3. CASE NotFound \/ UnnamedBin \/ PrintControl \/ Returns \/ ReadBack
      BY <3>3 DEF NotFound, UnnamedBin, PrintControl, Returns, ReadBack, Goes, cmdVars
    <3>4. CASE WriteCutShort \/ Killed \/ ParserStarves
      BY <3>4 DEF WriteCutShort, Killed, ParserStarves, cmdVars
    <3> QED
      BY <1>2, <3>1, <3>2, <3>3, <3>4 DEF TNext, ToolStep, Fault
  <2>2. OutputWritten'
    BY <1>2, WritingStep
  <2>3. OutputIsRead'
    BY <1>2, ReadingBegins, ReadingStep
  <2> QED
    BY <2>1, <2>2, <2>3 DEF RoundInv
<1> QED
  BY <1>1, <1>2

(***************************************************************************)
(* Whatever source file, options and package name gencontrol was given:    *)
(* when it has ended well and what it printed can be held by a control     *)
(* file, pkgcontrol prints exactly that, for each of its options           *)
(* (gencontrol.c:65-91, control.c:34-92, pkgcontrol.c:44-67).              *)
(***************************************************************************)
THEOREM WhatIsPrintedIsRead == TSpec => []RoundTrip
<1> DEFINE Inv == ControlInv /\ FailureInv /\ RoundInv
<1>1. TInit => Inv
  <2>1. TInit => FailureInv
    <3>1. NotMade.end = ""
      BY DEF NotMade
    <3>2. NoOpts.outf = Stdout /\ Stdout # NULL
      BY DEF NoOpts, Stdout, NULL
    <3> QED
      BY <3>1, <3>2 DEF TInit, FailureInv, OptsShaped, MadeOnce, OutputFailed, EmptyUntilWritten,
                        EmptyForReaders, Failures
  <2>2. TInit => RoundInv
    <3>1. NotMade.end = ""
      BY DEF NotMade
    <3> QED
      BY <3>1, ToolsAssumption DEF TInit, RoundInv, OutputWritten, OutputIsRead
  <2> QED
    BY <2>1, <2>2, ControlInvHolds
<1>2. Inv /\ [TNext]_tvars => Inv'
  BY ControlInvHolds, FailureStep, RoundStep
<1>3. Inv => RoundTrip
  <2> SUFFICES ASSUME Inv, prog = "pkgcontrol", stage \in Ended, made.end = "0", ~made.torn, ~starved,
                      IsPrintable(made)
               PROVE  stage = "0" /\ printed = Expected(made, reader)
    BY DEF RoundTrip
  <2>1. stage \notin {"options", "operands", "parse"}
    BY DEF Ended, Failures
  <2> QED
    BY <2>1 DEF RoundInv, OutputIsRead, Answered
<1> QED
  BY <1>1, <1>2, <1>3, PTL DEF TSpec

=============================================================================
