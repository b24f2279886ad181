------------------------------ MODULE Control -------------------------------
(***************************************************************************)
(* tools/control.c: from the paragraphs of a control file to the record of *)
(* a binary package (control_parsefd) or of a source package with the      *)
(* binary packages it is built into (source_control_parsefd).              *)
(***************************************************************************)
EXTENDS ControlParse, FiniteSets

VARIABLES
    kind,       \* what is parsed: "binary" or "source"
    c,          \* the record, see NoControl and NoSource
    para,       \* the paragraph the loop is at
    field       \* and the field

controlVars == <<parseVars, kind, c, para, field>>

\* A string that has not been set; one that has is never empty.
NULL == <<>>

NoControl == [package |-> NULL, version |-> NULL, src_package |-> NULL, src_version |-> NULL,
              run_depend |-> <<>>, built_froms |-> <<>>]

\* run_deps is a local variable of source_control_parsefd.
NoSource == [source |-> NULL, version |-> NULL, unpack_depend |-> <<>>, build_depend |-> <<>>,
             run_deps |-> <<>>, sources |-> <<>>, bins |-> <<>>]

NoBin == [package |-> NULL, run_depend |-> <<>>]

\* Which member of which record a field is parsed into.
ControlFields ==
    [name \in {"Depends-Run", "Built-From", "Package", "Version", "Source"} |->
        CASE name = "Depends-Run" -> "run_depend"
          [] name = "Built-From"  -> "built_froms"
          [] name = "Package"     -> "package"
          [] name = "Version"     -> "version"
          [] name = "Source"      -> "src_package"]

SourceFields ==
    [name \in {"Depends-Build", "Depends-Unpack", "Depends-Run", "Sources", "Source", "Version"} |->
        CASE name = "Depends-Build"  -> "build_depend"
          [] name = "Depends-Unpack" -> "unpack_depend"
          [] name = "Depends-Run"    -> "run_deps"
          [] name = "Sources"        -> "sources"
          [] name = "Source"         -> "source"
          [] name = "Version"        -> "version"]

BinFields ==
    [name \in {"Depends-Run", "Package"} |->
        IF name = "Depends-Run" THEN "run_depend" ELSE "package"]

FieldsOf(k, p) ==
    IF k = "binary" THEN ControlFields ELSE IF p = 1 THEN SourceFields ELSE BinFields

Lists == {"run_depend", "build_depend", "unpack_depend", "run_deps", "sources"}

\* The elements of seq at these positions, in order.
Rank(positions, k) == Cardinality({j \in positions : j <= k})
AtPositions(seq, positions) ==
    [n \in 1..Cardinality(positions) |-> seq[CHOOSE k \in positions : Rank(positions, k) = n]]

NonEmpty(lines) == AtPositions(lines, {k \in DOMAIN lines : lines[k] # <<>>})

HasSpace(text) == FirstOf(text, " ") # 0

IsSingleLine(lines) == Len(lines) = 1 /\ lines[1] # <<>>

\* Fault (against AcceptsWellFormed): a field that is given again replaces what it said before.
CanParseAgain(member, old, lines) ==
    /\ member = "built_froms" => \A l \in ToSet(NonEmpty(lines)) : HasSpace(l)
    /\ member = "src_package" => IsSingleLine(lines) /\ HasSpace(lines[1])
    /\ member \in {"package", "version", "source"} => IsSingleLine(lines)

\* parse_deplist, parse_sourcelist, parse_builtfromlist, parse_source, parse_singleline.
CanParse(member, old, lines) ==
    /\ old = <<>>
    /\ member = "built_froms" => \A l \in ToSet(NonEmpty(lines)) : HasSpace(l)
    /\ member = "src_package" => IsSingleLine(lines) /\ HasSpace(lines[1])
    /\ member \in {"package", "version", "source"} => IsSingleLine(lines)

Set(record, member, lines) ==
    CASE member \in Lists        -> [record EXCEPT ![member] = NonEmpty(lines)]
      [] member = "built_froms"  ->
            LET l == NonEmpty(lines) IN
            [record EXCEPT !.built_froms =
                [k \in DOMAIN l |-> [package |-> Before(l[k], " "), version |-> After(l[k], " ")]]]
      [] member = "src_package"  -> [record EXCEPT !.src_package = Before(lines[1], " "),
                                                   !.src_version = After(lines[1], " ")]
      [] OTHER                   -> [record EXCEPT ![member] = lines[1]]

-----------------------------------------------------------------------------
ControlInit ==
    /\ ParseInit
    /\ kind = "source"
    /\ c = NoSource
    /\ para = 1
    /\ field = 1

\* Fault (against ToolsTypeOK): allocated with the size of the wrong struct.
ParseControlUndersized(k, lines) ==
    /\ ParseFile(lines)
    /\ kind' = k
    /\ c' = NoControl
    /\ para' = 1
    /\ field' = 1

\* control_parsefd or source_control_parsefd is called.
ParseControl(k, lines) ==
    /\ ParseFile(lines)
    /\ kind' = k
    /\ c' = IF k = "binary" THEN NoControl ELSE NoSource
    /\ para' = 1
    /\ field' = 1

ControlFails ==
    /\ status' = "failed"
    /\ UNCHANGED <<unread, paras, in_break, kind, c, para, field>>

AtField == status = "fields" /\ para \in DOMAIN paras /\ field \in DOMAIN paras[para]

InBin == kind = "source" /\ para > 1

\* The record that the fields of this paragraph are parsed into.
Target == IF InBin THEN Last(c.bins) ELSE c

pf == paras[para][field]

IsExpected == Len(pf.name) = 1 /\ pf.name[1] \in DOMAIN FieldsOf(kind, para)

Member == FieldsOf(kind, para)[pf.name[1]]

\* More or fewer paragraphs than there may be.
ParagraphsFail ==
    /\ status = "fields"
    /\ paras = <<>> \/ (kind = "binary" /\ Len(paras) # 1)
    /\ ControlFails
    /\ UNCHANGED starved

\* One iteration of a loop over the fields of a paragraph.
ParseField ==
    /\ AtField
    /\ kind = "binary" => Len(paras) = 1
    /\ IsExpected
    /\ CanParse(Member, Target[Member], pf.lines)
    /\ LET record == Set(Target, Member, pf.lines)
       IN  c' = IF InBin THEN [c EXCEPT !.bins = OnLast(@, record)] ELSE record
    /\ field' = field + 1
    /\ UNCHANGED <<parseVars, kind, para>>

FieldFails ==
    /\ AtField
    /\ kind = "binary" => Len(paras) = 1
    /\ IsExpected => ~CanParse(Member, Target[Member], pf.lines)
    /\ ControlFails
    /\ UNCHANGED starved

\* Fault (against RecordSaysAll): run_deps goes to the first binary package only.
WithRunDepsOnce ==
    IF para # 2 THEN c
    ELSE LET bin == Last(c.bins)
         IN  [c EXCEPT !.bins = OnLast(@, [bin EXCEPT !.run_depend = @ \o c.run_deps])]

\* A binary package has the dependencies of its source behind its own.
WithRunDeps ==
    IF para = 1 THEN c
    ELSE LET bin == Last(c.bins)
         IN  [c EXCEPT !.bins = OnLast(@, [bin EXCEPT !.run_depend = @ \o c.run_deps])]

\* The fields of a paragraph are parsed; the next one is a binary package.
NextParagraph ==
    /\ status = "fields" /\ kind = "source"
    /\ para < Len(paras) /\ field > Len(paras[para])
    /\ c' = [WithRunDeps EXCEPT !.bins = Append(@, NoBin)]
    /\ para' = para + 1
    /\ field' = 1
    /\ UNCHANGED <<parseVars, kind>>

\* Fault (against CompleteNeverCrashes): a record is made for a paragraph behind the last.
LastParagraphExtra ==
    /\ status = "fields"
    /\ para = Len(paras) /\ field > Len(paras[para])
    /\ c' = IF kind = "source" THEN [WithRunDeps EXCEPT !.bins = Append(@, NoBin)] ELSE c
    /\ status' = "ok"
    /\ UNCHANGED <<unread, paras, in_break, starved, kind, para, field>>

LastParagraph ==
    /\ status = "fields"
    /\ para = Len(paras) /\ field > Len(paras[para])
    /\ c' = IF kind = "source" THEN WithRunDeps ELSE c
    /\ status' = "ok"
    /\ UNCHANGED <<unread, paras, in_break, starved, kind, para, field>>

\* An allocation fails in control.c.
ControlStarves ==
    /\ status = "fields"
    /\ ControlFails
    /\ starved' = TRUE

\* The second strdup of parse_source: what the first has returned is freed here and in
\* control_destroy, and the allocator may end the program over that.
FreesTwice ==
    /\ AtField /\ kind = "binary" /\ Len(paras) = 1
    /\ IsExpected /\ Member = "src_package"
    /\ CanParse(Member, Target[Member], pf.lines)
    /\ ControlStarves

ControlStep ==
    \/ ParseStep /\ UNCHANGED <<kind, c, para, field>>
    \/ ParagraphsFail
    \/ ParseField
    \/ FieldFails
    \/ NextParagraph
    \/ LastParagraph

Starves ==
    \/ ParseStarves /\ UNCHANGED <<kind, c, para, field>>
    \/ ControlStarves

=============================================================================
