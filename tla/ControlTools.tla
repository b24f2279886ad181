---------------------------- MODULE ControlTools ----------------------------
(***************************************************************************)
(* tools/gencontrol.c, srccontrol.c and pkgcontrol.c, and the files they   *)
(* read and write.                                                         *)
(*                                                                         *)
(* gencontrol makes the control file of one binary package from that of    *)
(* its source; srccontrol and pkgcontrol print a field of each of several  *)
(* files.  When gencontrol has ended, whatever way, pkgcontrol is run on   *)
(* its output: the dependencies of a package are what it finds there.      *)
(***************************************************************************)
EXTENDS Control, FiniteSetsExt

CONSTANT Scenarios  \* initial choices of [prog, todo, operands, files, reader, faults]

Programs == {"gencontrol", "srccontrol", "pkgcontrol"}

\* The names that gencontrol prints.
Labels == {"Package", "Version", "Source", "Depends-Run", "Built-From"}

\* The options that ask for a field.
FieldOptions ==
    [p \in Programs |->
        CASE p = "gencontrol" -> {}
          [] p = "srccontrol" -> {"-n", "-v", "-b", "-u", "-s", "-p"}
          [] p = "pkgcontrol" -> {"-n", "-v", "-s", "-r", "-b"}]

ASSUME ToolsAssumption ==
    /\ Labels \subseteq Words
    /\ \A s \in Scenarios :
        /\ s.prog \in Programs
        /\ s.todo \in Seq([opt : STRING, arg : Text])
        /\ s.operands \in Seq(Text)
        /\ s.reader \in STRING /\ s.reader \in FieldOptions["pkgcontrol"]
        /\ \A f \in DOMAIN s.files : s.files[f] \in Seq(Text)
        /\ s.faults \in Nat

VARIABLES
    prog,       \* the running program
    todo,       \* options still to be parsed, records [opt, arg]
    operands,   \* the command line's operands still to be handled
    files,      \* files[name]: lines
    opts,       \* the static variables of the program, see NoOpts
    stage,      \* where main is, or its exit status
    printed,    \* what has gone to stdout
    reader,     \* the option pkgcontrol will be given
    faults,     \* bound on the faults still to come
    made        \* history: what gencontrol was asked for and how it ended, see NotMade

cmdVars == <<prog, todo, operands, opts, reader>>
toolVars == <<cmdVars, files, stage, printed, faults, made>>
tvars == <<controlVars, toolVars>>

Failures == {"1", "segv", "killed"}

Ended == {"0"} \cup Failures

Stdout == <<"stdout">>

NoOpts == [field |-> "", ver_mode |-> "keep", ver_param |-> NULL, outf |-> Stdout,
           bf_extra |-> <<>>]

NotMade == [by |-> NoOpts, of |-> NoSource, operands |-> <<>>, end |-> "", torn |-> FALSE]

-----------------------------------------------------------------------------
(***************************************************************************)
(* Lines as fprintf has them, and the "(null)" that it has for NULL.       *)
(***************************************************************************)
Str(text) == IF text = NULL THEN <<"(null)">> ELSE text

Labelled(label, text) == <<label, ":", " ">> \o text

\* Fault (against RoundTrip): entries of a list are not indented.
Unindented(text) == text

Indented(text) == <<" ", " ">> \o text

VersionOf(source, o) ==
    CASE o.ver_mode = "keep"     -> Str(source.version)
      [] o.ver_mode = "override" -> o.ver_param
      [] o.ver_mode = "append"   -> Str(source.version) \o o.ver_param

\* The control file that gencontrol prints for binary package sb.
ControlFile(source, sb, o) ==
    <<Labelled("Package", sb.package),
      Labelled("Version", VersionOf(source, o)),
      Labelled("Source", Str(source.source) \o <<" ">> \o Str(source.version)),
      <<"Depends-Run", ":">>>>
    \o [k \in DOMAIN sb.run_depend |-> Indented(sb.run_depend[k])]
    \o (IF o.bf_extra = <<>> THEN <<>> ELSE <<<<"Built-From", ":">>>>)
    \o [k \in DOMAIN o.bf_extra |->
            Indented(o.bf_extra[k].package \o <<" ">> \o o.bf_extra[k].version)]

Comma(first, second) == first \o <<",">> \o second

\* What srccontrol and pkgcontrol print of a record; puts(NULL) has no line.
FieldLines(p, f, r) ==
    CASE p = "srccontrol" /\ f = "-n" -> <<r.source>>
      [] p = "srccontrol" /\ f = "-v" -> <<r.version>>
      [] p = "srccontrol" /\ f = "-b" -> r.build_depend
      [] p = "srccontrol" /\ f = "-u" -> r.unpack_depend
      [] p = "srccontrol" /\ f = "-s" -> r.sources
      [] p = "srccontrol" /\ f = "-p" -> [k \in DOMAIN r.bins |-> r.bins[k].package]
      [] p = "pkgcontrol" /\ f = "-n" -> <<r.package>>
      [] p = "pkgcontrol" /\ f = "-v" -> <<r.version>>
      [] p = "pkgcontrol" /\ f = "-s" -> <<Comma(Str(r.src_package), Str(r.src_version))>>
      [] p = "pkgcontrol" /\ f = "-r" -> r.run_depend
      [] p = "pkgcontrol" /\ f = "-b" ->
            [k \in DOMAIN r.built_froms |-> Comma(r.built_froms[k].package, r.built_froms[k].version)]

-----------------------------------------------------------------------------
TInit ==
    /\ ControlInit
    /\ \E s \in Scenarios :
        /\ prog = s.prog /\ todo = s.todo /\ operands = s.operands
        /\ files = s.files /\ reader = s.reader /\ faults = s.faults
    /\ opts = NoOpts
    /\ stage = "options"
    /\ printed = <<>>
    /\ made = NotMade

Goes(where) ==
    /\ stage' = where
    /\ UNCHANGED <<controlVars, cmdVars, files, printed, faults, made>>

Option == Head(todo).opt
Arg == Head(todo).arg

Parses(newOpts) ==
    /\ opts' = newOpts
    /\ todo' = Tail(todo)
    /\ UNCHANGED <<controlVars, prog, operands, reader, stage, printed, faults, made>>

\* parse_params: one option of srccontrol or pkgcontrol.
FieldOption ==
    /\ stage = "options" /\ todo # <<>>
    /\ Option \in FieldOptions[prog]
    /\ Parses([opts EXCEPT !.field = Option])
    /\ UNCHANGED files

VersionOption ==
    /\ stage = "options" /\ todo # <<>>
    /\ prog = "gencontrol" /\ Option \in {"-v", "-V"}
    /\ Parses([opts EXCEPT !.ver_mode = IF Option = "-v" THEN "override" ELSE "append",
                           !.ver_param = Arg])
    /\ UNCHANGED files

BuiltFromOption ==
    /\ stage = "options" /\ todo # <<>>
    /\ prog = "gencontrol" /\ Option = "-b" /\ FirstOf(Arg, ",") # 0
    /\ Parses([opts EXCEPT !.bf_extra = Append(@,
                [package |-> Before(Arg, ","), version |-> After(Arg, ",")])])
    /\ UNCHANGED files

\* Fault (against FailureIsSeen): a file that is there is opened without being emptied.
OutputOptionKeeping ==
    /\ stage = "options" /\ todo # <<>>
    /\ prog = "gencontrol" /\ Option = "-o" /\ Arg # NULL
    /\ Parses([opts EXCEPT !.outf = Arg])
    /\ files' = [f \in DOMAIN files \cup {Arg} |-> IF f \in DOMAIN files THEN files[f] ELSE <<>>]

\* fopen(optarg, "w") empties the file, whatever becomes of the rest of the run.
OutputOption ==
    /\ stage = "options" /\ todo # <<>>
    /\ prog = "gencontrol" /\ Option = "-o" /\ Arg # NULL
    /\ Parses([opts EXCEPT !.outf = Arg])
    /\ files' = [f \in DOMAIN files \cup {Arg} |-> IF f = Arg THEN <<>> ELSE files[f]]

\* fopen fails, as it must for the empty name: the file, if there is one, stays as it was.
OutputOptionFails ==
    /\ stage = "options" /\ todo # <<>>
    /\ prog = "gencontrol" /\ Option = "-o"
    /\ IF Arg = NULL THEN UNCHANGED faults ELSE faults > 0 /\ faults' = faults - 1
    /\ opts' = [opts EXCEPT !.outf = NULL]
    /\ stage' = "1"
    /\ UNCHANGED <<controlVars, prog, todo, operands, reader, files, printed, made>>

\* malloc fails for the entry of a list.
BuiltFromStarves ==
    /\ faults > 0
    /\ stage = "options" /\ todo # <<>>
    /\ prog = "gencontrol" /\ Option = "-b" /\ FirstOf(Arg, ",") # 0
    /\ faults' = faults - 1
    /\ stage' = "1"
    /\ UNCHANGED <<controlVars, cmdVars, files, printed, made>>

\* An option that is not known or not well formed, or the operands are not as they should be.
Usage ==
    /\ stage = "options"
    /\ \/ /\ todo # <<>>
          /\ Option \notin FieldOptions[prog]
          /\ \/ prog # "gencontrol"
             \/ Option \notin {"-v", "-V", "-b", "-o"}
             \/ Option = "-b" /\ FirstOf(Arg, ",") = 0
       \/ /\ todo = <<>>
          /\ IF prog = "gencontrol" THEN Len(operands) # 2 ELSE opts.field = ""
    /\ Goes("1")

OptionsParsed ==
    /\ stage = "options" /\ todo = <<>>
    /\ IF prog = "gencontrol" THEN Len(operands) = 2 ELSE opts.field # ""
    /\ Goes("operands")

-----------------------------------------------------------------------------
KindOf(p) == IF p = "pkgcontrol" THEN "binary" ELSE "source"

OpenFile ==
    /\ stage = "operands" /\ operands # <<>>
    /\ operands[1] \in DOMAIN files
    /\ ParseControl(KindOf(prog), files[operands[1]])
    /\ stage' = "parse"
    /\ UNCHANGED <<cmdVars, files, printed, faults, made>>

\* srccontrol goes on without the file, and fails to parse it.
OpenFails ==
    /\ stage = "operands" /\ operands # <<>>
    /\ operands[1] \notin DOMAIN files
    /\ Goes("1")

ParserStep ==
    /\ stage = "parse"
    /\ ControlStep
    /\ UNCHANGED toolVars

ParsingFails ==
    /\ stage = "parse" /\ status = "failed"
    /\ Goes("1")

\* The field of one file; the program goes on to the next file.
PrintField ==
    /\ stage = "parse" /\ status = "ok" /\ prog # "gencontrol"
    /\ NULL \notin ToSet(FieldLines(prog, opts.field, c))
    /\ printed' = printed \o FieldLines(prog, opts.field, c)
    /\ operands' = Tail(operands)
    /\ stage' = "operands"
    /\ UNCHANGED <<controlVars, prog, todo, opts, reader, files, faults, made>>

\* puts(NULL).
PrintsNull ==
    /\ stage = "parse" /\ status = "ok" /\ prog # "gencontrol"
    /\ NULL \in ToSet(FieldLines(prog, opts.field, c))
    /\ Goes("segv")

AllPrinted ==
    /\ stage = "operands" /\ operands = <<>>
    /\ Goes("0")

-----------------------------------------------------------------------------
(***************************************************************************)
(* gencontrol: the loop over the binary packages stops at the first that   *)
(* has the name; strcmp(NULL, name) comes to nothing good.                 *)
(***************************************************************************)
Looking == stage = "parse" /\ status = "ok" /\ prog = "gencontrol"

StopsAtBin(k) ==
    /\ c.bins[k].package \in {operands[2], NULL}
    /\ \A j \in 1..(k - 1) : c.bins[j].package \notin {operands[2], NULL}

NotFound ==
    /\ Looking
    /\ \A k \in DOMAIN c.bins : c.bins[k].package \notin {operands[2], NULL}
    /\ Goes("1")

UnnamedBin ==
    /\ Looking
    /\ \E k \in DOMAIN c.bins : StopsAtBin(k) /\ c.bins[k].package = NULL
    /\ Goes("segv")

\* The file is smaller than stdio's buffer: fclose writes it.
PrintControl ==
    /\ Looking
    /\ \E k \in DOMAIN c.bins :
        /\ StopsAtBin(k)
        /\ c.bins[k].package # NULL
        /\ LET control == ControlFile(c, c.bins[k], opts) IN
            IF opts.outf = Stdout
            THEN printed' = control /\ UNCHANGED files
            ELSE files' = [files EXCEPT ![opts.outf] = control] /\ UNCHANGED printed
    /\ stage' = "closed"
    /\ UNCHANGED <<controlVars, cmdVars, faults, made>>

\* The list of -b is freed, and main returns.
Returns ==
    /\ stage = "closed"
    /\ Goes("0")

\* When writing fails (here: at the end of a line), nobody looks at what fprintf and fclose return.
WriteCutShort ==
    /\ faults > 0
    /\ Looking
    /\ opts.outf # Stdout
    /\ \E k \in DOMAIN c.bins :
        /\ StopsAtBin(k)
        /\ c.bins[k].package # NULL
        /\ LET control == ControlFile(c, c.bins[k], opts) IN
            \E n \in 0..(Len(control) - 1) :
                files' = [files EXCEPT ![opts.outf] = SubSeq(control, 1, n)]
    /\ stage' = "closed"
    /\ faults' = faults - 1
    /\ made' = [made EXCEPT !.torn = TRUE]
    /\ UNCHANGED <<controlVars, cmdVars, printed>>

Killed ==
    /\ faults > 0
    /\ prog = "gencontrol" /\ stage \notin Ended
    /\ stage' = "killed"
    /\ faults' = faults - 1
    /\ UNCHANGED <<controlVars, cmdVars, files, printed, made>>

ParserStarves ==
    /\ faults > 0
    /\ stage = "parse"
    /\ faults' = faults - 1
    /\ \/ Starves /\ UNCHANGED stage
       \/ FreesTwice /\ stage' = "segv"
    /\ UNCHANGED <<cmdVars, files, printed, made>>

\* The file that the last -o has named, also when it could not be opened.
Output == IF opts.outf = NULL THEN Arg ELSE opts.outf

\* pkgcontrol, or repo.c by the same function, reads what gencontrol has left.
ReadBack ==
    /\ prog = "gencontrol" /\ stage \in Ended
    /\ opts.outf # Stdout
    /\ made' = [made EXCEPT !.by = opts, !.of = c, !.end = stage, !.operands = operands]
    /\ prog' = "pkgcontrol"
    /\ todo' = <<[opt |-> reader, arg |-> NULL]>>
    /\ operands' = <<Output>>
    /\ opts' = NoOpts
    /\ stage' = "options"
    /\ printed' = <<>>
    /\ UNCHANGED <<controlVars, files, reader, faults>>

ToolStep ==
    \/ FieldOption \/ VersionOption \/ BuiltFromOption \/ OutputOption \/ Usage \/ OptionsParsed
    \/ OpenFile \/ OpenFails \/ ParserStep \/ ParsingFails
    \/ PrintField \/ PrintsNull \/ AllPrinted
    \/ NotFound \/ UnnamedBin \/ PrintControl \/ Returns
    \/ ReadBack

\* What may go wrong around a program; an empty name is its caller's own fault.
Fault == OutputOptionFails \/ BuiltFromStarves \/ WriteCutShort \/ Killed \/ ParserStarves

TNext == ToolStep \/ Fault

TSpec == TInit /\ [][TNext]_tvars

-----------------------------------------------------------------------------
Bins == [package : Text, run_depend : Seq(Text)]

BuiltFroms == [package : Text, version : Text]

Controls ==
    [package : Text, version : Text, src_package : Text, src_version : Text,
     run_depend : Seq(Text), built_froms : Seq(BuiltFroms)]

SourceControls ==
    [source : Text, version : Text, unpack_depend : Seq(Text), build_depend : Seq(Text),
     run_deps : Seq(Text), sources : Seq(Text), bins : Seq(Bins)]

\* Types of the parser's and the programs' state.
ToolsTypeOK ==
    /\ unread \in Seq(Text) /\ paras \in Seq(Seq(Field))
    /\ in_break \in BOOLEAN /\ starved \in BOOLEAN /\ status \in Statuses
    /\ IF kind = "binary" THEN c \in Controls ELSE c \in SourceControls
    /\ para \in 1..(Len(paras) + 1) /\ field \in Nat \ {0}
    /\ prog \in Programs
    /\ stage \in {"options", "operands", "parse", "closed"} \cup Ended
    /\ \A f \in DOMAIN files : files[f] \in Seq(Text)
    /\ opts.bf_extra \in Seq(BuiltFroms)
    /\ printed \in Seq(Text) /\ faults \in Nat

-----------------------------------------------------------------------------
(***************************************************************************)
(* What a control file says, by counting: a line with text belongs to the  *)
(* paragraph and the field as many as have begun by then.                  *)
(***************************************************************************)
Texts(lines) == {i \in DOMAIN lines : ~IsComment(lines[i]) /\ ~IsBlank(lines[i])}

Breaks(lines) == {i \in DOMAIN lines : ~IsComment(lines[i]) /\ IsBlank(lines[i])}

Starts(lines) ==
    {i \in Texts(lines) : \A j \in Texts(lines) : j < i =>
        \E k \in Breaks(lines) : j < k /\ k < i}

Heads(lines) == {i \in Texts(lines) : StartsField(lines[i])}

\* The paragraph of each line with text, and the names in that up to the line.
ParaAt(lines) ==
    LET starts == Starts(lines)
    IN  [i \in Texts(lines) |-> Rank(starts, i)]

HeadsAt(lines) ==
    LET para_at == ParaAt(lines)
        heads == Heads(lines)
    IN  [i \in Texts(lines) |-> {j \in heads : j <= i /\ para_at[j] = para_at[i]}]

Reading(lines) ==
    LET para_at == ParaAt(lines)
        heads_at == HeadsAt(lines)
    IN  [i \in Texts(lines) |->
            [para  |-> para_at[i],
             field |-> Cardinality(heads_at[i]),
             name  |-> IF heads_at[i] = {} THEN <<>> ELSE Before(lines[Max(heads_at[i])], ":"),
             text  |-> Trim(IF StartsField(lines[i]) THEN After(lines[i], ":") ELSE lines[i])]]

\* Parts of a reading, and what they say.
OfField(R, p, f) == {i \in DOMAIN R : R[i].para = p /\ R[i].field = f}
OfName(R, p, name) == {i \in DOMAIN R : R[i].para = p /\ R[i].name = <<name>>}
TextsAt(R, S) == AtPositions([i \in DOMAIN R |-> R[i].text], S)
Said(R, p, name) == TextsAt(R, {i \in OfName(R, p, name) : R[i].text # <<>>})
OnlySaid(R, p, name) == IF Said(R, p, name) = <<>> THEN NULL ELSE Said(R, p, name)[1]

Paragraphs(R) == {R[i].para : i \in DOMAIN R}

IsList(member) == member \in Lists \cup {"built_froms"}

NoColon(lines) == \E i \in Heads(lines) : FirstOf(lines[i], ":") = 0

WrongParagraphs(k, R) == DOMAIN R = {} \/ (k = "binary" /\ 2 \in Paragraphs(R))

Unexpected(k, R, i) ==
    R[i].field = 0 \/ R[i].name \notin {<<name>> : name \in DOMAIN FieldsOf(k, R[i].para)}

\* A line is not one that its field may have, or its field must not be given twice.
Unfit(k, R, i) ==
    LET member == FieldsOf(k, R[i].para)[R[i].name[1]]
        same == OfName(R, R[i].para, R[i].name[1])
        text == R[i].text
    IN
    \/ ~IsList(member) /\ (same # {i} \/ text = <<>>)
    \/ IsList(member) /\ text # <<>> /\ \E j \in same : R[j].field > R[i].field
    \/ member \in {"src_package", "built_froms"} /\ text # <<>> /\ ~HasSpace(text)

Malformed(k, lines) ==
    LET R == Reading(lines) IN
    \/ NoColon(lines)
    \/ WrongParagraphs(k, R)
    \/ \E i \in DOMAIN R : Unexpected(k, R, i) \/ Unfit(k, R, i)

\* Required fields: without them there is a NULL where a string is expected.
IsComplete(k, lines) ==
    LET R == Reading(lines) IN
    IF k = "binary" THEN \A f \in {"Package", "Version"} : Said(R, 1, f) # <<>>
    ELSE /\ \A f \in {"Source", "Version"} : Said(R, 1, f) # <<>>
         /\ \A p \in Paragraphs(R) \ {1} : Said(R, p, "Package") # <<>>

TheFile == files[operands[1]]

Parsing == stage = "parse"

(***************************************************************************)
(* controlparse.c's lists, grown at their ends line by line, are what the  *)
(* file says: comments vanish, also between the lines of a field, and      *)
(* blank lines separate paragraphs however many there are.                 *)
(***************************************************************************)
ParsesByCounting ==
    Parsing /\ status = "fields" /\ para = 1 /\ field = 1 =>
        LET R == Reading(TheFile) IN
        /\ \A i \in DOMAIN R :
            /\ R[i].para \in DOMAIN paras /\ R[i].field \in DOMAIN paras[R[i].para]
            /\ R[i].name = paras[R[i].para][R[i].field].name
        /\ \A p \in DOMAIN paras : \A f \in DOMAIN paras[p] :
            paras[p][f].lines = TextsAt(R, OfField(R, p, f))

(***************************************************************************)
(* control.c takes a file exactly if each line belongs to a field it knows *)
(* for the paragraph, and none is given twice, except a list that was      *)
(* empty before; what it refuses is not taken half-way (control.c:20-236). *)
(***************************************************************************)
AcceptsWellFormed ==
    Parsing /\ status \in {"ok", "failed"} /\ ~starved =>
        (status = "failed" <=> Malformed(kind, TheFile))

(***************************************************************************)
(* No name, version, dependency or source is lost or made up between the   *)
(* file and the record, and each binary package has the dependencies of    *)
(* its source as well, wherever they stand in the first paragraph          *)
(* (control.c:34-92, 120-236, 276-460).                                    *)
(***************************************************************************)
RecordSaysAll ==
    Parsing /\ status = "ok" =>
        LET R == Reading(TheFile) IN
        /\ c.version = OnlySaid(R, 1, "Version")
        /\ IF kind = "binary"
           THEN /\ c.package = OnlySaid(R, 1, "Package")
                /\ Said(R, 1, "Source") # <<>> =>
                       /\ c.src_package = Before(OnlySaid(R, 1, "Source"), " ")
                       /\ c.src_version = After(OnlySaid(R, 1, "Source"), " ")
                /\ c.run_depend = Said(R, 1, "Depends-Run")
                /\ LET froms == Said(R, 1, "Built-From") IN
                   c.built_froms = [k \in DOMAIN froms |->
                       [package |-> Before(froms[k], " "), version |-> After(froms[k], " ")]]
           ELSE /\ c.source = OnlySaid(R, 1, "Source")
                /\ c.build_depend = Said(R, 1, "Depends-Build")
                /\ c.unpack_depend = Said(R, 1, "Depends-Unpack")
                /\ c.sources = Said(R, 1, "Sources")
                /\ Paragraphs(R) = 1..(Len(c.bins) + 1)
                /\ \A b \in DOMAIN c.bins :
                       /\ c.bins[b].package = OnlySaid(R, b + 1, "Package")
                       /\ c.bins[b].run_depend =
                              Said(R, b + 1, "Depends-Run") \o Said(R, 1, "Depends-Run")

(***************************************************************************)
(* A file that has its required fields crashes none of the tools, in       *)
(* whatever order its paragraphs and fields are, while memory lasts        *)
(* (gencontrol.c:58, srccontrol.c:56, pkgcontrol.c:46).                    *)
(***************************************************************************)
CompleteNeverCrashes == stage = "segv" /\ ~starved => ~IsComplete(kind, TheFile)

IsWord(text) == text # <<>> /\ \A k \in DOMAIN text : text[k] \notin Spaces

\* Parameters of gencontrol that a control file can hold.
IsPrintable(m) ==
    /\ IsWord(m.of.source) /\ m.of.version # NULL
    /\ VersionOf(m.of, m.by) # <<>> /\ Trim(VersionOf(m.of, m.by)) = VersionOf(m.of, m.by)
    /\ \A bf \in ToSet(m.by.bf_extra) : IsWord(bf.package) /\ IsWord(bf.version)

BinOf(m) == m.of.bins[Min({k \in DOMAIN m.of.bins : m.of.bins[k].package = m.operands[2]})]

Expected(m, f) ==
    CASE f = "-n" -> <<m.operands[2]>>
      [] f = "-v" -> <<VersionOf(m.of, m.by)>>
      [] f = "-s" -> <<Comma(m.of.source, m.of.version)>>
      [] f = "-r" -> BinOf(m).run_depend
      [] f = "-b" -> [k \in DOMAIN m.by.bf_extra |->
                        Comma(m.by.bf_extra[k].package, m.by.bf_extra[k].version)]

(***************************************************************************)
(* What gencontrol writes, pkgcontrol reads back as it was meant: name,    *)
(* version, source, all dependencies in order, and the words given to -b.  *)
(***************************************************************************)
RoundTrip ==
    /\ prog = "pkgcontrol" /\ stage \in Ended
    /\ made.end = "0" /\ ~made.torn /\ ~starved
    /\ IsPrintable(made)
    => stage = "0" /\ printed = Expected(made, reader)

\* These lines are the control file of the first binary package of that name.
AskedFor(m, lines) ==
    \E k \in DOMAIN m.of.bins :
        /\ m.of.bins[k].package = m.operands[2]
        /\ \A j \in 1..(k - 1) : m.of.bins[j].package # m.operands[2]
        /\ lines = ControlFile(m.of, m.of.bins[k], m.by)

(***************************************************************************)
(* Once gencontrol has opened its output file, a run that fails, crashes   *)
(* or is killed leaves nothing there that pkgcontrol or the repository     *)
(* takes: not what was there before, and not a part of what was to be      *)
(* there, also when it is the very file that gencontrol was to read.  The  *)
(* one exception is a kill between fclose and exit, and then the file is   *)
(* the whole control file that was asked for (gencontrol.c:65-103, 123).   *)
(* A run whose fopen fails leaves the file as it was; a write that the     *)
(* system has cut short is not noticed at all.                             *)
(***************************************************************************)
FailureIsSeen ==
    /\ prog = "pkgcontrol" /\ made.end \in Failures
    /\ made.by.outf # NULL /\ ~made.torn
    /\ Parsing /\ status = "ok"
    => made.end = "killed" /\ AskedFor(made, TheFile)

=============================================================================
