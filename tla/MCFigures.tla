------------------------------ MODULE MCFigures ------------------------------
(***************************************************************************)
(* The computations of the service on every small input of their kind: the *)
(* workbook fill, which runs in passes, and the functions from pages,      *)
(* tables and readings to what is stored of them, each of which is one     *)
(* step from its input to its result.                                      *)
(***************************************************************************)
EXTENDS WorkbookFill, MCFindings

R == INSTANCE Regions
G == INSTANCE Grids WITH Labels <- {"a", "b", "u", "r"}, RowUnits <- {"r"}, Numbers <- {"1", "2"}, Dividers <- {"HT"}
T == INSTANCE Triage
B == INSTANCE Readers
E == INSTANCE Clauses
C == INSTANCE Channels
Q == INSTANCE RateRules
N == INSTANCE NetworkRules

figureVars == <<figure, fillVars>>

Tuples(S, n) == [1 .. n -> S]
UpTo(S, n) == UNION {Tuples(S, k) : k \in 0 .. n}

-----------------------------------------------------------------------------
(* The workbook: three cells on two sheets and three bindings.             *)

CONSTANTS c1, c2, c3

OnSheets == [c \in Cells |-> IF c = c3 THEN 2 ELSE 1]
CheckOf(b, c, r, t, p) == [binding |-> b, cell |-> c, reads |-> r, tie |-> t, primary |-> p]
OwnChecks(b) == {<<CheckOf(b, c, r, FALSE, "none")>> : c \in Cells, r \in {r \in SUBSET Cells : Cardinality(r) <= 1}}
WithTie(b) == OwnChecks(b) \cup {<<o[1], CheckOf(b, d, o[1].reads, TRUE, o[1].cell)>> : o \in OwnChecks(b), d \in Cells}
Elsewhere(b) == {<<CheckOf(b, c3, r, TRUE, "none")>> : r \in {{c1}, {c2}}}
SomePlans ==
    {p \in {p \o q \o s : p \in WithTie(1), q \in WithTie(2), s \in OwnChecks(3) \cup Elsewhere(3)} :
        \A i \in DOMAIN p : p[i].cell # p[i].primary /\ p[i].cell \notin p[i].reads}

-----------------------------------------------------------------------------
(* Orders of up to four pages.                                             *)

PageOf(h, i, cs, u) == [heading |-> h, image |-> i, contents |-> FALSE, cues |-> cs, utility |-> u]

SomePages ==
    {PageOf(h, FALSE, {}, "u") : h \in {"none", "schedule", "absent", "other"}}
    \cup {PageOf("none", FALSE, cs, "u") : cs \in {{"span"}, {"existing_tariff"}, {"span", "proposed_tariff"}, {"network_charges"}}}
    \cup {PageOf("none", TRUE, {}, "u"), PageOf("none", FALSE, {"illustrative"}, "v"),
          [PageOf("other", FALSE, {"span"}, "u") EXCEPT !.contents = TRUE]}

\* Their signals, and documents with a front matter in roman numerals whose footers show the labels,
\* but for those of some pages and one that shows a table's number.
Signals == [text : {"none", "sparse", "full"}, imageCovers : BOOLEAN, images : BOOLEAN, drawings : {"none", "some", "many"},
            rulings : BOOLEAN, columns : {FALSE}, smallGrid : BOOLEAN, prose : BOOLEAN, cover : BOOLEAN,
            quality : [glyphs : BOOLEAN, manyTokens : BOOLEAN, wordlike : BOOLEAN, inOrder : BOOLEAN]]
LabelOf(style, n) == [style |-> style, number |-> n]
Footer(labels) == <<<<>>, <<>>, <<LabelOf("decimal", 7)>>, <<>>, <<>>, labels, <<>>>>
Numbered(front, n) == [p \in 1 .. n |-> IF p <= front THEN LabelOf("roman", p) ELSE LabelOf("decimal", p - front)]
LabelledDocuments ==
    {[given |-> Numbered(f, 6), declared |-> [p \in 1 .. 6 |-> IF d THEN LabelOf("decimal", p) ELSE None],
      pages |-> [p \in 1 .. 6 |-> Footer(IF p = s THEN <<LabelOf("decimal", n)>> ELSE IF p \in bare THEN <<>> ELSE <<Numbered(f, 6)[p]>>)]] :
        f \in {0, 2, 3}, s \in 0 .. 6, n \in {2, 9}, bare \in SUBSET (1 .. 6), d \in BOOLEAN}

-----------------------------------------------------------------------------
(* Tables of three columns: one after a heading of each kind, and one torn by a page break.*)

HeadRows == {<<"a", "b", "u">>, <<"a", "r", "b">>, <<"", "b", "">>, <<"", "", "">>}
DataRows == {<<"a", "1", "">>, <<"a", "1", "2">>, <<"", "1", "">>, <<"", "", "2">>, <<"a", "", "">>, <<"b", "", "1">>,
             <<"HT", "", "">>, <<"a", "b", "1">>, <<"", "b", "2">>}
GridOf(page, header, rows) == [page |-> page, header |-> header, rows |-> rows]
Whole == {<<GridOf(1, 1, <<h>> \o rows)>> : h \in HeadRows, rows \in Tuples(DataRows, 3)}
TornRows == DataRows \ {<<"HT", "", "">>}
Torn == {<<GridOf(1, 1, <<<<"a", "b", "u">>, r, s>>), GridOf(2, 1, <<h, x, y>>)>> :
            h \in {<<"", "", "">>, <<"a", "b", "u">>}, r, s, x, y \in TornRows}

\* A cell and the texts around it, nearest first: header, row-unit column, title, footnote.
HintWords == {[unit |-> u, currency |-> c, percent |-> FALSE] : u, c \in {"none", "x"}}
Hints == HintWords \cup {[n EXCEPT !.unit = "y", !.currency = "y"] : n \in HintWords}
HintedCells == {[unit |-> n.unit, currency |-> n.currency, state |-> "value"] : n \in Hints}
           \cup {[unit |-> "none", currency |-> "none", state |-> t] : t \in {"zero", "percent"}}
Around == {<<h, r, t, n>> : h \in Hints \cup {[n EXCEPT !.percent = TRUE] : n \in HintWords}, r, t, n \in Hints}
Labels == {"up to and including b", "up to b", "first b", "next b", "above a", "above a to b", "a to b",
           "a and above", "from a", "more than a", "below b"}
SomeSlabs == {G!ParseSlab(l, a, a + d) : l \in Labels, a \in 1 .. 4, d \in 1 .. 2}

\* Rows of three cells as their rulings enclose them, and grids two readers found of one page.
RuledLine(t, n) == [text |-> t, numeric |-> n]
RuledCells == {<<RuledLine("", TRUE)>>, <<RuledLine("a", FALSE)>>, <<RuledLine("1", TRUE)>>, <<RuledLine("1", TRUE), RuledLine("2", TRUE)>>,
               <<RuledLine("3", TRUE), RuledLine("", TRUE)>>, <<RuledLine("a", FALSE), RuledLine("b", FALSE)>>,
               <<RuledLine("1", TRUE), RuledLine("2", TRUE), RuledLine("3", TRUE)>>}
RuledTables == {[header |-> h, rows |-> rows] : h \in {0, 1}, rows \in {<<r, s>> : r \in Tuples(RuledCells, 3), s \in Tuples({<<RuledLine("1", TRUE)>>, <<RuledLine("4", TRUE), RuledLine("5", TRUE)>>}, 3)}}
FoundGrids == {[shape |-> <<1 .. 1, 1 .. 5>>, header |-> 1, cells |-> [c \in (1 .. 1) \X (1 .. 5) |-> IF c[2] = 5 THEN t[2] ELSE t[1]], empty |-> t[1] = ""] :
                   t \in {<<"x", "x">>, <<"x", "y">>, <<"", "">>}}
FoundOverlaps == [1 .. 2 -> [1 .. 2 -> {0, 5, 7}]]
FoundPages == {[primary |-> p, secondary |-> s, overlap |-> o] : p, s \in Tuples(FoundGrids, 2), o \in FoundOverlaps}

\* Clauses of two categories: a heading, then up to four lines.
ClauseLine == [is |-> "text", number |-> <<>>, role |-> "none", lettered |-> FALSE, columns |-> FALSE, amounts |-> <<>>, refers |-> FALSE]
CategoryLine(n) == [ClauseLine EXCEPT !.is = "category", !.number = <<n>>]
ClauseLines ==
    {CategoryLine(2), [ClauseLine EXCEPT !.is = "PLUS"], [ClauseLine EXCEPT !.is = "ALTERNATIVELY"],
     [ClauseLine EXCEPT !.number = <<1, 1>>, !.role = "energy"], [ClauseLine EXCEPT !.number = <<1, 1, 1>>, !.amounts = <<"3">>],
     [ClauseLine EXCEPT !.lettered = TRUE], [ClauseLine EXCEPT !.amounts = <<"1", "2">>, !.role = "penalty"],
     [ClauseLine EXCEPT !.columns = TRUE], [ClauseLine EXCEPT !.lettered = TRUE, !.amounts = <<"4">>, !.refers = TRUE],
     [ClauseLine EXCEPT !.number = <<1, 2>>, !.role = "condition"]}
ClauseRegions == {<<CategoryLine(1)>> \o s : s \in Tuples(ClauseLines, 4)} \cup Tuples(ClauseLines, 2)

-----------------------------------------------------------------------------
(* Readings of one fact or two: up to three candidates of a channel.       *)

At(s, p) == [s EXCEPT !.places = {p}]
Lettered(l) == [letter |-> l, words |-> {l}]
Headline(words) == [letter |-> "none", words |-> words]
Blocks == {C!NoBlock, Lettered("(a)")}
Reading(label, b, unit, value, cell) ==
    [fact |-> "f", label |-> label, slab |-> {}, season |-> "none", block |-> b, page |-> 1, unit |-> unit,
     frequency |-> "none", value |-> value, sign |-> 0, cell |-> cell, places |-> {}]
Plainly == Reading({"x"}, C!NoBlock, "none", "1", TRUE)
SomeReadings ==
    {Reading(r, b, "none", "1", c) : r \in {{}, {"x"}, {"x", "y"}}, b \in Blocks, c \in BOOLEAN}
    \cup {Reading(r, C!NoBlock, "none", "2", c) : r \in {{}, {"x"}}, c \in BOOLEAN}
    \cup {[Plainly EXCEPT !.block = b] : b \in {Lettered("(b)"), [letter |-> "(b)", words |-> {"(b)", "(a)"}], Headline({"rate"}), Headline({"summer"})}}
    \cup {[Plainly EXCEPT !.season = s, !.cell = c] : s \in {"summer", "winter"}, c \in BOOLEAN}
    \cup {[Plainly EXCEPT !.label = {}, !.slab = {"x"}], [Plainly EXCEPT !.sign = -1], [Plainly EXCEPT !.frequency = "month", !.unit = "u"],
          Reading({"x"}, Lettered("(a)"), "w", "1", FALSE)}
Triples == {<<At(a, 1), At(b, 2), At(c, 3)>> : a, b, c \in SomeReadings}
Rows == {Reading(r, b, "none", "1", TRUE) : r \in {{"x"}, {"x", "y"}, {"z"}}, b \in Blocks \cup {Lettered("(b)")}}
        \cup {[Plainly EXCEPT !.block = Headline({"x", "summer"})], [Plainly EXCEPT !.season = "winter"], [Plainly EXCEPT !.label = {}, !.slab = {"x"}]}
Side(n) == {[k \in DOMAIN s |-> At(s[k], n + k)] : s \in UpTo(Rows, 2)}
Comparisons ==
    LET pair(a, b, p) == <<At(a, p), At(b, p), C!Agreement(a, b)>>
        small == {Reading(r, b, "none", v, c) : r \in {{"x"}, {"x", "y"}}, b \in Blocks, v \in {"1", "2"}, c \in BOOLEAN}
                 \cup {[Plainly EXCEPT !.season = s] : s \in {"summer", "winter"}}
    IN [n \in 1 .. 3 |-> {pair(a, a, n) : a \in small} \cup {<<At(a, n), C!NoFact, "one_missing">> : a \in small}]

Dedupable == {<<a, b, c>> : a \in Comparisons[1], b \in Comparisons[2], c \in Comparisons[3]}
SomeRegions == {[role |-> r, start |-> s, end |-> s + d, excluded |-> x] :
                   r \in {"approved_schedule", "network_charges", "illustrative"}, s \in 1 .. 2, d \in 0 .. 1, x \in BOOLEAN}
SomeGrids == {[role |-> r, page |-> p] : r \in {"approved_schedule", "network_charges", "illustrative"}, p \in 1 .. 3}
Judgements == [agreement : {"agree", "disagree", "one_missing", "single_channel"},
               flags : SUBSET {"unit_unresolved", "nil_word", "header_continued"},
               context : SUBSET {"fields_missing", "new_profile"},
               verdict : {"supported", "contradicted", "not_assessed"}, confident : BOOLEAN, grounded : BOOLEAN]
Tags(j) == C!AssessmentTags(j.verdict, j.confident, j.grounded)
ImageReads == [pages : 1 .. 5, perCall : 1 .. 3, long : SUBSET (1 .. 5), limit : 0 .. 12]

\* A page of two tables, each of a column under a line that may letter a block or end the search for
\* one; and one whose first column may be the numbers of its rows.  A clause may print a rate again.
Label(k, words) == [kind |-> k, words |-> words]
PageLine(k, block, words) == [kind |-> k, block |-> block, words |-> words, digits |-> words \cap {"2", "3", "4", "6", "9"} # {}]
Above == {PageLine("lettered", "a", {"a"}), PageLine("lettered", "b", {"b", "x"}), PageLine("stop", "none", {"rate"}), PageLine("text", "none", {"x"})}
CellOf(grid, row, col, heading, r) ==
    [page |-> 1, grid |-> grid, row |-> row, col |-> col, header |-> <<Label("name", heading)>>, rows |-> <<Label("name", {r.label})>>, raw |-> r.raw,
     state |-> r.state, number |-> r.number, currency |-> "none", unit |-> IF heading = {} THEN "none" ELSE "kWh",
     frequency |-> "none", sign |-> 0, footnotes |-> {}]
RowLines(rows) == [n \in DOMAIN rows |-> PageLine("row", "none", {rows[n].label, rows[n].raw})]
RowCells(grid, col, heading, rows) == {CellOf(grid, n, col, heading, rows[n]) : n \in DOMAIN rows}
OfHalves(n) == [label |-> "x", raw |-> ToString(n), state |-> "value", number |-> n]
RateRows == {OfHalves(2), OfHalves(3), [OfHalves(2) EXCEPT !.label = "y"], [label |-> "y", raw |-> "nil", state |-> "unknown", number |-> 0],
             [label |-> "x", raw |-> "see", state |-> "cross_reference", number |-> 0]}
Energy(n, b) ==
    [page |-> 1, line |-> 9, category |-> "A", kind |-> "rate", role |-> "energy", words |-> {"energy"}, slab |-> {},
     path |-> <<[letter |-> "none", words |-> {"rate"}], [letter |-> b, words |-> {"x"} \cup ({b} \ {"none"})]>>,
     state |-> "value", number |-> n, unit |-> "kWh", frequency |-> "none", sign |-> 0]
Sentence == [says |-> {"approved_zero", "banking_by_reference"}, losses |-> <<[level |-> {"EHV"}, value |-> "4"]>>, transmissions |-> <<>>]
RateOrder(lines, cells, clauses, start) ==
    [texts |-> <<lines>>, cells |-> cells, clauses |-> clauses, prose |-> <<<<Sentence>>>>, role |-> "approved_schedule",
     headings |-> <<[page |-> 1, code |-> "A"]>>, codes |-> {"A"}, start |-> start]
RateOrders ==
    {RateOrder(<<p>> \o RowLines(r) \o <<q>> \o RowLines(s), RowCells(0, 1, {"energy"}, r) \cup RowCells(1, 1, {"energy"}, s), v,
               0 :> 2 @@ 1 :> 3 + Len(r)) :
        p, q \in Above, r \in Tuples(RateRows, 2), s \in Tuples(RateRows, 1),
        v \in {<<>>, <<Energy(2, "a")>>, <<Energy(3, "none"), [Energy(2, "none") EXCEPT !.kind = "condition"]>>}}
    \cup {RateOrder(<<p>> \o RowLines(r), RowCells(0, 1, h, r) \cup RowCells(0, 2, {"energy"}, [n \in 1 .. 3 |-> OfHalves(9)]), <<>>, 0 :> 2) :
              p \in Above, h \in {{}, {"fixed"}}, r \in Tuples({OfHalves(n) : n \in {2, 3, 4, 6}}, 3)}

\* A region with a table of the surcharge's parameters, one that approves it, and another table.
Naming(words, symbol, code, level) ==
    [kind |-> "name", words |-> words, symbol |-> symbol, code |-> code, level |-> level, text |-> IF code = "none" THEN "other" ELSE code]
Word(words) == Naming(words, "none", "none", "none")
Network(grid, row, col, header, rows, unit) ==
    [page |-> 1, grid |-> grid, row |-> row, col |-> col, header |-> <<header>>, rows |-> rows, state |-> "value",
     number |-> 9 * grid + 3 * row + col, currency |-> "rupees", unit |-> unit, footnotes |-> {}]
Headed == <<Naming({"tariff"}, "none", "none", "none"), Naming({}, "L", "none", "none"), Naming({"computed surcharge"}, "none", "none", "none")>>
KeyLabel(k) == <<Naming({}, "none", k[1], "none"), Naming({}, "none", "none", k[2])>>
ParameterTable(keys, printed) ==
    {Network(0, r, c, Headed[c], KeyLabel(keys[r]), IF c = 2 THEN "percent" ELSE "none") : r \in 1 .. 2, c \in 1 .. 2}
    \cup {Network(0, r, 3, Headed[3], KeyLabel(keys[r]), "none") : r \in printed}
Worded(label) == <<[label[1] EXCEPT !.text = "A industry"], label[2]>>
ApprovedTable(label) == {Network(1, 1, c, Word(IF c = 2 THEN {"last year"} ELSE {"approved", "cross subsidy"}), label, "kWh") : c \in 1 .. 3}
OtherTables ==
    {{Network(2, r, 1, Word({"loss"}), <<Word({"year"})>>, "percent") : r \in 1 .. 2},
     {Network(2, 1, 1, Word({}), <<Word({"wheeling charge", "charge"})>>, "kWh"), Network(2, 2, 1, Word({}), <<Word({"arr"})>>, "none"),
      Network(2, 3, 1, Word({}), <<Word({"sales"})>>, "none")},
     {Network(2, 1, 1, Word({"additional surcharge", "crore"}), <<Word({"unit"})>>, "none")},
     {Network(2, 1, c, Word({}), <<Naming({"cap"}, "none", "none", "33")>>, "percent") : c \in 1 .. 2}}
CodesAndLevels == {<<"A", "33">>, <<"A", "none">>, <<"none", "33">>, <<"B", "33">>}
NetworkOrders ==
    {[cells |-> ParameterTable(keys, printed) \cup ApprovedTable(label) \cup other, role |-> role, subRole |-> "oa_loss", prose |-> <<<<Sentence>>>>] :
        keys \in Tuples(CodesAndLevels \cup {<<"none", "none">>}, 2), printed \in SUBSET (1 .. 2),
        label \in {KeyLabel(k) : k \in CodesAndLevels} \cup {Worded(KeyLabel(<<"A", l>>)) : l \in {"33", "none"}},
        other \in OtherTables, role \in {"network_charges", "loss_trajectory"}}

\* Pages of sentences before, on and after the first schedule, and a clause that is a condition.
Saying(words) == [says |-> words, premiums |-> IF "green" \in words THEN {[scope |-> "HV", value |-> "3"]} ELSE {}, codes |-> {"A"}]
SomeSentences == {Saying({}), Saying({"provision"}), Saying({"green"}), Saying({"discount_excluded"}), Saying({"green", "provision"})}
ConditionOrders ==
    {[prose |-> <<a, b>>, headings |-> h, clauses |-> v, cells |-> RowCells(0, 1, {"energy"}, <<OfHalves(2)>>)] :
        a, b \in UpTo(SomeSentences, 2), h \in {<<>>, <<[page |-> 1]>>, <<[page |-> 2]>>},
        v \in {<<>>, <<[Energy(2, "none") EXCEPT !.kind = "condition"]>>}}

-----------------------------------------------------------------------------

Idle ==
    /\ plan = <<>> /\ entered = [c \in Cells |-> Blank] /\ book = entered /\ owner = [c \in Cells |-> 0]
    /\ kind = [c \in Cells |-> "none"] /\ pass = 1 /\ at = 1 /\ seen = <<>> /\ touched = {} /\ conflicts = {} /\ noted = {} /\ finished = TRUE

FiguresInit ==
    \/ Idle /\ (FindingsInit \/ \E part \in {"pages", "facts"} : figure = [of |-> "none", part |-> part])
    \/ FillInit /\ figure = [of |-> "fill"]

ReadPages ==
    \/ Compute("regions", UpTo(SomePages, 4), LAMBDA pages : R!Localise(pages))
    \/ Compute("grids", Whole \cup Torn, LAMBDA grids : G!AnalyseGrids(grids))
    \/ Compute("units", HintedCells \X Around, LAMBDA x : G!BindUnit(x[1], x[2]))
    \/ Compute("signals", Signals, LAMBDA sig : T!ClassifyPage(sig))
    \/ Compute("labels", LabelledDocuments, LAMBDA d : T!TriageDocument(d.pages, d.declared))
    \/ Compute("tall", RuledTables, LAMBDA t : <<B!ResplitTallRows(t.header, t.rows), B!ReadRows(t.header, t.rows)>>)
    \/ Compute("paired", FoundPages, LAMBDA f : <<B!ScoreAgreement(f.primary, f.secondary, f.overlap, 5),
                                                  B!PreferStrict(f.primary, f.secondary, f.overlap)>>)
    \/ Compute("clauses", ClauseRegions, LAMBDA lines : E!Reconstruct(lines))
    \/ Compute("slabs", Tuples(SomeSlabs, 2), LAMBDA bounds : G!CheckSlabSequence(bounds))

ReadFacts ==
    \/ Compute("merge", Triples, LAMBDA cs : C!MergeDuplicates(cs))
    \/ Compute("compare", Side(0) \X Side(2), LAMBDA x : C!CompareChannels(x[1], x[2], TRUE))
    \/ Compute("dedupe", Dedupable, LAMBDA x : C!DedupeCompared(x))
    \/ Compute("rates", RateOrders, LAMBDA o : Q!RulesExtract(o))
    \/ Compute("network", NetworkOrders, LAMBDA o : N!NetworkExtract(o))
    \/ Compute("conditions", ConditionOrders, LAMBDA o : <<N!ExtractConditions(o), N!GreenTariffProse(o.prose)>>)
    \/ Compute("route", Judgements, LAMBDA j : C!Assessed(C!Route(j.agreement, j.flags, j.context), Tags(j)))
    \/ Compute("claims", Tuples(SomeRegions, 2), LAMBDA rs : C!Claims(rs, SomeGrids))
    \/ Compute("image", ImageReads, LAMBDA r : C!ReadImage(r.pages, r.perCall, r.long, r.limit))

FiguresNext ==
    \/ Is("fill") /\ FillNext /\ UNCHANGED figure
    \/ Begins("pages") /\ UNCHANGED fillVars /\ ReadPages
    \/ Begins("facts") /\ UNCHANGED fillVars /\ ReadFacts
    \/ UNCHANGED fillVars /\ FindingsNext

FiguresSpec == FiguresInit /\ [][FiguresNext]_figureVars

-----------------------------------------------------------------------------
(* Properties.                                                             *)

\* The regions localise proposes are what the cues of the pages allow, and
\* cells, units and slabs of a table are what is printed, merged, split and
\* torn tables included (localisation.py, grid_integrity.py, normalise.py).
PagesAsPrinted ==
    /\ Is("regions") => R!RegionsHold(figure.input, figure.result)
    /\ Is("grids") => /\ \A i \in DOMAIN figure.input : G!GridHolds(figure.input[i], figure.result[i])
                      /\ G!TornHolds(figure.input, figure.result)
    /\ Is("signals") => T!ClassHolds(figure.input, figure.result)
    /\ Is("labels") => T!LabelsHold(figure.input.given, figure.result.shown, figure.result.rule, figure.result.labels)
    /\ Is("tall") => /\ B!SplitHolds(figure.input.rows, figure.input.header, figure.result[1])
                     /\ B!SplitHolds(B!NormaliseRows(figure.input.rows), figure.input.header, figure.result[2])
    /\ Is("paired") => LET f == figure.input IN
                       /\ B!AgreementHolds(f.primary, f.secondary, f.overlap, 5, figure.result[1])
                       /\ B!StrictHolds(f.primary, f.secondary, f.overlap, figure.result[2])
    /\ Is("clauses") => E!ClausesHold(figure.input, figure.result)
    /\ Is("units") => G!UnitHolds(figure.input[1], figure.input[2], figure.result)
    /\ Is("slabs") => G!SlabsHold(figure.input, figure.result)

\* Of the two readings of an order nothing printed is lost, invented or
\* counted twice, and only what is beyond doubt is routed to a batch
\* (extraction.py, assessment.py, stages/extract.py).
ReadingsKept ==
    /\ Is("merge") => C!MergeHolds(figure.input, figure.result)
    /\ Is("compare") => C!CompareHolds(figure.input[1], figure.input[2], figure.result)
    /\ Is("dedupe") => C!DedupeHolds(figure.input, figure.result)
    /\ Is("rates") => Q!RatesHold(figure.input, figure.input.start, figure.result)
    /\ Is("network") => N!NetworkHolds(figure.input, figure.result)
    /\ Is("conditions") => N!ConditionsHold(figure.input, figure.result[1], figure.result[2])
    /\ Is("route") => LET j == figure.input IN C!BatchHolds(j.agreement, j.flags, j.context, Tags(j), figure.result)
    /\ Is("claims") => C!ClaimsHold(figure.input, SomeGrids, figure.result)
    /\ Is("image") => C!ImageHolds(figure.input.pages, figure.input.limit, figure.result)
=============================================================================
