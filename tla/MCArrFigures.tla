---------------------------- MODULE MCArrFigures ----------------------------
(***************************************************************************)
(* The computations of MCFigures with those of the ARR side, each on every *)
(* small input of its kind: rules, formulations and decisions, and what    *)
(* reads an ARR order, its chapters, its tables, the lines its labels name *)
(* and the workbench on which reviewers decide the labels that name none.  *)
(* With them run the case they serve, which people work at in requests,    *)
(* and what reviewers were shown of the candidates they decide on.  A      *)
(* behaviour is one of one part.                                           *)
(***************************************************************************)
EXTENDS MCFigures, TrueUp, Evidence

CONSTANTS u1, u2

arrVars == <<figureVars, vars>>
readingVars == <<arrVars, evidenceVars>>

P == INSTANCE Reproduction
F == INSTANCE Formulation
D == INSTANCE Decisions

UserSymmetry == Permutations(Users)

-----------------------------------------------------------------------------
(* Rules: one of two inputs in every pair of units, and three of a year.   *)

Name(n) == [op |-> "name", name |-> n]
Number(v) == [op |-> "number", value |-> v]
Op(op, args) == [op |-> op, args |-> args]
Formulas ==
    {Op(o, <<Name(1), Name(2)>>) : o \in {"+", "-", "*", "/", "max", "min"}}
    \cup {Op("ifneg", <<Name(1), Name(2), t>>) : t \in {Name(1), Name(2), Op("neg", <<Name(1)>>)}}
    \cup {Op("/", <<Op("+", <<Name(1), Name(1)>>), Name(2)>>), Op("*", <<Number(2), Op("+", <<Name(1), Name(2)>>)>>)}

Input(unit, source, value) == [unit |-> unit, source |-> source, value |-> value]
Rule(o, unit, formula, inputs, per) ==
    [id |-> o, output |-> o, version |-> 1, status |-> "approved", from |-> 1, to |-> 1, unit |-> unit,
     formula |-> formula, inputs |-> inputs, rounded |-> FALSE, per |-> per]

SomeUnits == {"INR", "MU", "INR_per_kWh", "number"}
Dimensioned ==
    {[rule |-> Rule(1, u, f, <<Input(v, P!Source("record", 1), None), Input(w, P!Source("record", 2), None)>>, FALSE),
      values |-> <<x, y>>, divides |-> f.op = "/"] :
        f \in Formulas, u, v, w \in SomeUnits, x \in {-1, 2}, y \in {-1, 0, 2}}

Taking(o, per, sources) ==
    Rule(o, "INR", IF Len(sources) = 1 THEN Name(1) ELSE Op("+", <<Name(1), Name(2)>>),
         [n \in DOMAIN sources |-> Input("INR", sources[n], None)], per)
Amount(v) == [value |-> v, unit |-> "INR"]
Nine == P!Source("record", 9)
FromRule(o) == P!Source("rule", o)
FromSum(o) == P!Source("sum", o)
RuleSets ==
    {rs \in {<<Taking(1, p, <<a>>), Taking(2, q, <<b>>), Taking(3, r, <<c, d>>)>> :
                p, q, r \in BOOLEAN, a \in {Nine, FromRule(2), FromSum(2), FromRule(4)}, b \in {Nine, FromRule(1), FromRule(3), FromSum(1)},
                c \in {Nine, FromRule(1), FromSum(1)}, d \in {FromRule(2), FromSum(2)}} : P!CategoriesFit(rs)}
SomeValues == {<<>>, Nine :> Amount(1), FromRule(1) :> Amount(7)}
SomeCategories == {<<>>, <<Nine :> Amount(2), Nine :> Amount(3)>>, <<Nine :> Amount(2), <<>>>>}
Years == {[rs |-> P!RulesOf(Range(rs), 1), values |-> v, cats |-> c] : rs \in RuleSets, v \in SomeValues, c \in SomeCategories}

-----------------------------------------------------------------------------
(* Reproduction: a sheet of two voices of a year beside a schedule, with   *)
(* two rules of which the second takes the first's output.                 *)

Two == P!RulesOf({Taking(1, FALSE, <<P!Source("record", 1), P!Source("record", 2)>>),
                  Taking(2, FALSE, <<FromRule(1), P!Source("record", 2)>>)}, 1)
Claimed == P!Column(1, "a", "w")
Audited == P!Column(1, "b", "w")
Earlier == P!Column(0, "a", "w")
Stated(v) == P!Cell("value", v, "INR")
Blanks == P!Cell("blank", 0, "INR")
NotGiven == P!Cell("NA", 0, "INR")
Workbooks ==
    {[own |-> [columns |-> <<Claimed, Audited>>, rows |-> <<r, s, <<Stated(4), Stated(5)>>>>],
      other |-> [columns |-> cols, rows |-> <<<<Stated(1), Stated(2)>>>>]] :
        r \in {<<Stated(1), Stated(2)>>, <<Blanks, Stated(1)>>, <<NotGiven, Stated(1)>>},
        s \in {<<Stated(2), Stated(3)>>, <<Stated(3), Stated(2)>>, <<Blanks, Stated(3)>>},
        cols \in {<<Audited, Claimed>>, <<Audited, P!Column(1, "c", "w")>>, <<Earlier, Audited>>}}
FirstRow == P!Ref("own", 1, 0)
Bindings ==
    {[inputs |-> (P!Source("record", 1) :> a @@ P!Source("record", 2) :> b), outputs |-> <<o, P!Ref("own", 3, 0)>>,
      negate |-> {}, statesAsZero |-> z, blankIsZero |-> k, unit |-> "INR", constants |-> <<>>, yearOnly |-> y] :
        a \in {FirstRow, P!Ref("own", 1, 1)}, b \in {FirstRow, P!Ref("own", 2, 0), P!Ref("other", 1, 0)},
        o \in {P!Ref("own", 2, 0), FirstRow}, z \in {{}, {"NA"}}, k \in {{}, {FirstRow}}, y \in {{}, {"other"}}}
Columns ==
    {[b |-> b, wb |-> w, col |-> c, fed |-> f] :
        b \in Bindings, w \in Workbooks, c \in {Claimed, Audited}, f \in {<<>>, P!Source("record", 1) :> Amount(1), FromRule(1) :> Amount(2)}}

\* Pipelines of three columns; one binding reads its first input and is fed its second.
Fed(column, year, why) == [column |-> column, year |-> year, output |-> 1, why |-> why]
FeedSets ==
    {<<>>, P!Source("record", 2) :> Fed(None, 1, FALSE), P!Source("record", 2) :> Fed(None, 0, FALSE),
     P!Source("record", 2) :> Fed(1, 1, FALSE)}
    \cup {P!Source("record", 2) :> Fed(k, 1, TRUE) : k \in 1 .. 4}
    \cup {P!Source("record", 1) :> Fed(j, 1, TRUE) @@ P!Source("record", 2) :> Fed(k, 1, TRUE) : j, k \in 1 .. 3}
Pipelines == Tuples({[col |-> Claimed, feeds |-> f] : f \in FeedSets}, 3)
OneBinding ==
    [inputs |-> (P!Source("record", 1) :> FirstRow), outputs |-> <<P!Ref("own", 2, 0)>>, negate |-> {}, statesAsZero |-> {},
     blankIsZero |-> {}, unit |-> "INR", constants |-> (1 :> (P!Source("record", 2) :> Amount(3))), yearOnly |-> {}]
OneWorkbook ==
    [own |-> [columns |-> <<Claimed, Audited>>, rows |-> <<<<Stated(1), Stated(2)>>, <<Stated(2), Stated(3)>>>>],
     other |-> [columns |-> <<>>, rows |-> <<>>]]
Schedules == [y \in {0, 1} |-> IF y = 1 THEN 1 :> Amount(5) ELSE <<>>]

\* Two evaluations of a sheet's free cells, the second over the first.
FromCell(k, z) == [from |-> "cell", cell |-> k, unit |-> "INR", blankIsZero |-> z]
FromRate(r, plus, minus, neg, why) ==
    [from |-> "rate", rate |-> r, plus |-> plus, minus |-> minus, negate |-> neg, why |-> why]
FromEarlier(l, o) == [from |-> "computed", label |-> l, output |-> o]
Specs == {FromCell(1, FALSE), FromCell(2, TRUE), FromCell(2, FALSE), FromEarlier("p", 1), FromEarlier("p", 2), FromEarlier("q", 1),
          FromRate("r", {}, {}, FALSE, FALSE), FromRate("r", {"s"}, {}, FALSE, FALSE), FromRate("r", {}, {"r"}, TRUE, TRUE),
          FromRate("s", {}, {}, TRUE, FALSE), [from |-> "value", value |-> 2, unit |-> "INR", why |-> FALSE]}
EvaluationOf(l, a, b, c) == [label |-> l, inputs |-> (P!Source("record", 1) :> a @@ P!Source("record", 2) :> b), checks |-> <<c>>]
RateRecord(complete, quoted) ==
    [document |-> TRUE, rates |-> [r |-> [value |-> 3, unit |-> "INR", complete |-> TRUE, quoted |-> quoted, dash |-> FALSE],
                                   s |-> [value |-> 1, unit |-> "INR", complete |-> complete, quoted |-> {1}, dash |-> FALSE]]]
FreeCells ==
    {[of |-> <<EvaluationOf("p", a, b, 3), EvaluationOf("q", c, d, 2)>>, cells |-> <<1, k, 5>>, rates |-> RateRecord(t, q)] :
        a, b, c, d \in Specs, k \in {None, 2}, t \in BOOLEAN, q \in {{3}, {2}}}
SomeFreeCells == {x \in FreeCells : P!LoadRateRecord(x.rates) # P!Refused /\ x.of[1].inputs[P!Source("record", 1)].from # "value"}

\* Ledgers of three accounts in two groupings, and tables of three rows.
Ledgers ==
    {[accounts |-> a, v |-> [g |-> c], w |-> [h |-> d]] :
        a \in Tuples({[groups |-> [g |-> g, h |-> h], amount |-> n] : g, h \in {"x", "y"}, n \in {None, 1, -2}}, 3),
        c, d \in {[kind |-> "is", of |-> {"x"}], [kind |-> "not", of |-> {"x"}]}}
TableRows ==
    Tuples({[label |-> l, skipped |-> s, declared |-> k, cells |-> c] :
               l \in {"", "r", "total"}, s, k \in BOOLEAN, c \in {<<>>, Nine :> Amount(2), Nine :> None}}, 2)
Summed == P!RulesOf({Taking(1, TRUE, <<Nine>>), Taking(2, FALSE, <<FromSum(1)>>)}, 1)
TableResult(rows) == P!EvaluateYear(Summed, <<>>, P!RowCategories(rows, {Nine}, {})).results

-----------------------------------------------------------------------------
(* Formulation: plans of three lines over two years, and printed years.    *)

LineOf(code, formula, of) ==
    [code |-> code, formula |-> formula, of |-> of, key |-> "k", from |-> "c", sales |-> "a", loss |-> "c", arr |-> "b"]
LinesOfPlan ==
    {<<x, y, z>> :
        x \in {LineOf("a", f, {"a"}) : f \in {"carry_forward", "escalate", "assumption"}},
        y \in {LineOf("b", f, {"a"}) : f \in {"sum", "net", "quantity_x_rate", "rate_on"}} \cup {LineOf("b", "energy_input", {"a", "c"})},
        z \in {LineOf("c", "sum", {"a", "b"}), LineOf("c", "carry_forward", {"c"}), LineOf("c", "acos", {"a", "b"})}}
InEitherOrder == LinesOfPlan \cup {<<p[3], p[2], p[1]>> : p \in LinesOfPlan}
Parameters == {<<"k", 0>>, <<"k", 1>>, <<"k", 2>>}
Plans2 ==
    {[lines |-> p, base |-> [c \in b |-> [value |-> IF c = "a" THEN 7 ELSE 20]],
      assumptions |-> [k \in a |-> 10 * (1 + k[2])]] :
        p \in InEitherOrder, b \in SUBSET {"a", "c"}, a \in SUBSET Parameters}
BaseFacts ==
    UpTo({[code |-> c, year |-> y, voice |-> v, value |-> n] :
             c \in {"a", "b"}, y \in {0, -1}, v \in {"approved", "claimed", "audited"}, n \in {1, 2}}, 2)
Preference == <<"approved", "claimed">>

Printed(codes, n) == {[c \in S |-> IF c = "ROE" THEN 2 ELSE n] : S \in SUBSET codes}
Mapping(t, g) == [includes |-> t, gap |-> g, withinState |-> FALSE]
Costs == Printed({"PP", "PP_CENTRAL", "PP_FIXED", "TX", "RETURN", "ROE", "RECOVERED"}, 3)
YearsPrinted ==
    {[v |-> c @@ ("TOTAL" :> t), m |-> Mapping(i, "unstated")] :
        c \in Costs, t \in {3, 6, 8}, i \in {<<>>, "PP" :> {"TX"}, "PP" :> {"TX", "RETURN"}}}
    \cup {[v |-> [PP |-> 3, TX |-> 3, TOTAL |-> 6, ARR |-> a, REVENUE |-> 4, GAP |-> g] @@ x, m |-> Mapping(<<>>, h)] :
        a \in 4 .. 7, g \in 0 .. 3, x \in {<<>>, [NTI |-> 1], [SUBSIDY |-> 1], [NTI |-> 1, SUBSIDY |-> 1]},
        h \in {"unstated", "before_subsidy", "after_subsidy"}}

-----------------------------------------------------------------------------
(* Decisions: tables over two pages with something between, and records.   *)

OrderRows == {[label |-> l, figures |-> f] : l \in {<<"a">>, <<"a", "b">>, <<"b">>}, f \in {<<>>, <<7>>, <<7, 8>>}}
PageNoise == {<<>>, <<D!Word("page")>>, <<D!Serial(2)>>, <<D!Word("x"), D!Serial(3), D!Word("y")>>, <<D!Serial(2), D!Fig(1)>>}
OrderTables == {[first |-> a, second |-> b, noise |-> n] : a \in UpTo(OrderRows, 2) \ {<<>>}, b \in UpTo(OrderRows, 1), n \in PageNoise}
ReadTable(x) == D!ReadRows(<<D!Printed(x.first, 0), x.noise \o D!Printed(x.second, Len(x.first))>>)

\* Rows of the format: those counted, those deducted, and the sign of the line.
Against(rows, minus, sign) == [rows |-> rows, minus |-> minus, sign |-> sign]
TableOf(rows, overrides) ==
    [columns |-> <<"claimed", "approved">>, labels |-> [p |-> {"a", "ab"}, q |-> {"b"}], short |-> (3 :> <<"claimed">>),
     rows |-> rows, overrides |-> overrides]
Filings ==
    {[p |-> Against(m, {}, 1), q |-> Against(n, {}, 1)] : m \in {{1, 2}, {1}}, n \in {{2}, {3}}}
    \cup {[p |-> Against({}, {}, 1), q |-> Against({1}, {}, 1)], [p |-> Against({3}, {1}, 1), q |-> Against({2}, {}, -1)]}
Bound ==
    {[table |-> TableOf(r, o), rows |-> <<[serial |-> 1, label |-> l, figures |-> <<c, 1>>], [serial |-> 2, label |-> m, figures |-> <<d, 2>>],
                                       [serial |-> 3, label |-> n, figures |-> <<4>>]>>, format |-> <<x, y, 4>>] :
        r \in Filings, o \in {<<>>, "p" :> Against({3}, {2}, 1)},
        l, m \in {"a", "ab", "b", "z"}, n \in {"a", "b", "z"}, c, d \in {2, -4}, x, y \in {2, 4, None}}
Anchors == [claimed |-> 10, approved |-> 20, net |-> 30]
Positions == Tuples({[of |-> f, x |-> x] : f \in {1, 2}, x \in {9, 14, 16, 22, 26}}, 3)

RecordOf(k, c, a) ==
    [key |-> k, values |-> IF a = None THEN "claimed" :> c ELSE ("claimed" :> c @@ "approved" :> a), claim |-> "match",
     decision |-> IF a = None THEN None ELSE a - c]
Explanations ==
    {[records |-> <<RecordOf("p", c, x), RecordOf("q", e, y), RecordOf("d", 5, z), RecordOf("net", n, m)>>, why |-> w] :
        c, e \in {0, 5}, x, y, z \in {0, 5, 3, None}, n \in {0, 5}, m \in {0, 3, 5}, w \in SUBSET {"p", "q", "d"}}
TableSpec == [totals |-> {"net"}, deductions |-> {"d"}, net |-> "net"]
Why(ks) == [k \in ks |-> [asApproved |-> None, decision |-> None]]

-----------------------------------------------------------------------------
(* A taxonomy with twins in two units and two branches, words in common,   *)
(* and a line another's name rules out.                                    *)

Line(code, branch, unit, names, notWhen) == [code |-> code, branch |-> branch, unit |-> unit, names |-> names, notWhen |-> notWhen]
SomeLines ==
    <<Line("SOLAR_MU", "shared", "mu", <<<<"solar">>>>, {}),
      Line("SOLAR_COST", "shared", "cr", <<<<"solar">>, <<"power", "cost">>>>, {}),
      Line("TX_COST", "distribution", "cr", <<<<"transmission">>>>, {<<"lines">>}),
      Line("TX_TARIFF", "transmission", "cr", <<<<"transmission">>>>, {}),
      Line("TOTAL", "shared", "cr", <<<<"net", "cost">>, <<"power", "costs">>>>, {})>>
SomeTwins == "cost" :> "costs" @@ "costs" :> "cost" @@ "power" :> "powers" @@ "solar" :> "solars"

L == INSTANCE Labels WITH Twin <- SomeTwins, Qualifiers <- {"including"}, Names <- SomeLines, Licensed <- "distribution"

LabelWords == {"solar", "power", "cost", "costs", "net", "transmission", "lines", "including"}
Labelled == [label : UpTo(LabelWords, 3), unit : {None, "mu", "cr"},
             aliases : {<<>>, <<"solar">> :> "TX_COST", <<"power">> :> "TOTAL", <<"net", "lines">> :> "SOLAR_MU"}]

-----------------------------------------------------------------------------
(* The workbench: two labels, one the taxonomy knows, and two conventions. *)

W == INSTANCE Workbench WITH Twin <- SomeTwins, Qualifiers <- {"including"}, Names <- SomeLines, Licensed <- "distribution",
                             Conventions <- (<<"gap">> :> {"before", "after"} @@ <<"total", "net">> :> {"applies", "does_not_apply"}),
                             Inclusions <- {<<"total", "net">>}

Operation(do, label, sort, code) == [do |-> do, label |-> label, kind |-> sort, code |-> code]
Operations ==
    {Operation("decide", l, "alias", c) : l \in {<<"solar">>, <<"levy">>}, c \in {"TX_COST", "TOTAL"}}
    \cup {Operation("decide", <<"levy">>, "not_a_line", None), Operation("convention", <<"gap">>, "convention", "after")}
    \cup {Operation("convention", <<"total", "net">>, "convention", v) : v \in {"applies", "does_not_apply", "after"}}
    \cup {Operation("withdraw", l, None, None) : l \in {<<"levy">>, <<"total", "net">>}}
    \cup {Operation("commit", <<>>, None, None), Operation("confirm", <<>>, None, None)}
Scans == <<(<<"levy">> :> 2 @@ <<>> :> 3), (<<"levy">> :> 1 @@ <<"cess", "cost">> :> 4)>>

Finding(asks, order) == [asks |-> asks, order |-> order]
Findings == {Finding(<<"gap">>, 1), Finding(<<"gap">>, 2), Finding(<<"total", "net">>, 1), Finding(None, 1)}
Reviewed == [ops : UpTo(Operations, 2), findings : SUBSET Findings]

-----------------------------------------------------------------------------
(* Tables of an order of one licensee and of a combined one.               *)

Y == INSTANCE ArrGrids WITH Twin <- SomeTwins, Qualifiers <- {"including"}, Names <- SomeLines, Licensed <- "distribution",
                            Years <- {"y1", "y2"}, Voices <- <<"claimed", "approved">>, Licensees <- {"A", "B"},
                            Numbers <- {"n1", "n2"}, Units <- <<"cr", "mu">>, Summary <- {"TOTAL"}

GridIn(page, header, rows, caption) == [page |-> page, header |-> header, rows |-> rows, caption |-> caption]
Order(combined, part, branch) == [combined |-> combined, utility |-> "A", part |-> part, branch |-> branch]
N1 == <<"n1">>
N2 == <<"n2">>
SoloHeads == {<<>>, <<"y1", "claimed">>, <<"y2", "approved">>, <<"claimed">>, <<"approved">>, <<"amount">>, <<"y1">>, <<"total", "y2", "claimed">>}
Titles == {<<>>, <<<<"y2">>, <<"table", "y1">>>>, <<<<"table", "y1", "y2">>>>, <<<<"table", "claimed", "cr">>, <<"y1", "summary">>>>}
SoloTables ==
    {[grids |-> <<GridIn(1, 1, <<<<<<"particulars">>, h, i>>, <<<<"solar">>, N1, v>>, <<l, <<>>, <<>>>>, <<<<"on", "cost">>, N1, N2>>, <<<<"net", "cost">>, N2, v>>>>, t)>>,
      order |-> Order(FALSE, p, "P")] :
        h, i \in SoloHeads, t \in Titles, p \in {<<>>, <<"trueup", "y1">>, <<"apr", "y2">>, <<"y2">>}, l \in {<<"power", "cr">>, <<"transmission">>}, v \in {N1, <<"dash">>}}
TwoRowed ==
    {[grids |-> <<GridIn(1, 1, <<<<<<"particulars">>, h, <<>>, i>>, <<<<>>, j, k, <<"claimed">>>>, <<<<"power", "cost">>, N1, N2, N2>>, <<<<"solar">>, N1, N1, N1>>>>, t)>>,
      order |-> Order(c, <<>>, "R")] :
        h, i \in {<<"y1">>, <<"A">>, <<"B", "y2">>, <<"sno">>}, j, k \in {<<>>, <<"claimed">>, <<"approved">>}, t \in Titles, c \in BOOLEAN}
Named == {<<>>, <<"A">>, <<"B">>, <<"total">>}
ByRow ==
    {[grids |-> <<GridIn(1, 1, <<<<h, <<"particulars">>, i>>, <<a, <<"power", "cost">>, N1>>, <<b, <<>>, <<>>>>, <<c, <<"power", "cost">>, N2>>, <<d, <<"transmission">>, N2>>>>, t)>>,
      order |-> Order(TRUE, <<>>, "R")] :
        h \in {<<>>, <<"licensee">>}, i \in {<<"y1", "claimed">>, <<"total", "y1", "claimed">>, <<"A", "y1", "claimed">>, <<"claimed">>},
        a, b, c, d \in Named, t \in {<<>>, <<<<"table", "y1", "B">>>>}}
Twice ==
    {[grids |-> <<GridIn(1, 1, <<<<<<"particulars">>, h>>, <<<<"power", "cost">>, x>>, <<<<"transmission">>, y>>>>, <<>>),
                  GridIn(2, 1, <<<<<<"particulars">>, i, h>>, <<<<"transmission">>, x, z>>, <<<<"power", "costs">>, y, x>>>>, <<>>)>>,
      order |-> Order(FALSE, <<>>, "R")] :
        h, i \in {<<"y1", "claimed">>, <<"y1", "approved">>}, x, y, z \in {N1, N2, <<"dash">>, <<"nil">>}}
SomeTables == SoloTables \cup TwoRowed \cup ByRow \cup Twice
Generic == Y!Placer(<<>>)

-----------------------------------------------------------------------------
(* The pages of an order that numbers its sections, and of one in parts.   *)

H == INSTANCE Chapters WITH FurniturePages <- 3, MaxTail <- 2, DeepenPages <- 3, NumberedMin <- 1

TextLine(text, sorts, number, cue) == [text |-> text, kinds |-> sorts, number |-> number, cue |-> cue, hearing |-> FALSE]
Heading(number, cue) == TextLine(<<"heading", number, cue>>, {"heading"}, number, cue)
Leader == TextLine(<<"leader">>, {"leader"}, <<>>, None)
Running == TextLine(<<"running">>, {"heading"}, <<>>, "P")
Deep(number, cue) == TextLine(<<"deep", number, cue>>, {"heading", "deep"}, number, cue)
NumberedPages ==
    {<<>>, <<Running>>, <<Heading(<<1>>, "P"), Leader, Leader, Leader>>, <<Heading(<<1>>, "P"), Heading(<<1, 2>>, "R")>>, <<Heading(<<2>>, None)>>,
     <<Heading(<<2, 1>>, "P"), Heading(<<1>>, None)>>, <<Deep(<<1, 2, 1>>, "T"), Deep(<<1, 1, 3>>, "P")>>, <<Heading(<<>>, "R")>>}
ProseLine == TextLine(<<"prose">>, {"prose"}, <<3>>, None)
ChapterLine(n, hearing) == [TextLine(<<"chapter", <<n>>, None>>, {"chapter"}, <<n>>, None) EXCEPT !.hearing = hearing]
LetterLine(n) == TextLine(<<"letter", <<n>>, None>>, {"letter"}, <<n>>, None)
TitleLine(cue) == TextLine(<<"title", <<>>, cue>>, {"title"}, <<>>, cue)
PartPages ==
    {<<ProseLine, ProseLine, ProseLine>>, <<ChapterLine(1, TRUE), TitleLine("P"), ProseLine>>, <<ChapterLine(2, FALSE), ProseLine, ProseLine>>,
     <<TitleLine("R"), Heading(<<1>>, "P"), ProseLine>>, <<LetterLine(1), LetterLine(2), TitleLine("P")>>, <<LetterLine(3), TitleLine("P")>>,
     <<TitleLine("P"), ProseLine>>}
SomeOrders == UpTo(NumberedPages, 4) \cup UpTo(PartPages, 4)

-----------------------------------------------------------------------------

CaseIdle ==
    /\ overlaps = 0 /\ facts = <<>> /\ case = [kind |-> "none", status |-> "none"] /\ sets = <<>> /\ runs = <<>> /\ drafts = <<>>
    /\ lastId = 0 /\ tx = <<>> /\ actuals = <<>>

ArrFiguresInit ==
    \/ FiguresInit /\ CaseIdle
    \/ Idle /\ CaseIdle /\ \E part \in {"rules", "lines"} : figure = [of |-> "none", part |-> part]
    \/ Idle /\ figure = [of |-> "case"] /\ TrueUpInit

ComputeRules ==
    \/ Compute("rule", Dimensioned, LAMBDA x : P!CheckRule(x.rule))
    \/ Compute("year", Years, LAMBDA x : IF P!Order(x.rs) = None THEN None ELSE P!EvaluateYear(x.rs, x.values, x.cats))
    \/ Compute("column", Columns, LAMBDA x : P!ReproduceColumn(x.b, x.wb, Two, x.col, x.fed, FALSE))
    \/ Compute("pipeline", Pipelines, LAMBDA x : P!ReproducePipeline(x, OneBinding, OneWorkbook, Two, Schedules))
    \/ Compute("cells", SomeFreeCells, LAMBDA x : P!ReproduceCells(x.of, x.cells, P!LoadRateRecord(x.rates), Two, FALSE))
    \/ Compute("ledger", Ledgers, LAMBDA x : P!LedgerTotal(x.accounts, {x.v, x.w}, 1))
    \/ Compute("table", TableRows, LAMBDA x : TableResult(x))

ComputeFormulation ==
    \/ Compute("formulation", Plans2, LAMBDA x : F!Formulate(x.lines, 2, x.base, x.assumptions))
    \/ Compute("base", BaseFacts, LAMBDA x : F!SelectBase(x, Preference))
    \/ Compute("identities", YearsPrinted, LAMBDA x : F!Broken(x.v, x.m, 0))

ComputeDecisions ==
    \/ Compute("decisions", OrderTables, LAMBDA x : ReadTable(x))
    \/ Compute("bound", Bound, LAMBDA x : D!EvaluateTable(x.table, x.rows, x.format))
    \/ Compute("positions", Positions, LAMBDA x : D!RowByPosition(Anchors, x))
    \/ Compute("reasons", Explanations, LAMBDA x : D!Explain(x.records, TableSpec, Why(x.why)))

ArrFiguresNext ==
    \/ Is("case") /\ Next /\ UNCHANGED figureVars
    \/ ~Is("case") /\ FiguresNext /\ UNCHANGED vars
    \/ Begins("rules") /\ ComputeRules /\ UNCHANGED <<fillVars, vars>>
    \/ Begins("lines") /\ (ComputeFormulation \/ ComputeDecisions) /\ UNCHANGED <<fillVars, vars>>

ReadOrders ==
    \/ Compute("label", Labelled, LAMBDA x : L!Place(L!Placer(x.aliases), x.label, x.unit))
    \/ Compute("workbench", Tuples(Operations, 4), LAMBDA ops : W!Worked(ops))
    \/ Compute("unplaced", Reviewed, LAMBDA x : <<W!Unplaced(W!Worked(x.ops), Scans), W!Questions(W!Worked(x.ops), x.findings)>>)
    \/ Compute("tables", SomeTables, LAMBDA x : Y!ReadGrids(x.grids, Generic, x.order))
    \/ Compute("chapters", SomeOrders, LAMBDA pages : H!ProposeChapters(pages))

ArrReadingInit ==
    /\ EvidenceInit
    /\ \/ Idle /\ CaseIdle /\ figure = [of |-> "evidence"]
       \/ Idle /\ CaseIdle /\ figure = [of |-> "none", part |-> "order"]
       \/ ArrFiguresInit

ArrReadingNext ==
    \/ Is("evidence") /\ EvidenceNext /\ UNCHANGED arrVars
    \/ Begins("order") /\ ReadOrders /\ UNCHANGED <<fillVars, vars, evidenceVars>>
    \/ ~Is("evidence") /\ ArrFiguresNext /\ UNCHANGED evidenceVars

ArrReadingSpec == ArrReadingInit /\ [][ArrReadingNext]_readingVars

-----------------------------------------------------------------------------
(* Properties.  Those of a case are in TrueUp, those of what is shown in   *)
(* Evidence.                                                               *)

\* A figure that reproduces was computed, in its unit, from its own column and
\* from final figures upstream, and every year of rules computes what can be
\* computed and nothing else (arr/rules.py, arr/reproduce.py).
ReproducedAsFiled ==
    LET x == figure.input
        y == figure.result
    IN /\ Is("rule") => P!DimensionsHold(x.rule, x.values, x.divides)
       /\ Is("year") => P!YearHolds(x.rs, x.values, x.cats, y)
       /\ Is("column") => P!ColumnHolds(x.b, x.wb, Two, x.col, x.fed, y)
       /\ Is("pipeline") => P!PipelineHolds(x, y)
       /\ Is("cells") => P!CellsHold(x.of, x.cells, P!LoadRateRecord(x.rates), Two, y)
       /\ Is("ledger") => P!LedgerHolds(x.accounts, x.v, x.w, y)
       /\ Is("table") => y = TableResult(SelectSeq(x, LAMBDA r : r.label # "total"))

\* Every line of a formulation rests on facts and parameters that are there,
\* its base is of the preferred voice, and no printed cost is held against its
\* total twice (arr/formulate.py, arr/identities.py).
FormulatedAsPlanned ==
    LET x == figure.input
        y == figure.result
    IN /\ Is("formulation") => F!FormulationHolds(x.lines, 2, x.base, x.assumptions, y)
       /\ Is("base") => F!BaseHolds(x, Preference, y)
       /\ Is("identities") => F!IdentitiesHold(x.v, x.m, 0, y)

\* A row of the Commission's table keeps its own figures, over page breaks and
\* what is printed there, and reasons that are complete come to the decision
\* on the net (arr/decisions.py).
DecisionsAsPrinted ==
    LET x == figure.input
        y == figure.result
    IN /\ Is("decisions") => D!RowsHold(x.first, x.second, x.noise, y)
       /\ Is("bound") => D!ClaimsHold(x.table, x.rows, x.format, y)
       /\ Is("positions") => D!PositionsHold(Anchors, x, y)
       /\ Is("reasons") => D!ExplainHolds(x.records, TableSpec, Why(x.why), y)

\* What is read of an order is attributed to the licensee, the year and the
\* line that are printed with it and to no other, its chapters follow each
\* other, and what reviewers decided of a label is what the next mapping says
\* (arr/chapters.py, arr/extract.py, arr/taxonomy.py, arr/workbench.py).
ArrReadAsPrinted ==
    LET x == figure.input
        y == figure.result
    IN /\ Is("label") => L!PlacementHolds(x.aliases, x.label, x.unit, y)
       /\ Is("workbench") => W!WorkbenchHolds(x, y)
       /\ Is("unplaced") => W!UnplacedHolds(W!Worked(x.ops), Scans, y[1]) /\ W!QuestionsHold(W!Worked(x.ops), x.findings, y[2])
       /\ Is("tables") => Y!TablesHold([n \in DOMAIN x.grids |-> Y!WithSecondHeader(x.grids[n])], Generic, x.order, y)
       /\ Is("chapters") => H!ChaptersHold(x, H!Furniture(x), H!OrderOf(H!LinesOf(x, H!Furniture(x))), y)
=============================================================================
