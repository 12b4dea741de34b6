------------------------------- MODULE RateRules -------------------------------
(***************************************************************************)
(* The rules' reading of a region of retail rates (extraction.py           *)
(* rules_extract, prose_decisions): from the cells of its tables, its      *)
(* headings, its clauses and its sentences to candidates.                  *)
(*                                                                         *)
(* A label is [kind, words]: what it names (a plain name, a slab, a time   *)
(* band, a consumer group, a voltage) and its words.  A page is its lines  *)
(* of text; a line is [kind, block, words, digits], and only one of kind   *)
(* lettered has a block.  A number is its ToString, in halves: 3 is 1.5.   *)
(***************************************************************************)
EXTENDS Channels, TLC

HasNumber(x) == x.state \in {"value", "zero"}
NumberOf(x) == IF HasNumber(x) THEN ToString(x.number) ELSE "none"

WordsOf(labels) == UNION {l.words : l \in ToSet(labels)}
OfKind(labels, kinds) == UNION {l.words : l \in {l \in ToSet(labels) : l.kind \in kinds}}
FirstOfKind(labels, kind) == LET n == SelectInSeq(labels, LAMBDA l : l.kind = kind) IN IF n = 0 THEN {} ELSE labels[n].words

-----------------------------------------------------------------------------
(* What a cell charges.                                                    *)

\* The first of these words that a heading or a label holds names the component.
ComponentWords ==
    <<<<"green", "green_premium">>, <<"minimum", "minimum">>, <<"demand", "demand">>, <<"fixed", "fixed">>, <<"energy", "energy">>,
      <<"rebate", "rebate">>, <<"discount", "rebate">>, <<"surcharge", "surcharge">>, <<"subsid", "subsidy">>,
      <<"tod", "tod_adjustment">>>>

ComponentFromHeader(header, words) ==
    LET n == SelectInSeq(ComponentWords, LAMBDA w : w[1] \in words)
    IN IF "%" \in header /\ words \cap {"energy", "tod"} # {} THEN "tod_adjustment"
       ELSE IF n = 0 THEN "charge" ELSE ComponentWords[n][2]

Table(c) == <<c.page, c.grid>>
Column(c) == <<c.page, c.grid, c.col>>
CellPlace(c) == <<"cell", c.page, c.grid, c.row, c.col>>
PrintedBefore(p, q) == \E n \in 2 .. 5 : p[n] < q[n] /\ \A m \in 2 .. n - 1 : p[m] = q[m]
Earlier(a, b) == PrintedBefore(CellPlace(a), CellPlace(b))
FirstOf(cells) == CHOOSE c \in cells : \A d \in cells : ~Earlier(d, c)
Reading(cells) == [n \in 1 .. Cardinality(cells) |-> CHOOSE c \in cells : Cardinality({d \in cells : Earlier(d, c)}) = n - 1]

\* Three numbers or more that run 1, 2, 3 down a column, their halves dropped, are row numbers.
CountsUp(whole) ==
    /\ Len(whole) >= 3 /\ whole[1] = 1
    /\ \A n \in 2 .. Len(whole) : whole[n] - whole[n - 1] \in {0, 1}

Wholes(cells) == [n \in DOMAIN cells |-> cells[n].number \div 2]

SerialColumns(cells) ==
    {k \in {Column(c) : c \in cells} : CountsUp(Wholes(Reading({c \in cells : Column(c) = k /\ HasNumber(c)})))}

-----------------------------------------------------------------------------
(* Where a table stands on its page.                                       *)

\* The line of its first cell, searched for from the line after the table before it: the text of
\* the cell, else its label beside a number, else its label.
HitsOf(lines, cell, from) ==
    LET label == IF cell.rows = <<>> THEN {} ELSE cell.rows[1].words
        after == from .. Len(lines)
    IN <<{i \in after : cell.raw \in lines[i].words},
         {i \in after : label # {} /\ label \subseteq lines[i].words /\ lines[i].digits},
         {i \in after : label # {} /\ label \subseteq lines[i].words}>>

FirstHit(hits) == LET n == SelectInSeq(hits, LAMBDA h : h # {}) IN IF n = 0 THEN 0 ELSE Min(hits[n])

Anchored(at, grid, hit) ==
    IF hit = 0 THEN at ELSE [lines |-> (grid :> hit) @@ at.lines, start |-> hit + 1]

GridAnchorLines(lines, cells) ==
    FoldLeft(LAMBDA at, g : Anchored(at, g, FirstHit(HitsOf(lines, FirstOf({c \in cells : c.grid = g}), at.start))),
             [lines |-> <<>>, start |-> 1], SetToSortSeq({c.grid : c \in cells}, <)).lines

\* Upwards from there, the nearest lettered block below the heading of the rates.
BlockAbove(lines, at) ==
    LET above == {i \in 1 .. at - 1 : lines[i].kind \in {"lettered", "stop"}}
    IN IF above = {} \/ lines[Max(above)].kind = "stop" THEN NoBlock
       ELSE [letter |-> lines[Max(above)].block, words |-> lines[Max(above)].words]

RateBlockFor(lines, anchors, c) == IF c.grid \in DOMAIN anchors THEN BlockAbove(lines, anchors[c.grid]) ELSE NoBlock

\* The first season the page names.
SeasonForPage(lines) ==
    LET n == SelectInSeq(lines, LAMBDA l : SeasonWord(l.words) # {})
    IN IF n = 0 THEN "none" ELSE CHOOSE w \in SeasonWord(lines[n].words) : TRUE

\* The last schedule heading of the pages so far, those further down its own page included.
CategoryForPage(headings, page) ==
    LET before == {n \in DOMAIN headings : headings[n].page <= page}
    IN IF before = {} THEN "none" ELSE headings[Max(before)].code

CategoryFromRow(codes, rows) ==
    LET named == SelectInSeq(rows, LAMBDA l : l.words \cap codes # {})
    IN IF named = 0 THEN "none" ELSE CHOOSE w \in rows[named].words \cap codes : TRUE

CategoryOf(order, c) ==
    LET page == CategoryForPage(order.headings, c.page)
        row == CategoryFromRow(order.codes, c.rows)
    IN IF row # "none" /\ (order.role = "approved_summary" \/ page = "none") THEN row ELSE page

-----------------------------------------------------------------------------
(* Cells.                                                                  *)

Unread == {"unknown", "footnote_only", "formula"}

\* A bare number under a heading that names no charge.
Nameless(c) ==
    /\ c.state = "value" /\ c.unit = "none" /\ c.currency = "none"
    /\ ComponentFromHeader(WordsOf(c.header), WordsOf(c.header \o c.rows)) = "charge"

\* Its label: the first plain one, the consumer group of its column, its time band and voltage.
RowLabel(c) == FirstOfKind(c.rows, "name") \cup FirstOfKind(c.header, "group") \cup OfKind(c.rows, {"time"})
              \cup FirstOfKind(c.header, "voltage")

RetailFact(category, component) == <<"retail_tariff", category, component>>

FromCell(order, anchors, c) ==
    [fact |-> RetailFact(CategoryOf(order, c), IF c.state = "cross_reference" THEN c.state
                                               ELSE ComponentFromHeader(WordsOf(c.header), WordsOf(c.header \o c.rows))),
     label |-> RowLabel(c), slab |-> OfKind(c.rows, {"slab"}),
     season |-> IF OfKind(c.rows, {"time"}) = {} THEN "none" ELSE SeasonForPage(order.texts[c.page]),
     block |-> RateBlockFor(order.texts[c.page], anchors[c.page], c), page |-> c.page, unit |-> c.unit, frequency |-> c.frequency,
     value |-> NumberOf(c), sign |-> c.sign, cell |-> TRUE, places |-> {CellPlace(c)}, conditions |-> c.footnotes]

-----------------------------------------------------------------------------
(* Clauses.                                                                *)

\* What a clause charges is its role, and of some roles what its line says.
ClauseComponent(v) ==
    CASE v.kind = "cross_reference" -> "cross_reference"
      [] v.kind # "cross_reference" /\ v.role = "option" -> IF v.words \cap {"energy", "paise"} # {} THEN "energy" ELSE "fixed"
      [] v.kind # "cross_reference" /\ v.role = "tou_surcharge" -> "tod_adjustment"
      [] v.kind # "cross_reference" /\ v.role = "power_factor" -> IF "rebate" \in v.words THEN "rebate" ELSE "surcharge"
      [] v.kind # "cross_reference" /\ v.role = "penalty" -> "surcharge"
      [] v.kind # "cross_reference" /\ v.role \in {"fixed", "demand", "energy", "minimum", "rebate"} -> v.role
      [] OTHER -> "charge"

ConditionsOf(clauses, category) == UNION {v.words : v \in {v \in ToSet(clauses) : v.kind = "condition" /\ v.category = category}}

FromClause(order, v) ==
    [fact |-> RetailFact(v.category, ClauseComponent(v)), label |-> Last(v.path).words, slab |-> v.slab, season |-> "none",
     block |-> IF Len(v.path) > 1 THEN v.path[2] ELSE NoBlock, page |-> v.page, unit |-> v.unit, frequency |-> v.frequency,
     value |-> IF v.kind = "cross_reference" THEN "none" ELSE NumberOf(v), sign |-> v.sign, cell |-> FALSE, places |-> {<<"clause", v.page, v.line>>},
     conditions |-> ConditionsOf(order.clauses, v.category)]

-----------------------------------------------------------------------------
(* Sentences.                                                              *)

\* The first of these that a sentence says of the additional surcharge is its decision.
Dispositions == <<"approved_zero", "not_levied_pending_petition", "deferred_to_separate_petition">>

FromProse(page, line, fact, row, value, unit, decision) ==
    [fact |-> fact, label |-> row, slab |-> {}, season |-> "none", block |-> NoBlock, page |-> page, unit |-> unit,
     frequency |-> "none", value |-> value, sign |-> 0, cell |-> FALSE, places |-> {<<"prose", page, line>>}, conditions |-> {}, decision |-> decision]

\* says: the patterns a sentence matches; losses and transmissions: the values it states, in order.
ProseOf(page, line, s) ==
    LET of(fact, row, value, unit, decision) == FromProse(page, line, fact, row, value, unit, decision)
        n == SelectInSeq(Dispositions, LAMBDA d : d \in s.says)
        referred == IF "by_order" \in s.says THEN "by_reference" ELSE "parameter_specified"
    IN (IF n = 0 THEN <<>>
        ELSE <<of(<<"additional_surcharge", "none", "charge">>, {}, IF n = 1 THEN "0" ELSE "none", "none", Dispositions[n])>>)
       \o [m \in DOMAIN s.losses |-> of(<<"oa_loss", "none", "loss">>, s.losses[m].level, s.losses[m].value, "percent", "approved")]
       \o [m \in DOMAIN s.transmissions |->
              of(<<"transmission_reference", "none", s.transmissions[m].kind>>, s.transmissions[m].level \cup {"transmission"},
                 s.transmissions[m].value, s.transmissions[m].unit, referred)]
       \o (IF "banking_by_reference" \in s.says THEN <<of(<<"banking_rule", "none", "charge">>, {}, "none", "none", "by_reference")>> ELSE <<>>)

ProseDecisions(prose) ==
    FlattenSeq([page \in DOMAIN prose |-> FlattenSeq([n \in DOMAIN prose[page] |-> ProseOf(page, n, prose[page][n])])])

-----------------------------------------------------------------------------
(* The region.                                                             *)

FromCells(order, anchors, cells) == [n \in DOMAIN cells |-> FromCell(order, anchors, cells[n])]
FromClauses(order, clauses) == [n \in DOMAIN clauses |-> FromClause(order, clauses[n])]

\* Cells in reading order, then clauses, then sentences; nothing is made of an unread state.
Extracted(order, serial, anchors) ==
    LET read == {c \in order.cells : Column(c) \notin serial /\ c.state \notin Unread /\ ~Nameless(c)}
    IN [candidates |-> MergeDuplicates(FromCells(order, anchors, Reading(read))
                                       \o FromClauses(order, SelectSeq(order.clauses, LAMBDA v : v.kind # "condition"))
                                       \o ProseDecisions(order.prose)),
        missing |-> {CellPlace(c) : c \in {c \in order.cells : Column(c) \notin serial}} \ {CellPlace(c) : c \in read},
        serial |-> serial]

RulesExtract(order) ==
    Extracted(order, SerialColumns(order.cells),
              [p \in DOMAIN order.texts |-> GridAnchorLines(order.texts[p], {c \in order.cells : c.page = p})])

-----------------------------------------------------------------------------
(* Properties.                                                             *)

CitedBy(out, place) == {n \in DOMAIN out.candidates : place \in out.candidates[n].places}

\* Each printed number of a table has one home: a single candidate of that value, the list of
\* what could not be read, or a column of row numbers; a number is never made of a cell that
\* states none.  A column is dropped for row numbers only with all its cells.
NumbersHaveAHome(order, out) ==
    \A c \in order.cells :
        LET citing == CitedBy(out, CellPlace(c))
            homes == Cardinality(citing) + (IF CellPlace(c) \in out.missing THEN 1 ELSE 0) + (IF Column(c) \in out.serial THEN 1 ELSE 0)
        IN /\ homes = 1
           /\ \A n \in citing : out.candidates[n].value = NumberOf(c)

\* A table stands under the block printed last above it: those of two tables of one page are
\* not swapped or shared, though both print the same rows, as long as the first text of the
\* second is in no later row of the first.  start[g]: the line the first row of g is printed on.
FirstText(order, grid) == FirstOf({c \in order.cells : c.grid = grid}).raw
FirstPrintedThere(order, start) ==
    \A g \in DOMAIN start :
        \A i \in DOMAIN order.texts[1] :
            i < start[g] /\ FirstText(order, g) \in order.texts[1][i].words => \E h \in DOMAIN start : h < g /\ i <= start[h]

BlocksAsPrinted(order, start, out) ==
    FirstPrintedThere(order, start) =>
        \A grid \in DOMAIN start :
            LET printed == BlockAbove(order.texts[1], start[grid])
                places == {CellPlace(c) : c \in {c \in order.cells : c.grid = grid}}
            IN \A k \in ToSet(out.candidates) :
                   k.places \cap places # {} => k.block = printed \/ (printed = NoBlock /\ Cardinality(k.places) > 1)

RatesHold(order, start, out) == NumbersHaveAHome(order, out) /\ BlocksAsPrinted(order, start, out)
=============================================================================
