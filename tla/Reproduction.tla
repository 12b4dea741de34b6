---------------------------- MODULE Reproduction ----------------------------
(***************************************************************************)
(* The reproduction of a filed format through the rules                    *)
(* (arr/reproduce.py): the cells a binding reads for a column, the         *)
(* evaluation of the column's year, what every bound output comes to, and  *)
(* the end-to-end computation of the columns of a pipeline.                *)
(*                                                                         *)
(* A binding refers to a row of a sheet, possibly some columns away.  A    *)
(* cell has its state, its value and its unit; what is printed is rounded  *)
(* to a step.  Rates carry a figure and the figures of their quote.        *)
(***************************************************************************)
EXTENDS Rules

Column(year, voice, words) == [year |-> year, voice |-> voice, words |-> words]
Cell(state, value, unit) == [state |-> state, value |-> value, unit |-> unit, step |-> 1]
Ref(sheet, row, shift) == [sheet |-> sheet, row |-> row, shift |-> shift]

SameVoice(c, d) == c.year = d.year /\ c.voice = d.voice
SameYear(c, d) == c.year = d.year
Same(c, d) == c = d

-----------------------------------------------------------------------------
(* The cell of a reference in a column.                                    *)

\* The first of some columns of a sheet that is like another, or 0.
FirstLike(sheet, S, Like(_, _), col) ==
    LET hits == {i \in S : Like(sheet.columns[i], col)} IN IF hits = {} THEN 0 ELSE Min(hits)

At(cells, i) == IF i \in DOMAIN cells THEN cells[i] ELSE None

\* Mutant of Beside: another voice of the year will do.
BesideAnyVoice(sheet, cells, col, yearOnly) ==
    LET alike == FirstLike(sheet, DOMAIN cells, SameVoice, col)
    IN IF alike # 0 THEN alike ELSE FirstLike(sheet, DOMAIN cells, SameYear, col)

\* In another sheet: the voice, or the year alone where the binding declares the sheet a series.
Beside(sheet, cells, col, yearOnly) ==
    LET alike == FirstLike(sheet, DOMAIN cells, SameVoice, col)
        ofYear == {i \in DOMAIN cells : SameYear(sheet.columns[i], col)}
    IN CASE alike # 0 -> alike
         [] alike = 0 /\ yearOnly /\ Cardinality(ofYear) = 1 -> Min(ofYear)
         [] OTHER -> 0

CellAt(b, book, ref, col) ==
    LET sheet == book[ref.sheet]
        cells == sheet.rows[ref.row]
        exact(S) == FirstLike(sheet, S, Same, col)
        from == IF exact(DOMAIN sheet.columns) = 0 /\ ref.sheet # "own"
                THEN FirstLike(sheet, DOMAIN sheet.columns, SameVoice, col) ELSE exact(DOMAIN sheet.columns)
    IN IF ref.shift # 0 THEN IF from = 0 THEN None ELSE At(cells, from + ref.shift)
       ELSE IF exact(DOMAIN cells) # 0 \/ ref.sheet = "own" THEN At(cells, exact(DOMAIN cells))
       ELSE At(cells, Beside(sheet, cells, col, ref.sheet \in b.yearOnly))

\* A blank, or a state such as "NA", is zero only where the binding says so.
InputOfCell(b, ref, c) ==
    CASE c # None /\ c.state = "value" -> [value |-> IF ref \in b.negate THEN -c.value ELSE c.value, unit |-> c.unit]
      [] c # None /\ c.state \in b.statesAsZero -> [value |-> 0, unit |-> c.unit]
      [] (c = None \/ c.state = "blank") /\ ref \in b.blankIsZero -> [value |-> 0, unit |-> b.unit]
      [] OTHER -> None

Chosen(f) == [s \in {s \in DOMAIN f : f[s] # None} |-> f[s]]

\* What was fed replaces what is read, and what is read the declared constants.
ValuesOf(b, book, col, fed) ==
    fed @@ Chosen([s \in DOMAIN b.inputs |-> InputOfCell(b, b.inputs[s], CellAt(b, book, b.inputs[s], col))])
        @@ (IF col.year \in DOMAIN b.constants THEN b.constants[col.year] ELSE <<>>)

-----------------------------------------------------------------------------
(* What an output comes to.                                                *)

Outcome(result, computed, exact) == [result |-> result, computed |-> computed, exact |-> exact]

RoundedTo(v, step) == LET half(u) == ((2 * u + step) \div (2 * step)) * step IN IF v < 0 THEN -half(-v) ELSE half(v)

\* The year's rule read the row that is checked.
TookItself(b, rs, o) ==
    \E s \in DOMAIN b.inputs : b.inputs[s] = b.outputs[o] /\ \E n \in DOMAIN rs[o].inputs : rs[o].inputs[n].source = s

Compared(value, filed) ==
    Outcome(IF RoundedTo(value, filed.step) = filed.value THEN "match" ELSE "differs", RoundedTo(value, filed.step), value)

\* fill: a blank cell is told what belongs in it.
OutputCheck(b, rs, o, c, ev, fill) ==
    LET res == IF o \in DOMAIN ev.results THEN ev.results[o] ELSE None
        unit == IF c = None THEN b.unit ELSE c.unit
        value == IF res = None THEN None ELSE To(Of(res.value, res.unit), unit)
    IN CASE c = None \/ c.state = "blank" ->
              IF fill /\ value # None THEN Outcome("no_filed_value", value, res.value)
              ELSE Outcome("no_filed_value", None, None)
         [] c # None /\ c.state \notin {"blank", "value"} -> Outcome("not_a_value", None, None)
         [] OTHER -> IF res = None THEN Outcome("blocked", None, None)
                     ELSE IF ~res.given /\ TookItself(b, rs, o) THEN Outcome("given", None, None)
                     ELSE IF value = None THEN Outcome("blocked", None, None)
                     ELSE [Compared(value, c) EXCEPT !.exact = res.value]

NothingEvaluated == [results |-> <<>>, by |-> <<>>]

ReproduceColumn(b, book, rs, col, fed, fill) ==
    LET ev == IF rs = None \/ Order(rs) = None THEN NothingEvaluated ELSE EvaluateYear(rs, ValuesOf(b, book, col, fed), <<>>)
    IN [o \in DOMAIN b.outputs |-> OutputCheck(b, rs, o, CellAt(b, book, b.outputs[o], col), ev, fill)]

-----------------------------------------------------------------------------
(* Tables of rows, blocks, periods and free cells.  Where they differ is   *)
(* which comes first: an output without a value, or a cell without one.    *)

TableCheck(filed, res, style, fill) ==
    LET blocked == Outcome("blocked", None, None)
        toFill == Outcome("no_filed_value", res.value, res.value)
    IN CASE style = "block" /\ filed = None -> Outcome("no_filed_value", None, None)
         [] style = "row" /\ filed = None /\ ~fill -> None
         [] style = "ledger" /\ filed = None /\ res # None -> Outcome("no_filed_value", res.value, None)
         [] OTHER -> IF res = None THEN blocked ELSE IF filed = None THEN toFill ELSE Compared(res.value, Cell("value", filed, res.unit))

\* A row is a category if it has a label (or is declared without one), is no total and holds a bound value.
RowCategories(rows, inputs, declaredBlank) ==
    LET read(r) == Chosen([s \in inputs |-> IF s \in DOMAIN r.cells THEN r.cells[s] ELSE None])
        filled(r) == read(r) @@ [s \in declaredBlank \cap inputs |-> [value |-> 0, unit |-> "INR"]]
        kept == {i \in DOMAIN rows : /\ rows[i].label # "total" /\ ~rows[i].skipped
                                     /\ rows[i].label # "" \/ rows[i].declared
                                     /\ read(rows[i]) # <<>>}
    IN [i \in kept |-> filled(rows[i])]

\* An account is in a comparison if any of its sets of conditions holds of all its groupings.
Matches(value, cond) ==
    CASE cond.kind = "is" -> value \in cond.of [] cond.kind = "not" -> value \notin cond.of

LedgerCategories(accounts, sets, sign) ==
    LET inAny(a) == \E w \in sets : \A col \in DOMAIN w : Matches(a.groups[col], w[col])
    IN [i \in {i \in DOMAIN accounts : accounts[i].amount # None /\ inAny(accounts[i])} |-> sign * accounts[i].amount]

LedgerTotal(accounts, sets, sign) ==
    LET cats == LedgerCategories(accounts, sets, sign)
    IN IF cats = <<>> THEN None ELSE Result(MapThenSumSet(LAMBDA i : cats[i], DOMAIN cats), "INR", FALSE)

-----------------------------------------------------------------------------
(* The inputs of an evaluation laid out freely on a sheet.                 *)

Refused == [refused |-> TRUE]

Size(v) == IF v < 0 THEN -v ELSE v

\* A rate stands with its page and the text it was read from, and the figure is in that text.
RateOf(r) ==
    IF r.complete /\ (Size(r.value) \in r.quoted \/ (r.value = 0 /\ r.dash)) THEN [value |-> r.value, unit |-> r.unit] ELSE Refused

LoadRateRecord(record) ==
    IF ~record.document \/ \E k \in DOMAIN record.rates : RateOf(record.rates[k]) = Refused THEN Refused
    ELSE [k \in DOMAIN record.rates |-> RateOf(record.rates[k])]

RateInput(spec, rates) ==
    LET keys == {spec.rate} \cup spec.plus \cup spec.minus
        total == rates[spec.rate].value + MapThenSumSet(LAMBDA k : rates[k].value, spec.plus)
                                        - MapThenSumSet(LAMBDA k : rates[k].value, spec.minus)
    IN IF ~(keys \subseteq DOMAIN rates) \/ Cardinality({rates[k].unit : k \in keys}) > 1 \/ (spec.negate /\ ~spec.why) THEN Refused
       ELSE [value |-> IF spec.negate THEN -total ELSE total, unit |-> rates[spec.rate].unit]

\* computed: what the earlier evaluations of the binding reached, by label.
ReadInput(spec, cells, rates, computed, fill) ==
    CASE spec.from = "computed" ->
            LET got == IF spec.label \in DOMAIN computed /\ spec.output \in DOMAIN computed[spec.label]
                       THEN computed[spec.label][spec.output] ELSE None
            IN IF got # None THEN [value |-> got.value, unit |-> got.unit] ELSE IF fill THEN None ELSE Refused
      [] spec.from = "rate" -> RateInput(spec, rates)
      [] spec.from = "value" -> IF spec.why THEN [value |-> spec.value, unit |-> spec.unit] ELSE Refused
      [] spec.from = "cell" -> IF cells[spec.cell] # None THEN [value |-> cells[spec.cell], unit |-> spec.unit]
                               ELSE IF spec.blankIsZero THEN [value |-> 0, unit |-> spec.unit] ELSE None

\* The evaluations in the order of the binding, each over what the ones before it computed.
ReproduceCells(evaluations, cells, rates, rs, fill) ==
    FoldLeft(LAMBDA at, e :
                 LET read == [s \in DOMAIN e.inputs |-> ReadInput(e.inputs[s], cells, rates, at.computed, fill)]
                     results == EvaluateYear(rs, Chosen(read), <<>>).results
                 IN IF at.refused \/ \E s \in DOMAIN read : read[s] = Refused THEN [at EXCEPT !.refused = TRUE]
                    ELSE [at EXCEPT !.computed = (e.label :> results) @@ @,
                                    !.checks = @ \o <<[o \in DOMAIN e.checks |->
                                        TableCheck(cells[e.checks[o]], IF o \in DOMAIN results THEN results[o] ELSE None, "cells", fill)]>>],
             [refused |-> FALSE, computed |-> <<>>, checks |-> <<>>], evaluations)

-----------------------------------------------------------------------------
(* A pipeline: columns fed from schedules and from each other.             *)

\* A feed names a column of the pipeline or a schedule's value, of its own year unless a reason is given.
FeedsStand(columns) ==
    \A k \in DOMAIN columns : \A s \in DOMAIN columns[k].feeds :
        LET f == columns[k].feeds[s]
        IN /\ f.why \/ (f.column = None /\ f.year = columns[k].col.year)
           /\ f.column # None => f.column \in DOMAIN columns

Upstream(columns, k) == {columns[k].feeds[s].column : s \in DOMAIN columns[k].feeds} \ {None}

ReadyColumns(columns, order) == {k \in DOMAIN columns \ ToSet(order) : Upstream(columns, k) \subseteq ToSet(order)}

\* The columns in an order in which each follows those that feed it; None: they feed each other.
PipelineOrder(columns) ==
    FoldLeft(LAMBDA order, k : IF order = None \/ ReadyColumns(columns, order) = {} THEN None
                               ELSE Append(order, Min(ReadyColumns(columns, order))),
             <<>>, SetToSeq(DOMAIN columns))

\* schedules: what the bindings of the schedules computed, unrounded.
FedTo(columns, k, schedules, reached) ==
    Chosen([s \in DOMAIN columns[k].feeds |->
        LET f == columns[k].feeds[s]
            of == IF f.column # None THEN reached[f.column] ELSE schedules[f.year]
        IN IF f.output \in DOMAIN of THEN of[f.output] ELSE None])

Reached(checks) == [o \in {o \in DOMAIN checks : checks[o].exact # None} |-> [value |-> checks[o].exact, unit |-> "INR"]]

ReproducePipeline(columns, b, book, rs, schedules) ==
    IF ~FeedsStand(columns) \/ PipelineOrder(columns) = None THEN None
    ELSE FoldLeft(LAMBDA at, k :
             LET fed == FedTo(columns, k, schedules, at.reached)
                 checks == ReproduceColumn(b, book, rs, columns[k].col, fed, FALSE)
             IN [reached |-> (k :> Reached(checks)) @@ at.reached, fed |-> (k :> fed) @@ at.fed],
         [reached |-> <<>>, fed |-> <<>>], PipelineOrder(columns))
-----------------------------------------------------------------------------
(* Properties.                                                             *)

Blanked(book, sheet, S) ==
    [book EXCEPT ![sheet].rows = [r \in DOMAIN @ |-> [i \in DOMAIN @[r] |->
        IF <<r, i>> \in S THEN Cell("blank", 0, @[r][i].unit) ELSE @[r][i]]]]

\* The cells of another year or voice than a column's.
Others(book, sheet, col) ==
    {<<r, i>> \in (DOMAIN book[sheet].rows) \X (DOMAIN book[sheet].columns) :
        i \in DOMAIN book[sheet].rows[r] /\ ~SameVoice(book[sheet].columns[i], col)}

Alone(b, book, col) ==
    FoldSet(LAMBDA sheet, at : IF sheet \in b.yearOnly THEN at ELSE Blanked(at, sheet, Others(book, sheet, col)), book, DOMAIN book)

Refs(b) == {b.inputs[s] : s \in DOMAIN b.inputs} \cup {b.outputs[o] : o \in DOMAIN b.outputs}

\* The row of an output is read for another output its rule needs.
TookIndirectly(b, rs, o) == \E d \in DOMAIN rs \ {o} : \E s \in DOMAIN b.inputs :
    b.inputs[s] = b.outputs[o] /\ \E n \in DOMAIN rs[d].inputs : rs[d].inputs[n].source = s

\* A figure of one voice is never computed from, or held against, another
\* voice's, unless the binding declares the series or points to the column.
VoicesApart(b, book, rs, col, fed, checks) ==
    (\A ref \in Refs(b) : ref.shift = 0) => checks = ReproduceColumn(b, Alone(b, book, col), rs, col, fed, FALSE)

\* A match is a computation that comes to the figure at its printed precision,
\* and would have come to the same had the figure not been filed: the echo of
\* a figure its own rule read is no match.
MatchIsComputed(b, book, rs, col, fed, checks) ==
    \A o \in DOMAIN checks : checks[o].result \in {"match", "differs"} =>
        LET ref == b.outputs[o]
            i == FirstLike(book[ref.sheet], DOMAIN book[ref.sheet].rows[ref.row], Same, col)
            unfiled == Blanked(book, ref.sheet, {<<ref.row, i>>})
            filed == CellAt(b, book, ref, col)
            printed == To(Of(checks[o].exact, rs[o].unit), filed.unit)
            off == 2 * Size(printed - filed.value)
        IN /\ (checks[o].result = "match") = (off < filed.step \/ (off = filed.step /\ Size(filed.value) > Size(printed)))
           /\ ~TookIndirectly(b, rs, o) => ReproduceColumn(b, unfiled, rs, col, fed, TRUE)[o].exact = checks[o].exact

ColumnHolds(b, book, rs, col, fed, checks) ==
    VoicesApart(b, book, rs, col, fed, checks) /\ MatchIsComputed(b, book, rs, col, fed, checks)

\* Every column is computed from the final figure of each column that feeds
\* it; the pipeline is refused exactly if columns feed each other, or a feed
\* from elsewhere comes without a reason.
PipelineHolds(columns, result) ==
    LET upstream[n \in 0 .. Cardinality(DOMAIN columns)] ==
            [k \in DOMAIN columns |-> IF n = 0 THEN Upstream(columns, k)
                                       ELSE upstream[n - 1][k] \cup UNION {Upstream(columns, j) : j \in upstream[n - 1][k]}]
    IN IF result = None THEN ~FeedsStand(columns) \/ \E k \in DOMAIN columns : k \in upstream[Cardinality(DOMAIN columns)][k]
       ELSE /\ DOMAIN result.reached = DOMAIN columns
            /\ \A k \in DOMAIN columns : \A s \in DOMAIN columns[k].feeds :
                  LET f == columns[k].feeds[s]
                  IN f.column # None => IF f.output \in DOMAIN result.reached[f.column]
                                        THEN s \in DOMAIN result.fed[k] /\ result.fed[k][s] = result.reached[f.column][f.output]
                                        ELSE s \notin DOMAIN result.fed[k]

\* Where nothing is missing a fill computes what the check computes.
CellsHold(evaluations, cells, rates, rs, result) ==
    ~result.refused => result.computed = ReproduceCells(evaluations, cells, rates, rs, TRUE).computed

\* An account in several of the named groups is counted once.
LedgerHolds(accounts, v, w, total) ==
    LET sum(sets) == LET t == LedgerTotal(accounts, sets, 1) IN IF t = None THEN 0 ELSE t.value
    IN (IF total = None THEN 0 ELSE total.value) = sum({v}) + sum({w}) - sum({v @@ w})
=============================================================================
