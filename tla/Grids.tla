------------------------------- MODULE Grids -------------------------------
(***************************************************************************)
(* Table-grid integrity (grid_integrity.py, the slabs of normalise.py):    *)
(* from the rows a reader returns to cells with a header, a row path and a *)
(* value, over merged, split and continued cells.  A cell's text is known  *)
(* by what it is: blank, a label, a number or a voltage divider.           *)
(***************************************************************************)
EXTENDS Integers, Sequences, FiniteSets, FiniteSetsExt, SequencesExt

Blank == ""
CONSTANTS Labels, Numbers, Dividers,   \* texts of cells; a number may be nil, a dash or a footnote's mark
          RowUnits                     \* headings that name the unit of their row

NoGrid == [page |-> 0, paths |-> <<>>, cells |-> {}]

\* A blank heading inherits the one to its left, row by row.
HeaderPaths(rows, headerRows, width) ==
    LET text(r, c) == LET printed == {d \in 1 .. c : rows[r][d] # Blank}
                      IN IF printed = {} THEN Blank ELSE rows[r][Max(printed)]
    IN [c \in 1 .. width |->
            FoldLeft(LAMBDA path, r :
                         IF text(r, c) = Blank \/ (path # <<>> /\ Last(path) = text(r, c)) THEN path
                         ELSE Append(path, text(r, c)),
                     <<>>, [r \in 1 .. headerRows |-> r])]

-----------------------------------------------------------------------------
(* Columns drawn as several.                                               *)

Apart(rows, group, c) == \A r \in DOMAIN rows : rows[r][c] = Blank \/ \A d \in group : rows[r][d] = Blank

\* The heading and the data of a split column stand in different sub-columns.
Qualifies(rows, headerRows, group) ==
    LET filled(from, to) == {c \in group : \E r \in from .. to : rows[r][c] # Blank}
        heads == filled(1, headerRows)
        data == filled(headerRows + 1, Len(rows))
    IN Cardinality(group) > 1 /\ heads # {} /\ data # {} /\ heads \cap data = {}

\* Adjacent columns no row of which has text in both are one.
CollapseSplitColumns(rows, headerRows, width) ==
    LET groups == FoldLeft(LAMBDA gs, c : IF gs # <<>> /\ Apart(rows, Last(gs), c)
                                          THEN [gs EXCEPT ![Len(gs)] = @ \cup {c}]
                                          ELSE Append(gs, {c}),
                           <<>>, [c \in 1 .. width |-> c])
        kept(g) == IF Qualifies(rows, headerRows, g) THEN <<g>>
                   ELSE SetToSortSeq({{c} : c \in g}, LAMBDA a, b : Max(a) < Max(b))
    IN FlattenSeq([i \in DOMAIN groups |-> kept(groups[i])])

Merged(rows, columns) ==
    [r \in DOMAIN rows |->
        [i \in DOMAIN columns |->
            LET printed == {c \in columns[i] : rows[r][c] # Blank}
            IN IF printed = {} THEN Blank ELSE rows[r][Min(printed)]]]

-----------------------------------------------------------------------------
(* One grid.                                                               *)

\* The first column whose heading names one holds the unit of each row, and nothing else.
RowUnitColumn(paths) ==
    LET named == {c \in DOMAIN paths : ToSet(paths[c]) \cap RowUnits # {}} IN IF named = {} THEN {} ELSE {Min(named)}

\* A column of labels: at most a third of its data cells are numbers.
LabelColumns(data, columns) ==
    {c \in columns :
        LET filled == {r \in DOMAIN data : data[r][c] # Blank}
            numeric == {r \in filled : data[r][c] \in Numbers}
        IN IF filled = {} THEN c = 1 ELSE Cardinality(numeric) <= Cardinality(filled) \div 3}

IsDivider(row) == \E c \in DOMAIN row : row[c] \in Dividers /\ \A d \in DOMAIN row \ {c} : row[d] = Blank

\* The labels after a row: a label that is printed ends those right of it.
LabelsAfter(row, labels, last) ==
    [c \in labels |-> IF row[c] # Blank THEN row[c]
                      ELSE IF \E d \in labels : d < c /\ row[d] # Blank THEN Blank ELSE last[c]]

OwnLabelBlank(row, labels) == labels # {} /\ row[Min(labels)] = Blank

CarriedToAny(row, labels, carried, c) == IF row[c] # Blank THEN row[c] ELSE carried[c]

\* A spanning value cell: a blank one under a blank label takes what was carried to it.
CarriedTo(row, labels, carried, c) ==
    IF row[c] # Blank THEN row[c] ELSE IF OwnLabelBlank(row, labels) THEN carried[c] ELSE Blank

\* A labelled row starts the carried values anew.
CarriedAfter(row, labels, carried) ==
    [c \in DOMAIN row |-> IF c \in labels THEN Blank ELSE CarriedTo(row, labels, carried, c)]

\* A grid without a header of its own, on the page after one of as many columns, continues it.
Continues(grid, paths, width, previous) ==
    /\ previous.page = grid.page - 1 /\ Len(previous.paths) = width
    /\ \A c \in 1 .. width : paths[c] = <<>>

Repeats(grid, paths, width, previous) ==
    /\ previous.page = grid.page - 1 /\ Len(previous.paths) = width
    /\ \A c \in 1 .. width : (IF paths[c] = <<>> THEN Blank ELSE Last(paths[c]))
                              = (IF previous.paths[c] = <<>> THEN Blank ELSE Last(previous.paths[c]))

\* The last row of the grid before gives the first labels and carried values;
\* its cells are cited by the reader's column and looked up by the merged one.
LastRow(previous) == {k \in previous.cells : \A j \in previous.cells : j.row <= k.row}

\* What is known of a grid before its rows: its columns, whether it goes on from the one before, its data.
ShapeOf(grid, previous, columns, rows, own) ==
    LET continues == Continues(grid, own, Len(columns), previous)
        header == IF continues THEN 0 ELSE grid.header
        paths == IF continues THEN previous.paths ELSE own
    IN [columns |-> columns, rows |-> rows, paths |-> paths, rowUnit |-> RowUnitColumn(paths),
        continues |-> continues \/ Repeats(grid, own, Len(columns), previous),
        header |-> header, data |-> SubSeq(rows, header + 1, Len(rows))]

StartAfter(before, labels, width) ==
    LET path == IF before = {} THEN <<>> ELSE (CHOOSE k \in before : TRUE).path
        rank(c) == Cardinality({d \in labels : d <= c})
    IN [last |-> [c \in labels |-> IF rank(c) <= Len(path) THEN path[rank(c)] ELSE Blank],
        carried |-> [c \in 1 .. width |->
                        LET there == {k \in before : k.column = c}
                        IN IF there = {} THEN Blank ELSE (CHOOSE k \in there : TRUE).raw],
        divider |-> Blank, cells |-> {}]

\* The cells of a data row under its labels.
CellsOf(grid, shape, labels, at, i, last) ==
    LET row == shape.data[i]
        path == SelectSeq([j \in DOMAIN row |-> IF j \in labels THEN last[j] ELSE Blank] \o <<at.divider>>, LAMBDA t : t # Blank)
        printed(c) == {d \in shape.columns[c] : grid.rows[shape.header + i][d] # Blank}
        raw == [c \in DOMAIN row \ (labels \cup shape.rowUnit) |-> CarriedTo(row, labels, at.carried, c)]
    IN {[row |-> shape.header + i, column |-> Min(IF printed(c) = {} THEN shape.columns[c] ELSE printed(c)), raw |-> raw[c],
         propagated |-> row[c] = Blank, path |-> path, rowUnit |-> {row[d] : d \in shape.rowUnit}] : c \in {d \in DOMAIN raw : raw[d] # Blank}}

AnalyseRow(grid, shape, labels, at, i, last) ==
    IF IsDivider(shape.data[i]) THEN [at EXCEPT !.divider = CHOOSE t \in Dividers : t \in ToSet(shape.data[i])]
    ELSE [last |-> last, carried |-> CarriedAfter(shape.data[i], labels, at.carried), divider |-> at.divider,
          cells |-> at.cells \cup CellsOf(grid, shape, labels, at, i, last)]

AnalyseRows(grid, previous, shape, labels) ==
    LET before == IF shape.continues /\ previous.cells # {} THEN LastRow(previous) ELSE {}
        read == FoldLeft(LAMBDA at, i : AnalyseRow(grid, shape, labels, at, i, LabelsAfter(shape.data[i], labels, at.last)),
                         StartAfter(before, labels, Len(shape.columns)), [i \in DOMAIN shape.data |-> i])
    IN [page |-> grid.page, rows |-> shape.rows, paths |-> shape.paths, columns |-> shape.columns,
        continues |-> shape.continues, labels |-> labels, rowUnit |-> shape.rowUnit, header |-> shape.header, cells |-> read.cells]

AnalyseShape(grid, previous, shape) == AnalyseRows(grid, previous, shape, LabelColumns(shape.data, DOMAIN shape.columns \ shape.rowUnit))

AnalyseMerged(grid, previous, columns, rows) ==
    AnalyseShape(grid, previous, ShapeOf(grid, previous, columns, rows, HeaderPaths(rows, grid.header, Len(columns))))

AnalyseColumns(grid, previous, columns) == AnalyseMerged(grid, previous, columns, Merged(grid.rows, columns))

AnalyseGrid(grid, previous) ==
    AnalyseColumns(grid, previous, CollapseSplitColumns(grid.rows, grid.header, Len(grid.rows[1])))

AnalyseGrids(grids) ==
    FoldLeft(LAMBDA found, g : Append(found, AnalyseGrid(g, IF found = <<>> THEN NoGrid ELSE Last(found))), <<>>, grids)

-----------------------------------------------------------------------------
(* Units: a cell's own, or those of the nearest text that names one.        *)

\* The sources of hints, nearest first: the header, the row-unit column, the title, the footnotes.
First(cell, sources, field) ==
    LET named == {i \in DOMAIN sources : sources[i][field] # "none"}
    IN IF cell[field] # "none" THEN 0 ELSE IF named = {} THEN -1 ELSE Min(named)

\* A percentage, or a bare zero under a heading of percentages, has no currency.
IsPercent(cell, sources) == cell.state = "percent" \/ (cell.state = "zero" /\ sources[1].percent)

\* A cell that names either takes the other from the header or the row-unit column only, and is never flagged.
OwnsUnit(cell) == cell.unit # "none" \/ cell.currency # "none"

\* What neither names is left open; a currency without a unit is let pass.
UnitFlags(cell, unit, currency) ==
    CASE OwnsUnit(cell) \/ currency # "none" -> {}
      [] ~OwnsUnit(cell) /\ currency = "none" -> {IF unit = "none" THEN "unit_unresolved" ELSE "currency_unresolved"}

BindUnit(cell, sources) ==
    LET used == IF OwnsUnit(cell) THEN SubSeq(sources, 1, 2) ELSE sources
        from == [f \in {"unit", "currency"} |-> First(cell, used, f)]
        text(f) == CASE from[f] = -1 -> "none" [] from[f] = 0 -> cell[f] [] OTHER -> used[from[f]][f]
    IN IF IsPercent(cell, sources)
       THEN [unit |-> "percent", currency |-> "none", from |-> [f \in {"unit", "currency"} |-> 0], flags |-> {}]
       ELSE [unit |-> text("unit"), currency |-> text("currency"), from |-> from,
             flags |-> UnitFlags(cell, text("unit"), text("currency"))]

-----------------------------------------------------------------------------
(* Slabs, their bounds in halves of a unit.                                *)

Unbounded == -1

\* What the words of a label say; which of the two ends is in is explicit in some of them only.
ParseSlab(label, a, b) ==
    LET slab(lower, upper, lowerIn, upperIn, words) ==
            [lower |-> lower, upper |-> upper, lowerIn |-> lowerIn, upperIn |-> upperIn, words |-> words]
    IN CASE label = "up to and including b" -> slab(Unbounded, b, FALSE, TRUE, "explicit")
         [] label = "up to b" -> slab(Unbounded, b, FALSE, TRUE, "inferred")
         [] label = "first b" -> slab(0, b, TRUE, TRUE, "inferred")
         [] label = "next b" -> slab(Unbounded, b, FALSE, TRUE, "inferred")
         [] label = "above a" -> slab(a, Unbounded, FALSE, FALSE, "inferred")
         [] label = "above a to b" -> slab(a, b, FALSE, TRUE, "inferred")
         [] label = "a to b" -> slab(a, b, TRUE, TRUE, "inferred")
         [] label \in {"a and above", "from a"} -> slab(a, Unbounded, TRUE, FALSE, "explicit")
         [] label = "more than a" -> slab(a, Unbounded, FALSE, FALSE, "explicit")
         [] label = "below b" -> slab(Unbounded, b, FALSE, FALSE, "explicit")

\* The step between what adjacent slabs cover: a whole unit if both bounds are whole.
Step(prev, cur) == IF prev.upper % 2 = 0 /\ cur.lower % 2 = 0 THEN 2 ELSE 0

LastCovered(prev, step) == IF prev.upperIn THEN prev.upper ELSE prev.upper - step
FirstCovered(cur, step) == IF cur.lowerIn THEN cur.lower ELSE cur.lower + step

Adjoins(prev, cur) ==
    \/ prev.upper = Unbounded \/ cur.lower = Unbounded
    \/ LET step == Step(prev, cur) IN FirstCovered(cur, step) = LastCovered(prev, step) + step /\ step # 0

\* Two neighbours that both claim a boundary, or leave a gap, are ambiguous unless their words are explicit.
CheckSlabSequence(bounds) ==
    [i \in DOMAIN bounds |->
        IF bounds[i].words = "explicit" \/ \A j \in {i - 1, i} \cap 1 .. Len(bounds) - 1 : Adjoins(bounds[j], bounds[j + 1])
        THEN bounds[i].words ELSE "ambiguous"]

-----------------------------------------------------------------------------
(* Properties.                                                             *)

\* The nearest row at or above r with text in column c, if no row after it stops the carry; else 0.
Above(rows, from, r, c, Stops(_)) ==
    LET printed == {q \in from .. r : rows[q][c] # Blank}
    IN IF printed = {} \/ \E q \in Max(printed) + 1 .. r : Stops(rows[q]) THEN 0 ELSE Max(printed)

\* What the reader printed is what the grid says: every number in a data row
\* is a cell that cites the column it was read in, none is lost in a merged
\* column; a value that was not printed there is the nearest one above it in
\* its column, with no labelled row in between; and a row is named by the
\* nearest labels above it, each as long as none left of it changed.  The
\* column of row units gives no cell and every cell the unit of its own row.
GridHolds(grid, found) ==
    LET lines == {r \in found.header + 1 .. Len(found.rows) : ~IsDivider(found.rows[r])}
        numbers == DOMAIN found.columns \ (found.labels \cup found.rowUnit)
        folded == [r \in DOMAIN found.rows |-> IF r \in lines THEN found.rows[r] ELSE [c \in DOMAIN found.columns |-> Blank]]
        valueAt(r, c) == Above(folded, found.header + 1, r, c,
                               LAMBDA row : found.labels = {} \/ row[Min(found.labels)] # Blank)
        labelAt(r, c) == Above(folded, found.header + 1, r, c, LAMBDA row : \E d \in found.labels : d < c /\ row[d] # Blank)
    IN /\ \A r \in lines, c \in 1 .. Len(grid.rows[1]) :
              grid.rows[r][c] = Blank \/ (\E i \in found.labels \cup found.rowUnit : c \in found.columns[i])
              \/ \E k \in found.cells : k.row = r /\ k.column = c /\ k.raw = grid.rows[r][c]
       /\ \A k \in found.cells : ~k.propagated => grid.rows[k.row][k.column] = k.raw
       /\ \A k \in found.cells, c \in found.rowUnit :
              k.column \notin found.columns[c] /\ k.rowUnit = {found.rows[k.row][c]}
       /\ ~found.continues =>
              \A r \in lines :
                 /\ {[column |-> k.column, raw |-> k.raw] : k \in {k \in found.cells : k.row = r /\ k.propagated}}
                     = {[column |-> Min(found.columns[c]), raw |-> found.rows[valueAt(r, c)][c]] :
                            c \in {c \in numbers : found.rows[r][c] = Blank /\ valueAt(r, c) # 0}}
                 /\ \A k \in found.cells : k.row = r =>
                        \A c \in found.labels : labelAt(r, c) # 0 => found.rows[labelAt(r, c)][c] \in ToSet(k.path)

\* The rows of a table after a page break are the cells the whole table would have there.
GoesOn(top, upper, rest, whole) ==
    LET plain(g) == Len(g.columns) = Len(top.rows[1]) /\ g.labels = rest.labels
        full == \E k \in upper.cells : k.row = Len(top.rows) /\ Len(k.path) = Cardinality(rest.labels)
        after(cells, n) == {[k EXCEPT !.row = @ - n] : k \in {k \in cells : k.row > n}}
        divided == \E r \in DOMAIN top.rows : IsDivider(top.rows[r])
    IN (rest.continues /\ plain(upper) /\ plain(rest) /\ full /\ ~divided) =>
           ~plain(whole) \/ after(whole.cells, Len(top.rows)) = after(rest.cells, rest.header)

\* A table torn by a page break reads as the table in one piece: where the
\* columns are not split, the last row before the break holds a number and
\* names all its labels and no divider stands above.
TornHolds(grids, found) ==
    \A i \in 1 .. Len(grids) - 1 :
        LET rest == SubSeq(found[i + 1].rows, found[i + 1].header + 1, Len(found[i + 1].rows))
        IN GoesOn(grids[i], found[i], found[i + 1], AnalyseGrid([grids[i] EXCEPT !.rows = @ \o rest], NoGrid))

\* A unit or a currency is never taken from a text while a nearer one names it, nor by a cell with one of
\* its own from beyond the row; a percentage has no currency; an amount the grid lets through unflagged
\* is in a known currency or names its unit itself; and it is blocked, as neither is known, only
\* when no text around it names either.
UnitHolds(cell, sources, bound) ==
    LET fields == {"unit", "currency"}
        silent(i) == \A f \in fields : sources[i][f] = "none"
        percent == bound.unit = "percent"
    IN /\ percent => bound.currency = "none" /\ (cell.state = "percent" \/ cell.state = "zero")
       /\ ~percent =>
             /\ \A f \in fields :
                   /\ cell[f] # "none" => bound[f] = cell[f]
                   /\ bound[f] # "none" => bound.from[f] >= 0
                   /\ \A i \in 1 .. bound.from[f] - 1 : sources[i][f] = "none"
             /\ cell.unit # "none" \/ cell.currency # "none" => \A f \in fields : bound.from[f] <= 2
             /\ bound.flags = {} => bound.currency # "none" \/ cell.unit # "none"
             /\ "unit_unresolved" \in bound.flags <=> cell.unit = "none" /\ cell.currency = "none" /\ \A i \in DOMAIN sources : silent(i)

\* Whole quantities between two slabs left to stand are in exactly one of them.
SlabsHold(bounds, checked) ==
    \A i \in 1 .. Len(bounds) - 1 :
        LET prev == bounds[i] cur == bounds[i + 1]
            under(x) == x < prev.upper \/ (x = prev.upper /\ prev.upperIn)
            over(x) == x > cur.lower \/ (x = cur.lower /\ cur.lowerIn)
            between == Min({prev.upper, cur.lower}) .. Max({prev.upper, cur.lower})
        IN \/ "ambiguous" \in {checked[i], checked[i + 1]}
           \/ {checked[i], checked[i + 1]} = {"explicit"}
           \/ prev.upper = Unbounded \/ cur.lower = Unbounded
           \/ \A x \in between : x % 2 = 0 => under(x) # over(x)
=============================================================================
