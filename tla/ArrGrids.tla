------------------------------ MODULE ArrGrids ------------------------------
(***************************************************************************)
(* Reading an ARR chapter's tables by rules (arr/extract.py): the columns  *)
(* that hold values and the licensee, year and voice of each, the rows and *)
(* the line each is placed on, and one candidate for each value.           *)
(*                                                                         *)
(* A printed text is the sequence of the words of it that say something; a *)
(* cell of an amount is the one word of its number.  Of a chapter: its     *)
(* title above each table, the part it sits in and its branch.             *)
(***************************************************************************)
EXTENDS Labels

CONSTANTS
    Years, Voices, Licensees, Numbers, Units,   \* words; voices and units in the order they are looked for
    Summary                                     \* the lines that are the ARR's own totals

First(words, text) ==
    LET said == SelectSeq(words, LAMBDA w : w \in ToSet(text)) IN IF said = <<>> THEN None ELSE said[1]
TheOne(S) == IF Cardinality(S) = 1 THEN CHOOSE x \in S : TRUE ELSE None

FiscalYear(text) == TheOne(ToSet(text) \cap Years)
LicenseeNamed(text) == TheOne(ToSet(text) \cap Licensees)
Voice(text) == First(Voices, text)
UnitFromText(text) == First(Units, text)
Opens(text, words) == text # <<>> /\ text[1] \in words
IsNumber(cell) == Len(cell) = 1 /\ cell[1] \in Numbers

\* Nil is a zero; a dash or a blank is a state of the source, never the number 0.
ParseValue(cell) ==
    CASE cell = <<>> \/ cell = <<"dash">> -> "absent_in_source"
      [] cell = <<"nil">> -> "zero"
      [] IsNumber(cell) -> cell[1]
      [] OTHER -> "unknown"

Cell(row, j) == IF j \in DOMAIN row THEN row[j] ELSE <<>>
Width(g) == Max({0} \cup {Len(g.rows[i]) : i \in DOMAIN g.rows})

-----------------------------------------------------------------------------
(* Headers.                                                                *)

\* A heading printed once over several columns: the last one at or left of the column.
Carried(row, j) ==
    LET at == {k \in 1 .. j : Cell(row, k) # <<>>} IN IF at = {} THEN <<>> ELSE row[Max(at)]

\* A year is carried right, and a group heading over a column the next header row names.
HeaderCell(rows, i, j) ==
    LET carried == Carried(rows[i], j)
        names == i < Len(rows) /\ Cell(rows[i + 1], j) # <<>> /\ "particulars" \notin ToSet(carried) /\ ~Opens(carried, {"sno", "units"})
    IN IF Cell(rows[i], j) # <<>> \/ FiscalYear(carried) # None \/ names THEN carried ELSE <<>>

HeaderTexts(g) ==
    [j \in 1 .. Width(g) |-> FlattenSeq([i \in 1 .. g.header |-> HeaderCell(SubSeq(g.rows, 1, g.header), i, j)])]

\* A second header row counted as data: no number in it and a voice.
WithSecondHeader(g) ==
    LET next == g.rows[g.header + 1]
    IN IF /\ Len(g.rows) > g.header + 1
          /\ \A j \in DOMAIN next : ~IsNumber(next[j])
          /\ \E j \in DOMAIN next : Voice(next[j]) # None
       THEN [g EXCEPT !.header = @ + 1] ELSE g

Body(g) == g.header + 1 .. Len(g.rows)

\* The title: from the last line that opens like one, else the line right above the table.
TableTitle(lines) ==
    LET printed == SelectSeq(lines, LAMBDA t : t # <<>>)
        n == SelectLastInSeq(printed, LAMBDA t : Opens(t, {"table"}))
    IN IF printed = <<>> THEN <<>> ELSE IF n = 0 THEN Last(printed) ELSE FlattenSeq(SubSeq(printed, n, Len(printed)))

\* An approval inside a true-up is trued up and inside a review provisional, unless it is of an
\* earlier order; the nearest words decide: the header's, the part's, the title's.
VoiceInContext(header, title, part) ==
    LET said == IF Voice(header) # None THEN Voice(header) ELSE Voice(title)
        says(text) == CASE {"apr", "trueup"} \cap ToSet(text) = {"apr"} -> "provisional_true_up"
                        [] {"apr", "trueup"} \cap ToSet(text) = {"trueup"} -> "final_true_up"
                        [] OTHER -> None
        near == SelectSeq(<<says(header), says(part), says(title)>>, LAMBDA v : v # None)
    IN IF said # "approved" \/ "earlier" \in ToSet(header) \/ near = <<>> THEN said ELSE near[1]

-----------------------------------------------------------------------------
(* Licensees named by row.                                                 *)

LicenseeColumn(g, headers) ==
    LET named(j) == {LicenseeNamed(g.rows[i][j]) : i \in {i \in Body(g) : Cell(g.rows[i], j) # <<>>}}
        titled == {j \in DOMAIN headers : headers[j] = <<"licensee">>}
        filled == {j \in DOMAIN headers : j <= 2 /\ None \notin named(j) /\ Cardinality(named(j)) >= 2}
    IN IF titled # {} THEN Min(titled) ELSE IF filled # {} THEN Min(filled) ELSE None

\* A licensee's name alone on a row above its block.
HeadingRows(g, col) ==
    {i \in Body(g) : /\ col = None \/ Cell(g.rows[i], col) = <<>>
                     /\ \E j \in DOMAIN g.rows[i] : /\ LicenseeNamed(g.rows[i][j]) # None
                                                    /\ \A k \in DOMAIN g.rows[i] \ {j} : g.rows[i][k] = <<>>}

\* Mutant of RowOwner: a cell that names no licensee leaves the rows to the one before.
RowOwnerCarried(g, col, i) ==
    LET says == {k \in Body(g) : k <= i /\ ((col # None /\ LicenseeNamed(Cell(g.rows[k], col)) # None) \/ k \in HeadingRows(g, col))}
    IN IF says = {} THEN None ELSE LicenseeNamed(FlattenSeq(g.rows[Max(says)]))

\* The licensee of the nearest row above that says: a licensee column's cell, also one that names
\* none, or a heading row.
RowOwner(g, col, i) ==
    LET byCell(k) == col # None /\ Cell(g.rows[k], col) # <<>>
        says == {k \in Body(g) : k <= i /\ (byCell(k) \/ k \in HeadingRows(g, col))}
    IN IF says = {} THEN None
       ELSE IF byCell(Max(says)) THEN LicenseeNamed(g.rows[Max(says)][col]) ELSE LicenseeNamed(FlattenSeq(g.rows[Max(says)]))

-----------------------------------------------------------------------------
(* Columns.  The context: combined, the order's licensee, the title, its    *)
(* one year, the part, the licensee the title names, and whether rows name *)
(* theirs.                                                                 *)

Part(part) == IF {"apr", "trueup", "arr"} \cap ToSet(part) = {} THEN <<>> ELSE part

Context(g, order, headers, title, col) ==
    LET byTitle == IF order.combined THEN LicenseeNamed(title) ELSE None
        years == ToSet(title) \cap Years
        byRow == order.combined /\ byTitle = None
    IN [combined |-> order.combined, utility |-> order.utility, title |-> title, part |-> Part(order.part), headers |-> headers,
        year |-> IF years = {} THEN FiscalYear(Part(order.part)) ELSE TheOne(years), licensee |-> byTitle,
        column |-> IF byRow THEN col ELSE None, headings |-> IF byRow THEN HeadingRows(g, col) ELSE {}]

NoColumn(reason) == [reason |-> reason]

\* A value column, or why it is none.
ColumnOf(h, j, cx, some) ==
    LET named == IF cx.combined THEN LicenseeNamed(h) ELSE None
        voice == VoiceInContext(h, cx.title, cx.part)
        year == IF FiscalYear(h) # None THEN FiscalYear(h) ELSE cx.year
        amount == Opens(h, {"amount"}) /\ VoiceInContext(<<>>, cx.title, cx.part) # None
        owner == CASE named # None -> named
                   [] named = None /\ ~cx.combined -> cx.utility
                   [] named = None /\ cx.combined /\ cx.licensee # None -> cx.licensee
                   [] named = None /\ cx.combined /\ cx.licensee = None /\ (cx.column # None \/ cx.headings # {}) -> "row"
                   [] OTHER -> None
    IN CASE j = cx.column -> NoColumn("of the licensees")
         [] j # cx.column /\ cx.combined /\ Opens(h, {"total"}) /\ (some \/ FiscalYear(h) # None) -> NoColumn("a total across licensees")
         [] OTHER ->
              IF FiscalYear(h) = None /\ named = None /\ (h = <<>> \/ Opens(h, {"sno", "units"}) \/ year = None \/ (Voice(h) = None /\ ~amount))
              THEN NoColumn("no value")
              ELSE IF year = None \/ voice = None THEN NoColumn("no year or voice")
              ELSE IF owner = None THEN NoColumn("no licensee")
              ELSE [reason |-> "a value", col |-> j, year |-> year, voice |-> voice, owner |-> owner]

AddColumn(at, c) == IF c.reason # "a value" THEN at ELSE Append(at, c)
Columns(cx) ==
    FoldLeft(LAMBDA at, j : AddColumn(at, ColumnOf(cx.headers[j], j, cx, at # <<>>)), <<>>, [j \in DOMAIN cx.headers |-> j])

\* The column of the row labels: one headed so, else one of words, else the first without values.
LabelColumn(g, cx, columns) ==
    LET others == DOMAIN cx.headers \ ({c.col : c \in ToSet(columns)} \cup {cx.column})
        plain == {j \in others : ~Opens(cx.headers[j], {"sno", "units"})}
        headed == {j \in plain : "particulars" \in ToSet(cx.headers[j])}
        filled(j) == {i \in Body(g) : Cell(g.rows[i], j) # <<>>}
        texty == {j \in plain : filled(j) # {} /\ 2 * Cardinality({i \in filled(j) : ~IsNumber(g.rows[i][j])}) >= Cardinality(filled(j))}
    IN IF headed # {} THEN Min(headed) ELSE IF texty # {} THEN Min(texty) ELSE IF others # {} THEN Min(others) ELSE 1

-----------------------------------------------------------------------------
(* Rows.                                                                   *)

\* A row that opens with a preposition is read with its heading: its leading word, then the row's.
SubRowLabel(label, heading) ==
    IF Opens(label, {"on"}) /\ heading # <<>> THEN <<heading[1]>> \o label ELSE label

\* The line a row is placed on, or why it is not.
RowPlaced(exact, label, unit, order, title) ==
    LET code == Place(exact, label, unit)
    IN IF code = None THEN "unplaced"
       ELSE IF code \in Summary /\ order.branch \notin {None, "R", "C"} /\ "summary" \notin ToSet(title) THEN "a total of the chapter's own table"
       ELSE IF None \notin {unit, Item(code).unit} /\ unit # Item(code).unit THEN "printed in another unit"
       ELSE code

\* The unit of the table: its title's, else a header's, else that of any line above it.
TableUnit(g, cx) ==
    LET stated == SelectSeq(<<cx.title>> \o cx.headers \o <<FlattenSeq(g.caption)>>, LAMBDA t : UnitFromText(t) # None)
    IN IF stated = <<>> THEN None ELSE UnitFromText(stated[1])

\* The unit of a row: its label's, else its unit cell's, else the table's.
RowUnit(g, label, row, cx) ==
    LET col == SelectInSeq(cx.headers, LAMBDA h : Opens(h, {"units"}))
    IN IF UnitFromText(label) # None THEN UnitFromText(label)
       ELSE IF col # 0 /\ UnitFromText(Cell(row, col)) # None THEN UnitFromText(Cell(row, col)) ELSE TableUnit(g, cx)

Key(c) == <<c.owner, c.code, c.year, c.voice>>

Stated(value) == IF value \in {"absent_in_source", "unknown"} THEN None ELSE value

\* The first value of a fact is kept; another value of it marks it ambiguous.
Keep(at, cand) ==
    LET n == SelectInSeq(at.kept, LAMBDA c : Key(c) = Key(cand))
    IN IF n = 0 THEN [at EXCEPT !.kept = Append(@, cand)]
       ELSE IF Stated(at.kept[n].value) = Stated(cand.value) THEN at ELSE [at EXCEPT !.kept[n].ambiguous = TRUE]

Candidate(g, i, c, owner, code, unit) ==
    [code |-> code, year |-> c.year, voice |-> c.voice, owner |-> owner, value |-> ParseValue(Cell(g.rows[i], c.col)), unit |-> unit,
     page |-> g.page, row |-> i, col |-> c.col, ambiguous |-> FALSE]

\* The values of a row that is placed, but those of no licensee.
ReadValues(at, g, i, columns, owners, code, unit) ==
    IF \A n \in DOMAIN Names : Names[n].code # code THEN [at EXCEPT !.unplaced = Append(@, <<g.page, i, code>>)]
    ELSE FoldLeft(LAMBDA a, n : IF owners[n] = None THEN a ELSE Keep(a, Candidate(g, i, columns[n], owners[n], code, unit)),
                  at, [n \in DOMAIN columns |-> n])

ReadLabelled(at, g, i, columns, label, unit, cx, exact, order) ==
    ReadValues(at, g, i, columns, [n \in DOMAIN columns |-> IF columns[n].owner = "row" THEN RowOwner(g, cx.column, i) ELSE columns[n].owner],
               RowPlaced(exact, SelectSeq(label, LAMBDA w : w \notin ToSet(Units)), unit, order, cx.title), unit)

\* A row of a label without values heads the rows below it.
ReadRow(at, g, i, columns, printed, label, cx, exact, order) ==
    IF i \in cx.headings \/ printed \in {<<>>, <<"particulars">>} THEN at
    ELSE IF \A c \in ToSet(columns) : Cell(g.rows[i], c.col) = <<>> THEN [at EXCEPT !.heading = printed]
    ELSE ReadLabelled(IF Opens(printed, {"on"}) THEN at ELSE [at EXCEPT !.heading = <<>>], g, i, columns, label,
                      RowUnit(g, label, g.rows[i], cx), cx, exact, order)

RowLabel(row, col) == IF Opens(Cell(row, col), {"sno"}) THEN Cell(row, col + 1) ELSE Cell(row, col)

ReadTable(at, g, columns, labelCol, cx, exact, order) ==
    IF columns = <<>> THEN at
    ELSE FoldLeft(LAMBDA a, i : ReadRow(a, g, i, columns, RowLabel(g.rows[i], labelCol), SubRowLabel(RowLabel(g.rows[i], labelCol), a.heading),
                                        cx, exact, order),
                  [at EXCEPT !.heading = <<>>], [n \in 1 .. Len(g.rows) - g.header |-> g.header + n])

ReadColumns(at, g, cx, columns, exact, order) == ReadTable(at, g, columns, LabelColumn(g, cx, columns), cx, exact, order)
ReadHeaded(at, g, cx, exact, order) == ReadColumns(at, g, cx, Columns(cx), exact, order)
ReadTitled(at, g, headers, exact, order) ==
    ReadHeaded(at, g, Context(g, order, headers, TableTitle(g.caption), LicenseeColumn(g, headers)), exact, order)
ReadGrid(at, g, exact, order) == ReadTitled(at, g, HeaderTexts(g), exact, order)

ReadGrids(grids, exact, order) ==
    FoldLeft(LAMBDA at, g : ReadGrid(at, WithSecondHeader(g), exact, order), [kept |-> <<>>, unplaced |-> <<>>, heading |-> <<>>], grids)

-----------------------------------------------------------------------------
(* Properties.                                                             *)

\* A value is attributed to the one licensee its column, its title or the nearest row above names,
\* and none of a total is; its year is its own column's, its title's or its part's, the only one
\* named there; it is of the unit its line is in; and a fact printed twice with two values says so,
\* also when the second table is read long after the first.
RightlyRead(c, g, h, title, first, order) ==
    LET said == {i \in Body(g) : i <= c.row /\ ToSet(Cell(g.rows[i], 1)) \cap (Licensees \cup {"total"}) # {}}
    IN /\ order.combined =>
             /\ c.owner \in Licensees /\ (FiscalYear(h) # None => ~Opens(h, {"total"}))
             /\ ToSet(h) \cap Licensees = {} /\ ToSet(title) \cap Licensees = {} /\ first = <<"licensee">> =>
                   said # {} /\ ToSet(g.rows[Max(said)][1]) \cap (Licensees \cup {"total"}) = {c.owner}
       /\ {c.year} = IF ToSet(h) \cap Years # {} THEN ToSet(h) \cap Years
                     ELSE IF ToSet(title) \cap Years # {} THEN ToSet(title) \cap Years ELSE ToSet(order.part) \cap Years
       /\ c.voice = "approved" => "trueup" \notin ToSet(h)
       /\ c.unit \in {None, Item(c.code).unit}

ReadHolds(grids, headers, alone, order, out) ==
    LET at(c) == SelectInSeq(grids, LAMBDA g : g.page = c.page)
    IN /\ \A c, d \in ToSet(out.kept) : Key(c) = Key(d) => c = d
       /\ \A c \in ToSet(out.kept) :
             RightlyRead(c, grids[at(c)], headers[at(c)][c.col], TableTitle(grids[at(c)].caption), headers[at(c)][1], order)
       /\ \A n, m \in DOMAIN grids : \A c \in ToSet(alone[n].kept), d \in ToSet(alone[m].kept) : Key(c) = Key(d) =>
             \E k \in ToSet(out.kept) : Key(k) = Key(c) /\ (Stated(c.value) # Stated(d.value) \/ c.ambiguous => k.ambiguous)

TablesHold(grids, exact, order, out) ==
    ReadHolds(grids, [n \in DOMAIN grids |-> HeaderTexts(grids[n])],
              [n \in DOMAIN grids |-> ReadGrid([kept |-> <<>>, unplaced |-> <<>>, heading |-> <<>>], grids[n], exact, order)], order, out)
=============================================================================
