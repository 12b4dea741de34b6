-------------------------------- MODULE Readers --------------------------------
(***************************************************************************)
(* Two readers of the tables of a page (readers.py): rows the readers ran  *)
(* together are split, the strict reading of a table is preferred, and the *)
(* grids of both readers are paired by their overlap and compared.         *)
(*                                                                         *)
(* A cell is a sequence of lines [text, numeric]; how much two areas       *)
(* overlap is given in tenths.                                             *)
(***************************************************************************)
EXTENDS Integers, Sequences, FiniteSets, FiniteSetsExt, SequencesExt

-----------------------------------------------------------------------------
(* Rows that were run together.                                            *)

\* A reader runs the lines of a cell together when it hands the cell over.
NormaliseCell(cell) ==
    <<[text |-> FoldLeft(LAMBDA all, l : IF all = "" THEN l.text ELSE IF l.text = "" THEN all ELSE all \o " " \o l.text, "", cell),
       numeric |-> Len(cell) = 1 /\ cell[1].numeric]>>

NormaliseRows(rows) == [r \in DOMAIN rows |-> [c \in DOMAIN rows[r] |-> NormaliseCell(rows[r][c])]]

BlankLine == [text |-> "", numeric |-> TRUE]
BlankCell == <<BlankLine>>

Stacks(cell) == Len(cell) > 1 /\ \A l \in ToSet(cell) : l.text # "" => l.numeric
Height(row) == Max({1} \cup {Len(row[c]) : c \in {c \in DOMAIN row : Stacks(row[c])}})

\* Two cells at least stack as many numbers, and every other is one line or as high.
IsTall(row, k) ==
    /\ k >= 2 /\ Cardinality({c \in DOMAIN row : Stacks(row[c]) /\ Len(row[c]) = k}) >= 2
    /\ \A c \in DOMAIN row : Len(row[c]) \in {1, k}

\* A cell of one line stands on the first row.
LineOfCell(cell, i, k) == IF Len(cell) = k THEN <<cell[i]>> ELSE IF i = 1 THEN cell ELSE BlankCell

Split(row, k) == [i \in 1 .. k |-> [c \in DOMAIN row |-> LineOfCell(row[c], i, k)]]
SplitRow(row, k) == IF IsTall(row, k) THEN Split(row, k) ELSE <<row>>

SplitTallRows(rows) == FoldLeft(LAMBDA out, row : out \o SplitRow(row, Height(row)), <<>>, rows)

\* Heading rows are never split.
ResplitTallRows(header, rows) == SubSeq(rows, 1, header) \o SplitTallRows(SubSeq(rows, header + 1, Len(rows)))

\* The rows of a page's table as they are stored: read, then split.
ReadRows(header, rows) == ResplitTallRows(header, NormaliseRows(rows))

-----------------------------------------------------------------------------
(* Pairs of grids.  overlap[i][j]: how much area i of the one reading has in common with j of the other.*)

Closest(overlap, i, S) == CHOOSE j \in S : \A k \in S : overlap[i][k] < overlap[i][j] \/ (overlap[i][k] = overlap[i][j] /\ j <= k)

\* Of each table the strict reading if one covers half of it and is not empty.
PreferStrict(loose, strict, overlap) ==
    [i \in DOMAIN loose |->
        LET all == DOMAIN strict
            twin == Closest(overlap, i, all)
        IN IF all # {} /\ overlap[i][twin] >= 5 /\ ~strict[twin].empty THEN <<"strict", twin>> ELSE <<"loose", i>>]

\* Cells of two grids of one shape are compared one by one: two in a hundred may differ before the
\* reading counts as disputed, "minority" in a hundred before the table does.
CellsOf(grid) == grid.shape[1] \X grid.shape[2]
Differing(p, s) == {c \in CellsOf(p) : p.cells[c] # s.cells[c]}
AtMost(share, cells, all) == Cardinality(cells) * 100 <= share * Cardinality(all)

ClassOf(sameHeader, differ, all, minority) ==
    CASE sameHeader /\ AtMost(2, differ, all) -> "high_agreement"
      [] ~(sameHeader /\ AtMost(2, differ, all)) /\ AtMost(minority, differ, all) -> "minority_cell_disagreement"
      [] OTHER -> "structure_disagreement"

CompareGrids(p, s, minority) ==
    IF p.shape # s.shape \/ CellsOf(p) = {} THEN "structure_disagreement"
    ELSE ClassOf(p.header = s.header, Differing(p, s), CellsOf(p), minority)

Outcome(i, j, class) == [primary |-> i, secondary |-> j, class |-> class]

\* The primary's grids in order, each with the free one it has most in common with.
PairNext(at, i, primary, secondary, overlap, free) ==
    IF free = {} THEN Append(at, Outcome(i, 0, "secondary_missing"))
    ELSE Append(at, Outcome(i, Closest(overlap, i, free), CompareGrids(primary[i], secondary[Closest(overlap, i, free)], 20)))

PairPrimary(primary, secondary, overlap, minOverlap) ==
    FoldLeft(LAMBDA at, i :
                 PairNext(at, i, primary, secondary, overlap,
                          {j \in DOMAIN secondary : overlap[i][j] >= minOverlap /\ \A n \in DOMAIN at : at[n].secondary # j}),
             <<>>, [i \in DOMAIN primary |-> i])

\* A grid only the secondary found is reported, an empty one as such.
Unpaired(paired, secondary) ==
    {Outcome(0, j, IF secondary[j].empty THEN "empty_grid" ELSE "primary_missing") :
        j \in {j \in DOMAIN secondary : \A n \in DOMAIN paired : paired[n].secondary # j}}

Scored(paired, secondary) == ToSet(paired) \cup Unpaired(paired, secondary)
ScoreAgreement(primary, secondary, overlap, minOverlap) == Scored(PairPrimary(primary, secondary, overlap, minOverlap), secondary)

-----------------------------------------------------------------------------
(* Properties.                                                             *)

Column(rows, c) == FlattenSeq([r \in DOMAIN rows |-> SelectSeq(rows[r][c], LAMBDA l : l.text # "")])

\* Splitting moves no text to another column, loses none, repeats none and keeps the order of each
\* column; only rows that stack numbers are split, so prose that wraps and headings stay whole; and
\* the numbers of one printed line stay in one row.
SplitHolds(rows, header, out) ==
    /\ \A c \in DOMAIN rows[1] : Column(out, c) = Column(rows, c)
    /\ \A r \in DOMAIN rows : (\E c \in DOMAIN rows[r] : Len(rows[r][c]) > 1 /\ \A l \in ToSet(rows[r][c]) : ~l.numeric)
                              /\ Cardinality({c \in DOMAIN rows[r] : Stacks(rows[r][c])}) < 2 => rows[r] \in ToSet(out)
    /\ \A r \in 1 .. header : out[r] = rows[r]
    /\ \A r \in DOMAIN rows : r > header =>
           \A c, d \in DOMAIN rows[r] :
               Len(rows[r][c]) = Len(rows[r][d]) /\ rows[r] \notin ToSet(out) =>
                   \A i \in DOMAIN rows[r][c] : \E q \in ToSet(out) : q[c] = <<rows[r][c][i]>> /\ q[d] = <<rows[r][d][i]>>

\* No table is lost to the strict reading: there are as many, in order, and one is replaced only by a
\* reading of its own area that shows something; a table the strict reading misses keeps the plain one.
StrictHolds(loose, strict, overlap, out) ==
    /\ Len(out) = Len(loose)
    /\ \A i \in DOMAIN out :
           /\ out[i][1] = "strict" => overlap[i][out[i][2]] >= 5 /\ ~strict[out[i][2]].empty
           /\ out[i][1] = "loose" => out[i][2] = i /\ \A j \in DOMAIN strict : overlap[i][j] >= 5 =>
                  \E k \in DOMAIN strict : strict[k].empty /\ overlap[i][k] >= overlap[i][j]

\* Every grid of either reader is in one result and no result pairs what hardly overlaps; what is
\* reported as agreed is read alike by both, but for two cells in a hundred.
AgreementHolds(primary, secondary, overlap, minOverlap, out) ==
    /\ \A i \in DOMAIN primary : Cardinality({o \in out : o.primary = i}) = 1
    /\ \A j \in DOMAIN secondary : Cardinality({o \in out : o.secondary = j}) = 1
    /\ \A o \in out : 0 \notin {o.primary, o.secondary} =>
           /\ overlap[o.primary][o.secondary] >= minOverlap
           /\ o.class = "high_agreement" =>
                  /\ primary[o.primary].shape = secondary[o.secondary].shape
                  /\ AtMost(2, Differing(primary[o.primary], secondary[o.secondary]), CellsOf(primary[o.primary]))
           /\ \A j \in DOMAIN secondary : overlap[o.primary][j] > overlap[o.primary][o.secondary] =>
                  \E q \in out : q.secondary = j /\ q.primary \in 1 .. o.primary - 1
    /\ \A o \in out : o.secondary = 0 => \A j \in DOMAIN secondary : overlap[o.primary][j] >= minOverlap =>
           \E q \in out : q.secondary = j /\ q.primary # 0
=============================================================================
