----------------------------- MODULE Decisions -----------------------------
(***************************************************************************)
(* The Commission's decisions on a petition, line by line                  *)
(* (arr/decisions.py): the rows of a table read from the text of its       *)
(* pages, the figures given to the columns and held against the format,    *)
(* the order's own arithmetic, and the reasons of what it changed.         *)
(*                                                                         *)
(* A token of the text is a serial number, a word or a figure; figures are *)
(* integers of the last place printed.                                     *)
(***************************************************************************)
EXTENDS Integers, Sequences, FiniteSets, FiniteSetsExt, SequencesExt, TLC

CONSTANT None   \* a blank cell, no key, or a table refused

Word(w) == [kind |-> "word", of |-> w]
Serial(n) == [kind |-> "serial", serial |-> n]
Fig(x) == [kind |-> "figure", figure |-> x]
Break == [kind |-> "break"]   \* the end of a page
IsFigure(t) == t.kind = "figure"

Start == [expected |-> 1, rows |-> <<>>, open |-> None]

\* A row is closed where its figures end, and at the end of the page; without figures it is no row.
Close(at) ==
    IF at.open = None \/ at.open.figures = <<>> THEN [at EXCEPT !.open = None]
    ELSE [expected |-> at.expected + 1, rows |-> Append(at.rows, at.open), open |-> None]

\* Mutant of Opens: any serial number opens a row.
OpensAny(at, t, next) == t.kind = "serial"

\* The serial number that is due, with a label behind it.
Opens(at, t, next) == t = Serial(at.expected) /\ next # Break /\ ~IsFigure(next)

Take(at, t, next) ==
    LET in == at.open # None
        done == IF in /\ at.open.figures # <<>> /\ ~IsFigure(t) THEN Close(at) ELSE at
    IN CASE t = Break -> Close(done)
         [] t # Break /\ done.open = None -> IF Opens(done, t, next)
                                THEN [done EXCEPT !.open = [serial |-> t.serial, label |-> <<>>, figures |-> <<>>]] ELSE done
         [] t # Break /\ done.open # None /\ IsFigure(t) -> [done EXCEPT !.open.figures = Append(@, t.figure)]
         [] OTHER -> [done EXCEPT !.open.label = Append(@, t)]

\* The rows of a table over its pages; a row stands on one page.
ReadRows(pages) ==
    LET text == FlattenSeq([p \in DOMAIN pages |-> Append(pages[p], Break)])
        read[i \in 0 .. Len(text)] == IF i = 0 THEN Start ELSE Take(read[i - 1], text[i], text[Min({i + 1, Len(text)})])
    IN read[Len(text)].rows

-----------------------------------------------------------------------------
(* The rows of a table against its specification and the format.           *)

\* keys: the key of a label.  None where a label is of two keys, a key comes twice or figures lack columns.
Given(table, row) ==
    CASE Len(row.figures) = Len(table.columns) -> table.columns
      [] Len(row.figures) # Len(table.columns) /\ row.serial \in DOMAIN table.short ->
            IF Len(table.short[row.serial]) = Len(row.figures) THEN table.short[row.serial] ELSE None
      [] OTHER -> None

KeysOf(table, row) == {k \in DOMAIN table.labels : row.label \in table.labels[k]}

KeyOf(table, row) == IF KeysOf(table, row) = {} THEN None ELSE CHOOSE k \in KeysOf(table, row) : TRUE

ValuesOf(table, row) == [c \in ToSet(Given(table, row)) |-> row.figures[SelectInSeq(Given(table, row), LAMBDA d : d = c)]]

\* The rows of the format a line of the table is held against: those of its key, or of the table's
\* override of them, some of them deducted.
FiledUnder(table, k) == IF k \in DOMAIN table.overrides THEN table.overrides[k] ELSE table.rows[k]

Stated(format, rows) == {r \in rows : format[r] # None}

\* What the format's rows come to; blank if none of those that count has a value.
InFormat(format, filed) ==
    LET sum(rows) == MapThenSumSet(LAMBDA r : format[r], Stated(format, rows))
    IN IF Stated(format, filed.rows) = {} THEN None ELSE filed.sign * (sum(filed.rows) - sum(filed.minus))

Held(printed, filed) == CASE filed = None -> "no_format_value" [] filed = printed -> "match" [] OTHER -> "differs"

Evaluated(table, row, format) ==
    LET k == KeyOf(table, row)
        v == ValuesOf(table, row)
        filed == IF k = None THEN [rows |-> {}] ELSE FiledUnder(table, k)
    IN [key |-> k, values |-> v,
        claim |-> IF "claimed" \in DOMAIN v /\ filed.rows # {} THEN Held(v["claimed"], InFormat(format, filed)) ELSE "unchecked",
        decision |-> IF {"claimed", "approved"} \subseteq DOMAIN v THEN v["approved"] - v["claimed"] ELSE None]

EvaluateTable(table, rows, format) ==
    IF \/ \E i \in DOMAIN rows : Cardinality(KeysOf(table, rows[i])) > 1 \/ Given(table, rows[i]) = None
       \/ \E i, j \in DOMAIN rows : i < j /\ KeyOf(table, rows[i]) # None /\ KeyOf(table, rows[i]) = KeyOf(table, rows[j])
    THEN None
    ELSE [i \in DOMAIN rows |-> Evaluated(table, rows[i], format)]

\* The figures of a line by the place of each: the nearest column; None where two are at one.
NearestColumn(anchors, x) ==
    LET far(c) == IF anchors[c] < x THEN x - anchors[c] ELSE anchors[c] - x
    IN CHOOSE c \in DOMAIN anchors : \A d \in DOMAIN anchors : far(c) <= far(d)

RowByPosition(anchors, figures) ==
    LET column(i) == NearestColumn(anchors, figures[i].x)
    IN IF \E i, j \in DOMAIN figures : i < j /\ column(i) = column(j) THEN None
       ELSE [c \in {column(i) : i \in DOMAIN figures} |-> figures[CHOOSE i \in DOMAIN figures : column(i) = c].of]

-----------------------------------------------------------------------------
(* The order's arithmetic and its reasons.                                 *)

Amount(rec, side) == IF side \in DOMAIN rec.values THEN rec.values[side] ELSE 0

RecordOf(records, k) == CHOOSE r \in Range(records) : r.key = k
Among(records, ks) == {k \in ks : \E r \in Range(records) : r.key = k}

\* A total against its parts as printed, in a column; a blank part counts as nothing.
TotalHolds(records, side, total, plus, minus, tolerance) ==
    LET sum(ks) == MapThenSumSet(LAMBDA k : Amount(RecordOf(records, k), side), Among(records, ks))
        d == Amount(RecordOf(records, total), side) - (sum(plus) - sum(minus))
    IN d <= tolerance /\ d >= -tolerance

\* What was decided of a line: printed, or a claim on which nothing was approved.
Decided(rec, why) ==
    CASE rec.decision # None -> rec.decision
      [] rec.decision = None /\ Amount(rec, "claimed") # 0 /\ "approved" \notin DOMAIN rec.values ->
            IF rec.key \in DOMAIN why /\ why[rec.key].decision # None THEN why[rec.key].decision ELSE -Amount(rec, "claimed")
      [] OTHER -> 0

Effect(k, decided, deductions) == IF k \in deductions THEN -decided ELSE decided

\* spec: the deductions, the totals and the net; why: the reasons by key.
Explain(records, spec, why) ==
    LET lines == {r \in Range(records) : r.key # None /\ r.key \notin spec.totals}
        changed == {r \in lines : Decided(r, why) # 0}
        explained == {r \in changed : r.key \in DOMAIN why}
        counted(r) == Effect(r.key, IF why[r.key].asApproved # None THEN why[r.key].asApproved ELSE Decided(r, why), spec.deductions)
        effects == MapThenSumSet(LAMBDA r : counted(r), explained)
    IN [unexplained |-> {r.key : r \in changed \ explained}, stale |-> DOMAIN why \ {r.key : r \in explained},
        effects |-> effects,
        difference |-> IF \E r \in Range(records) : r.key = spec.net /\ r.decision # None
                       THEN effects - RecordOf(records, spec.net).decision ELSE None]

-----------------------------------------------------------------------------
(* Properties.                                                             *)

Words(label) == [j \in DOMAIN label |-> Word(label[j])]

\* rows: the rows as printed, in order, some of whose figures may be blank.
Printed(rows, n) ==
    FlattenSeq([i \in 1 .. Len(rows) |-> <<Serial(n + i)>> \o Words(rows[i].label)
                                             \o [j \in DOMAIN rows[i].figures |-> Fig(rows[i].figures[j])]])

\* A row is read with the figures printed in it and no other's: a row read under
\* a label that is printed has that row's figures, and if every row of the
\* table has figures every row is read, over the page break and past the page
\* numbers and notes there, the serial number that is due excepted.
RowsHold(first, second, noise, read) ==
    LET printed == first \o second
    IN /\ \A i \in DOMAIN read : \A j \in DOMAIN printed :
              read[i].label = Words(printed[j].label) /\ read[i].serial = j => read[i].figures = printed[j].figures
       /\ (\A j \in DOMAIN printed : printed[j].figures # <<>>) /\ Serial(Len(first) + 1) \notin ToSet(noise)
          => read = [j \in DOMAIN printed |-> [serial |-> j, label |-> Words(printed[j].label), figures |-> printed[j].figures]]

\* The claims of a table that match the format come together to what the
\* format holds: every row of it counts as often as the lines it is held
\* against name it, less as often as they deduct it, so that what one line is
\* printed net of and another line prints of its own is counted once.
ClaimsHold(table, rows, format, result) ==
    LET held == {i \in DOMAIN rows : result[i].claim = "match"}
        counted(r, i) == LET filed == FiledUnder(table, result[i].key)
                         IN filed.sign * (Cardinality({r} \cap filed.rows) - Cardinality({r} \cap filed.minus))
        times(r) == MapThenSumSet(LAMBDA i : counted(r, i), held)
    IN result # None =>
          MapThenSumSet(LAMBDA i : result[i].values["claimed"], held)
              = MapThenSumSet(LAMBDA r : times(r) * format[r], Stated(format, DOMAIN format))

\* Figures placed by position are all placed, in the order they are printed in.
PositionsHold(anchors, figures, result) ==
    result # None =>
        \A i, j \in DOMAIN figures : \E c, d \in DOMAIN result :
            result[c] = figures[i].of /\ result[d] = figures[j].of /\ (figures[i].x < figures[j].x => anchors[c] <= anchors[d])

\* If both columns of the table add up and every change has its reason, the
\* effects of the reasons come to the decision on the net.
ExplainHolds(records, spec, why, result) ==
    LET costs == {r.key : r \in Range(records)} \ (spec.totals \cup spec.deductions)
        adds(side) == TotalHolds(records, side, spec.net, costs, spec.deductions, 0)
        blank(r) == Cardinality(DOMAIN r.values) = 1 /\ "claimed" \in DOMAIN r.values
    IN /\ adds("claimed") /\ adds("approved") /\ result.unexplained = {} /\ result.difference # None
          /\ (\A k \in DOMAIN why : why[k].asApproved = None /\ why[k].decision = None)
          => (result.difference = 0 \/ \E r \in Range(records) : ~blank(r) /\ r.decision = None)
       /\ \A r \in Range(records) : r.key \in result.unexplained => r.key \notin DOMAIN why
=============================================================================
