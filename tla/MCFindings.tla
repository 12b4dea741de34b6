----------------------------- MODULE MCFindings ------------------------------
(***************************************************************************)
(* What is found about the candidates of an order and what is left to      *)
(* review, on every small input of their kind; each is one step from its   *)
(* input to its result.                                                    *)
(***************************************************************************)
EXTENDS Integers, Sequences, FiniteSets, SequencesExt, TLC

CONSTANT None

DayBands == [from : {0, 6, 12, 18}, to : {0, 6, 12, 18}]
UnreadBand == [from |-> None, to |-> None]

\* What is not printed is told from every number and from every band.
ASSUME FindingsAssumption == None \notin Int /\ None \notin DayBands \cup {UnreadBand}

VARIABLE figure     \* a computation, its input and its result

V == INSTANCE Validators
K == INSTANCE Worklist

Compute(of, inputs, F(_)) ==
    \E x \in inputs : figure' = [of |-> of, input |-> x, result |-> F(x)]

Is(of) == figure.of = of

\* A computation of this part begins.
Begins(part) == figure = [of |-> "none", part |-> part]

-----------------------------------------------------------------------------
(* Rows of candidates for the validators.                                  *)

Place(p, k, s, e) == [page |-> p, kind |-> k, spot |-> s, excerpt |-> e]
Plain == [family |-> "retail_tariff", category |-> "A", component |-> "energy", row |-> "r", block |-> None,
          state |-> "value", value |-> 5, unit |-> "kWh", nil |-> FALSE, decision |-> None, target |-> None,
          slab |-> None, band |-> None, season |-> None, alternative |-> 0, cell |-> None, places |-> {Place(1, "cell", 1, "x")},
          conditions |-> {}, derivation |-> None]
Context(cs) ==
    [candidates |-> cs, spots |-> (1 :> "x" @@ 2 :> "y"), inventory |-> {"A"}, dispositions |-> {"banking_rule"},
     roles |-> (1 :> {"approved_schedule"} @@ 2 :> {"network_charges"} @@ 3 :> {"loss_trajectory", "approved_summary"}),
     amendments |-> {[modified |-> "m"]}, consolidated |-> {"m"}, conditions |-> {"k"}, secondary |-> FALSE,
     plausible |-> (<<"energy", "kWh">> :> 1 .. 30)]

Quantity(l, u, i) == [lower |-> l, upper |-> u, lowerIn |-> i, upperIn |-> TRUE, kind |-> "absolute", words |-> "inferred"]
Spans == {Quantity(l, u, i) : l \in {0, 2, 3, 4}, u \in {2, 3, 5}, i \in BOOLEAN} \cup {Quantity(None, 3, TRUE)}
Quantities == {[Plain EXCEPT !.slab = s] : s \in Spans}
Slabs == {<<[a EXCEPT !.row = 1], [b EXCEPT !.row = 2], [c EXCEPT !.row = 3]>> : a, b, c \in Quantities}
TimeOf(t, s) == [Plain EXCEPT !.component = "tod_adjustment", !.band = t, !.season = s]
Halves == {t \in DayBands : {t.from, t.to} = {0, 12}}
Times == {TimeOf(t, None) : t \in DayBands \cup {UnreadBand}}
         \cup {TimeOf(t, [name |-> n, months |-> n = "april"]) : t \in Halves, n \in {"summer", "april"}}
Bands == {<<[a EXCEPT !.row = 1], [b EXCEPT !.row = 2], [c EXCEPT !.row = 3]>> : a, b, c \in Times}

Surcharge == [T |-> 700, C |-> 400, L |-> 20, D |-> 100, DC |-> None, TC |-> None, WC |-> None, R |-> None, S |-> 100, CAP |-> None]
By(rule, inputs, formula) == [rule |-> rule, inputs |-> inputs, formula |-> formula]
InputUnder(words, v) == [heading |-> words, value |-> v]
FormulasPrinted ==
    {By(None, <<>>, [Surcharge EXCEPT !.T = t, !.L = l, !.D = d, !.DC = 40, !.TC = 40, !.WC = w, !.S = s, !.CAP = k]) :
        t \in {700, 703}, l \in {None, 20, 30, 100}, d \in {None, 100}, w \in {None, 20}, s \in {None, 28, 29, 100, 101}, k \in {None, 139, 140, 141, 142}}
RulesPrinted ==
    {By("arr_over_sales", <<InputUnder({"arr"}, a), InputUnder({"sales"}, n)>>, None) : a \in {None, 100}, n \in {None, 0, 710, 720}}
    \cup {By(r, <<InputUnder(w, x), InputUnder({"tariff"}, t), InputUnder({"cap"}, k)>>, None) :
              r \in {"lower_of", "cap"}, w \in {{}, {"cap"}, {"cap", "tariff"}}, x, k \in {None, 139, 140, 142}, t \in {None, 700, 703}}
DerivedBy(d, v) == [Plain EXCEPT !.family = "cross_subsidy_surcharge", !.value = v, !.derivation = d]
DerivedValues == {DerivedBy(d, v) : d \in FormulasPrinted \cup RulesPrinted, v \in 138 .. 142}
Records ==
    {Plain, [Plain EXCEPT !.value = 6], [Plain EXCEPT !.unit = "kW"], [Plain EXCEPT !.component = "fixed"],
     [Plain EXCEPT !.row = "q"], [Plain EXCEPT !.block = "s"], [Plain EXCEPT !.places = {Place(2, "cell", 2, "y")}],
     [Plain EXCEPT !.places = {Place(1, "cell", 9, "x")}], [Plain EXCEPT !.value = None], [Plain EXCEPT !.value = 50],
     [Plain EXCEPT !.conditions = {"j"}], [Plain EXCEPT !.alternative = 1],
     [Plain EXCEPT !.family = "oa_loss", !.category = None, !.places = {Place(3, "cell", 2, "y")}, !.decision = "approved"],
     [Plain EXCEPT !.family = "cross_subsidy_surcharge", !.decision = "approved", !.places = {Place(2, "cell", 2, "y")},
                   !.derivation = By(None, <<>>, Surcharge)]}

\* Rows as extracted, with the sub-category a grounded assessment read for each, if any.
Extracted(a, s, b, t, c) == <<V!ExtractedRow(a, s), V!ExtractedRow(b, t), V!ExtractedRow(c, None)>>
Stored == {Extracted(a, s, b, t, c) : a, b \in Records, s, t \in {None, "s"}, c \in {Plain, [Plain EXCEPT !.row = "q"]}}

-----------------------------------------------------------------------------
(* Candidates left to review.                                              *)

Left(n) == [name |-> n, family |-> "retail_tariff", category |-> 1, component |-> "energy", status |-> "pending", blocking |-> 0,
            findings |-> 0, disagrees |-> FALSE, tags |-> {}, confidence |-> "high", page |-> 4, grid |-> 1, spot |-> <<1, 1, 0>>]
Facts == {<<"retail_tariff", 1, "energy">>, <<"retail_tariff", 1, "fixed">>, <<"retail_tariff", 0, "energy">>, <<"oa_loss", 0, "loss">>}
Decided == {"pending", "awaiting_second_review", "approved", "corrected", "rejected", "unresolved"}
About(n, f, s) == [Left(n) EXCEPT !.family = f[1], !.category = f[2], !.component = f[3], !.status = s]
Filed(n) == {About(n, f, s) : f \in Facts, s \in Decided}
Risky(n) ==
    {Left(n), [Left(n) EXCEPT !.blocking = 1, !.findings = 1], [Left(n) EXCEPT !.findings = 2], [Left(n) EXCEPT !.disagrees = TRUE],
     [Left(n) EXCEPT !.tags = {"new_profile"}], [Left(n) EXCEPT !.tags = {"new_profile", "ocr"}, !.page = 3], [Left(n) EXCEPT !.status = "approved"],
     [Left(n) EXCEPT !.category = 2, !.confidence = "low"], [Left(n) EXCEPT !.component = "fixed", !.spot = <<1, 2, 0>>],
     [Left(n) EXCEPT !.family = "oa_loss", !.category = 0, !.component = "loss", !.page = 2], [Left(n) EXCEPT !.status = "unresolved"]}
Worklists == {{a, b, c} : a \in Filed(1), b \in Filed(2), c \in Risky(3)} \cup {{}}
Asked == {[status |-> s, fields |-> f, risk |-> r, pages |-> p, order |-> o] :
             s \in {"none", "unresolved"}, f \in {[x \in {} |-> 0], [category |-> 1]}, r \in {{}, {"new_profile"}}, p \in {{}}, o \in {"risk", "document"}}
Queues == {[rows |-> {a, b, c}, q |-> q] : a \in Risky(1), b \in Risky(2), c \in Risky(3), q \in Asked}

-----------------------------------------------------------------------------

ReviewFacts ==
    \/ Compute("queue", Queues, LAMBDA x : K!OrderedQueue(x.rows, x.q))
    \/ Compute("checklist", Worklists, LAMBDA rows : K!Checklist(rows, {1, 2}, {"oa_loss"}))

ValidateFacts ==
    \/ Compute("slabbed", Slabs, LAMBDA cs : V!Val03(Context(cs)))
    \/ Compute("banded", Bands, LAMBDA cs : V!Val10(Context(cs)))
    \/ Compute("derived", DerivedValues, LAMBDA c : V!Val07(Context(<<c>>)))
    \/ Compute("rows", Stored, LAMBDA rows : V!ValidateRows(rows, Context(<<>>)))

FindingsInit == figure = [of |-> "none", part |-> "review"]

FindingsNext == Begins("review") /\ (ValidateFacts \/ ReviewFacts)

FindingsSpec == FindingsInit /\ [][FindingsNext]_figure

-----------------------------------------------------------------------------
(* Properties.                                                             *)

\* The findings of the validators cover what they are about, and reach the rows that stand
\* under a key they name (validators.py, validate_source); the queue and the checklist leave
\* no candidate out (services/review.py).
FindingsStand ==
    /\ Is("queue") => K!QueueHolds(figure.input.rows, figure.input.q, figure.result)
    /\ Is("checklist") => K!ChecklistHolds(figure.input, {1, 2}, {"oa_loss"}, figure.result)
    /\ Is("slabbed") => V!SlabsApart(Context(figure.input))
    /\ Is("banded") => V!DayCovered(Context(figure.input))
    /\ Is("derived") => V!CapsHold(Context(<<figure.input>>))
    /\ Is("rows") => V!RowsBlocked(figure.input, Context(<<>>), figure.result)

\* "Findings attach to candidates; severity is blocking (the record cannot be
\* published until reviewed and resolved)" (validators.py), whatever the
\* assessment has filled in since the key of the row was made.
FindingsReachTheirRows == Is("rows") => V!RecordsBlocked(figure.input, Context(<<>>), figure.result)
=============================================================================
