----------------------------- MODULE Validators -----------------------------
(***************************************************************************)
(* The validators (validators.py), the formula of the cross-subsidy        *)
(* surcharge they recompute (css_formula.py) and the attachment of their   *)
(* findings to candidate rows (stages/validate.py).  A validator flags and *)
(* never corrects.  ctx is what the stage reads: candidates, roles by      *)
(* page, the texts of cited cells and clauses, the inventory, dispositions,*)
(* amendment rows, condition records.                                      *)
(***************************************************************************)
EXTENDS Integers, Sequences, FiniteSets, FiniteSetsExt, SequencesExt

CONSTANT None   \* a field that is not printed

NetworkFamilies == {"wheeling_charge", "oa_loss", "distribution_loss_approved", "cross_subsidy_surcharge",
                    "additional_surcharge", "banking_rule"}
Families == NetworkFamilies \cup {"retail_tariff"}

\* What a fact is about; row stands for the rest of its applicability, the block is the one the
\* record carries.
Key(c) == <<c.family, c.category, c.component, c.row, c.block>>

Finding(id, severity, cs) == [id |-> id, severity |-> severity, keys |-> {Key(c) : c \in cs}]

Each(id, severity, cs) == {Finding(id, severity, {c}) : c \in cs}

Cs(ctx) == ToSet(ctx.candidates)
Retail(ctx) == {c \in Cs(ctx) : c.family = "retail_tariff"}
Printed(c) == c.state \in {"value", "zero"}

-----------------------------------------------------------------------------
(* One candidate at a time.                                                *)

IllTyped(c) ==
    \/ c.state = "value" /\ c.value = None
    \/ c.state = "zero" /\ c.value = None /\ ~c.nil
    \/ ~Printed(c) /\ c.value # None
    \/ c.state = "zero" /\ c.value \notin {None, 0}
    \/ c.family \in NetworkFamilies /\ c.decision = None
    \/ c.places = {}

Val01(ctx) == Each("VAL-01", "blocking", {c \in Cs(ctx) : IllTyped(c)})
              \cup Each("VAL-01", "warning", {c \in Cs(ctx) : c.state = "cross_reference" /\ c.target = None})

\* A retail component is priced per what it can be priced per; otherwise the cell is its neighbour's.
LoadUnits == {"kW", "kVA", "HP", "BHP"}
EnergyUnits == {"kWh", "kVAh", "unit"}
ComponentUnits ==
    [fixed |-> LoadUnits \cup {"connection", "unit"}, demand |-> LoadUnits, minimum |-> LoadUnits \cup EnergyUnits \cup {"connection"},
     energy |-> EnergyUnits, tod_adjustment |-> EnergyUnits \cup {"percent"}, green_premium |-> EnergyUnits,
     rebate |-> EnergyUnits \cup {"percent", "kW", "kVA"}, surcharge |-> EnergyUnits \cup {"percent", "kW", "kVA"}]

Shifted(c) == /\ Printed(c) /\ c.unit # None /\ c.component \in DOMAIN ComponentUnits
              /\ c.unit \notin ComponentUnits[c.component]

Val19(ctx) ==
    Each("VAL-19", "blocking", {c \in Retail(ctx) : Shifted(c)})
    \cup UNION {{Finding("VAL-19", "warning", {f, e}) :
                   e \in {e \in Retail(ctx) :
                            /\ Printed(f) /\ Printed(e) /\ f.cell # None /\ f.cell = e.cell
                            /\ f.component \in {"fixed", "demand"} /\ e.component = "energy" /\ f.unit # None /\ f.unit = e.unit}} :
               f \in Retail(ctx)}

Val09(ctx) ==
    LET priced == {c \in Cs(ctx) : Printed(c)}
    IN Each("VAL-09", "warning", {c \in priced : \/ /\ c.family \in {"wheeling_charge", "cross_subsidy_surcharge"}
                                                    /\ c.unit \notin {"kWh", "unit", "kVAh"}
                                                 \/ c.family = "banking_rule" /\ c.unit \notin {"percent", "kWh", "unit", None}})
       \cup Each("VAL-09", "blocking", {c \in priced : c.family \in {"oa_loss", "distribution_loss_approved"} /\ c.unit # "percent"})

\* ctx.plausible gives the range of a component and unit, where the profile has one.
Val17(ctx) ==
    Each("VAL-17", "warning",
         {c \in Retail(ctx) : /\ c.state = "value" /\ c.value # None /\ <<c.component, c.unit>> \in DOMAIN ctx.plausible
                              /\ c.value \notin ctx.plausible[<<c.component, c.unit>>]})

-----------------------------------------------------------------------------
(* Candidates against the pages they cite.                                 *)

RolesOf(ctx, page) == IF page \in DOMAIN ctx.roles THEN ctx.roles[page] ELSE {}

Missing(ctx, place) == place.spot \notin DOMAIN ctx.spots \/ ctx.spots[place.spot] # place.excerpt

Val11(ctx) == Each("VAL-11", "blocking", {c \in Cs(ctx) : \E p \in c.places : p.kind # "prose" /\ Missing(ctx, p)})

Val18(ctx) ==
    Each("VAL-18", "blocking", {c \in Retail(ctx) : \E p \in c.places :
                                   RolesOf(ctx, p.page) \cap {"approved_schedule", "approved_summary"} = {}})

LossRole == [oa_loss |-> "network_charges", distribution_loss_approved |-> "loss_trajectory"]

Val08(ctx) ==
    LET losses == {c \in Cs(ctx) : c.family \in DOMAIN LossRole}
    IN Each("VAL-08", "blocking", {c \in losses : \E p \in c.places : LossRole[c.family] \notin RolesOf(ctx, p.page)})
       \cup (IF \E c, d \in losses : c.family # d.family /\ \E p \in c.places, q \in d.places : p.page = q.page /\ p.excerpt = q.excerpt
             THEN {Finding("VAL-08", "blocking", {})} ELSE {})

Val12(ctx) == Each("VAL-12", "warning", {c \in Cs(ctx) : ~(c.conditions \subseteq ctx.conditions)})

-----------------------------------------------------------------------------
(* Candidates against one another.                                         *)

Conflicting(c, d) == Key(c) = Key(d) /\ <<c.value, c.state, c.unit>> # <<d.value, d.state, d.unit>>

Val13(ctx) == Each("VAL-13", "blocking", {c \in Cs(ctx) : \E d \in Cs(ctx) : Conflicting(c, d)})

Val02(ctx) ==
    LET bound == {c \in Retail(ctx) : Printed(c) /\ c.component # "tod_adjustment"}
        alike(c) == {d \in Retail(ctx) : d.category = c.category /\ d.component = c.component}
    IN {Finding("VAL-02", "warning", alike(c)) :
           c \in {c \in bound : \E d \in bound \cap alike(c) : d.unit # c.unit}}

\* Within a category: slabs of one component by their upper bounds.
Slabbed(ctx) == {c \in Retail(ctx) : c.slab # None}
Siblings(ctx, c) == {d \in Slabbed(ctx) : d.category = c.category /\ d.component = c.component /\ d.alternative = c.alternative}

OverlapOnly(a, b) == b.lower < a.upper

Overlap(a, b) == b.lower < a.upper \/ (b.lower = a.upper /\ a.upperIn /\ b.lowerIn)

Gap(a, b) == ~Overlap(a, b) /\ b.lower > a.upper + 1

\* The bounded slabs of one group by their upper bounds, and as they were read where those are
\* equal; each is compared with the next.
Bounded(ctx, cs) ==
    {i \in DOMAIN ctx.candidates :
        LET c == ctx.candidates[i] IN c \in cs /\ c.slab.kind = "absolute" /\ c.slab.upper # None}

Below(ctx, i, j) ==
    LET a == ctx.candidates[i].slab b == ctx.candidates[j].slab
    IN a.upper < b.upper \/ (a.upper = b.upper /\ i < j)

Adjacent(ctx, cs) ==
    {p \in Bounded(ctx, cs) \X Bounded(ctx, cs) :
        Below(ctx, p[1], p[2]) /\ \A k \in Bounded(ctx, cs) : ~(Below(ctx, p[1], k) /\ Below(ctx, k, p[2]))}

Disjoined(ctx, cs) ==
    {Finding("VAL-03", "warning", {ctx.candidates[p[1]], ctx.candidates[p[2]]}) :
        p \in {p \in Adjacent(ctx, cs) :
                  LET a == ctx.candidates[p[1]].slab b == ctx.candidates[p[2]].slab
                  IN b.lower # None /\ (Overlap(a, b) \/ Gap(a, b))}}

Telescopic(cs) == \E c \in cs : c.slab.kind \in {"first", "next"}

Val03(ctx) ==
    {Finding("VAL-03", "warning", Siblings(ctx, c)) : c \in {c \in Slabbed(ctx) : c.slab.words = "ambiguous"}}
    \cup UNION {IF Telescopic(Siblings(ctx, c)) THEN {Finding("VAL-03", "info", Siblings(ctx, c))}
                ELSE Disjoined(ctx, Siblings(ctx, c)) : c \in Slabbed(ctx)}

Val04(ctx) ==
    LET offered == {c \in Cs(ctx) : c.alternative # 0}
        group(c) == {d \in offered : d.category = c.category}
    IN {Finding("VAL-04", IF Cardinality({d.alternative : d \in group(c)}) < 2 THEN "blocking" ELSE "info", group(c)) : c \in offered}

\* Bands of one day, counted in hours: a band that ends at or before its start runs past midnight.
Hours(band) == IF band.to > band.from THEN band.to - band.from ELSE 24 - band.from + band.to

\* The bands of a category in a season; one that cannot be read has no start.
Banded(ctx) == {c \in Cs(ctx) : c.component = "tod_adjustment" /\ c.band # None}
Unread(c) == c.band.from = None
BandGroup(ctx, c) ==
    {d \in Banded(ctx) : d.category = c.category /\ d.season = c.season /\ d.alternative = c.alternative}
ReadBands(ctx, c) == {d \in BandGroup(ctx, c) : ~Unread(d)}

Partial(ctx, c) == SumFunction([d \in ReadBands(ctx, c) |-> Hours(d.band)]) # 24

Val10(ctx) ==
    Each("VAL-10", "warning", {c \in Banded(ctx) : Unread(c)})
    \cup {Finding("VAL-10", "warning", BandGroup(ctx, c)) : c \in {c \in Banded(ctx) : Partial(ctx, c)}}
    \cup {Finding("VAL-10", "info", BandGroup(ctx, c)) : c \in {c \in Banded(ctx) : c.season # None /\ ~c.season.months}}

\* Where the profile declares two authoritative tables, the last reading of a category's component in each.
Val16(ctx) ==
    LET roles(c) == UNION {RolesOf(ctx, p.page) : p \in c.places}
        role(c) == IF "approved_summary" \in roles(c) THEN "approved_summary"
                   ELSE IF "approved_schedule" \in roles(c) THEN "approved_schedule" ELSE None
        valued(i) == ctx.candidates[i].family = "retail_tariff" /\ ctx.candidates[i].value # None
        about(i) == <<role(ctx.candidates[i]), ctx.candidates[i].category, ctx.candidates[i].component>>
        last == {i \in DOMAIN ctx.candidates : valued(i) /\ \A j \in i + 1 .. Len(ctx.candidates) : ~(valued(j) /\ about(j) = about(i))}
        table(r) == {ctx.candidates[i] : i \in {i \in last : about(i)[1] = r}}
        twins(c) == {d \in table("approved_schedule") : d.category = c.category /\ d.component = c.component}
    IN IF ~ctx.secondary THEN {}
       ELSE IF table("approved_summary") = {} THEN {Finding("VAL-16", "warning", {})}
       ELSE Each("VAL-16", "warning", {c \in table("approved_summary") : twins(c) = {}})
            \cup {Finding("VAL-16", "blocking", {c} \cup twins(c)) :
                     c \in {c \in table("approved_summary") : \E d \in twins(c) : d.value # c.value}}

-----------------------------------------------------------------------------
(* The order as a whole.                                                   *)

Val06(ctx) == {[id |-> "VAL-06", severity |-> "blocking", keys |-> {}, family |-> f] :
                  f \in Families \ ({c.family : c \in Cs(ctx)} \cup ctx.dispositions)}

Val15(ctx) ==
    LET covered == {c.category : c \in Cs(ctx)} \ {None}
    IN {Finding("VAL-15", "warning", {}) : code \in ctx.inventory \ (covered \cup ctx.dispositions)}
       \cup {Finding("VAL-15", "warning", {c \in Cs(ctx) : c.category = code}) : code \in covered \ ctx.inventory}

\* An amendment's modified text stands in the consolidated schedule, and what it supersedes does not.
Val05(ctx) ==
    {Finding("VAL-05", IF a.modified \in ctx.consolidated THEN "info" ELSE "blocking", {}) :
        a \in {a \in ctx.amendments : a.modified # None}}

-----------------------------------------------------------------------------
(* Arithmetic the order prints, in hundredths of a rupee.                  *)

\* S = T - [C / (1 - L/100) + D + R]; D is the sum of its parts when it is not printed, R is 0
\* when the order prints none; without T, C, L or D, or with a loss of 100%, there is no number.
Compute(p) ==
    LET parts == {p.DC, p.TC, p.WC}
        d == IF p.D # None THEN p.D ELSE IF None \in parts THEN None ELSE p.DC + p.TC + p.WC
        r == IF p.R = None THEN 0 ELSE p.R
    IN IF None \in {p.T, p.C, p.L, d} \/ p.L >= 100 THEN None
       ELSE [over |-> 100 - p.L, value |-> (p.T - d - r) * (100 - p.L) - p.C * 100]

\* A printed value is a quotient to the last of its two places.
Agrees(printed, value, over) == printed * over - value \in -over .. over

\* A printed cap is 20% of a tariff to the last of its places.
IsCapOf(cap, tariff) == 5 * cap - tariff \in -5 .. 5

\* The printed result against the recomputed one, the printed cap against 20% of T, and the approved
\* value against the cap that is printed, or else recomputed.
FormulaSays(c) ==
    LET p == c.derivation.formula
        computed == Compute(p)
        above == IF p.CAP # None THEN c.value > p.CAP ELSE 5 * c.value - p.T > 2
    IN CASE p = None -> {}
         [] p # None /\ computed = None -> {"warning"}
         [] p # None /\ computed # None ->
                (IF p.S = None THEN {} ELSE {IF Agrees(p.S, computed.value, computed.over) THEN "info" ELSE "blocking"})
                \cup (IF p.CAP # None /\ ~IsCapOf(p.CAP, p.T) THEN {"blocking"} ELSE {})
                \cup {IF above THEN "blocking" ELSE "info"}

\* The first printed input whose heading has the word.
InputOf(inputs, word) ==
    LET n == SelectInSeq(inputs, LAMBDA x : word \in x.heading /\ x.value # None) IN IF n = 0 THEN None ELSE inputs[n].value

\* A wheeling charge is the ARR in crores over the sales in millions of units.
SalesSay(c) ==
    LET arr == InputOf(c.derivation.inputs, "arr")
        sales == InputOf(c.derivation.inputs, "sales")
    IN IF None \in {arr, sales} \/ sales = 0 THEN {"warning"}
       ELSE {IF Agrees(c.value, arr * 1000, sales) THEN "info" ELSE "blocking"}

LowestSays(c) ==
    LET printed == SelectSeq(c.derivation.inputs, LAMBDA x : x.value # None)
    IN IF Len(printed) < 2 THEN {"warning"}
       ELSE {IF c.value = Min({x.value : x \in ToSet(printed)}) THEN "info" ELSE "blocking"}

CapSays(c) ==
    LET cap == InputOf(c.derivation.inputs, "cap")
        tariff == InputOf(c.derivation.inputs, "tariff")
    IN (IF None \notin {cap, tariff} /\ ~IsCapOf(cap, tariff) THEN {"blocking"} ELSE {})
       \cup (IF cap = None THEN {} ELSE {IF c.value > cap THEN "blocking" ELSE "info"})

\* How the order itself says the value was arrived at.
RuleSays(c) ==
    CASE c.derivation.rule = "arr_over_sales" -> SalesSay(c)
      [] c.derivation.rule = "lower_of" -> LowestSays(c)
      [] c.derivation.rule = "cap" -> CapSays(c)
      [] OTHER -> {}

Derived(ctx) == {c \in Cs(ctx) : c.derivation # None /\ c.value # None}

\* Findings of one severity about one value count once.
Val07(ctx) == UNION {{Finding("VAL-07", severity, {c}) : severity \in FormulaSays(c) \cup RuleSays(c)} : c \in Derived(ctx)}

RunAll(ctx) == UNION {Val01(ctx), Val02(ctx), Val03(ctx), Val04(ctx), Val06(ctx), Val08(ctx), Val09(ctx), Val10(ctx), Val11(ctx),
                      Val13(ctx), Val15(ctx), Val17(ctx), Val18(ctx), Val19(ctx), Val05(ctx), Val07(ctx), Val12(ctx), Val16(ctx)}

-----------------------------------------------------------------------------
(* Findings on candidate rows.                                             *)

\* A row as extracted: its key is that of the comparison, made before the assessment names an
\* empty block of its record by a grounded sub-category.
ExtractedRow(c, subCategory) ==
    [key |-> Key(c),
     record |-> [c EXCEPT !.block = IF @ = None /\ subCategory \notin {c.row, c.category} THEN subCategory ELSE @],
     flagged |-> FALSE, batch |-> TRUE, confidence |-> "high", findings |-> 0, blocking |-> 0]

Names(finding, row) == row.key \in finding.keys

\* The counts are written anew; a warning or a blocker takes the row out of the batch for good.
ValidatedRow(row, findings) ==
    LET own == {f \in findings : Names(f, row)}
        doubted == ~row.flagged /\ \E f \in own : f.severity # "info"
    IN [row EXCEPT !.findings = Cardinality(own), !.blocking = Cardinality({f \in own : f.severity = "blocking"}),
                   !.flagged = @ \/ doubted, !.batch = @ /\ ~doubted,
                   !.confidence = IF doubted /\ @ = "high" THEN "medium" ELSE @]

ValidateRows(rows, ctx) ==
    LET read == [ctx EXCEPT !.candidates = [i \in DOMAIN rows |-> rows[i].record]]
    IN [i \in DOMAIN rows |-> ValidatedRow(rows[i], RunAll(read))]

-----------------------------------------------------------------------------
(* Properties.                                                             *)

\* No whole quantity is in two slabs of a component, unless a finding names one of the slabs.
SlabsApart(ctx) ==
    \A c \in Slabbed(ctx) : LET cs == Siblings(ctx, c)
                                inside(d, x) == /\ x > d.slab.lower \/ (x = d.slab.lower /\ d.slab.lowerIn)
                                                /\ x < d.slab.upper \/ (x = d.slab.upper /\ d.slab.upperIn)
                                plain == {d \in cs : d.slab.kind = "absolute" /\ d.slab.lower # None}
                            IN \A d, e \in plain : d = e \/ Telescopic(cs)
                                  \/ (\E f \in Val03(ctx), g \in {d, e} : f.severity = "warning" /\ Key(g) \in f.keys)
                                  \/ \A x \in 0 .. 6 : ~(inside(d, x) /\ inside(e, x))

\* Bands of one season of a category that do not overlap cover every hour of the day, unless a
\* warning names them: a band that cannot be read covers nothing, and never passes unseen.
DayCovered(ctx) ==
    LET hours(b) == IF b.to > b.from THEN b.from .. b.to - 1 ELSE (b.from .. 23) \cup (0 .. b.to - 1)
        warned(c) == \E f \in Val10(ctx) : f.severity = "warning" /\ Key(c) \in f.keys
        apart(c) == \A i, j \in {i \in DOMAIN ctx.candidates : ctx.candidates[i] \in ReadBands(ctx, c)} :
                        i # j => hours(ctx.candidates[i].band) \cap hours(ctx.candidates[j].band) = {}
    IN \A c \in Banded(ctx) : warned(c) \/ ~apart(c) \/ UNION {hours(d.band) : d \in ReadBands(ctx, c)} = 0 .. 23

\* An approved value its derivation does not block is within a paisa of 20% of the tariff that caps it,
\* whichever cap it was compared with: the printed one is itself compared with the tariff.
CapsHold(ctx) ==
    \A c \in Derived(ctx) :
        \/ \E f \in Val07(ctx) : f.severity = "blocking" /\ Key(c) \in f.keys
        \/ LET p == c.derivation.formula
               tariff == InputOf(c.derivation.inputs, "tariff")
           IN /\ p # None /\ Compute(p) # None => 5 * c.value <= p.T + 5
              /\ c.derivation.rule = "cap" /\ tariff # None /\ InputOf(c.derivation.inputs, "cap") # None => 5 * c.value <= tariff + 5

\* What is found about the record of row i reaches the row: a blocker blocks it, a warning takes it
\* out of the batch, and two records of one key that print different values are both blocked.
RecordBlocked(rows, findings, after, i) ==
    LET about == {f \in findings : Key(rows[i].record) \in f.keys}
    IN /\ (\E f \in about : f.severity = "blocking") => after[i].blocking > 0
       /\ (\E f \in about : f.severity # "info") => ~after[i].batch /\ after[i].confidence # "high"
       /\ (\E j \in DOMAIN rows : Conflicting(rows[i].record, rows[j].record)) => after[i].blocking > 0

FindingsOf(rows, ctx) == RunAll([ctx EXCEPT !.candidates = [i \in DOMAIN rows |-> rows[i].record]])

\* A finding reaches every row that stands under a key it names, and with it what it says of a record
\* whose row stands under its own key; one that names candidates and blocks no row is about a record
\* whose key is no longer its row's; and no doubt is ever withdrawn.
RowsBlocked(rows, ctx, after) ==
    LET findings == FindingsOf(rows, ctx)
        stands(i) == rows[i].key = Key(rows[i].record)
    IN /\ \A i \in DOMAIN rows :
             /\ stands(i) => RecordBlocked(rows, findings, after, i)
             /\ \A f \in findings : Names(f, rows[i]) =>
                    (f.severity # "blocking" \/ after[i].blocking > 0)
                    /\ (f.severity = "info" \/ (~after[i].batch /\ after[i].confidence # "high"))
             /\ ~rows[i].batch => ~after[i].batch
       /\ \A f \in findings : f.severity = "blocking" /\ f.keys # {} =>
             \/ \E i \in DOMAIN rows : rows[i].key \in f.keys /\ after[i].blocking > 0
             \/ \E i \in DOMAIN rows : Key(rows[i].record) \in f.keys /\ ~stands(i)

\* The record of every row is blocked by what is found of it, whatever key the row stands under.
RecordsBlocked(rows, ctx, after) == \A i \in DOMAIN rows : RecordBlocked(rows, FindingsOf(rows, ctx), after, i)
=============================================================================
