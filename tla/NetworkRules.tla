----------------------------- MODULE NetworkRules -----------------------------
(***************************************************************************)
(* The rules' reading of a region of network charges or losses             *)
(* (extraction.py network_extract, green_tariff_prose, extract_conditions; *)
(* css_formula.py): the tables of charges, those whose approved column     *)
(* fixes a surcharge, those that work one out, and the parameters of the   *)
(* surcharge's formula, attached to the charges they stand behind.         *)
(*                                                                         *)
(* A label is a record [words, symbol, code, level, text]: its words, the  *)
(* formula symbol it names outright, the consumer category's code and the  *)
(* network level in it, "none" where it has none, and its whole text,      *)
(* which is the code where it is nothing but a code.                       *)
(***************************************************************************)
EXTENDS RateRules

-----------------------------------------------------------------------------
(* Which formula symbol, category and level labels name.                   *)

\* A symbol of its own, else the first description that fits.
Descriptors ==
    <<<<"distribution charge", "DC">>, <<"transmission charge", "TC">>, <<"wheeling charge", "WC">>, <<"aggregate charge", "D">>,
      <<"power purchase", "C">>, <<"loss", "L">>, <<"carrying cost", "R">>, <<"computed surcharge", "S">>, <<"cap", "CAP">>,
      <<"tariff", "T">>>>

FirstNamed(labels, attribute(_)) ==
    LET n == SelectInSeq(labels, LAMBDA l : attribute(l) # "none") IN IF n = 0 THEN "none" ELSE attribute(labels[n])

SymbolOf(labels) ==
    LET own == FirstNamed(labels, LAMBDA l : l.symbol)
        n == SelectInSeq(Descriptors, LAMBDA d : d[1] \in WordsOf(labels))
    IN IF own # "none" THEN own ELSE IF n = 0 THEN "none" ELSE Descriptors[n][2]

LevelFrom(labels) == FirstNamed(labels, LAMBDA l : l.level)

\* A parameter is filed under the category and the level its labels name; nowhere if they name neither.
ParamKey(labels) == <<FirstNamed(labels, LAMBDA l : l.code), LevelFrom(labels)>>
Unfiled == <<"none", "none">>

\* The keys a charge may find its parameters under, most specific first.
LookupKeys(category, level) == SelectSeq(<<<<category, level>>, <<"none", level>>, <<category, "none">>>>,
                                         LAMBDA k : k # Unfiled /\ (k[1] = "none" \/ k[1] = category) /\ (k[2] = "none" \/ k[2] = level))

-----------------------------------------------------------------------------
(* Parameter tables.                                                       *)

LastLabel(labels) == IF labels = <<>> THEN <<>> ELSE <<Last(labels)>>

\* Symbols down the rows, else across the columns: a table is one of parameters if it names two.
Orientation(cells) ==
    LET named(S) == S \ {"none", "CAP"} IN
    CASE Cardinality(named({SymbolOf(c.rows) : c \in cells})) >= 2 -> "rows"
      [] Cardinality(named({SymbolOf(c.rows) : c \in cells})) < 2
         /\ Cardinality(named({SymbolOf(LastLabel(c.header)) : c \in cells})) >= 2 -> "columns"
      [] OTHER -> "none"

SymbolAt(c, orientation) == IF orientation = "rows" THEN SymbolOf(c.rows) ELSE SymbolOf(LastLabel(c.header))
KeyAt(c, orientation) == ParamKey(IF orientation = "rows" THEN c.header ELSE c.rows)

\* The numbers of a table of parameters, with the key and the symbol each is filed under.
FiledIn(cells, orientation) ==
    {f \in {[key |-> KeyAt(c, orientation), symbol |-> SymbolAt(c, orientation), value |-> NumberOf(c), unit |-> c.currency,
             place |-> CellPlace(c)] : c \in {c \in cells : orientation # "none" /\ HasNumber(c)}} :
        f.key # Unfiled /\ f.symbol # "none"}

Filed(cells, tables) == UNION {FiledIn({c \in cells : Table(c) = t}, Orientation({c \in cells : Table(c) = t})) : t \in tables}

\* Of one key and symbol the one printed last stands.
LastFiled(filed) ==
    {f \in filed : ~\E g \in filed : g.key = f.key /\ g.symbol = f.symbol /\ PrintedBefore(f.place, g.place)}

\* The first statement of the formula, and of each symbol's definition.
Sentences(prose) == UNION {{p} \X DOMAIN prose[p] : p \in DOMAIN prose}
Saying(prose, S) == {x \in Sentences(prose) : prose[x[1]][x[2]].says \cap S # {}}
FirstSaid(S) == CHOOSE x \in S : \A y \in S : x[1] < y[1] \/ (x[1] = y[1] /\ x[2] <= y[2])
FormulaStatements(prose) ==
    {[word |-> w, at |-> FirstSaid(Saying(prose, {w}))] : w \in {w \in {"formula", "T is", "C is", "L is", "D is"} : Saying(prose, {w}) # {}}}

DerivationFor(key, params, statements) ==
    [rule |-> "css_formula", key |-> key, statements |-> statements,
     inputs |-> {p \in params : p.key = key /\ p.symbol \notin {"S", "CAP"}}, printed |-> {p \in params : p.key = key /\ p.symbol \in {"S", "CAP"}}]

-----------------------------------------------------------------------------
(* Tables of charges and losses.                                           *)

\* The first family whose words a table prints; one that prints none has its region's, if that is
\* of losses or of the surcharge.
FamilyWords ==
    <<<<"wheeling charge", "wheeling_charge">>, <<"cross subsidy", "cross_subsidy_surcharge">>,
      <<"additional surcharge", "additional_surcharge">>, <<"loss", "oa_loss">>, <<"green tariff", "green_tariff">>>>

GridFamily(words, role, subRole) ==
    LET n == SelectInSeq(FamilyWords, LAMBDA f : f[1] \in words)
    IN IF role = "loss_trajectory" THEN IF "loss" \in words THEN "distribution_loss_approved" ELSE "none"
       ELSE IF n # 0 THEN FamilyWords[n][2]
       ELSE IF subRole \in {"oa_loss", "cross_subsidy_surcharge"} THEN subRole ELSE "none"

AmountWords == {"crore", "MU", "revenue"}
Losses == {"oa_loss", "distribution_loss_approved"}
NameOf == [wheeling_charge |-> "wheeling charge", additional_surcharge |-> "additional surcharge", green_tariff |-> "green tariff"]

NoDerivation == [rule |-> "none"]

\* A charge or a loss as the rules state it.
NetworkFact(family, category) == <<family, category, IF family \in Losses THEN "loss" ELSE "charge">>
Charge(c, family, category, level, decision, derivation) ==
    [fact |-> NetworkFact(family, category), level |-> level, unit |-> c.unit, page |-> c.page, value |-> NumberOf(c),
     decision |-> decision, derivation |-> derivation, places |-> {CellPlace(c)}]

\* A loss is a percentage, at a level, for a year or named; a charge is named, per unit.
Stated(c, family) ==
    LET words == WordsOf(c.header \o c.rows)
        percent == c.unit = "percent" \/ "%" \in words
    IN /\ c.state \in {"value", "zero", "not_applicable"}
       /\ IF family \in Losses THEN percent /\ (LevelFrom(c.rows \o c.header) # "none" \/ words \cap {"loss", "year"} # {})
          ELSE NameOf[family] \in words /\ (c.unit # "none" \/ percent \/ "unit" \in words)

\* Of a row, the last approved column is the surcharge and the other numbers are what it rests on.
Approved(c) == "approved" \in WordsOf(c.header)
InRow(cells, c) == {d \in cells : Table(d) = Table(c) /\ d.row = c.row}
LastApproved(cells, c) == Approved(c) /\ \A d \in InRow(cells, c) : Approved(d) => d.col <= c.col

RuleOf(words) == IF "lower of" \in words THEN "lower_of" ELSE IF "cap" \in words THEN "cap" ELSE "none"

\* The category of a row is the whole of its first label, whatever code is in it.
CssRow(cells, c) ==
    Charge(c, "cross_subsidy_surcharge", IF c.rows = <<>> THEN "none" ELSE c.rows[1].text,
           IF c.rows = <<>> THEN "none" ELSE LevelFrom(Tail(c.rows)), "approved",
           [rule |-> RuleOf(UNION {WordsOf(d.header) : d \in InRow(cells, c)}),
            inputs |-> {[column |-> WordsOf(d.header), value |-> NumberOf(d)] : d \in {d \in InRow(cells, c) \ {c} : HasNumber(d)}}])

CssRows(cells) == {CssRow(cells, c) : c \in {c \in cells : LastApproved(cells, c)}}

\* One table works the wheeling charge out, the requirement over the sales: of each, the last
\* number of the first row so named.
Worked(cells, word) ==
    LET named == {c \in cells : HasNumber(c) /\ word \in WordsOf(c.rows)}
        row == {c \in named : \A d \in named : c.row <= d.row}
    IN {c \in row : \A d \in row : d.col <= c.col}

WheelingFrom(cells, charge) ==
    Charge(charge, "wheeling_charge", "none", "none", "approved",
           [rule |-> "arr_over_sales",
            inputs |-> UNION {{[column |-> {w}, value |-> NumberOf(c)] : c \in Worked(cells, w)} : w \in {"arr", "sales"}}])

WheelingDerived(cells) == {WheelingFrom(cells, c) : c \in Worked(cells, "charge")}

StatedCharges(cells, family) ==
    {Charge(c, family, "none", LevelFrom(c.rows \o c.header), "approved", NoDerivation) : c \in {c \in cells : Stated(c, family)}}

WorksOut(words, family) == family = "wheeling_charge" /\ words \cap {"sales", "arr"} # {}
Determines(words, family) == family = "cross_subsidy_surcharge" \/ WorksOut(words, family)

\* A table that names no family, or names one among amounts of money or energy, is listed.
Listed(words, family) == family = "none" \/ (~Determines(words, family) /\ words \cap AmountWords # {})

GridRead(cells, words, family) ==
    CASE Listed(words, family) -> {}
      [] ~Listed(words, family) /\ family = "cross_subsidy_surcharge" -> CssRows(cells)
      [] ~Listed(words, family) /\ WorksOut(words, family) -> WheelingDerived(cells)
      [] ~Listed(words, family) /\ ~Determines(words, family) -> StatedCharges(cells, family)

-----------------------------------------------------------------------------
(* The formula behind a surcharge.                                         *)

IsSurcharge(c) == c.fact[1] = "cross_subsidy_surcharge"

\* The key a surcharge finds, or none.
FoundKey(c, keys) ==
    LET n == SelectInSeq(LookupKeys(c.fact[2], c.level), LAMBDA k : k \in keys)
    IN IF ~IsSurcharge(c) \/ n = 0 THEN Unfiled ELSE LookupKeys(c.fact[2], c.level)[n]

Attached(c, key, params, statements) ==
    IF key = Unfiled THEN c ELSE [c EXCEPT !.derivation = @ @@ [formula |-> DerivationFor(key, params, statements)]]

\* A key no surcharge found whose own is printed is a surcharge of its own; another is listed.
OwnPrinted(key, params, statements) ==
    LET printed == CHOOSE p \in params : p.key = key /\ p.symbol = "S"
    IN [fact |-> NetworkFact("cross_subsidy_surcharge", key[1]), level |-> key[2], unit |-> "kWh", page |-> printed.place[2],
        value |-> printed.value, decision |-> "parameter_specified", places |-> {printed.place},
        derivation |-> [rule |-> "css_formula", formula |-> DerivationFor(key, params, statements)]]

AttachCssFormula(read, params, statements) ==
    LET keys == {p.key : p \in params}
        left == keys \ {FoundKey(c, keys) : c \in read}
        own == {k \in left : \E p \in params : p.key = k /\ p.symbol = "S"}
    IN [candidates |-> {Attached(c, FoundKey(c, keys), params, statements) : c \in read}
                       \cup {OwnPrinted(k, params, statements) : k \in own},
        without |-> left \ own]

-----------------------------------------------------------------------------
(* The region.                                                             *)

WordsIn(cells) == UNION {WordsOf(c.header \o c.rows) : c \in cells}
TableCells(cells, t) == {c \in cells : Table(c) = t}
FamilyOf(order, t) == GridFamily(WordsIn(TableCells(order.cells, t)), order.role, order.subRole)

ReadTables(order, tables) ==
    UNION {GridRead(TableCells(order.cells, t), WordsIn(TableCells(order.cells, t)), FamilyOf(order, t)) : t \in tables}

NetworkRead(order, params, tables) ==
    AttachCssFormula(ReadTables(order, tables), params, IF params = {} THEN {} ELSE FormulaStatements(order.prose))
        @@ [listed |-> {t \in tables : Listed(WordsIn(TableCells(order.cells, t)), FamilyOf(order, t))}, parameters |-> params]

\* The surcharge's parameters are looked for in every region of network charges; a table that gives
\* one is read for nothing else.
NetworkFrom(order, tables, filed) ==
    NetworkRead(order, LastFiled(filed), tables \ {<<f.place[2], f.place[3]>> : f \in filed})

NetworkIn(order, tables) == NetworkFrom(order, tables, IF order.role = "network_charges" THEN Filed(order.cells, tables) ELSE {})
NetworkExtract(order) == NetworkIn(order, {Table(c) : c \in order.cells})

-----------------------------------------------------------------------------
(* Premiums and conditions stated in sentences.                            *)

\* An exclusion printed anywhere on the page is a condition of each premium of the page.
Premium(prose, x, g) ==
    [fact |-> <<"green_tariff", "none", "green_premium">>, level |-> g.scope, unit |-> "unit", page |-> x[1], value |-> g.value,
     decision |-> "approved", places |-> {<<"prose", x[1], x[2]>>},
     conditions |-> {y \in Saying(prose, {"discount_excluded"}) : y[1] = x[1]}]

GreenTariffProse(prose) == UNION {{Premium(prose, x, g) : g \in prose[x[1]][x[2]].premiums} : x \in Saying(prose, {"green"})}

FirstSchedulePage(headings, pages) == IF headings = <<>> THEN pages ELSE Min({headings[n].page : n \in DOMAIN headings})

\* Numbered provisions up to the first schedule, each footnote once, and the clauses that are conditions.
Provision(order, x) == [kind |-> "general_provision", place |-> <<"prose", x[1], x[2]>>, scope |-> order.prose[x[1]][x[2]].codes]

ExtractConditions(order) ==
    {Provision(order, x) : x \in {x \in Saying(order.prose, {"provision", "sub_provision"}) :
                                      x[1] <= FirstSchedulePage(order.headings, Len(order.prose))}}
    \cup {[kind |-> "footnote", place |-> <<"note", f>>, scope |-> {}] : f \in UNION {c.footnotes : c \in order.cells}}
    \cup {[kind |-> "clause_condition", place |-> <<"clause", v.page, v.line>>, scope |-> {v.category}] :
              v \in {v \in ToSet(order.clauses) : v.kind = "condition"}}

-----------------------------------------------------------------------------
(* Properties.                                                             *)

CellAt(order, place) == CHOOSE c \in order.cells : CellPlace(c) = place
Behind(c) == IF "formula" \in DOMAIN c.derivation THEN c.derivation.formula.inputs ELSE {}

\* No charge is worked out: each states the number printed where it cites, no number is two
\* charges, and a number the formula of a surcharge rests on is not a charge or a loss too.
NothingComputed(order, out) ==
    /\ \A k \in out.candidates : \A p \in k.places : k.value = NumberOf(CellAt(order, p))
    /\ \A c \in order.cells : Cardinality({k \in out.candidates : CellPlace(c) \in k.places}) <= 1
    /\ \A k \in out.candidates : \A i \in Behind(k) : ~\E m \in out.candidates : i.place \in m.places

\* A surcharge rests on parameters of its own category and level, the closest there are; the
\* parameters of every level stand behind some surcharge, or are listed.
FormulaOfItsOwn(out) ==
    LET keys == {p.key : p \in out.parameters}
        used == {k.derivation.formula.key : k \in {k \in out.candidates : Behind(k) # {}}}
    IN /\ \A k \in out.candidates : Behind(k) # {} =>
              LET key == k.derivation.formula.key IN
              /\ key[1] \in {"none", k.fact[2]} /\ key[2] \in {"none", k.level}
              /\ <<k.fact[2], k.level>> \in keys => key = <<k.fact[2], k.level>>
              /\ key[2] = "none" => <<"none", k.level>> \notin keys \/ k.level = "none"
       /\ \A key \in keys : key \in out.without \/ key \in used
                             \/ \A p \in out.parameters : p.key = key => p.symbol \in {"S", "CAP"}
       /\ \A key \in out.without : ~\E p \in out.parameters : p.key = key /\ p.symbol = "S"

\* A loss is filed under the role of its region: none of a trajectory is charged in open access, and
\* none of a network region is a loss the revenue requirement is trued up with.
LossesApart(order, out) ==
    \A k \in out.candidates : /\ order.role = "loss_trajectory" => k.fact[1] = "distribution_loss_approved"
                              /\ order.role # "loss_trajectory" => k.fact[1] # "distribution_loss_approved"

\* What is a condition: every numbered provision before the schedules, once, none of the schedules
\* themselves, whose clauses say it of their own category; and no premium is read without an
\* exclusion printed anywhere on its page, nor with one of another page.
ConditionsHold(order, conditions, premiums) ==
    /\ \A x \in Saying(order.prose, {"provision"}) :
           (\A n \in DOMAIN order.headings : x[1] <= order.headings[n].page)
               <=> \E k \in conditions : k.place = <<"prose", x[1], x[2]>>
    /\ \A v \in ToSet(order.clauses) : v.kind = "condition" =>
           Cardinality({k \in conditions : k.place = <<"clause", v.page, v.line>> /\ k.scope = {v.category}}) = 1
    /\ \A g \in premiums :
           /\ \A x \in g.conditions : x[1] = g.page
           /\ g.conditions = {} => ~\E n \in DOMAIN order.prose[g.page] : "discount_excluded" \in order.prose[g.page][n].says

NetworkHolds(order, out) == NothingComputed(order, out) /\ FormulaOfItsOwn(out) /\ LossesApart(order, out)
=============================================================================
