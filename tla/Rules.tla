------------------------------- MODULE Rules -------------------------------
(***************************************************************************)
(* Calculation rules (arr/rules.py): the formula language with its units,  *)
(* the rules of a year in the order of what they need, and the evaluation  *)
(* of a year over shared values and categories.  Amounts are integers in   *)
(* the base unit; outputs and sources are numbers.                         *)
(***************************************************************************)
EXTENDS Integers, Sequences, FiniteSets, FiniteSetsExt, SequencesExt, TLC

CONSTANT None   \* no value: missing, or refused by the language

-----------------------------------------------------------------------------
(* Quantities.                                                             *)

Dim(money, energy) == [money |-> money, energy |-> energy]
Unit(scale, dims) == [scale |-> scale, dims |-> dims]
Units == [INR |-> Unit(1, Dim(1, 0)), INR_crore |-> Unit(10, Dim(1, 0)), kWh |-> Unit(1, Dim(0, 1)), MU |-> Unit(10, Dim(0, 1)),
          INR_per_kWh |-> Unit(1, Dim(1, -1)), number |-> Unit(1, Dim(0, 0))]

Of(value, unit) == [value |-> value * Units[unit].scale, dims |-> Units[unit].dims]

To(q, unit) == IF q = None \/ q.dims # Units[unit].dims THEN None ELSE q.value \div Units[unit].scale

Combine(a, b, sign) == [d \in DOMAIN a |-> a[d] + sign * b[d]]

Quotient(a, b) == IF b > 0 THEN a \div b ELSE (-a) \div (-b)

-----------------------------------------------------------------------------
(* Formulas: a number, a name, or an operator over formulas.               *)

RECURSIVE NamesIn(_)
NamesIn(f) == CASE f.op = "number" -> {} [] f.op = "name" -> {f.name} [] OTHER -> UNION {NamesIn(f.args[i]) : i \in DOMAIN f.args}

\* ifneg takes one of two alike, the others combine; a division by zero has no value.
Apply(op, a) ==
    LET alike(from) == \A i \in from .. Len(a) : a[i].dims = a[from].dims
        values == {a[i].value : i \in DOMAIN a}
    IN CASE op = "neg" -> [a[1] EXCEPT !.value = -@]
         [] op \in {"+", "-"} -> IF ~alike(1) THEN None
                                 ELSE [a[1] EXCEPT !.value = IF op = "+" THEN @ + a[2].value ELSE @ - a[2].value]
         [] op = "*" -> [value |-> a[1].value * a[2].value, dims |-> Combine(a[1].dims, a[2].dims, 1)]
         [] op = "/" -> IF a[2].value = 0 THEN None
                        ELSE [value |-> Quotient(a[1].value, a[2].value), dims |-> Combine(a[1].dims, a[2].dims, -1)]
         [] op = "ifneg" -> IF ~alike(2) THEN None ELSE IF a[1].value < 0 THEN a[2] ELSE a[3]
         [] op = "max" -> IF ~alike(1) THEN None ELSE [a[1] EXCEPT !.value = Max(values)]
         [] op = "min" -> IF ~alike(1) THEN None ELSE [a[1] EXCEPT !.value = Min(values)]

RECURSIVE EvaluateFormula(_, _)
EvaluateFormula(f, env) ==
    CASE f.op = "number" -> [value |-> f.value, dims |-> Dim(0, 0)]
      [] f.op = "name" -> IF f.name \in DOMAIN env THEN env[f.name] ELSE None
      [] OTHER -> LET a == [i \in DOMAIN f.args |-> EvaluateFormula(f.args[i], env)]
                  IN IF \E i \in DOMAIN a : a[i] = None THEN None ELSE Apply(f.op, a)

\* A rule names exactly its inputs, gives a value exactly where the regulation fixes it, and has
\* the dimension of its output on probes of the inputs' units, whatever their values.
CheckRule(r) ==
    LET probe == [n \in DOMAIN r.inputs |-> Of(3 + 2 * Cardinality({m \in DOMAIN r.inputs : m < n}), r.inputs[n].unit)]
    IN /\ NamesIn(r.formula) = DOMAIN r.inputs
       /\ \A n \in DOMAIN r.inputs : (r.inputs[n].source.kind = "regulation") = (r.inputs[n].value # None)
       /\ To(EvaluateFormula(r.formula, probe), r.unit) # None

-----------------------------------------------------------------------------
(* The rules of a year.                                                    *)

AppliesIn(r, year) == year \in r.from .. r.to

\* One rule per output, of the highest version; None: several rules apply to one output.
RulesOf(rules, year) ==
    LET current == {r \in rules : r.status # "superseded" /\ AppliesIn(r, year)}
        newest(o) == CHOOSE r \in current : r.output = o /\ \A s \in current : s.output = o => s.version <= r.version
    IN IF \E r, s \in current : r.output = s.output /\ r.id # s.id THEN None
       ELSE [o \in {r.output : r \in current} |-> newest(o)]

Deps(r) == {r.inputs[n].source.of : n \in {n \in DOMAIN r.inputs : r.inputs[n].source.kind \in {"rule", "sum"}}}

RECURSIVE Visit(_, _, _, _)
Visit(rs, o, path, order) ==
    IF order = None THEN None
    ELSE IF o \notin DOMAIN rs \/ o \in path THEN None
    ELSE IF o \in ToSet(order) THEN order
    ELSE LET needed == FoldLeft(LAMBDA at, d : Visit(rs, d, path \cup {o}, at), order, SetToSortSeq(Deps(rs[o]), <))
         IN IF needed = None THEN None ELSE Append(needed, o)

\* What a rule needs comes before it; None: a cycle, or an output no rule produces.
Order(rs) == FoldLeft(LAMBDA at, o : Visit(rs, o, {}, at), <<>>, SetToSortSeq(DOMAIN rs, <))

\* An output of a category is taken within it, or summed over all of them.
CategoriesFit(rs) ==
    \A o \in DOMAIN rs : \A n \in DOMAIN rs[o].inputs :
        LET s == rs[o].inputs[n].source
        IN s.of \in DOMAIN rs => /\ s.kind = "sum" => rs[s.of].per
                                 /\ s.kind = "rule" /\ rs[s.of].per => rs[o].per

-----------------------------------------------------------------------------
(* The evaluation of a year.                                               *)

Result(value, unit, given) == [value |-> value, unit |-> unit, given |-> given]

\* Rounded to tens where the rule says that its rounded value feeds the others.
Fed(result, r) == Of(IF r.rounded THEN (result.value \div 10) * 10 ELSE result.value, result.unit)

SumOver(rs, dep, ev) ==
    LET done == {c \in DOMAIN ev.by : dep \in DOMAIN ev.by[c]}
    IN IF done # DOMAIN ev.by \/ done = {} THEN None
       ELSE Of(MapThenSumSet(LAMBDA c : ev.by[c][dep].value, done), rs[dep].unit)

InputOf(rs, spec, values, ev, cat) ==
    LET dep == spec.source.of
        done == IF rs[dep].per THEN ev.by[cat] ELSE ev.results
    IN CASE spec.source.kind = "rule" -> IF dep \in DOMAIN done THEN Fed(done[dep], rs[dep]) ELSE None
         [] spec.source.kind = "sum" -> SumOver(rs, dep, ev)
         [] spec.source.kind = "regulation" -> Of(spec.value, spec.unit)
         [] OTHER -> IF spec.source \in DOMAIN values THEN Of(values[spec.source].value, values[spec.source].unit) ELSE None

One(rs, r, values, ev, cat) ==
    LET env == [n \in DOMAIN r.inputs |-> InputOf(rs, r.inputs[n], values, ev, cat)]
    IN IF \E n \in DOMAIN env : To(env[n], r.inputs[n].unit) = None THEN None
       ELSE LET v == To(EvaluateFormula(r.formula, env), r.unit) IN IF v = None THEN None ELSE Result(v, r.unit, FALSE)

Source(kind, of) == [kind |-> kind, of |-> of]

\* A figure given for an output stands in for its computation.
ResultOf(rs, o, values, ev, cat) ==
    IF Source("rule", o) \in DOMAIN values
    THEN LET v == To(Of(values[Source("rule", o)].value, values[Source("rule", o)].unit), rs[o].unit)
         IN Result(v, rs[o].unit, TRUE)
    ELSE One(rs, rs[o], values, ev, cat)

With(results, o, result) == IF result = None THEN results ELSE results @@ (o :> result)

\* A category's values override the shared ones.
EvaluateYear(rs, values, cats) ==
    FoldLeft(LAMBDA ev, o :
                 IF rs[o].per
                 THEN [ev EXCEPT !.by = [c \in DOMAIN cats |-> With(@[c], o, ResultOf(rs, o, cats[c] @@ values, ev, c))]]
                 ELSE [ev EXCEPT !.results = With(@, o, ResultOf(rs, o, values, ev, None))],
             [results |-> <<>>, by |-> [c \in DOMAIN cats |-> <<>>]], Order(rs))

-----------------------------------------------------------------------------
(* Properties.                                                             *)

\* The units are checked once: a rule that passes its check has a value for
\* every value of its inputs, unless it divides by zero.
DimensionsHold(r, values, divides) ==
    LET env == [n \in DOMAIN r.inputs |-> Of(values[n], r.inputs[n].unit)]
    IN CheckRule(r) => \/ To(EvaluateFormula(r.formula, env), r.unit) # None
                       \/ divides /\ \E n \in DOMAIN values : values[n] = 0

\* The rules of a year are refused exactly if one of them needs itself or an
\* output nothing produces; otherwise each output stands after what it needs
\* and is computed exactly if all of that is: nothing that is missing is
\* replaced by a default, nothing that could be computed is left out, and a
\* total is over every category or not at all.
YearHolds(rs, values, cats, ev) ==
    LET reach[n \in 0 .. Cardinality(DOMAIN rs)] ==
            [o \in DOMAIN rs |-> IF n = 0 THEN Deps(rs[o])
                                 ELSE reach[n - 1][o] \cup UNION {Deps(rs[d]) : d \in reach[n - 1][o] \cap DOMAIN rs}]
        all == reach[Cardinality(DOMAIN rs)]
        needs(o, kind) == {rs[o].inputs[n].source : n \in {n \in DOMAIN rs[o].inputs : rs[o].inputs[n].source.kind = kind}}
        met(o, vs, c) ==
            \/ Source("rule", o) \in DOMAIN vs
            \/ /\ needs(o, "record") \subseteq DOMAIN vs
               /\ \A s \in needs(o, "rule") : s.of \in DOMAIN (IF rs[s.of].per THEN ev.by[c] ELSE ev.results)
               /\ \A s \in needs(o, "sum") : cats # <<>> /\ \A d \in DOMAIN cats : s.of \in DOMAIN ev.by[d]
    IN IF Order(rs) = None
       THEN \E o \in DOMAIN rs : o \in all[o] \/ ~(Deps(rs[o]) \subseteq DOMAIN rs)
       ELSE \A o \in DOMAIN rs :
               /\ o \notin all[o]
               /\ ~rs[o].per => (o \in DOMAIN ev.results <=> met(o, values, None))
               /\ rs[o].per => \A c \in DOMAIN cats : o \in DOMAIN ev.by[c] <=> met(o, cats[c] @@ values, c)
=============================================================================
