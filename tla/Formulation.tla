---------------------------- MODULE Formulation ----------------------------
(***************************************************************************)
(* The computation of a formulation (arr/formulate.py): the facts of the   *)
(* base year, the lines of the plan year by year, and the identities its   *)
(* lines and the printed facts are held to (arr/identities.py).            *)
(*                                                                         *)
(* Values are integers of the plan's precision; years count from the base, *)
(* which is 0, and an assumption for every year has the year 0.            *)
(***************************************************************************)
EXTENDS Integers, Sequences, FiniteSets, FiniteSetsExt, SequencesExt, TLC

CONSTANT None

-----------------------------------------------------------------------------
(* The base year.                                                          *)

Preferred(f, g, prefer) ==
    LET rank(v) == SelectInSeq(prefer, LAMBDA w : w = v) IN rank(f.voice) < rank(g.voice)

\* facts: the latest order first.  Of a line, the most preferred voice, and the latest within it.
SelectBase(facts, prefer) ==
    FoldLeft(LAMBDA at, f : IF f.year # 0 \/ f.voice \notin ToSet(prefer) THEN at
                            ELSE IF f.code \notin DOMAIN at THEN at @@ (f.code :> f)
                            ELSE IF Preferred(f, at[f.code], prefer) THEN [at EXCEPT ![f.code] = f] ELSE at,
             <<>>, facts)

\* A commission's plan of the highest version, or of the one asked for; the generic one if it has none.
LoadPlan(plans, commission, version) ==
    LET of(c) == {p \in plans : p.commission = c /\ (version = None \/ p.version = version)}
        from == IF {p \in plans : p.commission = commission} = {} THEN of("generic") ELSE of(commission)
    IN IF from = {} THEN None ELSE CHOOSE p \in from : \A q \in from : q.version <= p.version

-----------------------------------------------------------------------------
(* A plan line: its formula over values of its year or the year before and *)
(* one assumption.                                                         *)

Read(what, of, year) == [what |-> what, of |-> of, year |-> year]

Reads(line, y) ==
    LET now == {Read("value", c, y) : c \in line.of}
        before == {Read("value", c, y - 1) : c \in line.of}
        parameter == {Read("assumption", line.key, y)}
    IN CASE line.formula = "carry_forward" -> before
         [] line.formula = "escalate" -> before \cup parameter
         [] line.formula = "assumption" -> parameter
         [] line.formula \in {"sum", "energy_input", "acos"} -> now
         [] line.formula = "net" -> now \cup {Read("value", line.from, y)}
         [] line.formula \in {"quantity_x_rate", "rate_on"} -> now \cup parameter

\* The nearest integer, a half away from zero.
Nearest(n, d) == IF n >= 0 THEN (2 * n + d) \div (2 * d) ELSE -((d - 2 * n) \div (2 * d))

\* v: the value of a line, p: of the assumption.  None: nothing can be computed.
Formula(line, v, p) ==
    LET only == CHOOSE c \in line.of : TRUE
        total == MapThenSumSet(LAMBDA c : v[c], line.of)
    IN CASE line.formula = "carry_forward" -> v[only]
         [] line.formula = "escalate" -> Nearest(v[only] * (100 + p), 100)
         [] line.formula = "assumption" -> p
         [] line.formula = "sum" -> total
         [] line.formula = "net" -> v[line.from] - total
         [] line.formula = "energy_input" -> IF v[line.loss] >= 100 THEN None ELSE Nearest(v[line.sales] * 100, 100 - v[line.loss])
         [] line.formula = "quantity_x_rate" -> Nearest(v[only] * p, 10)
         [] line.formula = "rate_on" -> Nearest(v[only] * p, 100)
         [] line.formula = "acos" -> IF v[line.sales] = 0 THEN None ELSE Nearest(v[line.arr] * 10, v[line.sales])

\* The parameter of the year, or of every year.
AssumptionFor(assumptions, key, y) ==
    CASE <<key, y>> \in DOMAIN assumptions -> assumptions[<<key, y>>]
      [] <<key, y>> \notin DOMAIN assumptions /\ <<key, 0>> \in DOMAIN assumptions -> assumptions[<<key, 0>>]
      [] OTHER -> None

\* Mutant of Given: what was blocked or not computed counts as nothing.
GivenOrZero(read, base, assumptions, results) ==
    CASE read.what = "assumption" -> AssumptionFor(assumptions, read.of, read.year)
      [] read.what = "value" /\ read.year = 0 -> IF read.of \in DOMAIN base THEN base[read.of].value ELSE None
      [] OTHER -> IF <<read.of, read.year>> \in DOMAIN results /\ results[<<read.of, read.year>>] # None
                  THEN results[<<read.of, read.year>>] ELSE 0

Given(read, base, assumptions, results) ==
    CASE read.what = "assumption" -> AssumptionFor(assumptions, read.of, read.year)
      [] read.what = "value" /\ read.year = 0 -> IF read.of \in DOMAIN base THEN base[read.of].value ELSE None
      [] OTHER -> IF <<read.of, read.year>> \in DOMAIN results THEN results[<<read.of, read.year>>] ELSE None

LineResult(line, y, base, assumptions, results) ==
    LET reads == Reads(line, y)
        given(r) == Given(r, base, assumptions, results)
    IN IF \E r \in reads : given(r) = None THEN None
       ELSE Formula(line,
                    [c \in {r.of : r \in {r \in reads : r.what = "value"}} |->
                        given(CHOOSE r \in reads : r.what = "value" /\ r.of = c)],
                    IF \E r \in reads : r.what = "assumption" THEN given(Read("assumption", line.key, y)) ELSE 0)

\* Every line of the plan for every year up to the last; a line with nothing to compute it from is blocked.
Formulate(lines, last, base, assumptions) ==
    FoldLeft(LAMBDA results, at :
                 LET line == lines[at[2]]
                 IN (<<line.code, at[1]>> :> LineResult(line, at[1], base, assumptions, results)) @@ results,
             <<>>, [i \in 1 .. last * Len(lines) |-> <<1 + ((i - 1) \div Len(lines)), 1 + ((i - 1) % Len(lines))>>])

-----------------------------------------------------------------------------
(* Identities, over the values printed for a year and a voice.             *)

\* An excerpt of the taxonomy (taxonomy.json): the lines of the cost, the parent and the sign of each.
Parent == [PP |-> "C", PP_CENTRAL |-> "PP", PP_STATE |-> "PP", PP_FIXED |-> "PP", PP_VARIABLE |-> "PP",
           TX |-> "C", RETURN |-> "C", ROE |-> "RETURN", RECOVERED |-> "C"]
Sign(code) == IF code = "RECOVERED" THEN -1 ELSE 1
SplitLines == {"PP_FIXED", "PP_VARIABLE"}
Children(code) == {c \in DOMAIN Parent : Parent[c] = code}

Counted(code) == Children(code) \ SplitLines

\* What is printed of a line, or of the lines below it.
Rollup(v, code) ==
    LET of[n \in 0 .. 2] ==
            [c \in DOMAIN Parent |->
                IF c \in DOMAIN v THEN v[c]
                ELSE LET below == IF n = 0 THEN {} ELSE {d \in Counted(c) : of[n - 1][d] # None}
                     IN IF below = {} THEN None ELSE MapThenSumSet(LAMBDA d : Sign(d) * of[n - 1][d], below)]
    IN of[2][code]

OrZero(x) == IF x = None THEN 0 ELSE x

Off(printed, expected, tolerance) == LET d == printed - expected IN d > tolerance \/ d < -tolerance

\* A line the commission prints inside another is counted once.
Components(v, includes) ==
    LET stated == {t \in DOMAIN includes : Rollup(v, t) # None}
    IN {c \in Children("C") \ UNION {includes[t] : t \in stated} : Rollup(v, c) # None}

CostSum(v, includes) == MapThenSumSet(LAMBDA c : Sign(c) * Rollup(v, c), Components(v, includes))

Has(v, codes) == codes \subseteq DOMAIN v

\* Where neither convention is stated both are tried, and one that holds is enough.
GapOptions(v, convention) ==
    (IF convention # "after_subsidy" \/ "SUBSIDY" \notin DOMAIN v THEN {v["ARR"] - v["REVENUE"]} ELSE {})
    \cup (IF convention # "before_subsidy" /\ "SUBSIDY" \in DOMAIN v THEN {v["ARR"] - v["REVENUE"] - v["SUBSIDY"]} ELSE {})

\* m: the mapping's inclusions, gap convention, loss basis; tol: the tolerance of print.
Broken(v, m, tol) ==
    {i \in {1, 2, 3, 4, 7, 8, 12} :
        CASE i = 1 -> /\ Has(v, {"TOTAL"}) /\ Cardinality(Components(v, m.includes)) >= 2
                      /\ Off(v["TOTAL"], CostSum(v, m.includes), tol)
          [] i = 2 -> Has(v, {"ARR", "TOTAL"}) /\ Off(v["ARR"], v["TOTAL"] - OrZero(IF "NTI" \in DOMAIN v THEN v["NTI"] ELSE None), tol)
          [] i = 3 -> Has(v, {"GAP", "ARR", "REVENUE"}) /\ \A e \in GapOptions(v, m.gap) : Off(v["GAP"], e, tol)
          [] i = 4 -> /\ Has(v, {"INPUT", "SALES", "LOSS"}) /\ v["LOSS"] < 100
                      /\ LET out == IF m.withinState /\ "INTERSTATE" \in DOMAIN v THEN v["INTERSTATE"] ELSE 0
                         IN Off(v["INPUT"] * (100 - v["LOSS"]), (v["SALES"] - out) * 100, tol * (100 - v["LOSS"]))
          [] i = 7 -> Has(v, {"ACOS", "ARR", "SALES"}) /\ v["SALES"] # 0 /\ Off(v["ACOS"] * v["SALES"], v["ARR"] * 10, tol * v["SALES"])
          [] i = 8 -> Has(v, {"PP", "PP_FIXED", "PP_VARIABLE"}) /\ Off(v["PP"], v["PP_FIXED"] + v["PP_VARIABLE"], tol)
          [] i = 12 -> Has(v, {"SALES", "CATEGORY_SALES"}) /\ Off(v["SALES"], v["CATEGORY_SALES"], tol)}

\* A known inclusion that would reconcile the total is named; the finding stands.
ReconcilesIf(v, m, tol) ==
    /\ 1 \in Broken(v, m, tol) /\ "PP" \notin DOMAIN m.includes
    /\ Rollup(v, "PP") # None /\ OrZero(Rollup(v, "TX")) # 0
    /\ ~Off(v["TOTAL"], CostSum(v, m.includes) - Rollup(v, "TX"), tol)

-----------------------------------------------------------------------------
(* Properties.                                                             *)

\* The base of a line is of the most preferred voice anyone printed it in, and
\* no order later than its own printed it in that voice.
BaseHolds(facts, prefer, base) ==
    \A i \in DOMAIN facts : facts[i].year = 0 /\ facts[i].voice \in ToSet(prefer) =>
        /\ facts[i].code \in DOMAIN base
        /\ ~Preferred(facts[i], base[facts[i].code], prefer)
        /\ facts[i].voice = base[facts[i].code].voice =>
              \E j \in 1 .. i : facts[j] = base[facts[i].code]

\* What a line of a year rests on in the end: facts of the base and parameters
\* of a year, or itself where it reads a line that comes no earlier.
Leaves(lines, last) ==
    LET Slots == (1 .. last) \X (DOMAIN lines)
        placed(r, s) == {t \in Slots : lines[t[2]].code = r.of /\ t[1] = r.year /\ (t[1] < s[1] \/ (t[1] = s[1] /\ t[2] < s[2]))}
        of[s \in Slots] ==
            UNION {IF r.what = "assumption" \/ r.year = 0 THEN {r}
                   ELSE IF placed(r, s) = {} THEN {Read("nothing", r.of, r.year)} ELSE of[CHOOSE t \in placed(r, s) : TRUE] :
                   r \in Reads(lines[s[2]], s[1])}
    IN of

\* A line is computed exactly if everything it rests on is there (a loss of the
\* whole or a sale of nothing apart), and nothing else changes its value: no
\* parameter is defaulted and a blocked line blocks all that follow from it.
FormulationHolds(lines, last, base, assumptions, results) ==
    LET leaves == Leaves(lines, last)
    IN \A s \in (1 .. last) \X (DOMAIN lines) :
          LET there == \A r \in leaves[s] : r.what # "nothing" /\ Given(r, base, assumptions, <<>>) # None
              facts == {r.of : r \in {r \in leaves[s] : r.what = "value"}} \cap DOMAIN base
              keys == {r.of : r \in {r \in leaves[s] : r.what = "assumption"}}
              slot == <<lines[s[2]].code, s[1]>>
          IN /\ results[slot] # None => there
             /\ (\A i \in DOMAIN lines : lines[i].formula \notin {"energy_input", "acos"}) => (there => results[slot] # None)
             /\ results[slot] = Formulate(lines, last, [c \in facts |-> base[c]],
                                          [a \in {a \in DOMAIN assumptions : a[1] \in keys} |-> assumptions[a]])[slot]

\* The lines printed with no printed line above them below the cost, and no
\* line whose inclusion is stated above them.
Topmost(v, includes) ==
    LET above(c) == {c, Parent[c]} \cup (IF Parent[c] \in DOMAIN Parent THEN {Parent[Parent[c]]} ELSE {})
        inside == UNION {includes[t] : t \in {t \in DOMAIN includes : \E c \in DOMAIN v \cap DOMAIN Parent :
                                                    t = c \/ (t \in above(c) /\ c \notin SplitLines)}}
    IN {c \in DOMAIN v \cap DOMAIN Parent : /\ above(c) \cap inside = {} /\ c \notin SplitLines
                                           /\ ((above(c) \ {c}) \cap DOMAIN v = {})}

\* The total is held to each printed cost once: under its own line or the line
\* that includes it, never both, and never by source and by split; a year in
\* which every identity holds closes from costs to the gap.
IdentitiesHold(v, m, tol, broken) ==
    LET paid == MapThenSumSet(LAMBDA c : Sign(c) * v[c], Topmost(v, m.includes))
    IN /\ Has(v, {"TOTAL"}) /\ Cardinality(Components(v, m.includes)) >= 2 => (1 \in broken) = Off(v["TOTAL"], paid, tol)
       /\ ReconcilesIf(v, m, tol) => 1 \in broken
       /\ Has(v, {"TOTAL", "ARR", "REVENUE", "GAP"}) /\ broken = {} /\ Cardinality(Components(v, m.includes)) >= 2
          => LET nti == IF "NTI" \in DOMAIN v THEN v["NTI"] ELSE 0
                 subsidy == IF "SUBSIDY" \in DOMAIN v THEN v["SUBSIDY"] ELSE 0
                 closes(e) == ~Off(v["GAP"], e, 3 * tol)
             IN closes(paid - nti - v["REVENUE"]) \/ closes(paid - nti - v["REVENUE"] - subsidy)
=============================================================================
