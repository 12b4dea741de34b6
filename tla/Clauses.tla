-------------------------------- MODULE Clauses --------------------------------
(***************************************************************************)
(* Rates printed as clauses (clause_outline.py reconstruct): the lines of  *)
(* a region, page after page, under category headings, numbered titles and *)
(* lettered lines, with PLUS and ALTERNATIVELY between them.               *)
(*                                                                         *)
(* A line is [is, number, role, lettered, columns, amounts, refers]: a     *)
(* category's heading, a connector or text; the components of its clause   *)
(* number; the role its words give to what stands under it; whether it is  *)
(* lettered, heads two columns, refers to another category; its amounts.   *)
(***************************************************************************)
EXTENDS Integers, Sequences, FiniteSets, FiniteSetsExt, SequencesExt

Start == [category |-> 0, titles |-> <<>>, applies |-> 0, alternative |-> 0, deep |-> 0, pending |-> "none", columns |-> FALSE,
          values |-> <<>>, unresolved |-> {}]

\* titles: the lines of the titles in force, outermost first; lines are numbered through the region.
Depth(lines, n) == Len(lines[n].number)

NewCategory(at, n) == [Start EXCEPT !.category = n, !.values = at.values, !.unresolved = at.unresolved]

Connected(at, lines, connector) ==
    IF connector = "PLUS" THEN [at EXCEPT !.pending = connector]
    ELSE [at EXCEPT !.alternative = @ + 1, !.pending = connector,
                    !.deep = IF at.titles = <<>> THEN 0 ELSE Max({Depth(lines, t) : t \in ToSet(at.titles)})]

\* A numbered line of the category's own number ends the titles as deep as it and deeper, and the
\* alternatives of a deeper clause.
IsTitle(at, line, lines) ==
    at.category # 0 /\ line.number # <<>> /\ line.number[1] = lines[at.category].number[1]

Titled(at, lines, n) ==
    [at EXCEPT !.alternative = IF Depth(lines, n) < at.deep THEN 0 ELSE @,
               !.titles = Append(SelectSeq(@, LAMBDA t : Depth(lines, t) < Depth(lines, n)), n),
               !.applies = 0, !.columns = FALSE]

-----------------------------------------------------------------------------
(* What a line with amounts or a reference states.                         *)

Path(at, lines, n) ==
    <<at.category>> \o at.titles
    \o (IF n \in ToSet(at.titles) THEN <<>> ELSE (IF at.applies # 0 /\ ~lines[n].lettered THEN <<at.applies>> ELSE <<>>) \o <<n>>)

\* The innermost line above it that gives a role.
RoleFor(lines, path, n) ==
    LET over == SelectSeq(path, LAMBDA p : p # n)
        giving == SelectSeq(IF over = <<>> THEN path ELSE over, LAMBDA p : lines[p].role # "none")
    IN IF giving = <<>> THEN "other" ELSE lines[Last(giving)].role

Thresholds == {"power_factor", "penalty", "rebate", "minimum"}

Value(at, path, role, n, kind, amounts, connector) ==
    [line |-> n, path |-> path, role |-> role, kind |-> kind, amounts |-> amounts, connector |-> connector,
     alternative |-> at.alternative, category |-> at.category]

One(amount) == <<amount>>

\* A condition keeps its amounts as parameters, a rule its thresholds; else each amount is a value,
\* the first two under two columns.
ValuesOf(at, line, path, role, n) ==
    LET of(kind, amounts) == Value(at, path, role, n, kind, amounts, at.pending)
        refers == <<[of("cross_reference", <<>>) EXCEPT !.connector = IF line.amounts = <<>> THEN @ ELSE "none"]>>
        each(S) == [k \in DOMAIN S |-> of("value", One(S[k]))]
        stated == IF at.columns /\ Len(line.amounts) >= 2 THEN each(SubSeq(line.amounts, 1, 2))
                  ELSE IF role \in Thresholds /\ Len(line.amounts) > 1 THEN <<of("value", line.amounts)>>
                  ELSE each(line.amounts)
    IN IF role = "condition" THEN <<of("condition", line.amounts)>>
       ELSE stated \o (IF line.refers THEN refers ELSE <<>>)

Stating(at, lines, n, path) ==
    [at EXCEPT !.values = @ \o ValuesOf(at, lines[n], path, RoleFor(lines, path, n), n), !.pending = "none"]

Texted(at, lines, n) ==
    LET line == lines[n] IN
    CASE line.columns /\ line.amounts = <<>> -> [at EXCEPT !.columns = TRUE]
      [] ~line.columns /\ line.amounts = <<>> /\ ~line.refers ->
             IF line.lettered /\ at.category # 0 THEN [at EXCEPT !.applies = n] ELSE at
      [] line.amounts # <<>> \/ (line.refers /\ ~line.columns) ->
             IF at.category = 0 THEN [at EXCEPT !.unresolved = @ \cup {n}] ELSE Stating(at, lines, n, Path(at, lines, n))

\* A title without an amount is only a title.
Line(at, lines, n) ==
    CASE lines[n].is = "category" -> NewCategory(at, n)
      [] lines[n].is \in {"PLUS", "ALTERNATIVELY"} -> Connected(at, lines, lines[n].is)
      [] lines[n].is = "text" /\ IsTitle(at, lines[n], lines) ->
             IF lines[n].amounts = <<>> THEN Titled(at, lines, n) ELSE Texted(Titled(at, lines, n), lines, n)
      [] lines[n].is = "text" /\ ~IsTitle(at, lines[n], lines) -> Texted(at, lines, n)

Reconstruct(lines) == FoldLeft(LAMBDA at, n : Line(at, lines, n), Start, [n \in DOMAIN lines |-> n])

-----------------------------------------------------------------------------
(* Properties.                                                             *)

\* The category a line stands in, and the titles printed since that no later one ended.
CategoryAt(lines, n) == LET above == {m \in 1 .. n : lines[m].is = "category"} IN IF above = {} THEN 0 ELSE Max(above)
OwnTitle(lines, m, category) == m > category /\ lines[m].is = "text" /\ lines[m].number # <<>> /\ lines[m].number[1] = lines[category].number[1]
InForce(lines, n) ==
    LET category == CategoryAt(lines, n)
        own == {m \in category + 1 .. n : OwnTitle(lines, m, category)}
    IN {m \in own : \A k \in own : k > m => Depth(lines, k) > Depth(lines, m)}

\* Each amount printed in a category is in one value (of a line of two columns the first two are), and
\* nothing in a value is of another line; an amount before any category is listed.
AmountsKept(lines, out) ==
    /\ \A n \in DOMAIN lines :
           lines[n].is = "text" /\ CategoryAt(lines, n) # 0 /\ Len(lines[n].amounts) <= 2 =>
               FlattenSeq([k \in DOMAIN out.values |-> IF out.values[k].line = n THEN out.values[k].amounts ELSE <<>>]) = lines[n].amounts
    /\ out.unresolved = {n \in DOMAIN lines : lines[n].is = "text" /\ CategoryAt(lines, n) = 0 /\ (lines[n].amounts # <<>> \/ (lines[n].refers /\ ~lines[n].columns))}

\* A value stands under its own category and the titles in force where it is printed, the clause
\* that runs over a page break included.
PathsStand(lines, out) ==
    \A k \in DOMAIN out.values :
        LET v == out.values[k] IN
        /\ v.category = CategoryAt(lines, v.line) /\ v.path[1] = v.category
        /\ InForce(lines, v.line) \subseteq ToSet(v.path)
        /\ \A p \in ToSet(v.path) \ {v.line} : p > v.category => p \in InForce(lines, v.line) \/ lines[p].lettered

\* PLUS and ALTERNATIVELY join the next amounts of the category only; alternatives are numbered on
\* until a clause further out begins or the category ends.
ConnectorsStand(lines, out) ==
    \A k \in DOMAIN out.values :
        LET v == out.values[k]
            since == {m \in v.category .. v.line : lines[m].is = "ALTERNATIVELY"}
            before == {out.values[j].line : j \in 1 .. k - 1} \cap v.category .. v.line - 1
            joined == {m \in v.category + 1 .. v.line : lines[m].is \in {"PLUS", "ALTERNATIVELY"} /\ \A b \in before : b < m}
        IN /\ v.connector # "none" => joined # {} /\ lines[Max(joined)].is = v.connector
           /\ v.kind = "value" /\ joined # {} => v.connector # "none"
           /\ v.alternative <= Cardinality(since)
           /\ v.connector = "ALTERNATIVELY" /\ (\A m \in joined : m < v.line => ~\E t \in m .. v.line : lines[t].number # <<>>) => v.alternative > 0

ClausesHold(lines, out) == AmountsKept(lines, out) /\ PathsStand(lines, out) /\ ConnectorsStand(lines, out)
=============================================================================
