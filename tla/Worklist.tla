------------------------------- MODULE Worklist -------------------------------
(***************************************************************************)
(* What is left to review of an order (services/review.py): the queue of   *)
(* its open candidates, by risk or as printed, and the checklist of what   *)
(* the order is expected to say.  Both are derived, never stored.          *)
(*                                                                         *)
(* Names that only break ties are numbers in their order: a candidate's    *)
(* "name" stands for its family, category and key, and a category for its  *)
(* code.  0 and "none" are fields that are not there.                      *)
(***************************************************************************)
EXTENDS Integers, Sequences, FiniteSets, FiniteSetsExt, SequencesExt

OpenStatuses == {"pending", "awaiting_second_review"}
Settled == {"approved", "corrected"}

\* The schedule first, then the open-access families as an order prints them.
FamilyOrder ==
    [retail_tariff |-> 0, wheeling_charge |-> 10, oa_loss |-> 11, distribution_loss_approved |-> 12,
     cross_subsidy_surcharge |-> 13, additional_surcharge |-> 14, banking_rule |-> 15, green_tariff |-> 16,
     transmission_reference |-> 17]
NetworkFamilies == DOMAIN FamilyOrder \ {"retail_tariff"}
ComponentOrder ==
    [fixed |-> 0, demand |-> 1, energy |-> 2, minimum |-> 3, tod_adjustment |-> 4, rebate |-> 5, surcharge |-> 6,
     subsidy |-> 7, green_premium |-> 8, charge |-> 9, loss |-> 10, condition |-> 11, cross_reference |-> 12]
ConfidenceRank == [low |-> 0, medium |-> 1, high |-> 2]

-----------------------------------------------------------------------------
(* The queue.                                                              *)

\* Categories of which something is approved.
CoveredCategories(rows) == {r.category : r \in {r \in rows : r.status \in Settled /\ r.category # 0}}
Uncovered(r, covered) == r.category # 0 /\ r.category \notin covered

\* What a reviewer asks for: a status or the open ones, fields, a risk tag, pages.
Passes(r, q) ==
    /\ IF q.status = "none" THEN r.status \in OpenStatuses ELSE r.status = q.status
    /\ \A f \in DOMAIN q.fields : r[f] = q.fields[f]
    /\ q.risk \subseteq r.tags
    /\ q.pages # {} => r.page \in q.pages

RiskRank(r, covered) ==
    <<-r.blocking, -r.findings, IF r.disagrees THEN 0 ELSE 1, -Cardinality(r.tags),
      IF Uncovered(r, covered) THEN 0 ELSE 1, ConfidenceRank[r.confidence], r.name>>

DocumentRank(r) ==
    <<FamilyOrder[r.family], r.page, r.grid, r.category, ComponentOrder[r.component],
      r.spot[1], r.spot[2], r.spot[3], r.name>>

Rank(r, order, covered) == IF order = "risk" THEN RiskRank(r, covered) ELSE DocumentRank(r)
Before(x, y) == \E n \in DOMAIN x : x[n] < y[n] /\ \A m \in 1 .. n - 1 : x[m] = y[m]

\* Why a candidate stands where it stands.
Reason(r, covered) ==
    CASE r.blocking > 0 -> "blocking"
      [] r.blocking = 0 /\ r.disagrees -> "channels"
      [] r.blocking = 0 /\ ~r.disagrees /\ r.findings > 0 -> "findings"
      [] r.blocking = 0 /\ ~r.disagrees /\ r.findings = 0 /\ r.tags # {} -> "risk"
      [] OTHER -> IF Uncovered(r, covered) THEN "no_approved_fact" ELSE "confidence"

\* How many come before a candidate and itself, and who stands at a place.
Position(r, rows, order, covered) ==
    Cardinality({s \in rows : Before(Rank(s, order, covered), Rank(r, order, covered))}) + 1
At(n, rows, order, covered) == CHOOSE r \in rows : Position(r, rows, order, covered) = n

QueueOf(rows, order, covered) ==
    LET ranked == [n \in 1 .. Cardinality(rows) |-> At(n, rows, order, covered)]
    IN [n \in DOMAIN ranked |-> [row |-> ranked[n], position |-> n, coverage |-> Uncovered(ranked[n], covered),
                                 reason |-> Reason(ranked[n], covered)]]

OrderedQueue(rows, q) == QueueOf({r \in rows : Passes(r, q)}, q.order, CoveredCategories(rows))

-----------------------------------------------------------------------------
(* The checklist.                                                          *)

\* The first of these that one of the statuses is; open ones only count as not started.
ItemStatus(statuses) ==
    CASE statuses \subseteq OpenStatuses -> "not_started"
      [] "unresolved" \in statuses -> "unresolved"
      [] "unresolved" \notin statuses /\ statuses \cap OpenStatuses \notin {{}, statuses} -> "in_progress"
      [] OTHER -> IF "corrected" \in statuses THEN "corrected" ELSE IF "approved" \in statuses THEN "approved" ELSE "rejected"

Statuses(rows) == {r.status : r \in rows}
\* What an item is about: a category, a category's component, or a family.
Key(category, component, family) == [category |-> category, component |-> component, family |-> family]
Item(key, from, rows, status) ==
    [key |-> key, from |-> from, candidates |-> Cardinality(rows), status |-> status]

Retail(rows) == {r \in rows : r.family = "retail_tariff"}

\* A heading of the rate schedule of which nothing was extracted is a gap that shows.
Gaps(rows, inventory) ==
    {Item(Key(c, "none", "none"), "inventory", {}, "not_started") : c \in inventory \ {r.category : r \in Retail(rows)}}

ComponentItems(rows, inventory) ==
    {LET of == {r \in Retail(rows) : r.category = k.category /\ r.component = k.component}
     IN Item(k, IF k.category \in inventory THEN "inventory" ELSE "extraction", of, ItemStatus(Statuses(of))) :
        k \in {Key(r.category, r.component, "none") : r \in Retail(rows)}}

\* Of a family without candidates a reviewer can say what became of it.
FamilyStatus(rows, dispositions, f) ==
    IF rows = {} /\ f \in dispositions THEN "disposition" ELSE ItemStatus(Statuses(rows))
FamilyItems(rows, dispositions) ==
    {LET of == {r \in rows : r.family = f} IN Item(Key(0, "none", f), "spec", of, FamilyStatus(of, dispositions, f)) : f \in NetworkFamilies}

Checklist(rows, inventory, dispositions) ==
    Gaps(rows, inventory) \cup ComponentItems(rows, inventory) \cup FamilyItems(rows, dispositions)

-----------------------------------------------------------------------------
(* Properties.                                                             *)

\* Nobody open is missing from the queue that is asked for nothing in particular, and nobody is
\* in it twice; by risk what blocks the publication comes before what does not, and a category of
\* which nothing is approved before one that is covered and no riskier; as printed the schedule
\* comes first and the pages of a family do not go back.
QueueHolds(rows, q, out) ==
    /\ \A n, m \in DOMAIN out : out[n].row = out[m].row => n = m
    /\ q.status = "none" /\ DOMAIN q.fields = {} /\ q.risk = {} /\ q.pages = {} =>
           {out[n].row : n \in DOMAIN out} = {r \in rows : r.status \in OpenStatuses}
    /\ \A n \in DOMAIN out : out[n].coverage =>
           /\ out[n].reason # "confidence"
           /\ \A r \in rows : r.category = out[n].row.category => r.status \notin Settled
    /\ \A n, m \in DOMAIN out : n < m =>
           LET a == out[n].row
               b == out[m].row
               family == [r \in {a, b} |-> IF r.family = "retail_tariff" THEN 0 ELSE 1]
           IN IF q.order = "risk"
              THEN /\ b.blocking > 0 => a.blocking > 0
                   /\ a.blocking = 0 /\ b.blocking = 0 /\ b.disagrees /\ ~a.disagrees => a.findings > b.findings
                   /\ out[m].coverage /\ ~out[n].coverage =>
                          \/ a.blocking > b.blocking \/ a.findings > b.findings \/ (a.disagrees /\ ~b.disagrees)
                          \/ Cardinality(a.tags) > Cardinality(b.tags)
              ELSE family[a] <= family[b] /\ (a.family = b.family => a.page <= b.page)

\* What a candidate is counted under.
CountedUnder(r) == IF r.family = "retail_tariff" THEN Key(r.category, r.component, "none") ELSE Key(0, "none", r.family)

\* "Any open or unresolved candidate keeps the item off green": every candidate is counted by one
\* item, an item that is approved or corrected rests on a decision and leaves none of its
\* candidates to decide, and what the order is expected to say and does not shows as not started.
ChecklistHolds(rows, inventory, dispositions, out) ==
    /\ SumFunction([i \in out |-> i.candidates]) = Cardinality(rows)
    /\ \A i \in out : i.status \in Settled =>
           LET of == {r \in rows : CountedUnder(r) = i.key}
           IN i.candidates = Cardinality(of) /\ of # {} /\ \A r \in of : r.status \notin OpenStatuses \cup {"unresolved"}
    /\ \A c \in inventory : (\A r \in Retail(rows) : r.category # c) =>
           \E i \in out : i.key = Key(c, "none", "none") /\ i.status = "not_started"
    /\ \A f \in NetworkFamilies : \E i \in out : i.key = Key(0, "none", f) /\ (i.status # "not_started" =>
           f \in dispositions \/ \E r \in rows : r.family = f /\ r.status \notin OpenStatuses)
=============================================================================
