------------------------------ MODULE Regions ------------------------------
(***************************************************************************)
(* The binding-schedule rules: from the pages of an order to its regions   *)
(* (localisation.py).  A page is known by what its lines and headings say; *)
(* the patterns of the profile are the cues that hold on it.               *)
(***************************************************************************)
EXTENDS Integers, Sequences, FiniteSets, FiniteSetsExt, SequencesExt

\* A page: its heading ("absent" is a schedule heading whose code the profile declares absent),
\* whether it is an image, a contents page, the roles of the cues on it and the utility it names.
Page == [heading : {"none", "schedule", "absent", "other"}, image : BOOLEAN, contents : BOOLEAN,
         cues : SUBSET {"span", "existing_tariff", "proposed_tariff", "illustrative", "network_charges"},
         utility : STRING]

StopRoles == {"derived_not_tariff", "illustrative", "amendment_diff", "approved_summary"}
Exclusive == {"existing_tariff", "proposed_tariff", "illustrative", "derived_not_tariff", "amendment_diff"}

FindHits(page) == IF page.contents THEN {} ELSE page.cues

SpanHits(pages) == {p \in DOMAIN pages : "span" \in FindHits(pages[p])}
PageHits(pages, role) == {p \in DOMAIN pages : role \in FindHits(pages[p])}
StopPages(pages) == UNION {PageHits(pages, role) : role \in StopRoles}
SchedulePages(pages) == {p \in DOMAIN pages : pages[p].heading \in {"schedule", "absent"}}

-----------------------------------------------------------------------------
(* The approved span.                                                      *)

Extends(pages, p) == p \in SchedulePages(pages) \cup SpanHits(pages)

PassesAny(pages, hit, p) == p \notin StopPages(pages)

\* The walk passes a page unless it stops the span: a page of another role, an image, or the
\* heading of something else, which on the page after the hit is still let pass.
Passes(pages, hit, p) ==
    /\ p \notin StopPages(pages) /\ ~pages[p].image
    /\ Extends(pages, p) \/ pages[p].heading = "none" \/ p = hit + 1

LastFrom(from, ok) == Max({p \in {from} \cup ok : from + 1 .. p \subseteq ok})

Trails(pages, p) == p \notin StopPages(pages) /\ ~pages[p].image /\ pages[p].heading = "none"

\* A candidate runs to the last schedule page the walk reaches, and over the
\* pages without a heading that follow it.
SpanEnd(pages, hit) ==
    LET reach == LastFrom(hit, {p \in hit + 1 .. Len(pages) : Passes(pages, hit, p)})
        end == Max({hit} \cup {p \in hit .. reach : p = hit \/ Extends(pages, p)})
    IN LastFrom(end, {p \in end + 1 .. Len(pages) : Trails(pages, p)})

\* A hit inside the last candidate, or on the page after it, extends it.
ApprovedSpan(pages) ==
    FoldLeft(LAMBDA spans, hit :
                 IF spans # <<>> /\ hit \in Last(spans).start .. Last(spans).end + 1
                 THEN [spans EXCEPT ![Len(spans)].end = Max({@, hit})]
                 ELSE Append(spans, [start |-> hit, end |-> SpanEnd(pages, hit)]),
             <<>>, SetToSortSeq(SpanHits(pages), <))

Covered(spans) == UNION {s.start .. s.end : s \in ToSet(spans)}

-----------------------------------------------------------------------------
(* The other regions, the findings and the status.                         *)

\* Hits of one role on adjacent pages of one utility are one region; an exclusive role has none
\* inside the approved span.
PageRegions(pages, role) ==
    LET free == PageHits(pages, role) \ (IF role \in Exclusive THEN Covered(ApprovedSpan(pages)) ELSE {})
    IN FoldLeft(LAMBDA regions, p :
                    IF regions # <<>> /\ Last(regions).end + 1 = p /\ Last(regions).utility = pages[p].utility
                    THEN [regions EXCEPT ![Len(regions)].end = p]
                    ELSE Append(regions, [role |-> role, start |-> p, end |-> p, utility |-> pages[p].utility]),
                <<>>, SetToSortSeq(free, <))

ImagePages(pages) == {p \in DOMAIN pages : pages[p].image} \ Covered(ApprovedSpan(pages))

Findings(pages) ==
    LET spans == ApprovedSpan(pages)
    IN [approved_schedule_not_found |-> spans = <<>>,
        multiple_approved_schedule_candidates |-> Len(spans) > 1,
        approved_region_without_schedule_headings |->
            \E s \in ToSet(spans) : SchedulePages(pages) \cap (s.start .. s.end) = {},
        existing_or_proposed_cue_inside_approved_region |->
            Covered(spans) \cap UNION {PageHits(pages, r) : r \in {"proposed_tariff", "existing_tariff"}} # {},
        unexpected_code_found |-> \E p \in DOMAIN pages : pages[p].heading = "absent"]

\* The findings that halt the reading, whatever the others say.
Blocking == {"approved_schedule_not_found", "multiple_approved_schedule_candidates", "unexpected_code_found"}

Localise(pages) ==
    [approved |-> ApprovedSpan(pages),
     others |-> [role \in {"existing_tariff", "proposed_tariff", "illustrative", "network_charges"} |->
                     PageRegions(pages, role)],
     other |-> ImagePages(pages),
     status |-> IF \E f \in Blocking : Findings(pages)[f] THEN "ambiguous" ELSE "proposed"]

-----------------------------------------------------------------------------
(* Properties.                                                             *)

\* What localise proposes is the one place its cues allow: a proposal has one
\* span; spans never touch; a page of another role, an image or foreign
\* heading is inside one only where a cue for the schedule is printed on it,
\* or next to the hit; nothing exclusive overlaps one; every image outside is
\* set aside; and every schedule page that follows a hit without
\* interruption is inside.
RegionsHold(pages, found) ==
    LET inside == Covered(found.approved)
    IN /\ found.status = "proposed" => Len(found.approved) = 1
       /\ \A i \in 1 .. Len(found.approved) - 1 : found.approved[i].end + 1 < found.approved[i + 1].start
       /\ \A p \in inside \ SpanHits(pages) :
              /\ p \notin StopPages(pages) /\ ~pages[p].image
              /\ pages[p].heading = "other" => \E h \in SpanHits(pages) : p = h + 1
       /\ \A r \in DOMAIN found.others : \A i \in DOMAIN found.others[r] :
              LET region == found.others[r][i]
              IN /\ r \in Exclusive => (region.start .. region.end) \cap inside = {}
                 /\ \A p \in region.start .. region.end : r \in pages[p].cues /\ pages[p].utility = region.utility
       /\ \A p \in DOMAIN pages : pages[p].image => p \in found.other \cup SpanHits(pages)
       /\ \A h \in SpanHits(pages), p \in SchedulePages(pages) :
              (\A q \in h + 1 .. p : Passes(pages, h, q)) /\ h < p /\ (h = 1 \/ h - 1 \notin inside) => p \in inside
=============================================================================
