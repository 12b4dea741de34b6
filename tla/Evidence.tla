------------------------------- MODULE Evidence -------------------------------
(***************************************************************************)
(* What a reviewer has been shown of the candidates they decide on         *)
(* (services/review.py): the image endpoints write an evidence view for    *)
(* whoever receives the page, a decision cites views, and a correction     *)
(* selects the evidence of the record anew.                                *)
(*                                                                         *)
(* A candidate is here its evidence, a sequence of pages of which the      *)
(* first is the primary.  A request carries the version it was answered    *)
(* with last, so a decision is on the record as it stands.  Requests that  *)
(* overlap, validation and publication are in Review and Publication.      *)
(***************************************************************************)
EXTENDS Naturals, Sequences, FiniteSets, SequencesExt

CONSTANTS
    Viewers,        \* reviewers
    Cited,          \* candidates
    Pages,
    TwoRounds,      \* candidates whose approval or correction needs a second reviewer
    MaxViews,       \* bound: evidence views issued
    MaxTaken        \* bound: decisions taken

ASSUME EvidenceAssumption ==
    /\ TwoRounds \subseteq Cited /\ IsFiniteSet(Cited)
    /\ \E p, q \in Pages : p # q     \* a table that goes on over a second page
    /\ MaxViews \in Nat /\ MaxTaken \in Nat

VARIABLES
    shown,      \* the candidates: evidence, review state and version
    views,      \* evidence_views, in the order they were rendered
    aged,       \* how many of them, the first, are older than evidence_view_max_age_seconds
    taken       \* review_decisions; "on" is history: the evidence of the record decided on

evidenceVars == <<shown, views, aged, taken>>

\* One page, or two: enough for the primary to change.
Citations == {<<p>> : p \in Pages} \cup ({<<p, q>> : p, q \in Pages} \ {<<p, p>> : p \in Pages})

\* A table that goes on over a second page; which pages they are makes no difference.
AsExtracted == CHOOSE e \in Citations : Len(e) = 2

EvidenceInit ==
    /\ shown = [c \in Cited |-> [read |-> AsExtracted, reviewed |-> <<>>, status |-> "pending", first |-> "", version |-> 1]]
    /\ views = <<>> /\ aged = 0 /\ taken = <<>>

\* The evidence of effective_record.
EvidenceOf(row) == IF row.reviewed = <<>> THEN row.read ELSE row.reviewed
Primary(row) == EvidenceOf(row)[1]

-----------------------------------------------------------------------------
(* Views.                                                                  *)

\* "at" is history: the version of the candidate when it was shown.
View(a, c, i) == [of |-> c, index |-> i, page |-> EvidenceOf(shown[c])[i], viewer |-> a, at |-> shown[c].version]

\* render_evidence: one reference of one candidate.
ShowEvidence(a, c, i) ==
    /\ Len(views) < MaxViews /\ i \in DOMAIN EvidenceOf(shown[c])
    /\ views' = Append(views, View(a, c, i))
    /\ UNCHANGED <<shown, aged, taken>>

\* Mutant of OnPage: every candidate asked for is taken to be on the page.
AllAsked(S, p) == S

\* A block of candidates is shown with one page; those whose primary evidence is elsewhere are skipped.
OnPage(S, p) == {c \in S : Primary(shown[c]) = p}

\* render_page_for
ShowPage(a, p, S) ==
    LET block == SetToSeq(OnPage(S, p))
    IN /\ block # <<>> /\ Len(views) + Len(block) <= MaxViews
       /\ views' = views \o [n \in DOMAIN block |-> [View(a, block[n], 1) EXCEPT !.page = p]]
       /\ UNCHANGED <<shown, aged, taken>>

ViewsAge ==
    /\ aged' \in aged + 1 .. Len(views)
    /\ UNCHANGED <<shown, views, taken>>

-----------------------------------------------------------------------------
(* Decisions.                                                              *)

OwnViews(a, c) == {v \in DOMAIN views : views[v].of = c /\ views[v].viewer = a}

\* _check_views: the views cited are the reviewer's own of this candidate, recent, and one is of index 0.
ViewsCited(a, c) == {V \in SUBSET {v \in OwnViews(a, c) : v > aged} : \E v \in V : views[v].index = 1}

Undecided(c) == shown[c].status \in {"pending", "awaiting_second_review"}
ByAnother(a, c) == shown[c].status = "awaiting_second_review" => shown[c].first # a

\* What becomes of a candidate.
AfterTaking(row, a, outcome, waits) ==
    [row EXCEPT !.status = IF waits THEN "awaiting_second_review" ELSE outcome,
                !.first = IF waits THEN a ELSE row.first, !.version = @ + 1]

\* A candidate of two rounds waits after the first of them.
Waits(c, outcome) == c \in TwoRounds /\ shown[c].status = "pending" /\ outcome # "rejected"

Taken(a, c, outcome, V) ==
    [of |-> c, by |-> a, outcome |-> outcome, cites |-> V, on |-> EvidenceOf(shown[c]), version |-> shown[c].version,
     before |-> shown[c], undone |-> FALSE]

TakeDecision(a, c, outcome, V, reviewed) ==
    /\ Len(taken) < MaxTaken /\ Undecided(c) /\ ByAnother(a, c)
    /\ taken' = Append(taken, Taken(a, c, outcome, V))
    /\ shown' = [shown EXCEPT ![c] =
                    AfterTaking([@ EXCEPT !.reviewed = reviewed], a, outcome, Waits(c, outcome))]
    /\ UNCHANGED <<views, aged>>

Approve(a, c) == \E V \in ViewsCited(a, c) : TakeDecision(a, c, "approved", V, shown[c].reviewed)

\* _build_correction: references of the record are kept, or new ones named; none is not allowed.
Correct(a, c) == \E V \in ViewsCited(a, c), e \in Citations : TakeDecision(a, c, "corrected", V, e)

\* A rejection needs a rationale and no view, and so does leaving it unresolved, which settles alike.
Reject(a, c) == TakeDecision(a, c, "rejected", {}, shown[c].reviewed)

StandingOn(c) == {n \in DOMAIN taken : taken[n].of = c /\ ~taken[n].undone}

\* The latest standing decision, by who took it.
UndoTaken(a, n) ==
    /\ taken[n].by = a /\ n \in StandingOn(taken[n].of) /\ \A m \in StandingOn(taken[n].of) : m <= n
    /\ shown' = [shown EXCEPT ![taken[n].of] = [taken[n].before EXCEPT !.version = shown[taken[n].of].version + 1]]
    /\ taken' = [taken EXCEPT ![n].undone = TRUE]
    /\ UNCHANGED <<views, aged>>

EvidenceNext ==
    \/ ViewsAge
    \/ \E a \in Viewers :
          \/ \E c \in Cited : Approve(a, c) \/ Correct(a, c) \/ Reject(a, c) \/ \E i \in {1, 2} : ShowEvidence(a, c, i)
          \/ \E p \in Pages, S \in SUBSET Cited : ShowPage(a, p, S)
          \/ \E n \in DOMAIN taken : UndoTaken(a, n)

EvidenceSpec == EvidenceInit /\ [][EvidenceNext]_evidenceVars

-----------------------------------------------------------------------------
(* Properties.                                                             *)

\* Type correctness of candidates, views and decisions.
EvidenceTypeOK ==
    /\ aged \in 0 .. Len(views) /\ Len(views) <= MaxViews /\ Len(taken) <= MaxTaken
    /\ \A n \in DOMAIN views : views[n].of \in Cited /\ views[n].viewer \in Viewers /\ views[n].page \in Pages
    /\ \A c \in Cited : /\ shown[c].status \in {"pending", "awaiting_second_review", "approved", "corrected", "rejected"}
                        /\ EvidenceOf(shown[c]) \in Citations

\* The primary page of the record was shown to whoever decided, unless the
\* evidence was selected anew, or the selection undone, after it was shown.
ShownUnlessReselected ==
    \A n \in DOMAIN taken : taken[n].outcome # "rejected" =>
        \E v \in taken[n].cites :
            /\ views[v].index = 1 /\ views[v].viewer = taken[n].by /\ views[v].of = taken[n].of
            /\ views[v].at = taken[n].version => views[v].page = taken[n].on[1]

\* A candidate of two rounds is only settled after two reviewers were shown a
\* primary page of it, however often decisions were undone in between.
TwoWereShown ==
    \A c \in TwoRounds : shown[c].status \in {"approved", "corrected"} =>
        \E n, m \in StandingOn(c) :
            /\ taken[n].by # taken[m].by
            /\ \A d \in {n, m} : \E v \in taken[d].cites : views[v].viewer = taken[d].by /\ views[v].index = 1

\* Decisions rest on what the deciding reviewers were shown (decide, _check_views).
EvidenceHolds == EvidenceTypeOK /\ ShownUnlessReselected /\ TwoWereShown

\* "A decision needs the reviewer to have had the cited evidence rendered"
\* (services/review.py): who approves a record was shown its primary page.
ApprovedWasShown ==
    \A n \in DOMAIN taken : taken[n].outcome = "approved" =>
        \E v \in taken[n].cites : views[v].page = taken[n].on[1]
=============================================================================
