----------------------------- MODULE Publication -----------------------------
(***************************************************************************)
(* Releases of one source (services/publication.py) beside its review: a   *)
(* preview shows what a release would hold and hands out a token over it;  *)
(* publish takes the token back and copies the approved facts.             *)
(*                                                                         *)
(* Completeness is declared against what the preview lists as missing:     *)
(* some declaration is always acceptable and none changes what is copied,  *)
(* so it is left out, with the checklist and the dispositions behind it.   *)
(***************************************************************************)
EXTENDS Review, Sequences

CONSTANTS
    Scopes,       \* sets of items a release may be declared over
    MaxReleases   \* bound: releases

ASSUME PublicationAssumption == Scopes \subseteq SUBSET Items /\ MaxReleases \in Nat

VARIABLE releases   \* data_releases with their published_facts

vars == <<source, rows, decisions, screen, tx, job, check, releases>>

IsPublishable(c) == c.status \in Finals /\ c.second \in {"not_required", "done"}

InScope(scope) == {r \in Row : ItemOf(r) \in scope /\ Exists(r)}
Publishable(scope) == {r \in InScope(scope) : IsPublishable(rows[r])}

\* The facts a release would copy, each with the decision it rests on.
Fact(r) == [row |-> r, value |-> Effective(rows[r]),
            decision |-> {d.seq : d \in LatestOf(r)}]
Facts(scope) == {Fact(r) : r \in Publishable(scope)}

\* The token: a digest of the scope, the version of the source and the state of its rows.
Digest(scope) == {<<r, rows[r].version, rows[r].status, rows[r].second>> : r \in InScope(scope)}

Current == {n \in 1 .. Len(releases) : releases[n].current}

\* current_release raises when two rows are current.
HasCurrent == Cardinality(Current) <= 1

PublicationInit ==
    /\ Init
    /\ releases = <<>>

Preview(a, scope) ==
    /\ Accepts(a)
    /\ Len(releases) < MaxReleases
    /\ HasCurrent
    /\ Publishable(scope) # {}
    /\ screen' = [screen EXCEPT ![a] = [page |-> "preview", scope |-> scope, version |-> source.version,
                                        digest |-> Digest(scope), facts |-> Facts(scope)]]
    /\ UNCHANGED <<source, rows, decisions, tx, job, check, releases>>

\* Mutant of StillShown: only the version of the source is compared.
SameSourceVersion(p) == p.version = source.version

\* The version the preview was taken at, and its token.
StillShown(p) == p.version = source.version /\ p.digest = Digest(p.scope)

\* publish up to its first write.
PublishRead(a) ==
    LET p == screen[a]
    IN /\ Accepts(a)
       /\ p.page = "preview"
       /\ source.state \in {"awaiting_review", "published"}
       /\ StillShown(p)
       /\ HasCurrent
       /\ \A r \in Publishable(p.scope) : ~rows[r].blocked
       /\ Publishable(p.scope) # {}
       /\ Len(releases) < MaxReleases
       /\ tx' = [tx EXCEPT ![a] = [kind |-> "publish", facts |-> Facts(p.scope), shows |-> p.facts,
                                   source |-> source, prior |-> Current, count |-> Len(releases),
                                   new |-> {r \in Publishable(p.scope) : rows[r].release = 0}]]
       /\ screen' = [screen EXCEPT ![a] = BlankScreen]
       /\ UNCHANGED <<source, rows, decisions, job, check, releases>>

\* Mutant of Superseding: the prior release stays current.
SupersedingNone(prior) == releases

\* The prior release stops being current.
Superseding(prior) == [n \in DOMAIN releases |->
    IF n \in prior THEN [releases[n] EXCEPT !.current = FALSE] ELSE releases[n]]

PublishWrite(a) ==
    LET q == tx[a]
        number == Len(releases) + 1
    IN /\ q.kind = "publish"
       /\ \A r \in q.new : Exists(r)
       /\ number <= MaxReleases
       /\ releases' = Append(Superseding(q.prior),
                             [facts |-> q.facts, shows |-> q.shows, current |-> TRUE])
       /\ rows' = [r \in Row |-> IF r \in q.new THEN [rows[r] EXCEPT !.release = number] ELSE rows[r]]
       /\ source' = Flushed(source, q.source,
                            [state |-> "published", version |-> q.source.version + 1])
       /\ tx' = [tx EXCEPT ![a] = NoRequest]
       /\ UNCHANGED <<decisions, screen, job, check>>

\* Another release took the number (uq_data_release_number), or a row is gone.
PublishRolledBack(a) ==
    /\ tx[a].kind = "publish"
    /\ tx[a].count < Len(releases) \/ \E r \in tx[a].new : ~Exists(r)
    /\ tx' = [tx EXCEPT ![a] = NoRequest]
    /\ UNCHANGED <<source, rows, decisions, screen, job, check, releases>>

Keep == UNCHANGED releases

Next ==
    \/ \E a \in Reviewers :
          \/ \E r \in Row : Load(a, r) /\ Keep
          \/ \E outcome \in Outcomes, value \in Values \cup {NoValue} :
                DecideRead(a, outcome, value) /\ Keep
          \/ DecideWrite(a) /\ Keep
          \/ \E d \in decisions : UndoRead(a, d) /\ Keep
          \/ UndoWrite(a) /\ Keep
          \/ RolledBack(a) /\ Keep
          \/ \E scope \in Scopes : Preview(a, scope)
          \/ PublishRead(a)
          \/ PublishWrite(a)
          \/ PublishRolledBack(a)
    \/ ValidateRead /\ Keep
    \/ ValidateRefused /\ Keep
    \/ ValidateWrite /\ Keep
    \/ ValidateRolledBack /\ Keep
    \/ Reprocess /\ Keep
    \/ ReadAgain /\ Keep

Spec == PublicationInit /\ [][Next]_vars

-----------------------------------------------------------------------------
(* Properties.                                                             *)

\* Every variable holds a value of its kind (models.py: candidates, review_decisions,
\* data_releases, published_facts).
PublicationTypeOK ==
    /\ source.state \in {"awaiting_review", "published", "reading", "extracted"}
    /\ source.version \in Nat
    /\ \A r \in Row :
          /\ Snapshot(rows[r]) \in Snapshots
          /\ rows[r].count \in Nat /\ rows[r].release \in 0 .. MaxReleases
    /\ \A d \in decisions :
          /\ d.row \in Row /\ d.by \in Reviewers /\ d.outcome \in Outcomes
          /\ d.seq \in Nat \ {0} /\ d.round \in {1, 2}
    /\ job \in {"none", "queued", "running"}
    /\ \A n \in 1 .. Len(releases) : \A f \in releases[n].facts : f.row \in Row /\ f.value \in Values

\* A candidate that is finally approved rests on decisions that stand: one that needed no
\* second review, or two of different reviewers (second_review_reasons, decide and undo
\* together keep this).
FourEyes == \A r \in Row : IsPublishable(rows[r]) =>
    \/ \E d \in Standing(r) : d.round = 1 /\ ~NeedsSecond(ItemOf(r), d.outcome)
    \/ \E d, e \in Standing(r) : d.round = 1 /\ e.round = 2 /\ d.by # e.by

\* Even when requests overlap, a second decision that read a first reviewer is by another
\* one, and that reviewer did take a first decision on this row, standing or undone: neither
\* a lost update nor a re-reading makes a first reviewer of somebody who never decided.
SecondFollowsFirst == \A d \in decisions : d.round = 2 /\ d.before.first # NoOne =>
    /\ d.by # d.before.first
    /\ \E e \in decisions : e.row = d.row /\ e.round = 1 /\ e.by = d.before.first

\* "The second reviewer must differ from the first" (ADR-0013): a candidate that was decided
\* in a second round was decided in a first one by somebody else, even if that is undone.
SecondIsByAnother == \A d \in decisions : d.round = 2 =>
    \E e \in decisions : e.row = d.row /\ e.round = 1 /\ e.by # d.by

\* The review state of a candidate is what its latest standing decision left, or that of a
\* candidate nobody decided on: undo steps back through the history one decision at a time.
RowFollowsHistory == \A r \in Row : Exists(r) =>
    IF Standing(r) = {} THEN Snapshot(rows[r]) = Snapshot(AsRead(rows[r].read))
    ELSE \E d \in LatestOf(r) : Snapshot(rows[r]) = d.after

\* A decision is taken on the review state its reviewer had on screen: the version compared
\* by decide names that state, across undos, second reviews and re-readings.
DecidedAsSeen == \A d \in decisions : d.before = d.shows

\* A published fact stays what the review says: its candidate is still finally approved,
\* with the value and under the decision the release copied, whatever happens later.
PublishedAsDecided == \A n \in 1 .. Len(releases) : \A f \in releases[n].facts :
    IsPublishable(rows[f.row]) /\ Fact(f.row) = f

\* A release copies the facts its preview showed: the token stands for them, although it
\* digests versions and not the records.
ReleaseRestsOnPreview == \A n \in 1 .. Len(releases) : releases[n].facts = releases[n].shows

\* The last release, and no other, is current (current_release expects one row).
LastReleaseIsCurrent == Current = {Len(releases)} \ {0}

\* A release holds: it is what its preview showed and what the review says,
\* and the last one is the current one (publish, undo).
ReleasesHold == PublishedAsDecided /\ ReleaseRestsOnPreview /\ LastReleaseIsCurrent

=============================================================================
