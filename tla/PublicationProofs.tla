-------------------------- MODULE PublicationProofs --------------------------
(***************************************************************************)
(* The releases of a source, for any scopes and any number of releases,    *)
(* when requests do not overlap: what a release copied is what its preview *)
(* showed and what the review still says.  The last part is about what the *)
(* deciding reviewers were shown.                                          *)
(*                                                                         *)
(* A row in a release is not written again, since neither decide nor undo  *)
(* touches it and a re-reading keeps what is not pending (Published).      *)
(* What a preview lists is so until its row has a later version or is gone *)
(* (Previewed), and the token compares the versions.                       *)
(***************************************************************************)
EXTENDS ReviewProofs, Evidence, SequenceTheorems, FiniteSetTheorems

\* A publish request has read what is so, and what its preview showed.
Promised == \A a \in Reviewers : tx[a].kind = "publish" =>
    /\ Reviewable
    /\ tx[a].prior = Current /\ tx[a].facts = tx[a].shows
    /\ \E scope : /\ tx[a].facts = Facts(scope)
                  /\ tx[a].new = {r \in Publishable(scope) : rows[r].release = 0}

\* What a preview lists is still so, or its row has a later version or is gone.
Listed(p) ==
    /\ \A t \in p.digest :
          /\ t[1] \in Row /\ t[2] \in Nat
          /\ Exists(t[1]) => /\ t[2] <= rows[t[1]].version
                             /\ t[2] = rows[t[1]].version /\ IsPublishable(rows[t[1]]) => Fact(t[1]) \in p.facts
    /\ \A f \in p.facts : \E t \in p.digest :
          /\ t[1] = f.row
          /\ Exists(f.row) /\ t[2] = rows[f.row].version => f = Fact(f.row) /\ IsPublishable(rows[f.row])

Previewed == \A a \in Reviewers : screen[a].page = "preview" => Listed(screen[a])

Stands(f) == IsPublishable(rows[f.row]) /\ Fact(f.row) = f /\ rows[f.row].release # 0

Published == \A n \in 1 .. Len(releases) :
    /\ releases[n].facts = releases[n].shows
    /\ \A f \in releases[n].facts : Stands(f)

Released == Promised /\ Previewed /\ Published /\ LastReleaseIsCurrent

-----------------------------------------------------------------------------
(* What a step does to a row, as a release sees it.                        *)

Shown(r) ==
    /\ Exists(r)' <=> Exists(r)
    /\ IsPublishable(rows'[r]) <=> IsPublishable(rows[r])
    /\ Fact(r)' = Fact(r) /\ rows'[r].version = rows[r].version

Kept(r) == Shown(r) /\ rows'[r].release = rows[r].release

Rewritten(r) == Exists(r) /\ rows[r].release = 0 /\ rows'[r].version = rows[r].version + 1

Gone(r) == ~Exists(r)' /\ ~IsPublishable(rows[r])

New(r) == ~Named(r) /\ ~IsPublishable(rows[r])

LEMMA ShownFields ==
  ASSUME Inv, Typed', NEW r \in Row, OtherColumns(r), LatestOf(r)' = LatestOf(r) PROVE Shown(r)
<1>1. PICK c \in Candidates, e \in Candidates : c = rows[r] /\ e = rows'[r]
    BY DEF Inv, SharedInv, Typed
<1>2. /\ e.status = c.status /\ e.version = c.version /\ e.read = c.read /\ Snapshot(e) = Snapshot(c)
    BY <1>1 DEF OtherColumns
<1>3. e.second = c.second /\ e.reviewed = c.reviewed
  <2>1. [status |-> e.status, reviewed |-> e.reviewed, by |-> e.by, first |-> e.first, second |-> e.second]
        = [status |-> c.status, reviewed |-> c.reviewed, by |-> c.by, first |-> c.first, second |-> c.second]
      BY <1>2, SnapshotFields
  <2>2. QED
      BY <2>1
<1>4. Effective(e) = Effective(c)
    BY <1>2, <1>3 DEF Effective
<1>5. Fact(r)' = Fact(r)
    BY <1>1, <1>4 DEF Fact
<1>6. QED
    BY <1>1, <1>2, <1>3, <1>5 DEF Shown, IsPublishable, Exists

LEMMA UnchangedKept == ASSUME UNCHANGED <<rows, decisions>> PROVE \A r \in Row : Kept(r)
<1>1. \A r : LatestOf(r)' = LatestOf(r)
    BY DEF LatestOf, Standing
<1>2. \A r : Fact(r)' = Fact(r)
    BY <1>1 DEF Fact
<1>3. QED
    BY <1>2 DEF Kept, Shown, Exists

\* A screen that lists what is so goes on listing it.
LEMMA ListedStays ==
  ASSUME Inv, NEW p, Listed(p), \A t \in p.digest : Named(t[1]),
         \A r \in Row : Shown(r) \/ Rewritten(r) \/ Gone(r) \/ New(r)
  PROVE  Listed(p)'
<1>1. \A r \in Row : rows[r].version \in Nat
    BY DEF Inv, SharedInv, Typed, Candidates
<1>2. ASSUME NEW t \in p.digest
      PROVE  /\ t[1] \in Row /\ t[2] \in Nat
             /\ Exists(t[1])' =>
                  /\ t[2] <= rows'[t[1]].version
                  /\ t[2] = rows'[t[1]].version => Shown(t[1]) /\ Exists(t[1]) /\ t[2] = rows[t[1]].version
  <2> SUFFICES ASSUME Exists(t[1])'
               PROVE  /\ t[2] <= rows'[t[1]].version
                      /\ t[2] = rows'[t[1]].version => Shown(t[1]) /\ Exists(t[1]) /\ t[2] = rows[t[1]].version
      BY DEF Listed
  <2>1. t[1] \in Row /\ t[2] \in Nat /\ ~New(t[1]) /\ ~Gone(t[1])
      BY DEF Listed, New, Gone
  <2>2. Exists(t[1]) => t[2] <= rows[t[1]].version
      BY DEF Listed
  <2>3. CASE Shown(t[1])
      BY <2>2, <2>3 DEF Shown
  <2>4. CASE Rewritten(t[1])
      BY <1>1, <2>1, <2>2, <2>4 DEF Rewritten
  <2>5. QED
      BY <2>1, <2>3, <2>4
<1>3. ASSUME NEW t \in p.digest, Exists(t[1])', t[2] = rows'[t[1]].version, IsPublishable(rows'[t[1]])
      PROVE  (Fact(t[1]))' \in p.facts
  <2>1. Shown(t[1]) /\ Exists(t[1]) /\ t[2] = rows[t[1]].version
      BY <1>2, <1>3
  <2>2. IsPublishable(rows[t[1]]) /\ Fact(t[1])' = Fact(t[1])
      BY <1>3, <2>1 DEF Shown
  <2>3. QED
      BY <2>1, <2>2 DEF Listed
<1>4. ASSUME NEW f \in p.facts
      PROVE  \E t \in p.digest : /\ t[1] = f.row
                                 /\ Exists(f.row)' /\ t[2] = rows'[f.row].version =>
                                        f = Fact(f.row)' /\ IsPublishable(rows'[f.row])
  <2>1. PICK t \in p.digest : /\ t[1] = f.row
                              /\ Exists(f.row) /\ t[2] = rows[f.row].version => f = Fact(f.row) /\ IsPublishable(rows[f.row])
      BY DEF Listed
  <2>2. Exists(f.row)' /\ t[2] = rows'[f.row].version => Shown(f.row) /\ f = Fact(f.row) /\ IsPublishable(rows[f.row])
      BY <1>2, <2>1
  <2>3. QED
      BY <2>1, <2>2 DEF Shown
<1>5. QED
    BY <1>2, <1>3, <1>4 DEF Listed

\* Nothing is released.
LEMMA ReleasedStays ==
  ASSUME Inv, Released, UNCHANGED releases, \A r \in Row : Kept(r) \/ Rewritten(r) \/ Gone(r) \/ New(r),
         \A b \in Reviewers : tx'[b].kind = "publish" => tx'[b] = tx[b] /\ Reviewable' /\ \A r \in Row : Kept(r),
         \A b \in Reviewers : screen'[b].page = "preview" => screen'[b] = screen[b]
  PROVE  Released'
<1>1. Previewed'
  <2> SUFFICES ASSUME NEW b \in Reviewers, screen'[b].page = "preview" PROVE Listed(screen[b])'
      BY DEF Previewed
  <2>1. PICK p : p = screen[b] /\ screen'[b] = p /\ p.page = "preview"
      OBVIOUS
  <2>2. Listed(p) /\ \A t \in p.digest : Named(t[1])
      BY <2>1 DEF Released, Previewed, Named
  <2>3. Listed(p)'
      BY <2>2, ListedStays DEF Kept
  <2>4. QED
      BY <2>1, <2>3 DEF Listed
<1>2. Published'
  <2> SUFFICES ASSUME NEW n \in 1 .. Len(releases)'
               PROVE  /\ releases'[n].facts = releases'[n].shows
                      /\ \A f \in releases'[n].facts : Stands(f)'
      BY DEF Published
  <2>1. releases[n] \in Releases /\ releases[n].facts = releases[n].shows
      BY DEF Inv, Recorded, Released, Published
  <2>2. ASSUME NEW f \in releases[n].facts PROVE Stands(f)'
    <3>1. f.row \in Row /\ Stands(f)
        BY <2>1 DEF Releases, FactsOf, Released, Published
    <3>2. Kept(f.row)
        BY <3>1 DEF Stands, Rewritten, Gone, New
    <3>3. QED
        BY <3>1, <3>2 DEF Stands, Kept, Shown
  <2>3. QED
      BY <2>1, <2>2
<1>3. LastReleaseIsCurrent'
    BY DEF Released, LastReleaseIsCurrent, Current
<1>4. Promised'
  <2> SUFFICES ASSUME NEW b \in Reviewers, tx'[b].kind = "publish"
               PROVE  /\ Reviewable' /\ tx'[b].prior = Current' /\ tx'[b].facts = tx'[b].shows
                      /\ \E scope : /\ tx'[b].facts = Facts(scope)'
                                    /\ tx'[b].new = {r \in Publishable(scope)' : rows'[r].release = 0}
      BY DEF Promised
  <2>1. tx'[b] = tx[b] /\ Reviewable' /\ \A r \in Row : Kept(r)
      OBVIOUS
  <2>2. PICK scope : tx[b].facts = Facts(scope) /\ tx[b].new = {r \in Publishable(scope) : rows[r].release = 0}
      BY <2>1 DEF Released, Promised
  <2>3. Publishable(scope)' = Publishable(scope) /\ Publishable(scope) \subseteq Row
      BY <2>1 DEF Publishable, InScope, Kept, Shown
  <2>4. Facts(scope)' = Facts(scope)
      BY <2>1, <2>3 DEF Facts, Kept, Shown
  <2>5. {r \in Publishable(scope)' : rows'[r].release = 0} = {r \in Publishable(scope) : rows[r].release = 0}
      BY <2>1, <2>3 DEF Kept
  <2>6. Current' = Current
      BY DEF Current
  <2>7. QED
      BY <2>1, <2>2, <2>4, <2>5, <2>6 DEF Released, Promised
<1>5. QED
    BY <1>1, <1>2, <1>3, <1>4 DEF Released

-----------------------------------------------------------------------------
(* Every step keeps what is released.                                      *)

LEMMA InitReleased == PublicationInit => Released
<1> SUFFICES ASSUME PublicationInit PROVE Released
    OBVIOUS
<1>1. \A a \in Reviewers : tx[a].kind = "none" /\ screen[a].page = "none"
    BY DEF PublicationInit, Init, NoRequest, BlankScreen
<1>2. releases = <<>> /\ Len(releases) = 0
    BY DEF PublicationInit
<1>3. Current = {}
    BY <1>2 DEF Current
<1>4. QED
    BY <1>1, <1>2, <1>3 DEF Released, Promised, Previewed, Published, LastReleaseIsCurrent

LEMMA ReviewerReleased ==
  ASSUME Told, Typed', Released, Keep, NEW a \in Reviewers,
         \/ \E r \in Row : Load(a, r)
         \/ \E outcome \in Outcomes, value \in Values \cup {NoValue} : DecideRead(a, outcome, value)
         \/ \E d \in decisions : UndoRead(a, d)
         \/ RolledBack(a)
  PROVE  Released'
<1>1. Inv /\ Typed /\ BlankScreen.page = "none" /\ NoRequest.kind = "none"
    BY DEF Told, Inv, SharedInv, BlankScreen, NoRequest
<1>2. UNCHANGED <<rows, decisions, source, releases>>
    BY DEF Load, DecideRead, UndoRead, RolledBack, Keep
<1>3. \A b \in Reviewers : /\ tx'[b].kind = "publish" => tx'[b] = tx[b]
                           /\ screen'[b].page = "preview" => screen'[b] = screen[b]
  <2>1. ASSUME NEW r \in Row, Load(a, r)
        PROVE  \A b \in Reviewers : tx'[b] = tx[b] /\ (screen'[b].page = "preview" => screen'[b] = screen[b])
    <3> DEFINE p == [page |-> "candidate", row |-> r, version |-> rows[r].version, shows |-> Snapshot(rows[r])]
    <3>1. tx' = tx /\ screen' = [screen EXCEPT ![a] = p] /\ p.page = "candidate"
        BY <2>1 DEF Load
    <3> HIDE DEF p
    <3>2. QED
        BY <1>1, <3>1 DEF Typed
  <2>2. ASSUME NEW outcome \in Outcomes, NEW value \in Values \cup {NoValue}, DecideRead(a, outcome, value)
        PROVE  \A b \in Reviewers : /\ tx'[b].kind = "publish" => tx'[b] = tx[b]
                                    /\ screen'[b].page = "preview" => screen'[b] = screen[b]
    <3> DEFINE r == screen[a].row
               q == [kind |-> "decide", row |-> r, outcome |-> outcome, value |-> value, old |-> rows[r],
                     shows |-> screen[a].shows]
    <3>1. tx' = [tx EXCEPT ![a] = q] /\ q.kind = "decide" /\ screen' = [screen EXCEPT ![a] = BlankScreen]
        BY <2>2 DEF DecideRead
    <3> HIDE DEF q
    <3>2. QED
        BY <1>1, <3>1 DEF Typed
  <2>3. ASSUME NEW d \in decisions, UndoRead(a, d)
        PROVE  \A b \in Reviewers : (tx'[b].kind = "publish" => tx'[b] = tx[b]) /\ screen'[b] = screen[b]
    <3> DEFINE q == [kind |-> "undo", decision |-> d, old |-> rows[d.row]]
    <3>1. tx' = [tx EXCEPT ![a] = q] /\ q.kind = "undo" /\ screen' = screen
        BY <2>3 DEF UndoRead
    <3> HIDE DEF q
    <3>2. QED
        BY <1>1, <3>1 DEF Typed
  <2>4. ASSUME RolledBack(a)
        PROVE  \A b \in Reviewers : (tx'[b].kind = "publish" => tx'[b] = tx[b]) /\ screen'[b] = screen[b]
      BY <1>1, <2>4 DEF RolledBack, Typed
  <2>5. QED
      BY <2>1, <2>2, <2>3, <2>4
<1>4. \A r \in Row : Kept(r)
    BY <1>2, UnchangedKept
<1>5. \A b \in Reviewers : tx'[b].kind = "publish" => Reviewable'
    BY <1>2, <1>3 DEF Released, Promised, Reviewable
<1>6. QED
    BY <1>1, <1>2, <1>3, <1>4, <1>5, ReleasedStays

LEMMA DecideWriteReleased ==
  ASSUME Told, Typed', Released, Keep, NEW a \in Reviewers, DecideWrite(a) PROVE Released'
<1>1. PICK r, d, c : DecidedOn(r, d, c)
    BY DecideWriteAlone DEF Told
<1>2. Inv /\ Typed /\ releases' = releases
    BY DEF Told, Inv, SharedInv, Keep
<1>3. \A s \in Row : rows'[s] = IF s = r THEN c ELSE rows[s]
    BY <1>1, <1>2 DEF DecidedOn, Typed
<1>4. Rewritten(r)
    BY <1>1, <1>3 DEF DecidedOn, Rewritten
<1>5. ASSUME NEW s \in Row, s # r PROVE Kept(s)
  <2>1. rows'[s] = rows[s]
      BY <1>3, <1>5
  <2>2. LatestOf(s)' = LatestOf(s)
      BY <1>1, <1>5 DEF DecidedOn, LatestOf, Standing
  <2>3. QED
      BY <2>1, <2>2 DEF Kept, Shown, Exists, Fact
<1>6. \A b \in Reviewers : tx'[b].kind = "none" /\ screen'[b] = screen[b]
    BY <1>1, NoRequestTyped DEF DecidedOn
<1>7. QED
    BY <1>2, <1>4, <1>5, <1>6, ReleasedStays

LEMMA UndoWriteReleased ==
  ASSUME Told, Typed', Released, Keep, NEW a \in Reviewers, UndoWrite(a) PROVE Released'
<1>1. PICK r, d, e, c : UndoneOn(r, d, e, c)
    BY UndoWriteAlone DEF Told
<1>2. Inv /\ Typed /\ releases' = releases
    BY DEF Told, Inv, SharedInv, Keep
<1>3. \A s \in Row : rows'[s] = IF s = r THEN c ELSE rows[s]
    BY <1>1, <1>2 DEF UndoneOn, Typed
<1>4. Rewritten(r)
    BY <1>1, <1>3 DEF UndoneOn, Rewritten
<1>5. ASSUME NEW s \in Row, s # r PROVE Kept(s)
  <2>1. rows'[s] = rows[s]
      BY <1>3, <1>5
  <2>2. Standing(s)' = Standing(s)
      BY <1>1, <1>5 DEF UndoneOn, LatestOf, Standing
  <2>3. LatestOf(s)' = LatestOf(s)
      BY <2>2 DEF LatestOf
  <2>4. QED
      BY <2>1, <2>3 DEF Kept, Shown, Exists, Fact
<1>6. \A b \in Reviewers : tx'[b].kind = "none" /\ screen'[b] = screen[b]
    BY <1>1, NoRequestTyped DEF UndoneOn
<1>7. QED
    BY <1>2, <1>4, <1>5, <1>6, ReleasedStays

LEMMA PreviewReleased ==
  ASSUME Told, Typed', Released, NEW a \in Reviewers, NEW scope \in Scopes, Preview(a, scope) PROVE Released'
<1> DEFINE p == [page |-> "preview", scope |-> scope, version |-> source.version,
                 digest |-> Digest(scope), facts |-> Facts(scope)]
<1>1. /\ screen' = [screen EXCEPT ![a] = p] /\ p.digest = Digest(scope) /\ p.facts = Facts(scope)
      /\ UNCHANGED <<source, rows, decisions, tx, releases>>
    BY DEF Preview
<1> HIDE DEF p
<1>2. Inv /\ Typed
    BY DEF Told, Inv, SharedInv
<1>3. \A b \in Reviewers : screen'[b] = IF b = a THEN p ELSE screen[b]
    BY <1>1, <1>2 DEF Typed
<1>4. Listed(p)
  <2>1. \A t \in p.digest : /\ t[1] \in InScope(scope) /\ t[1] \in Row /\ t[2] \in Nat /\ Exists(t[1])
                            /\ t[2] = rows[t[1]].version
      BY <1>1, <1>2 DEF Digest, InScope, Typed, Candidates
  <2>2. \A t \in p.digest : IsPublishable(rows[t[1]]) => Fact(t[1]) \in p.facts
      BY <1>1, <2>1 DEF Facts, Publishable
  <2>3. ASSUME NEW f \in p.facts
        PROVE  \E t \in p.digest : t[1] = f.row /\ f = Fact(f.row) /\ IsPublishable(rows[f.row])
    <3>1. PICK r \in Publishable(scope) : f = Fact(r)
        BY <1>1 DEF Facts
    <3>2. f.row = r /\ IsPublishable(rows[r]) /\ <<r, rows[r].version, rows[r].status, rows[r].second>> \in p.digest
        BY <1>1, <3>1 DEF Fact, Publishable, Digest
    <3>3. QED
        BY <3>1, <3>2
  <2>4. \A r \in Row : rows[r].version \in Nat
      BY <1>2 DEF Typed, Candidates
  <2>5. QED
      BY <2>1, <2>2, <2>3, <2>4 DEF Listed
<1>5. \A r \in Row : Kept(r)
    BY <1>1, UnchangedKept
<1>6. Previewed'
  <2>1. \A q : Listed(q)' <=> Listed(q)
    <3>1. \A r : Fact(r)' = Fact(r)
        BY <1>1 DEF Fact, LatestOf, Standing
    <3>2. QED
        BY <1>1, <3>1 DEF Listed, Exists
  <2> SUFFICES ASSUME NEW b \in Reviewers, screen'[b].page = "preview" PROVE Listed(screen[b])'
      BY DEF Previewed
  <2>2. PICK q : q = screen'[b] /\ Listed(q)
      BY <1>3, <1>4 DEF Released, Previewed
  <2>3. QED
      BY <1>1, <2>1, <2>2 DEF Listed
<1>7. Promised' /\ Published' /\ LastReleaseIsCurrent'
  <2>1. \A r : Fact(r)' = Fact(r)
      BY <1>1 DEF Fact, LatestOf, Standing
  <2>2. \A s : Publishable(s)' = Publishable(s)
      BY <1>1 DEF Publishable, InScope, Exists
  <2>3. \A s : Facts(s)' = Facts(s)
      BY <2>1, <2>2 DEF Facts
  <2>4. QED
      BY <1>1, <2>1, <2>2, <2>3 DEF Released, Promised, Published, LastReleaseIsCurrent, Current, Reviewable, Stands
<1>8. QED
    BY <1>6, <1>7 DEF Released

\* What a preview showed is what would be copied now, when its token is accepted.
LEMMA ShownIsCopied ==
  ASSUME NEW p, Listed(p), p.digest = Digest(p.scope) PROVE Facts(p.scope) = p.facts
<1>1. ASSUME NEW f \in Facts(p.scope) PROVE f \in p.facts
  <2>1. PICK r \in Publishable(p.scope) : f = Fact(r)
      BY DEF Facts
  <2>2. Exists(r) /\ IsPublishable(rows[r]) /\ r \in InScope(p.scope)
      BY DEF Publishable, InScope
  <2>3. PICK t \in p.digest : t[1] = r /\ t[2] = rows[r].version
    <3>1. <<r, rows[r].version, rows[r].status, rows[r].second>> \in p.digest
        BY <2>2 DEF Digest
    <3>2. QED
        BY <3>1
  <2>4. QED
      BY <2>1, <2>2, <2>3 DEF Listed
<1>2. ASSUME NEW f \in p.facts PROVE f \in Facts(p.scope)
  <2>1. PICK t \in p.digest : /\ t[1] = f.row
                              /\ Exists(f.row) /\ t[2] = rows[f.row].version => f = Fact(f.row) /\ IsPublishable(rows[f.row])
      BY DEF Listed
  <2>2. PICK r \in InScope(p.scope) : t = <<r, rows[r].version, rows[r].status, rows[r].second>>
      BY DEF Digest
  <2>3. r = f.row /\ t[2] = rows[r].version /\ Exists(r)
      BY <2>1, <2>2 DEF InScope
  <2>4. r \in Publishable(p.scope) /\ f = Fact(r)
      BY <2>1, <2>2, <2>3 DEF Publishable
  <2>5. QED
      BY <2>4 DEF Facts
<1>3. QED
    BY <1>1, <1>2

LEMMA PublishReadReleased ==
  ASSUME Told, Typed', Released, NEW a \in Reviewers, PublishRead(a) PROVE Released'
<1> DEFINE p == screen[a]
           q == [kind |-> "publish", facts |-> Facts(p.scope), shows |-> p.facts,
                 source |-> source, prior |-> Current, count |-> Len(releases),
                 new |-> {r \in Publishable(p.scope) : rows[r].release = 0}]
<1>1. /\ p.page = "preview" /\ p.digest = Digest(p.scope) /\ Reviewable
      /\ UNCHANGED <<source, rows, decisions, releases>>
      /\ tx' = [tx EXCEPT ![a] = q] /\ screen' = [screen EXCEPT ![a] = BlankScreen]
    BY DEF PublishRead, StillShown, Reviewable
<1>2. Inv /\ Typed /\ BlankScreen.page = "none"
    BY DEF Told, Inv, SharedInv, BlankScreen
<1>3. Listed(p)
    BY <1>1 DEF Released, Previewed
<1>4. q.facts = Facts(p.scope) /\ q.shows = p.facts /\ q.prior = Current
      /\ q.new = {r \in Publishable(p.scope) : rows[r].release = 0}
    OBVIOUS
<1>5. Facts(p.scope) = p.facts
    BY <1>1, <1>3, ShownIsCopied
<1> HIDE DEF p, q
<1>6. \A b \in Reviewers : /\ tx'[b] = IF b = a THEN q ELSE tx[b]
                           /\ screen'[b] = IF b = a THEN BlankScreen ELSE screen[b]
    BY <1>1, <1>2 DEF Typed
<1>7. /\ \A r : Fact(r)' = Fact(r) /\ (Exists(r)' <=> Exists(r))
      /\ \A s : Publishable(s)' = Publishable(s)
    BY <1>1 DEF Fact, LatestOf, Standing, Publishable, InScope, Exists
<1>8. \A s : Facts(s)' = Facts(s)
    BY <1>7 DEF Facts
<1>9. Previewed'
    BY <1>1, <1>2, <1>6, <1>7 DEF Released, Previewed, Listed
<1>10. Promised'
  <2> SUFFICES ASSUME NEW b \in Reviewers, tx'[b].kind = "publish"
               PROVE  /\ Reviewable' /\ tx'[b].prior = Current' /\ tx'[b].facts = tx'[b].shows
                      /\ \E scope : /\ tx'[b].facts = Facts(scope)'
                                    /\ tx'[b].new = {r \in Publishable(scope)' : rows'[r].release = 0}
      BY DEF Promised
  <2>1. Reviewable' /\ Current' = Current
      BY <1>1 DEF Reviewable, Current
  <2>2. CASE b = a
      BY <1>1, <1>4, <1>5, <1>6, <1>7, <1>8, <2>1, <2>2
  <2>3. CASE b # a
      BY <1>1, <1>6, <1>7, <1>8, <2>1, <2>3 DEF Released, Promised
  <2>4. QED
      BY <2>2, <2>3
<1>11. Published' /\ LastReleaseIsCurrent'
    BY <1>1, <1>7 DEF Released, Published, Stands, LastReleaseIsCurrent, Current
<1>12. QED
    BY <1>9, <1>10, <1>11 DEF Released

\* The releases but for which is current.
LEMMA SupersedingFields ==
  ASSUME Inv, NEW prior
  PROVE  /\ Superseding(prior) \in Seq(Releases) /\ Len(Superseding(prior)) = Len(releases)
         /\ \A n \in 1 .. Len(releases) :
               /\ Superseding(prior)[n].facts = releases[n].facts /\ Superseding(prior)[n].shows = releases[n].shows
               /\ Superseding(prior)[n].current = (releases[n].current /\ n \notin prior)
<1>1. DOMAIN releases = 1 .. Len(releases) /\ Len(releases) \in Nat /\ \A n \in 1 .. Len(releases) : releases[n] \in Releases
    BY DEF Inv, Recorded
<1>2. ASSUME NEW n \in 1 .. Len(releases)
      PROVE  /\ Superseding(prior)[n] \in Releases
             /\ Superseding(prior)[n].facts = releases[n].facts /\ Superseding(prior)[n].shows = releases[n].shows
             /\ Superseding(prior)[n].current = (releases[n].current /\ n \notin prior)
    BY <1>1 DEF Superseding, Releases
<1>3. Superseding(prior) \in [1 .. Len(releases) -> Releases]
    BY <1>1, <1>2 DEF Superseding
<1>4. QED
    BY <1>1, <1>2, <1>3

LEMMA PublishWriteReleased ==
  ASSUME Told, Typed', Released, NEW a \in Reviewers, PublishWrite(a) PROVE Released'
<1> DEFINE q == tx[a]
           release == [facts |-> q.facts, shows |-> q.shows, current |-> TRUE]
<1>1. /\ q.kind = "publish" /\ Inv /\ Typed
      /\ releases' = Append(Superseding(q.prior), release)
      /\ UNCHANGED <<decisions, screen>> /\ tx' = [tx EXCEPT ![a] = NoRequest]
    BY DEF PublishWrite, Told, Inv, SharedInv
<1>2. /\ q.prior = Current /\ q.facts = q.shows
      /\ \E scope : q.facts = Facts(scope) /\ q.new = {r \in Publishable(scope) : rows[r].release = 0}
    BY <1>1 DEF Released, Promised
<1>3. PICK scope : q.facts = Facts(scope) /\ q.new = {r \in Publishable(scope) : rows[r].release = 0}
    BY <1>2
<1>4. release \in Releases /\ release.facts = q.facts /\ release.shows = q.shows /\ release.current
    BY <1>1 DEF Releases, Inv, Recorded
<1>5. \A r \in Row : /\ OtherColumns(r)
                     /\ rows'[r].release = IF r \in q.new THEN Len(releases) + 1 ELSE rows[r].release
    BY <1>1, PublishWriteColumns
<1>6. tx[a] # NoRequest
    BY <1>1, NoRequestTyped
<1>7. \A b \in Reviewers : tx'[b] = NoRequest
    BY <1>1, <1>6, OneIsDone DEF Told, Sight
<1>8. Len(releases) \in Nat
    BY <1>1 DEF Inv, Recorded
<1> HIDE DEF q, release
<1>9. \A r \in Row : Shown(r)
  <2>1. \A r : LatestOf(r)' = LatestOf(r)
      BY <1>1 DEF LatestOf, Standing
  <2>2. QED
      BY <1>1, <1>5, <2>1, ShownFields
<1>10. /\ Len(releases') = Len(releases) + 1 /\ releases'[Len(releases) + 1] = release
       /\ \A n \in 1 .. Len(releases) : /\ releases'[n].facts = releases[n].facts /\ releases'[n].shows = releases[n].shows
                                        /\ releases'[n].current = (releases[n].current /\ n \notin q.prior)
  <2>1. PICK s \in Seq(Releases) :
            /\ s = Superseding(q.prior) /\ Len(s) = Len(releases)
            /\ \A n \in 1 .. Len(releases) : /\ s[n].facts = releases[n].facts /\ s[n].shows = releases[n].shows
                                             /\ s[n].current = (releases[n].current /\ n \notin q.prior)
      BY <1>1, SupersedingFields
  <2>2. releases' = Append(s, release)
      BY <1>1, <2>1
  <2>3. QED
      BY <1>4, <1>8, <2>1, <2>2
<1>11. Promised'
    BY <1>7, NoRequestTyped DEF Promised
<1>12. Previewed'
  <2> SUFFICES ASSUME NEW b \in Reviewers, screen'[b].page = "preview" PROVE Listed(screen[b])'
      BY DEF Previewed
  <2>1. PICK p : p = screen[b] /\ screen'[b] = p /\ p.page = "preview"
      BY <1>1
  <2>2. Listed(p) /\ \A t \in p.digest : Named(t[1])
      BY <2>1 DEF Released, Previewed, Named
  <2>3. Listed(p)'
      BY <1>1, <1>9, <2>2, ListedStays
  <2>4. QED
      BY <2>1, <2>3 DEF Listed
<1>13. Published'
  <2>1. ASSUME NEW n \in 1 .. Len(releases), NEW f \in releases[n].facts PROVE Stands(f)'
    <3>1. releases[n] \in Releases
        BY <1>1 DEF Inv, Recorded
    <3>2. f.row \in Row /\ Stands(f)
        BY <3>1 DEF Releases, FactsOf, Released, Published
    <3>3. rows'[f.row].release # 0
        BY <1>5, <1>8, <3>2 DEF Stands
    <3>4. QED
        BY <1>9, <3>2, <3>3 DEF Stands, Shown
  <2>2. ASSUME NEW f \in q.facts PROVE Stands(f)'
    <3>1. PICK r \in Publishable(scope) : f = Fact(r)
        BY <1>3 DEF Facts
    <3>2. f.row = r /\ r \in Row /\ IsPublishable(rows[r])
        BY <3>1 DEF Fact, Publishable, InScope
    <3>3. rows'[r].release # 0
        BY <1>3, <1>5, <1>8, <3>2
    <3>4. QED
        BY <1>9, <3>1, <3>2, <3>3 DEF Stands, Shown
  <2>3. ASSUME NEW n \in 1 .. Len(releases)'
        PROVE  releases'[n].facts = releases'[n].shows /\ \A f \in releases'[n].facts : Stands(f)'
    <3>1. CASE n \in 1 .. Len(releases)
        BY <1>10, <2>1, <3>1 DEF Released, Published
    <3>2. CASE n = Len(releases) + 1
        BY <1>2, <1>4, <1>10, <2>2, <3>2
    <3>3. QED
        BY <1>8, <1>10, <3>1, <3>2
  <2>4. QED
      BY <2>3 DEF Published
<1>14. LastReleaseIsCurrent'
  <2>1. Current' = {Len(releases) + 1}
    <3>1. \A n \in 1 .. Len(releases) : ~releases'[n].current
        BY <1>2, <1>10 DEF Current
    <3>2. releases'[Len(releases) + 1].current
        BY <1>4, <1>10
    <3>3. \A n \in 1 .. Len(releases) + 1 : n \in 1 .. Len(releases) \/ n = Len(releases) + 1
        BY <1>8
    <3>4. Len(releases) + 1 \in 1 .. Len(releases) + 1
        BY <1>8
    <3>5. QED
        BY <1>10, <3>1, <3>2, <3>3, <3>4 DEF Current
  <2>2. QED
      BY <1>8, <1>10, <2>1 DEF LastReleaseIsCurrent
<1>15. QED
    BY <1>11, <1>12, <1>13, <1>14 DEF Released

LEMMA PublishRolledBackReleased ==
  ASSUME Told, Typed', Released, NEW a \in Reviewers, PublishRolledBack(a) PROVE Released'
<1>1. /\ tx' = [tx EXCEPT ![a] = NoRequest] /\ UNCHANGED <<source, rows, decisions, screen, releases>>
      /\ NoRequest.kind = "none" /\ Inv /\ Typed
    BY DEF PublishRolledBack, NoRequest, Told, Inv, SharedInv
<1>2. \A b \in Reviewers : tx'[b].kind = "publish" => tx'[b] = tx[b]
    BY <1>1 DEF Typed
<1>3. \A r \in Row : Kept(r)
    BY <1>1, UnchangedKept
<1>4. \A b \in Reviewers : tx'[b].kind = "publish" => Reviewable'
    BY <1>1, <1>2 DEF Released, Promised, Reviewable
<1>5. QED
    BY <1>1, <1>2, <1>3, <1>4, ReleasedStays

LEMMA WorkerReleased ==
  ASSUME ~Overlap, Told, Typed', Released, Keep,
         ValidateRead \/ ValidateRefused \/ ValidateWrite \/ ValidateRolledBack \/ Reprocess \/ ReadAgain
  PROVE  Released'
<1>1. Inv /\ Typed /\ UNCHANGED <<screen, tx, releases>>
    BY DEF Told, Inv, SharedInv, Keep, ValidateRead, ValidateRefused, ValidateWrite, ValidateRolledBack, Reprocess, ReadAgain
<1>2. CASE ValidateRead \/ ValidateRefused \/ ValidateRolledBack
  <2>1. UNCHANGED <<source, rows, decisions>>
      BY <1>2 DEF ValidateRead, ValidateRefused, ValidateRolledBack
  <2>2. \A r \in Row : Kept(r)
      BY <2>1, UnchangedKept
  <2>3. \A b \in Reviewers : tx'[b].kind = "publish" => Reviewable'
      BY <1>1, <2>1 DEF Released, Promised, Reviewable
  <2>4. QED
      BY <1>1, <2>2, <2>3, ReleasedStays
<1>3. CASE ValidateWrite
  <2>1. \A r \in Row : OtherColumns(r) /\ rows'[r].release = rows[r].release
      BY <1>1, <1>3, ValidateWriteColumns
  <2>2. \A r : LatestOf(r)' = LatestOf(r)
      BY <1>3 DEF ValidateWrite, LatestOf, Standing
  <2>3. \A r \in Row : Kept(r)
      BY <1>1, <2>1, <2>2, ShownFields DEF Kept
  <2>4. Reviewable => Reviewable'
      BY <1>3 DEF ValidateWrite, Reviewable
  <2>5. \A b \in Reviewers : tx'[b].kind = "publish" => Reviewable'
      BY <1>1, <2>4 DEF Released, Promised
  <2>6. QED
      BY <1>1, <2>3, <2>5, ReleasedStays
<1>4. CASE Reprocess
  <2>1. UNCHANGED <<rows, decisions>> /\ \A a \in Reviewers : tx'[a].kind = "none"
      BY <1>4, NoRequestTyped DEF Reprocess
  <2>2. \A r \in Row : Kept(r)
      BY <2>1, UnchangedKept
  <2>3. QED
      BY <1>1, <2>1, <2>2, ReleasedStays
<1>5. CASE ReadAgain
  <2>1. \A a \in Reviewers : tx'[a].kind # "publish"
      BY <1>1, <1>5 DEF ReadAgain, Released, Promised, Reviewable
  <2>2. ASSUME NEW r \in Row PROVE Kept(r) \/ Gone(r) \/ New(r)
    <3>1. \/ rows'[r] = rows[r] /\ LatestOf(r)' = LatestOf(r)
          \/ ~Exists(r)' /\ rows[r].status \in {"pending", "absent"}
          \/ ~Named(r) /\ ~Exists(r)
        BY <1>1, <1>5, ReadAgainLeaves
    <3>2. CASE rows'[r] = rows[r] /\ LatestOf(r)' = LatestOf(r)
        BY <3>2 DEF Kept, Shown, Exists, Fact
    <3>3. CASE ~Exists(r)' /\ rows[r].status \in {"pending", "absent"}
        BY <3>3 DEF Gone, IsPublishable, Finals
    <3>4. CASE ~Named(r) /\ ~Exists(r)
        BY <3>4 DEF New, IsPublishable, Finals, Exists
    <3>5. QED
        BY <3>1, <3>2, <3>3, <3>4
  <2>3. QED
      BY <1>1, <2>1, <2>2, ReleasedStays
<1>6. QED
    BY <1>2, <1>3, <1>4, <1>5

LEMMA StepReleased == ASSUME ~Overlap, Told, Released, [Next]_vars PROVE Released'
<1>1. Told' /\ Typed'
    BY StepTold DEF Told, Inv, SharedInv
<1>2. CASE UNCHANGED vars
  <2>1. UNCHANGED <<source, rows, decisions, screen, tx, releases>> /\ Inv
      BY <1>2 DEF vars, Told
  <2>2. \A r \in Row : Kept(r)
      BY <2>1, UnchangedKept
  <2>3. \A b \in Reviewers : tx'[b].kind = "publish" => Reviewable'
      BY <2>1 DEF Released, Promised, Reviewable
  <2>4. QED
      BY <2>1, <2>2, <2>3, ReleasedStays
<1>3. CASE Next
  <2>1. ASSUME NEW a \in Reviewers, Keep,
               \/ \E r \in Row : Load(a, r)
               \/ \E outcome \in Outcomes, value \in Values \cup {NoValue} : DecideRead(a, outcome, value)
               \/ \E d \in decisions : UndoRead(a, d)
               \/ RolledBack(a)
        PROVE  Released'
      BY <1>1, <2>1, ReviewerReleased
  <2>2. ASSUME NEW a \in Reviewers, Keep, DecideWrite(a) PROVE Released'
      BY <1>1, <2>2, DecideWriteReleased
  <2>3. ASSUME NEW a \in Reviewers, Keep, UndoWrite(a) PROVE Released'
      BY <1>1, <2>3, UndoWriteReleased
  <2>4. ASSUME NEW a \in Reviewers, NEW scope \in Scopes, Preview(a, scope) PROVE Released'
      BY <1>1, <2>4, PreviewReleased
  <2>5. ASSUME NEW a \in Reviewers, PublishRead(a) PROVE Released'
      BY <1>1, <2>5, PublishReadReleased
  <2>6. ASSUME NEW a \in Reviewers, PublishWrite(a) PROVE Released'
      BY <1>1, <2>6, PublishWriteReleased
  <2>7. ASSUME NEW a \in Reviewers, PublishRolledBack(a) PROVE Released'
      BY <1>1, <2>7, PublishRolledBackReleased
  <2>8. ASSUME Keep, ValidateRead \/ ValidateRefused \/ ValidateWrite \/ ValidateRolledBack \/ Reprocess \/ ReadAgain
        PROVE  Released'
      BY <1>1, <2>8, WorkerReleased
  <2>9. QED
      BY <1>3, <2>1, <2>2, <2>3, <2>4, <2>5, <2>6, <2>7, <2>8 DEF Next
<1>4. QED
    BY <1>2, <1>3

\* When requests do not overlap, a release is what its preview showed and what the review
\* still says of its rows, and the last release is the only current one (preview, publish,
\* undo, extract).
THEOREM PublicationReleasesHold == ASSUME ~Overlap PROVE Spec => []ReleasesHold
<1>1. PublicationInit => Told /\ Released
    BY InitShared, InitRecorded, InitSight, InitStory, InitReleased DEF Told, Inv
<1>2. Told /\ Released /\ [Next]_vars => Told' /\ Released'
    BY StepTold, StepReleased
<1>3. Told /\ Released => ReleasesHold
    BY DEF Released, Published, Stands, ReleasesHold, PublishedAsDecided, ReleaseRestsOnPreview
<1>4. QED
    BY <1>1, <1>2, <1>3, PTL DEF Spec
-----------------------------------------------------------------------------
(* The evidence views, for any pages, candidates, viewers and number of    *)
(* decisions, in requests one at a time.                                   *)
(*                                                                         *)
(* EvidenceHolds is not inductive.  A view shows the page the candidate    *)
(* still has as long as its version is the same (ViewsAsShown), so what a  *)
(* decision rests on is remembered with it (EachRests); and an undo brings *)
(* an older row back, so what a candidate owes to the decisions before it  *)
(* must hold of every row an undo could restore too (EachBacked).          *)

Statuses == {"pending", "awaiting_second_review", "approved", "corrected", "rejected"}
ShownRows == [read : Citations, reviewed : Citations \cup {<<>>}, status : Statuses, first : Viewers \cup {""}, version : Nat]
ViewRows == [of : Cited, index : {1, 2}, page : Pages, viewer : Viewers, at : Nat]
TakenRows == [of : Cited, by : Viewers, outcome : {"approved", "corrected", "rejected"}, cites : SUBSET Nat,
              on : Citations, version : Nat, before : ShownRows, undone : BOOLEAN]

EvidenceTyped ==
    /\ shown \in [Cited -> ShownRows] /\ views \in Seq(ViewRows) /\ taken \in Seq(TakenRows)
    /\ aged \in 0 .. Len(views) /\ Len(views) <= MaxViews /\ Len(taken) <= MaxTaken

\* A view of the version a candidate is still at shows the primary page it still has.
ViewsAsShown == \A v \in 1 .. Len(views) : views[v].index = 1 =>
    /\ views[v].at <= shown[views[v].of].version
    /\ views[v].at = shown[views[v].of].version => views[v].page = Primary(shown[views[v].of])

\* The view a decision rests on.
RestsOn(d, v) ==
    /\ v \in 1 .. Len(views) /\ views[v].index = 1 /\ views[v].viewer = d.by /\ views[v].of = d.of
    /\ views[v].at = d.version => views[v].page = d.on[1]

EachRests == \A n \in 1 .. Len(taken) : taken[n].outcome # "rejected" => \E v \in taken[n].cites : RestsOn(taken[n], v)

\* What the state of a candidate of two rounds owes to the decisions S.
Backed(row, S) ==
    /\ row.status = "awaiting_second_review" => \E n \in S : taken[n].by = row.first /\ taken[n].outcome # "rejected"
    /\ row.status \in {"approved", "corrected"} =>
          \E n, m \in S : /\ taken[n].by # taken[m].by
                          /\ taken[n].outcome # "rejected" /\ taken[m].outcome # "rejected"

Earlier(c, n) == {m \in StandingOn(c) : m < n}

\* It holds of every candidate, and of what the undo of any standing decision would bring back.
EachBacked == \A c \in TwoRounds :
    /\ Backed(shown[c], StandingOn(c))
    /\ \A n \in StandingOn(c) : Backed(taken[n].before, Earlier(c, n))

EvidenceInv == EvidenceTyped /\ ViewsAsShown /\ EachRests /\ EachBacked

LEMMA CitationPages ==
  ASSUME NEW e \in Citations PROVE 1 \in DOMAIN e /\ e # <<>> /\ \A i \in DOMAIN e : e[i] \in Pages
<1>1. CASE \E p \in Pages : e = <<p>>
  BY <1>1
<1>2. CASE \E p, q \in Pages : e = <<p, q>>
  BY <1>2
<1> QED
  BY <1>1, <1>2 DEF Citations

LEMMA EvidenceOfRow ==
  ASSUME NEW row \in ShownRows PROVE EvidenceOf(row) \in Citations /\ Primary(row) = EvidenceOf(row)[1] /\ Primary(row) \in Pages
<1>1. EvidenceOf(row) \in Citations
  BY DEF ShownRows, EvidenceOf
<1> QED
  BY <1>1, CitationPages DEF Primary

LEMMA InitEstablishesEvidence == EvidenceInit => EvidenceInv
<1> SUFFICES ASSUME EvidenceInit PROVE EvidenceInv
  OBVIOUS
<1>1. PICK p, q \in Pages : p # q
  BY EvidenceAssumption DEF EvidenceAssumption
<1>2. <<p, q>> \in Citations /\ Len(<<p, q>>) = 2
  <2>1. \A r \in Pages : <<p, q>> # <<r, r>>
    BY <1>1
  <2> QED
    BY <2>1 DEF Citations
<1>3. AsExtracted \in Citations
  BY <1>2 DEF AsExtracted
<1> DEFINE row == [read |-> AsExtracted, reviewed |-> <<>>, status |-> "pending", first |-> "", version |-> 1]
<1>4. row \in ShownRows /\ row.status = "pending"
  BY <1>3 DEF ShownRows, Statuses
<1>5. \A c \in Cited : shown[c] = row
  BY DEF EvidenceInit
<1>6. shown \in [Cited -> ShownRows]
  BY <1>4 DEF EvidenceInit
<1> HIDE DEF row
<1>e. /\ views \in Seq(ViewRows) /\ taken \in Seq(TakenRows) /\ Len(views) = 0 /\ Len(taken) = 0
      /\ aged = 0
  <2>1. <<>> \in Seq(ViewRows) /\ <<>> \in Seq(TakenRows) /\ Len(<<>>) = 0
    BY EmptySeq
  <2> QED
    BY <2>1 DEF EvidenceInit
<1>7. EvidenceTyped
  BY <1>6, <1>e, EvidenceAssumption DEF EvidenceTyped, EvidenceAssumption
<1>8. ViewsAsShown /\ EachRests
  BY <1>e DEF ViewsAsShown, EachRests
<1>9. \A c \in TwoRounds : c \in Cited /\ StandingOn(c) = {}
  <2>1. DOMAIN taken = {}
    BY <1>e
  <2> QED
    BY <2>1, EvidenceAssumption DEF StandingOn, EvidenceAssumption
<1>10. EachBacked
  BY <1>4, <1>5, <1>9 DEF EachBacked, Backed
<1> QED
  BY <1>7, <1>8, <1>10 DEF EvidenceInv

\* Views are only added, each of them as the candidate stands.
LEMMA ViewsGrow ==
  ASSUME EvidenceInv, NEW more \in Seq(ViewRows), views' = views \o more, Len(views) + Len(more) <= MaxViews,
         \A i \in 1 .. Len(more) : more[i].index = 1 =>
             more[i].at = shown[more[i].of].version /\ more[i].page = Primary(shown[more[i].of]),
         UNCHANGED <<shown, aged, taken>>
  PROVE  EvidenceInv'
<1>1. views \in Seq(ViewRows) /\ shown \in [Cited -> ShownRows]
  BY DEF EvidenceInv, EvidenceTyped
<1>2. /\ views' \in Seq(ViewRows) /\ Len(views') = Len(views) + Len(more)
      /\ Len(views) \in Nat /\ Len(more) \in Nat
      /\ \A i \in 1 .. Len(views) : views'[i] = views[i]
      /\ \A i \in Len(views) + 1 .. Len(views) + Len(more) : i - Len(views) \in 1 .. Len(more) /\ views'[i] = more[i - Len(views)]
  <2>1. Len(views) \in Nat /\ Len(more) \in Nat
    BY <1>1
  <2> QED
    BY <1>1, <2>1, ConcatProperties
<1>3. EvidenceTyped'
  BY <1>2 DEF EvidenceInv, EvidenceTyped
<1>4. ViewsAsShown'
  <2> SUFFICES ASSUME NEW v \in 1 .. Len(views'), views'[v].index = 1
               PROVE  /\ views'[v].at <= shown[views'[v].of].version
                      /\ views'[v].at = shown[views'[v].of].version => views'[v].page = Primary(shown[views'[v].of])
    BY DEF ViewsAsShown, Primary, EvidenceOf
  <2>1. CASE v \in 1 .. Len(views)
    BY <1>2, <2>1 DEF EvidenceInv, ViewsAsShown
  <2>2. CASE v \in Len(views) + 1 .. Len(views) + Len(more)
    <3>1. PICK i \in 1 .. Len(more) : views'[v] = more[i]
      BY <1>2, <2>2
    <3>2. more[i] \in ViewRows
      BY ElementOfSeq
    <3>3. shown[more[i].of].version \in Nat
      BY <1>1, <3>2 DEF ViewRows, ShownRows
    <3> QED
      BY <3>1, <3>3
  <2> QED
    BY <1>2, <2>1, <2>2
<1>5. EachRests'
  <2> SUFFICES ASSUME NEW n \in 1 .. Len(taken), taken[n].outcome # "rejected"
               PROVE  \E v \in taken[n].cites : RestsOn(taken[n], v)'
    BY DEF EachRests
  <2>1. PICK v \in taken[n].cites : RestsOn(taken[n], v)
    BY DEF EvidenceInv, EachRests
  <2>2. RestsOn(taken[n], v)'
    BY <1>2, <2>1 DEF RestsOn
  <2> QED
    BY <2>2
<1>6. EachBacked'
  BY DEF EvidenceInv, EachBacked, Backed, StandingOn, Earlier
<1> QED
  BY <1>3, <1>4, <1>5, <1>6 DEF EvidenceInv

LEMMA ViewAsItStands ==
  ASSUME EvidenceInv, NEW a \in Viewers, NEW c \in Cited, NEW i \in {1, 2}, i \in DOMAIN EvidenceOf(shown[c])
  PROVE  /\ View(a, c, i) \in ViewRows /\ View(a, c, i).of = c /\ View(a, c, i).index = i
         /\ View(a, c, i).at = shown[c].version
         /\ i = 1 => View(a, c, i).page = Primary(shown[c])
<1>1. shown[c] \in ShownRows
  BY DEF EvidenceInv, EvidenceTyped
<1>2. EvidenceOf(shown[c])[i] \in Pages /\ Primary(shown[c]) = EvidenceOf(shown[c])[1] /\ shown[c].version \in Nat
  BY <1>1, EvidenceOfRow, CitationPages DEF ShownRows
<1> QED
  BY <1>2 DEF View, ViewRows

LEMMA ShowEvidenceKeeps ==
  ASSUME EvidenceInv, NEW a \in Viewers, NEW c \in Cited, NEW i \in {1, 2}, ShowEvidence(a, c, i) PROVE EvidenceInv'
<1> DEFINE x == View(a, c, i)
<1>1. x \in ViewRows /\ x.of = c /\ x.index = i /\ x.at = shown[c].version /\ (i = 1 => x.page = Primary(shown[c]))
  BY ViewAsItStands DEF ShowEvidence
<1>2. views' = Append(views, x) /\ Len(views) < MaxViews /\ UNCHANGED <<shown, aged, taken>>
  BY DEF ShowEvidence
<1> HIDE DEF x
<1>3. views \in Seq(ViewRows) /\ Len(views) \in Nat /\ MaxViews \in Nat
  BY EvidenceAssumption DEF EvidenceInv, EvidenceTyped, EvidenceAssumption
<1>4. views' = views \o <<x>>
  BY <1>1, <1>2, <1>3, AppendIsConcat
<1> DEFINE more == <<x>>
<1>5. more \in Seq(ViewRows) /\ Len(more) = 1 /\ \A k \in 1 .. Len(more) : more[k] = x
  BY <1>1
<1>6. views' = views \o more
  BY <1>4
<1> HIDE DEF more
<1>7. Len(views) + Len(more) <= MaxViews
  BY <1>2, <1>3, <1>5
<1>8. \A k \in 1 .. Len(more) : more[k].index = 1 =>
         more[k].at = shown[more[k].of].version /\ more[k].page = Primary(shown[more[k].of])
  BY <1>1, <1>5
<1> QED
  BY <1>2, <1>5, <1>6, <1>7, <1>8, ViewsGrow

\* A set's sequence is one of its elements.
LEMMA SequenceOfSet == ASSUME NEW S, IsFiniteSet(S) PROVE SetToSeq(S) \in Seq(S)
<1>1. Cardinality(S) \in Nat /\ ExistsBijection(1 .. Cardinality(S), S)
  BY FS_CardinalityType
<1>2. \E f \in [1 .. Cardinality(S) -> S] : IsInjective(f)
  BY <1>1 DEF ExistsBijection, Bijection, Injection
<1>3. SetToSeq(S) \in [1 .. Cardinality(S) -> S]
  BY <1>2 DEF SetToSeq
<1> QED
  BY <1>1, <1>3, SeqDef

LEMMA ShowPageKeeps ==
  ASSUME EvidenceInv, NEW a \in Viewers, NEW p \in Pages, NEW S \in SUBSET Cited, ShowPage(a, p, S) PROVE EvidenceInv'
<1> DEFINE block == SetToSeq(OnPage(S, p))
           one(c) == [View(a, c, 1) EXCEPT !.page = p]
           more == [n \in DOMAIN block |-> one(block[n])]
<1>1. IsFiniteSet(OnPage(S, p)) /\ OnPage(S, p) \subseteq Cited
  BY EvidenceAssumption, FS_Subset DEF OnPage, EvidenceAssumption
<1>2. block \in Seq(OnPage(S, p))
  BY <1>1, SequenceOfSet
<1>3. views' = views \o more /\ Len(views) + Len(block) <= MaxViews /\ UNCHANGED <<shown, aged, taken>>
  BY DEF ShowPage
<1> HIDE DEF block
<1>4. Len(block) \in Nat /\ DOMAIN block = 1 .. Len(block) /\ \A n \in 1 .. Len(block) : block[n] \in OnPage(S, p)
  BY <1>2
<1>5. ASSUME NEW c \in OnPage(S, p)
      PROVE  one(c) \in ViewRows /\ one(c).at = shown[one(c).of].version /\ one(c).page = Primary(shown[one(c).of])
  <2>1. c \in Cited /\ Primary(shown[c]) = p
    BY <1>5 DEF OnPage
  <2>2. 1 \in DOMAIN EvidenceOf(shown[c])
    BY <2>1, EvidenceOfRow, CitationPages DEF EvidenceInv, EvidenceTyped
  <2>3. View(a, c, 1) \in ViewRows /\ View(a, c, 1).of = c /\ View(a, c, 1).at = shown[c].version
    BY <2>1, <2>2, ViewAsItStands
  <2>4. one(c) \in ViewRows /\ one(c).of = c /\ one(c).at = shown[c].version /\ one(c).page = p
    BY <2>3 DEF ViewRows
  <2> HIDE DEF one
  <2> QED
    BY <2>1, <2>4
<1> HIDE DEF one
<1>6. more = [n \in 1 .. Len(block) |-> one(block[n])]
  BY <1>4
<1>7. more \in Seq(ViewRows) /\ Len(more) = Len(block)
  BY <1>4, <1>5, <1>6
<1>8. \A n \in 1 .. Len(more) : more[n].at = shown[more[n].of].version /\ more[n].page = Primary(shown[more[n].of])
  <2> SUFFICES ASSUME NEW n \in 1 .. Len(more)
               PROVE  more[n].at = shown[more[n].of].version /\ more[n].page = Primary(shown[more[n].of])
    OBVIOUS
  <2>1. PICK c \in OnPage(S, p) : more[n] = one(c)
    BY <1>4, <1>6, <1>7
  <2> QED
    BY <2>1, <1>5
<1> HIDE DEF more
<1> QED
  BY <1>3, <1>7, <1>8, ViewsGrow

LEMMA AgeKeeps == ASSUME EvidenceInv, ViewsAge PROVE EvidenceInv'
<1>1. EvidenceTyped'
  <2>1. Len(views) \in Nat
    BY DEF EvidenceInv, EvidenceTyped
  <2> QED
    BY <2>1 DEF EvidenceInv, EvidenceTyped, ViewsAge
<1> QED
  BY <1>1 DEF EvidenceInv, ViewsAge, ViewsAsShown, EachRests, RestsOn, EachBacked, Backed, StandingOn, Earlier, Primary, EvidenceOf

\* What undoing or taking a decision leaves of the history's parts.
LEMMA RowsMove ==
  ASSUME EvidenceInv, NEW c \in Cited, NEW row \in ShownRows, shown' = [shown EXCEPT ![c] = row],
         row.version = shown[c].version + 1, UNCHANGED <<views, aged>>
  PROVE  shown' \in [Cited -> ShownRows] /\ ViewsAsShown'
<1>1. shown \in [Cited -> ShownRows] /\ views \in Seq(ViewRows)
  BY DEF EvidenceInv, EvidenceTyped
<1>2. shown' \in [Cited -> ShownRows] /\ \A k \in Cited : shown'[k] = IF k = c THEN row ELSE shown[k]
  BY <1>1
<1>3. ViewsAsShown'
  <2> SUFFICES ASSUME NEW v \in 1 .. Len(views), views[v].index = 1
               PROVE  /\ views[v].at <= shown'[views[v].of].version
                      /\ views[v].at = shown'[views[v].of].version => views[v].page = Primary(shown'[views[v].of])
    BY DEF ViewsAsShown, Primary, EvidenceOf
  <2>1. /\ views[v] \in ViewRows /\ views[v].at <= shown[views[v].of].version
        /\ views[v].at = shown[views[v].of].version => views[v].page = Primary(shown[views[v].of])
    BY <1>1, ElementOfSeq DEF EvidenceInv, ViewsAsShown
  <2>2. views[v].of \in Cited /\ views[v].at \in Nat /\ shown[c].version \in Nat
    BY <1>1, <2>1 DEF ViewRows, ShownRows
  <2> QED
    BY <1>2, <2>1, <2>2
<1> QED
  BY <1>2, <1>3

LEMMA TakeKeeps ==
  ASSUME EvidenceInv, NEW a \in Viewers, NEW c \in Cited, NEW outcome \in {"approved", "corrected", "rejected"},
         NEW V \in SUBSET (1 .. Len(views)), NEW reviewed \in Citations \cup {<<>>},
         outcome # "rejected" => V \in ViewsCited(a, c), TakeDecision(a, c, outcome, V, reviewed)
  PROVE  EvidenceInv'
<1>1. /\ shown \in [Cited -> ShownRows] /\ views \in Seq(ViewRows) /\ taken \in Seq(TakenRows) /\ shown[c] \in ShownRows
      /\ Len(views) \in Nat /\ Len(taken) \in Nat
  BY DEF EvidenceInv, EvidenceTyped
<1> DEFINE waits == Waits(c, outcome)
           with == [shown[c] EXCEPT !.reviewed = reviewed]
           row == AfterTaking(with, a, outcome, waits)
           d == Taken(a, c, outcome, V)
<1>2. /\ shown' = [shown EXCEPT ![c] = row] /\ taken' = Append(taken, d) /\ UNCHANGED <<views, aged>>
      /\ Len(taken) < MaxTaken /\ Undecided(c) /\ ByAnother(a, c)
  BY DEF TakeDecision
<1>3. with \in ShownRows /\ with.version = shown[c].version
  BY <1>1 DEF ShownRows
<1>4. /\ row \in ShownRows /\ row.version = shown[c].version + 1
      /\ row.status = (IF waits THEN "awaiting_second_review" ELSE outcome) /\ (waits => row.first = a)
  <2> HIDE DEF with, waits
  <2> DEFINE first == IF waits THEN a ELSE with.first
             status == IF waits THEN "awaiting_second_review" ELSE outcome
             version == with.version + 1
  <2>v. version \in Nat /\ version = shown[c].version + 1
    <3>1. shown[c].version \in Nat
      BY <1>1 DEF ShownRows
    <3> QED
      BY <3>1, <1>3
  <2>1. first \in Viewers \cup {""} /\ status \in Statuses /\ (waits => first = a)
    BY <1>3 DEF ShownRows, Statuses
  <2>2. row = [with EXCEPT !.status = status, !.first = first, !.version = version]
    BY DEF AfterTaking
  <2> HIDE DEF first, row, version
  <2>3. row \in ShownRows /\ row.version = shown[c].version + 1 /\ row.status = status /\ row.first = first
    <3> HIDE DEF status
    <3> QED
      BY <1>3, <2>1, <2>2, <2>v DEF ShownRows
  <2> QED
    BY <2>1, <2>3
<1>5. EvidenceOf(shown[c]) \in Citations /\ Primary(shown[c]) = EvidenceOf(shown[c])[1] /\ shown[c].version \in Nat
  BY <1>1, EvidenceOfRow DEF ShownRows
<1>6. /\ d \in TakenRows /\ d.of = c /\ d.by = a /\ d.outcome = outcome /\ d.cites = V /\ d.before = shown[c] /\ d.undone = FALSE
      /\ d.version = shown[c].version /\ d.on[1] = Primary(shown[c])
  BY <1>1, <1>5 DEF Taken, TakenRows
<1> HIDE DEF with, row, d
<1>7. /\ taken' \in Seq(TakenRows) /\ Len(taken') = Len(taken) + 1 /\ taken'[Len(taken) + 1] = d
      /\ \A n \in 1 .. Len(taken) : taken'[n] = taken[n]
  BY <1>1, <1>2, <1>6, AppendProperties
<1>8. shown' \in [Cited -> ShownRows] /\ ViewsAsShown'
  BY <1>2, <1>4, RowsMove
<1>9. EvidenceTyped'
  BY <1>2, <1>7, <1>8, EvidenceAssumption DEF EvidenceInv, EvidenceTyped, EvidenceAssumption
<1>10. EachRests'
  <2> SUFFICES ASSUME NEW n \in 1 .. Len(taken'), taken'[n].outcome # "rejected"
               PROVE  \E v \in taken'[n].cites :
                         /\ v \in 1 .. Len(views) /\ views[v].index = 1 /\ views[v].viewer = taken'[n].by /\ views[v].of = taken'[n].of
                         /\ views[v].at = taken'[n].version => views[v].page = taken'[n].on[1]
    BY <1>2 DEF EachRests, RestsOn
  <2>1. CASE n \in 1 .. Len(taken)
    <3>1. taken'[n] = taken[n]
      BY <1>7, <2>1
    <3> QED
      BY <2>1, <3>1 DEF EvidenceInv, EachRests, RestsOn
  <2>2. CASE n = Len(taken) + 1
    <3>1. taken'[n] = d /\ outcome # "rejected"
      BY <1>6, <1>7, <2>2
    <3>2. PICK v \in V : views[v].index = 1 /\ v \in OwnViews(a, c)
      BY <3>1 DEF ViewsCited
    <3>3. v \in 1 .. Len(views) /\ views[v].of = c /\ views[v].viewer = a
      BY <3>2, <1>1 DEF OwnViews
    <3>4. views[v].at = shown[c].version => views[v].page = Primary(shown[c])
      BY <3>2, <3>3 DEF EvidenceInv, ViewsAsShown
    <3> QED
      BY <1>6, <3>1, <3>2, <3>3, <3>4
  <2> QED
    BY <1>1, <1>7, <2>1, <2>2
<1>n. PICK new \in Nat : new = Len(taken) + 1
  BY <1>1
<1>11. \A k \in Cited : /\ k # c => StandingOn(k)' = StandingOn(k)
                        /\ StandingOn(c)' = StandingOn(c) \cup {new}
                        /\ StandingOn(k) \subseteq 1 .. Len(taken)
  <2>1. DOMAIN taken = 1 .. Len(taken) /\ DOMAIN taken' = 1 .. Len(taken) + 1
    BY <1>1, <1>7
  <2> QED
    BY <1>n, <1>1, <1>6, <1>7, <2>1 DEF StandingOn
<1>12. \A k \in TwoRounds : k \in Cited
  BY EvidenceAssumption DEF EvidenceAssumption
<1>13. ASSUME NEW k \in TwoRounds, NEW n \in StandingOn(k) PROVE Backed(taken[n].before, Earlier(k, n))'
  <2>1. /\ Backed(taken[n].before, Earlier(k, n)) /\ n \in 1 .. Len(taken) /\ taken'[n] = taken[n]
        /\ Earlier(k, n) \subseteq 1 .. Len(taken)
    BY <1>7, <1>11, <1>12 DEF EvidenceInv, EachBacked, Earlier
  <2>2. Earlier(k, n)' = Earlier(k, n)
    BY <1>n, <1>1, <1>11, <1>12, <2>1 DEF Earlier
  <2> QED
    BY <1>7, <2>1, <2>2 DEF Backed
<1>14. ASSUME NEW k \in TwoRounds, k # c PROVE Backed(shown[k], StandingOn(k))'
  <2>1. shown'[k] = shown[k] /\ StandingOn(k)' = StandingOn(k) /\ Backed(shown[k], StandingOn(k)) /\ StandingOn(k) \subseteq 1 .. Len(taken)
    BY <1>1, <1>2, <1>11, <1>12, <1>14 DEF EvidenceInv, EachBacked
  <2> QED
    BY <1>7, <2>1 DEF Backed
<1>15. ASSUME c \in TwoRounds PROVE Backed(shown[c], StandingOn(c))' /\ Backed(taken[new].before, Earlier(c, new))'
  <2>1. /\ Backed(shown[c], StandingOn(c)) /\ StandingOn(c) \subseteq 1 .. Len(taken) /\ StandingOn(c)' = StandingOn(c) \cup {new}
        /\ taken'[new] = d /\ shown'[c] = row
    BY <1>n, <1>1, <1>2, <1>7, <1>11, <1>15 DEF EvidenceInv, EachBacked
  <2>2. Earlier(c, new)' = StandingOn(c)
    BY <1>n, <1>1, <2>1 DEF Earlier
  <2>3. Backed(taken[new].before, Earlier(c, new))'
    BY <1>n, <1>6, <1>7, <2>1, <2>2 DEF Backed
  <2>4. \A n \in StandingOn(c) : taken'[n] = taken[n]
    BY <1>7, <2>1
  <2>5. CASE waits
    BY <1>4, <1>6, <2>1, <2>5 DEF Backed, Waits
  <2>6. CASE ~waits /\ outcome # "rejected"
    <3>1. shown[c].status = "awaiting_second_review" /\ shown[c].first # a
      BY <1>2, <1>15, <2>6 DEF Waits, Undecided, ByAnother
    <3>2. PICK m \in StandingOn(c) : taken[m].by = shown[c].first /\ taken[m].outcome # "rejected"
      BY <2>1, <3>1 DEF Backed
    <3>3. taken'[m] = taken[m] /\ m \in StandingOn(c)' /\ new \in StandingOn(c)'
      BY <2>1, <2>4
    <3> QED
      BY <1>4, <1>6, <2>1, <2>3, <2>6, <3>1, <3>2, <3>3 DEF Backed
  <2>7. CASE ~waits /\ outcome = "rejected"
    BY <1>4, <2>1, <2>3, <2>7 DEF Backed
  <2> QED
    BY <2>3, <2>5, <2>6, <2>7
<1>16. EachBacked'
  <2> SUFFICES ASSUME NEW k \in TwoRounds
               PROVE  Backed(shown[k], StandingOn(k))' /\ \A n \in StandingOn(k)' : Backed(taken[n].before, Earlier(k, n))'
    BY DEF EachBacked
  <2>1. CASE k # c
    BY <1>11, <1>12, <1>13, <1>14, <2>1
  <2>2. CASE k = c
    BY <1>11, <1>12, <1>13, <1>15, <2>2
  <2> QED
    BY <2>1, <2>2
<1> QED
  BY <1>8, <1>9, <1>10, <1>16 DEF EvidenceInv

LEMMA UndoKeeps == ASSUME EvidenceInv, NEW a \in Viewers, NEW n \in DOMAIN taken, UndoTaken(a, n) PROVE EvidenceInv'
<1>1. /\ shown \in [Cited -> ShownRows] /\ views \in Seq(ViewRows) /\ taken \in Seq(TakenRows)
      /\ Len(taken) \in Nat /\ DOMAIN taken = 1 .. Len(taken)
  BY DEF EvidenceInv, EvidenceTyped
<1>2. n \in 1 .. Len(taken) /\ taken[n] \in TakenRows
  BY <1>1, ElementOfSeq
<1>3. PICK c \in Cited : c = taken[n].of
  BY <1>2 DEF TakenRows
<1> DEFINE version == shown[c].version + 1
           row == [taken[n].before EXCEPT !.version = version]
           d == [taken[n] EXCEPT !.undone = TRUE]
<1>4. /\ shown' = [shown EXCEPT ![c] = row] /\ taken' = [taken EXCEPT ![n] = d] /\ UNCHANGED <<views, aged>>
      /\ n \in StandingOn(c) /\ \A m \in StandingOn(c) : m <= n
  BY <1>3 DEF UndoTaken
<1>5. shown[c].version \in Nat /\ taken[n].before \in ShownRows
  BY <1>1, <1>2 DEF ShownRows, TakenRows
<1>v. version \in Nat /\ version = shown[c].version + 1
  BY <1>5
<1> HIDE DEF version
<1>6. row \in ShownRows /\ row.version = version /\ row.status = taken[n].before.status /\ row.first = taken[n].before.first
  BY <1>5, <1>v DEF ShownRows
<1>7. /\ d \in TakenRows /\ d.of = c /\ d.by = taken[n].by /\ d.outcome = taken[n].outcome /\ d.cites = taken[n].cites
      /\ d.before = taken[n].before /\ d.undone = TRUE /\ d.version = taken[n].version /\ d.on = taken[n].on
  BY <1>2, <1>3 DEF TakenRows
<1> HIDE DEF row, d
<1>8. /\ taken' \in Seq(TakenRows) /\ Len(taken') = Len(taken) /\ DOMAIN taken' = 1 .. Len(taken)
      /\ \A m \in 1 .. Len(taken) : taken'[m] = IF m = n THEN d ELSE taken[m]
  BY <1>1, <1>2, <1>4, <1>7, ExceptSeq
<1>9. \A m \in 1 .. Len(taken) :
         /\ taken'[m].of = taken[m].of /\ taken'[m].by = taken[m].by /\ taken'[m].outcome = taken[m].outcome
         /\ taken'[m].cites = taken[m].cites /\ taken'[m].before = taken[m].before
         /\ taken'[m].version = taken[m].version /\ taken'[m].on = taken[m].on
  BY <1>3, <1>7, <1>8
<1>10. shown' \in [Cited -> ShownRows] /\ ViewsAsShown'
  BY <1>4, <1>6, <1>v, RowsMove
<1>11. EvidenceTyped'
  BY <1>4, <1>8, <1>10 DEF EvidenceInv, EvidenceTyped
<1>12. EachRests'
  <2> SUFFICES ASSUME NEW m \in 1 .. Len(taken), taken[m].outcome # "rejected"
               PROVE  \E v \in taken[m].cites :
                         /\ v \in 1 .. Len(views) /\ views[v].index = 1 /\ views[v].viewer = taken[m].by /\ views[v].of = taken[m].of
                         /\ views[v].at = taken[m].version => views[v].page = taken[m].on[1]
    BY <1>4, <1>8, <1>9 DEF EachRests, RestsOn
  <2> QED
    BY DEF EvidenceInv, EachRests, RestsOn
<1>13. \A k \in Cited : /\ k # c => StandingOn(k)' = StandingOn(k)
                        /\ StandingOn(c)' = StandingOn(c) \ {n}
                        /\ StandingOn(k) \subseteq 1 .. Len(taken)
  BY <1>1, <1>3, <1>7, <1>8 DEF StandingOn
<1>14. StandingOn(c)' = Earlier(c, n)
  BY <1>1, <1>2, <1>4, <1>13 DEF Earlier
<1>15. \A k \in TwoRounds : k \in Cited
  BY EvidenceAssumption DEF EvidenceAssumption
<1>16. ASSUME NEW k \in TwoRounds, NEW m \in StandingOn(k)' PROVE Backed(taken[m].before, Earlier(k, m))'
  <2>1. m \in StandingOn(k) /\ m \in 1 .. Len(taken) /\ Earlier(k, m) \subseteq 1 .. Len(taken) /\ Backed(taken[m].before, Earlier(k, m))
    BY <1>13, <1>15 DEF EvidenceInv, EachBacked, Earlier
  <2>2. Earlier(k, m)' = Earlier(k, m)
    <3>1. CASE k # c
      BY <1>13, <1>15, <3>1 DEF Earlier
    <3>2. CASE k = c
      <4>1. m <= n /\ m \in Nat /\ n \in Nat
        BY <1>1, <1>2, <1>4, <2>1, <3>2
      <4> QED
        BY <1>13, <1>15, <3>2, <4>1 DEF Earlier
    <3> QED
      BY <3>1, <3>2
  <2> QED
    BY <1>9, <2>1, <2>2 DEF Backed
<1>17. ASSUME NEW k \in TwoRounds PROVE Backed(shown[k], StandingOn(k))'
  <2>1. CASE k # c
    <3>1. shown'[k] = shown[k] /\ StandingOn(k)' = StandingOn(k) /\ Backed(shown[k], StandingOn(k)) /\ StandingOn(k) \subseteq 1 .. Len(taken)
      BY <1>1, <1>4, <1>13, <1>15, <2>1 DEF EvidenceInv, EachBacked
    <3> QED
      BY <1>9, <3>1 DEF Backed
  <2>2. CASE k = c
    <3>1. shown'[c] = row /\ Backed(taken[n].before, Earlier(c, n)) /\ Earlier(c, n) \subseteq 1 .. Len(taken)
      BY <1>1, <1>4, <1>13, <2>2 DEF EvidenceInv, EachBacked, Earlier
    <3> QED
      BY <1>6, <1>9, <1>14, <2>2, <3>1 DEF Backed
  <2> QED
    BY <2>1, <2>2
<1>18. EachBacked'
  BY <1>16, <1>17 DEF EachBacked
<1> QED
  BY <1>10, <1>11, <1>12, <1>18 DEF EvidenceInv

LEMMA StepKeepsEvidence == EvidenceInv /\ [EvidenceNext]_evidenceVars => EvidenceInv'
<1> SUFFICES ASSUME EvidenceInv, [EvidenceNext]_evidenceVars PROVE EvidenceInv'
  OBVIOUS
<1>r. ASSUME NEW c \in Cited PROVE shown[c].reviewed \in Citations \cup {<<>>}
  BY DEF EvidenceInv, EvidenceTyped, ShownRows
<1>v. ASSUME NEW a \in Viewers, NEW c \in Cited, NEW V \in ViewsCited(a, c) PROVE V \in SUBSET (1 .. Len(views))
  BY DEF ViewsCited, OwnViews, EvidenceInv, EvidenceTyped
<1>1. ASSUME NEW a \in Viewers, NEW c \in Cited, Approve(a, c) PROVE EvidenceInv'
  <2>1. PICK V \in ViewsCited(a, c) : TakeDecision(a, c, "approved", V, shown[c].reviewed)
    BY <1>1 DEF Approve
  <2> QED
    BY <1>r, <1>v, <2>1, TakeKeeps
<1>2. ASSUME NEW a \in Viewers, NEW c \in Cited, Correct(a, c) PROVE EvidenceInv'
  <2>1. PICK V \in ViewsCited(a, c), e \in Citations : TakeDecision(a, c, "corrected", V, e)
    BY <1>2 DEF Correct
  <2> QED
    BY <1>v, <2>1, TakeKeeps
<1>3. ASSUME NEW a \in Viewers, NEW c \in Cited, Reject(a, c) PROVE EvidenceInv'
  BY <1>r, <1>3, TakeKeeps DEF Reject
<1>4. CASE UNCHANGED evidenceVars
  BY <1>4 DEF evidenceVars, EvidenceInv, EvidenceTyped, ViewsAsShown, EachRests, RestsOn, EachBacked, Backed, StandingOn,
              Earlier, Primary, EvidenceOf
<1>5. ASSUME ViewsAge PROVE EvidenceInv'
  BY <1>5, AgeKeeps
<1>6. ASSUME NEW a \in Viewers, NEW c \in Cited, NEW i \in {1, 2}, ShowEvidence(a, c, i) PROVE EvidenceInv'
  BY <1>6, ShowEvidenceKeeps
<1>7. ASSUME NEW a \in Viewers, NEW p \in Pages, NEW S \in SUBSET Cited, ShowPage(a, p, S) PROVE EvidenceInv'
  BY <1>7, ShowPageKeeps
<1>8. ASSUME NEW a \in Viewers, NEW n \in DOMAIN taken, UndoTaken(a, n) PROVE EvidenceInv'
  BY <1>8, UndoKeeps
<1> QED
  BY <1>1, <1>2, <1>3, <1>4, <1>5, <1>6, <1>7, <1>8 DEF EvidenceNext

LEMMA InvariantHoldsEvidence == EvidenceInv => EvidenceHolds
<1> SUFFICES ASSUME EvidenceInv PROVE EvidenceHolds
  OBVIOUS
<1>1. /\ shown \in [Cited -> ShownRows] /\ views \in Seq(ViewRows) /\ taken \in Seq(TakenRows)
      /\ DOMAIN taken = 1 .. Len(taken) /\ DOMAIN views = 1 .. Len(views)
  BY DEF EvidenceInv, EvidenceTyped
<1>2. EvidenceTypeOK
  <2>1. \A v \in DOMAIN views : views[v] \in ViewRows
    BY <1>1, ElementOfSeq
  <2>2. \A c \in Cited : shown[c] \in ShownRows /\ EvidenceOf(shown[c]) \in Citations
    BY <1>1, EvidenceOfRow
  <2> QED
    BY <2>1, <2>2 DEF EvidenceInv, EvidenceTyped, EvidenceTypeOK, ViewRows, ShownRows, Statuses
<1>3. ShownUnlessReselected
  BY <1>1 DEF EvidenceInv, EachRests, RestsOn, ShownUnlessReselected
<1>4. TwoWereShown
  <2> SUFFICES ASSUME NEW c \in TwoRounds, shown[c].status \in {"approved", "corrected"}
               PROVE  \E n, m \in StandingOn(c) :
                         /\ taken[n].by # taken[m].by
                         /\ \A d \in {n, m} : \E v \in taken[d].cites : views[v].viewer = taken[d].by /\ views[v].index = 1
    BY DEF TwoWereShown
  <2>1. PICK n, m \in StandingOn(c) : /\ taken[n].by # taken[m].by
                                      /\ taken[n].outcome # "rejected" /\ taken[m].outcome # "rejected"
    BY DEF EvidenceInv, EachBacked, Backed
  <2>2. \A d \in {n, m} : d \in 1 .. Len(taken) /\ taken[d].outcome # "rejected"
    BY <1>1, <2>1 DEF StandingOn
  <2>3. \A d \in {n, m} : \E v \in taken[d].cites : views[v].viewer = taken[d].by /\ views[v].index = 1
    BY <2>2 DEF EvidenceInv, EachRests, RestsOn
  <2> QED
    BY <2>1, <2>3
<1> QED
  BY <1>2, <1>3, <1>4 DEF EvidenceHolds

\* Decisions rest on what the deciding reviewers were shown, and a candidate of two rounds is
\* settled on what two were, however often decisions are undone (decide, _check_views, undo).
THEOREM EvidenceIsShown == EvidenceSpec => []EvidenceHolds
<1>1. EvidenceSpec => []EvidenceInv
  BY InitEstablishesEvidence, StepKeepsEvidence, PTL DEF EvidenceSpec
<1> QED
  BY <1>1, InvariantHoldsEvidence, PTL
=============================================================================
