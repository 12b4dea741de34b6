----------------------------- MODULE ReviewProofs -----------------------------
(***************************************************************************)
(* The review of a source and its releases, for any items, values,         *)
(* reviewers, readings, decisions and releases.                            *)
(*                                                                         *)
(* What holds of any requests, overlapping or not (SharedInv): a decision  *)
(* keeps the rules of its round (Lawful); a row that is deleted is never   *)
(* inserted again, since a re-reading makes rows of a new reading          *)
(* (Readings); and whoever is a first reviewer took a first decision       *)
(* (FirstsStand).                                                          *)
(*                                                                         *)
(* What holds when requests do not overlap: what a request has read and a  *)
(* reviewer has on screen is so, or its version is old (Sight); and each   *)
(* standing decision of a row was taken on what the one before it left, so *)
(* undoing the latest one gives the row back to the one before (Story).    *)
(* The validation and the re-reading run beside the requests in both.      *)
(***************************************************************************)
EXTENDS Publication, TLAPS

Candidates == [status : Status, read : Values \cup {NoValue}, reviewed : Values \cup {NoValue}, by : Reviewers \cup {NoOne},
               first : Reviewers \cup {NoOne}, second : {"not_required", "pending", "done"}, version : Nat, count : Nat,
               blocked : BOOLEAN, release : 0 .. MaxReleases]

Decided == [row : Row, seq : Nat \ {0}, by : Reviewers, outcome : Outcomes, round : {1, 2}, shows : Snapshots,
            before : Snapshots, after : Snapshots, undone : BOOLEAN]

Deciding == [kind : {"decide"}, row : Row, outcome : Outcomes, value : Values \cup {NoValue}, old : Candidates, shows : Snapshots]
Undoing == [kind : {"undo"}, decision : Decided, old : Candidates]

RequestTyped(q) == q = NoRequest \/ q \in Deciding \/ q \in Undoing \/ (q.kind = "publish" /\ q.new \subseteq Row)

ScreenTyped(p) ==
    \/ p.page \in {"none", "preview"}
    \/ p.page = "candidate" /\ p.row \in Row /\ p.version \in Nat /\ p.shows \in Snapshots

Typed ==
    /\ rows \in [Row -> Candidates] /\ decisions \subseteq Decided
    /\ tx = [a \in Reviewers |-> tx[a]] /\ screen = [a \in Reviewers |-> screen[a]]
    /\ \A a \in Reviewers : RequestTyped(tx[a]) /\ ScreenTyped(screen[a])

\* The rules of a decision's round, of what it found and of what it left.
Lawful(d) ==
    /\ d.before.status \in Open /\ (d.round = 2 <=> d.before.status = "awaiting_second_review")
    /\ d.round = 2 => d.before.first # d.by
    /\ d.after.status = "awaiting_second_review" => d.round = 1 /\ d.after.first = d.by
    /\ d.round = 1 /\ d.after.status \in Finals => ~NeedsSecond(ItemOf(d.row), d.outcome)

Lawfulness ==
    /\ \A d \in decisions : Lawful(d) /\ Exists(d.row)
    /\ \A a \in Reviewers :
          /\ tx[a].kind = "decide" => tx[a].old.status \in Open /\ DifferentReviewer(a, tx[a].old)
          /\ tx[a].kind = "undo" => Lawful(tx[a].decision)

\* Somebody has row r on screen, in a request or in the history.
Named(r) ==
    \/ \E d \in decisions : d.row = r
    \/ \E a \in Reviewers :
          \/ tx[a].kind = "decide" /\ tx[a].row = r
          \/ tx[a].kind = "undo" /\ tx[a].decision.row = r
          \/ screen[a].page = "candidate" /\ screen[a].row = r
          \/ screen[a].page = "preview" /\ \E t \in screen[a].digest : t[1] = r

\* The last reading has all its rows, and nobody has heard of a later one.
Readings ==
    \E last \in 1 .. MaxReads : \A r \in Row :
        /\ r[2] > last => ~Exists(r) /\ ~Named(r)
        /\ r[2] = last => Exists(r)

FirstBy(r, x) == x # NoOne => \E d \in decisions : d.row = r /\ d.round = 1 /\ d.by = x

FirstsStand ==
    /\ \A r \in Row : FirstBy(r, rows[r].first)
    /\ \A d \in decisions : FirstBy(d.row, d.before.first)
    /\ \A a \in Reviewers :
          /\ tx[a].kind = "decide" /\ Exists(tx[a].row) => FirstBy(tx[a].row, tx[a].old.first)
          /\ tx[a].kind = "undo" /\ Exists(tx[a].decision.row) => FirstBy(tx[a].decision.row, tx[a].decision.before.first)

SharedInv == Typed /\ Lawfulness /\ Readings /\ FirstsStand

Sources == [state : {"awaiting_review", "published", "reading", "extracted"}, version : Nat]
FactsOf == [row : Row, value : Values, decision : SUBSET Nat]
Releases == [facts : SUBSET FactsOf, shows : SUBSET FactsOf, current : BOOLEAN]

\* A release copies facts about rows, each with a value.
Recorded ==
    /\ source \in Sources /\ job \in {"none", "queued", "running"}
    /\ releases \in Seq(Releases)
    /\ \A r \in Row : Exists(r) => rows[r].read \in Values
    /\ \A a \in Reviewers :
          /\ screen[a].page = "preview" => screen[a].facts \subseteq FactsOf
          /\ tx[a].kind = "publish" => /\ tx[a].facts \subseteq FactsOf /\ tx[a].shows \subseteq FactsOf
                                      /\ tx[a].source \in Sources

-----------------------------------------------------------------------------
(* One request at a time: the history of a row.                            *)

\* The review state of a row that nobody decided on.
Fresh == [status |-> "pending", reviewed |-> NoValue, by |-> NoOne, first |-> NoOne, second |-> "not_required"]

\* The row is as it was read, but for what the validation writes.
Same(c, old) ==
    /\ Snapshot(c) = Snapshot(old)
    /\ c.version = old.version /\ c.count = old.count /\ c.release = old.release

Reviewable == source.state \in {"awaiting_review", "published"}

\* What a request has read, and what a reviewer has on screen, is not stale.
Alone == \A a, b \in Reviewers : tx[a] # NoRequest /\ tx[b] # NoRequest => a = b

UpToDate == \A a \in Reviewers :
    /\ tx[a].kind = "decide" =>
          /\ Reviewable
          /\ Same(rows[tx[a].row], tx[a].old)
          /\ tx[a].shows = Snapshot(tx[a].old) /\ tx[a].old.release = 0
    /\ tx[a].kind = "undo" /\ Exists(tx[a].decision.row) =>
          /\ Same(rows[tx[a].decision.row], tx[a].old)
          /\ tx[a].decision \in LatestOf(tx[a].decision.row) /\ tx[a].old.release = 0

InSight == \A a \in Reviewers : screen[a].page = "candidate" /\ Exists(screen[a].row) =>
    /\ screen[a].version <= rows[screen[a].row].version
    /\ screen[a].version = rows[screen[a].row].version => screen[a].shows = Snapshot(rows[screen[a].row])

Sight == Alone /\ UpToDate /\ InSight

\* The decisions of a row are numbered, and each stands on the one before it.
Numbered == \A d \in decisions :
    /\ d.seq <= rows[d.row].count
    /\ \A e \in decisions : e.row = d.row /\ e.seq = d.seq => e = d

Founded(d) == d.before = Fresh /\ \A e \in Standing(d.row) : d.seq <= e.seq

Follows(d, e) == /\ e.seq < d.seq /\ d.before = e.after
                 /\ \A f \in Standing(d.row) : f.seq <= e.seq \/ d.seq <= f.seq

Chained == \A d \in decisions : ~d.undone => Founded(d) \/ \E e \in Standing(d.row) : Follows(d, e)

Ended == \A r \in Row : Exists(r) =>
    \/ Standing(r) = {} /\ Snapshot(rows[r]) = Fresh
    \/ \E d \in LatestOf(r) : Snapshot(rows[r]) = d.after

Story == Numbered /\ Chained /\ Ended /\ DecidedAsSeen

-----------------------------------------------------------------------------
(* What the operators of Review make of a candidate.                       *)
LEMMA SnapshotFields ==
  ASSUME NEW c \in Candidates
  PROVE  /\ Snapshot(c) \in Snapshots
         /\ Snapshot(c) = [status |-> c.status, reviewed |-> c.reviewed, by |-> c.by, first |-> c.first, second |-> c.second]
  BY DEF Snapshot, Snapshots, Candidates

LEMMA FlushedFields ==
  ASSUME NEW row \in Candidates, NEW old \in Candidates, NEW new \in Candidates
  PROVE  /\ Flushed(row, old, new) \in Candidates
         /\ Flushed(row, old, new).first = IF new.first = old.first THEN row.first ELSE new.first
         /\ Flushed(row, old, new).status = IF new.status = old.status THEN row.status ELSE new.status
         /\ Flushed(row, old, new).read = IF new.read = old.read THEN row.read ELSE new.read
  BY DEF Flushed, Candidates

LEMMA AfterDecisionFields ==
  ASSUME NEW old \in Candidates, NEW a \in Reviewers, NEW item \in Items, NEW outcome \in Outcomes,
         NEW value \in Values \cup {NoValue}
  PROVE  LET new == AfterDecision(old, a, item, outcome, value)
             waits == old.status # "awaiting_second_review" /\ NeedsSecond(item, outcome)
         IN /\ new \in Candidates
            /\ new.status = IF waits THEN "awaiting_second_review" ELSE FinalStatus[outcome]
            /\ new.first = IF waits THEN a ELSE old.first
            /\ new.count = old.count + 1 /\ new.version = old.version + 1
            /\ new.release = old.release /\ new.read = old.read /\ new.blocked = old.blocked
<1> DEFINE second == old.status = "awaiting_second_review"
           waits == ~second /\ NeedsSecond(item, outcome)
           status == IF waits THEN "awaiting_second_review" ELSE FinalStatus[outcome]
           done == IF waits THEN "pending" ELSE IF second THEN "done" ELSE old.second
           first == IF waits THEN a ELSE old.first
           reviewed == IF outcome = "correct" THEN value ELSE old.reviewed
           new == [old EXCEPT !.status = status, !.second = done, !.first = first, !.reviewed = reviewed,
                              !.by = a, !.count = old.count + 1, !.version = old.version + 1]
<1>1. FinalStatus[outcome] \in Status /\ "awaiting_second_review" \in Status
    BY ReviewAssumption DEF FinalStatus, Status, Finals, AllOutcomes, Open
<1>2. /\ status \in Status /\ done \in {"not_required", "pending", "done"}
      /\ first \in Reviewers \cup {NoOne} /\ reviewed \in Values \cup {NoValue}
      /\ old.count + 1 \in Nat /\ old.version + 1 \in Nat
    BY <1>1 DEF Candidates
<1>3. AfterDecision(old, a, item, outcome, value) = new
    BY DEF AfterDecision
<1>4. PICK s \in Status, t \in {"not_required", "pending", "done"}, f \in Reviewers \cup {NoOne},
           r \in Values \cup {NoValue}, n \in Nat, v \in Nat :
        s = status /\ t = done /\ f = first /\ r = reviewed /\ n = old.count + 1 /\ v = old.version + 1
    BY <1>2
<1>5. AfterDecision(old, a, item, outcome, value) =
          [old EXCEPT !.status = s, !.second = t, !.first = f, !.reviewed = r, !.by = a, !.count = n, !.version = v]
    BY <1>3, <1>4
<1> DEFINE plain == [old EXCEPT !.status = s, !.second = t, !.first = f, !.reviewed = r, !.by = a, !.count = n, !.version = v]
<1>6. /\ plain \in Candidates /\ plain.status = s /\ plain.first = f /\ plain.count = n /\ plain.version = v
      /\ plain.release = old.release /\ plain.read = old.read /\ plain.blocked = old.blocked
    BY DEF Candidates
<1> HIDE DEF plain
<1>7. QED
    BY <1>4, <1>5, <1>6 DEF plain

LEMMA RestoredFields ==
  ASSUME NEW old \in Candidates, NEW s \in Snapshots
  PROVE  /\ Restored(old, s) \in Candidates
         /\ Snapshot(Restored(old, s)) = s
         /\ Restored(old, s).version = old.version + 1
         /\ Restored(old, s).count = old.count /\ Restored(old, s).read = old.read
         /\ Restored(old, s).release = old.release /\ Restored(old, s).blocked = old.blocked
  BY DEF Restored, Candidates, Snapshots, Snapshot
-----------------------------------------------------------------------------
(* What holds of overlapping requests.                                     *)

LEMMA AbsentFields ==
  /\ Absent \in Candidates /\ Absent.first = NoOne /\ Absent.status = "absent" /\ Absent.release = 0
  /\ Absent.reviewed = NoValue /\ Absent.by = NoOne /\ Absent.second = "not_required"
  BY PublicationAssumption DEF Absent, Candidates, Status

LEMMA AsReadFields ==
  ASSUME NEW v \in Values, NEW b \in BOOLEAN
  PROVE  \A c \in {AsRead(v), [AsRead(v) EXCEPT !.blocked = b]} :
             c \in Candidates /\ c.status = "pending" /\ c.first = NoOne /\ c.read = v /\ c.release = 0
<1>1. /\ AsRead(v) \in Candidates /\ AsRead(v).status = "pending" /\ AsRead(v).first = NoOne
      /\ AsRead(v).read = v /\ AsRead(v).release = 0
    BY AbsentFields DEF AsRead, Candidates, Status, Open
<1>2. QED
    BY <1>1 DEF Candidates

LEMMA InitShared == PublicationInit => SharedInv
<1> SUFFICES ASSUME PublicationInit PROVE SharedInv
    OBVIOUS
<1>1. PICK v \in [Items -> Values] :
          rows = [r \in Row |-> IF r[2] > 1 THEN Absent
                                ELSE [AsRead(v[r[1]]) EXCEPT !.blocked = <<r[1], v[r[1]]>> \in Flawed]]
    BY DEF PublicationInit, Init
<1>2. /\ decisions = {} /\ tx = [a \in Reviewers |-> NoRequest] /\ screen = [a \in Reviewers |-> BlankScreen]
    BY DEF PublicationInit, Init
<1>3. \A r \in Row : /\ rows[r] \in Candidates /\ rows[r].first = NoOne
                     /\ r[2] > 1 => rows[r].status = "absent"
                     /\ r[2] = 1 => rows[r].status = "pending"
  <2> SUFFICES ASSUME NEW r \in Row
               PROVE  /\ rows[r] \in Candidates /\ rows[r].first = NoOne
                      /\ r[2] > 1 => rows[r].status = "absent"
                      /\ r[2] = 1 => rows[r].status = "pending"
      OBVIOUS
  <2>1. r[1] \in Items /\ r[2] \in 1 .. MaxReads
      BY DEF Row
  <2>2. CASE r[2] > 1
      BY <1>1, <2>2, AbsentFields
  <2>3. CASE ~(r[2] > 1)
    <3>1. rows[r] = [AsRead(v[r[1]]) EXCEPT !.blocked = <<r[1], v[r[1]]>> \in Flawed]
        BY <1>1, <2>3
    <3>2. v[r[1]] \in Values /\ (<<r[1], v[r[1]]>> \in Flawed) \in BOOLEAN
        BY <2>1
    <3>3. PICK w \in Values, b \in BOOLEAN : rows[r] = [AsRead(w) EXCEPT !.blocked = b]
        BY <3>1, <3>2
    <3>4. QED
        BY <2>3, <3>3, AsReadFields
  <2>4. QED
      BY <2>2, <2>3
<1>4. Typed
  <2>1. rows \in [Row -> Candidates]
      BY <1>1, <1>3
  <2>2. QED
      BY <1>2, <2>1 DEF Typed, RequestTyped, ScreenTyped, BlankScreen
<1>5. Lawfulness /\ FirstsStand
    BY <1>2, <1>3 DEF Lawfulness, FirstsStand, FirstBy, NoRequest
<1>6. Readings
  <2>1. 1 \in 1 .. MaxReads
      BY ReviewAssumption
  <2>2. \A r \in Row : ~Named(r)
      BY <1>2 DEF Named, NoRequest, BlankScreen
  <2>3. QED
      BY <1>3, <2>1, <2>2 DEF Readings, Exists
<1>7. QED
    BY <1>4, <1>5, <1>6 DEF SharedInv

\* Rows stay, and nobody is told of rows that are not there.
LEMMA ReadingsStay ==
  ASSUME Readings, \A r \in Row : (Exists(r)' <=> Exists(r)) /\ (Named(r)' => Named(r) \/ Exists(r))
  PROVE  Readings'
<1>1. PICK last \in 1 .. MaxReads : \A r \in Row :
          (r[2] > last => ~Exists(r) /\ ~Named(r)) /\ (r[2] = last => Exists(r))
    BY DEF Readings
<1>2. ASSUME NEW r \in Row
      PROVE  (r[2] > last => ~Exists(r)' /\ ~Named(r)') /\ (r[2] = last => Exists(r)')
  <2>1. (Exists(r)' <=> Exists(r)) /\ (Named(r)' => Named(r) \/ Exists(r))
      OBVIOUS
  <2>2. (r[2] > last => ~Exists(r) /\ ~Named(r)) /\ (r[2] = last => Exists(r))
      BY <1>1
  <2>3. QED
      BY <2>1, <2>2
<1>3. QED
    BY <1>2 DEF Readings

\* Screens change, or a request is read or forgotten.
LEMMA QuietShared ==
  ASSUME SharedInv, UNCHANGED <<rows, decisions>>, Typed',
         NEW a \in Reviewers,
         \A b \in Reviewers : b # a => tx'[b] = tx[b] /\ screen'[b] = screen[b],
         tx'[a].kind = "decide" =>
             \/ tx'[a] = tx[a]
             \/ /\ Exists(tx'[a].row) /\ tx'[a].old = rows[tx'[a].row] /\ tx'[a].old.status \in Open
                /\ DifferentReviewer(a, tx'[a].old),
         tx'[a].kind = "undo" => tx'[a] = tx[a] \/ tx'[a].decision \in decisions,
         screen'[a].page = "candidate" => screen'[a] = screen[a] \/ Exists(screen'[a].row),
         screen'[a].page = "preview" => screen'[a] = screen[a] \/ \A t \in screen'[a].digest : Exists(t[1])
  PROVE  SharedInv'
<1>1. \A r : Exists(r)' <=> Exists(r)
    BY DEF Exists
<1>2. Lawfulness'
    BY <1>1 DEF SharedInv, Lawfulness, DifferentReviewer
<1>3. Readings'
  <2>1. \A r \in Row : Named(r)' => Named(r) \/ Exists(r)
      BY <1>1 DEF SharedInv, Lawfulness, Named
  <2>2. QED
      BY <1>1, <2>1, ReadingsStay DEF SharedInv
<1>4. FirstsStand'
  <2>1. \A r, x : FirstBy(r, x)' <=> FirstBy(r, x)
      BY DEF FirstBy
  <2>2. \A b \in Reviewers : tx'[b].kind = "decide" /\ Exists(tx'[b].row) => FirstBy(tx'[b].row, tx'[b].old.first)
    <3> SUFFICES ASSUME tx'[a].kind = "decide", Exists(tx'[a].row), tx'[a] # tx[a]
                 PROVE  FirstBy(tx'[a].row, tx'[a].old.first)
        BY DEF SharedInv, FirstsStand
    <3>1. tx'[a].old = rows[tx'[a].row] /\ tx'[a].row \in Row
        BY DEF Typed, RequestTyped, NoRequest, Deciding, Undoing
    <3>2. QED
        BY <3>1 DEF SharedInv, FirstsStand
  <2>3. \A b \in Reviewers : tx'[b].kind = "undo" /\ Exists(tx'[b].decision.row) =>
            FirstBy(tx'[b].decision.row, tx'[b].decision.before.first)
      BY DEF SharedInv, FirstsStand
  <2>4. QED
      BY <1>1, <2>1, <2>2, <2>3 DEF SharedInv, FirstsStand
<1>5. QED
    BY <1>2, <1>3, <1>4 DEF SharedInv

LEMMA IdleShared == ASSUME SharedInv, UNCHANGED <<rows, decisions, screen, tx>> PROVE SharedInv'
  BY DEF SharedInv, Typed, Lawfulness, DifferentReviewer, Exists, Readings, Named, FirstsStand, FirstBy

LEMMA LoadShared == ASSUME SharedInv, NEW a \in Reviewers, NEW r \in Row, Load(a, r) PROVE SharedInv'
<1> DEFINE p == [page |-> "candidate", row |-> r, version |-> rows[r].version, shows |-> Snapshot(rows[r])]
<1>1. rows[r] \in Candidates /\ Exists(r)
    BY DEF SharedInv, Typed, Load, Exists, Open
<1>2. ScreenTyped(p)
    BY <1>1, SnapshotFields DEF ScreenTyped, Candidates
<1>3. screen' = [screen EXCEPT ![a] = p] /\ UNCHANGED <<rows, decisions, tx>>
    BY DEF Load
<1>4. p.page = "candidate" /\ p.row = r
    OBVIOUS
<1> HIDE DEF p
<1>5. \A b \in Reviewers : screen'[b] = IF b = a THEN p ELSE screen[b]
    BY <1>3 DEF SharedInv, Typed
<1>6. Typed'
    BY <1>2, <1>3, <1>5 DEF SharedInv, Typed
<1>7. QED
    BY <1>1, <1>3, <1>4, <1>5, <1>6, QuietShared

LEMMA PreviewShared == ASSUME SharedInv, NEW a \in Reviewers, NEW scope \in Scopes, Preview(a, scope) PROVE SharedInv'
<1> DEFINE p == [page |-> "preview", scope |-> scope, version |-> source.version,
                 digest |-> Digest(scope), facts |-> Facts(scope)]
<1>1. screen' = [screen EXCEPT ![a] = p] /\ UNCHANGED <<rows, decisions, tx>>
    BY DEF Preview
<1>2. p.page = "preview" /\ p.digest = Digest(scope)
    OBVIOUS
<1>3. \A t \in Digest(scope) : Exists(t[1])
    BY DEF Digest, InScope
<1> HIDE DEF p
<1>4. \A b \in Reviewers : screen'[b] = IF b = a THEN p ELSE screen[b]
    BY <1>1 DEF SharedInv, Typed
<1>5. Typed'
    BY <1>1, <1>2, <1>4 DEF SharedInv, Typed, ScreenTyped
<1>6. QED
    BY <1>1, <1>2, <1>3, <1>4, <1>5, QuietShared

\* A request is read, and its reviewer's screen is blank; or it is forgotten.
LEMMA RequestShared ==
  ASSUME SharedInv, NEW a \in Reviewers, NEW q, RequestTyped(q),
         tx' = [tx EXCEPT ![a] = q], UNCHANGED <<rows, decisions>>,
         screen' = screen \/ screen' = [screen EXCEPT ![a] = BlankScreen],
         q.kind = "decide" => /\ Exists(q.row) /\ q.old = rows[q.row] /\ q.old.status \in Open
                              /\ DifferentReviewer(a, q.old),
         q.kind = "undo" => q.decision \in decisions
  PROVE  SharedInv'
<1>1. \A b \in Reviewers : /\ tx'[b] = IF b = a THEN q ELSE tx[b]
                           /\ screen'[b] = screen[b] \/ (b = a /\ screen'[b] = BlankScreen)
    BY DEF SharedInv, Typed
<1>2. Typed'
    BY <1>1 DEF SharedInv, Typed, ScreenTyped, BlankScreen
<1>3. screen'[a] = screen[a] \/ screen'[a].page = "none"
    BY <1>1 DEF BlankScreen
<1>4. QED
    BY <1>1, <1>2, <1>3, QuietShared

LEMMA NoRequestTyped == RequestTyped(NoRequest) /\ NoRequest.kind = "none"
  BY DEF RequestTyped, NoRequest

LEMMA DecideReadShared ==
  ASSUME SharedInv, NEW a \in Reviewers, NEW outcome \in Outcomes, NEW value \in Values \cup {NoValue},
         DecideRead(a, outcome, value)
  PROVE  SharedInv'
<1> DEFINE p == screen[a]
           q == [kind |-> "decide", row |-> p.row, outcome |-> outcome, value |-> value, old |-> rows[p.row],
                 shows |-> p.shows]
<1>1. p.row \in Row /\ p.shows \in Snapshots
    BY DEF DecideRead, SharedInv, Typed, ScreenTyped
<1>2. rows[p.row] \in Candidates /\ rows[p.row].status \in Open /\ DifferentReviewer(a, rows[p.row])
    BY <1>1 DEF DecideRead, SharedInv, Typed
<1>3. q \in Deciding
    BY <1>1, <1>2 DEF Deciding
<1>4. tx' = [tx EXCEPT ![a] = q] /\ UNCHANGED <<rows, decisions>> /\ screen' = [screen EXCEPT ![a] = BlankScreen]
    BY DEF DecideRead
<1>5. q.kind = "decide" /\ q.row = p.row /\ q.old = rows[p.row]
    OBVIOUS
<1>6. Exists(p.row)
    BY <1>2 DEF Exists, Open
<1> HIDE DEF p, q
<1>7. QED
    BY <1>2, <1>3, <1>4, <1>5, <1>6, RequestShared DEF RequestTyped

LEMMA UndoReadShared ==
  ASSUME SharedInv, NEW a \in Reviewers, NEW d \in decisions, UndoRead(a, d) PROVE SharedInv'
<1> DEFINE q == [kind |-> "undo", decision |-> d, old |-> rows[d.row]]
<1>1. d \in Decided /\ rows[d.row] \in Candidates
    BY DEF SharedInv, Typed, Decided
<1>2. q \in Undoing
    BY <1>1 DEF Undoing
<1>3. tx' = [tx EXCEPT ![a] = q] /\ UNCHANGED <<rows, decisions, screen>>
    BY DEF UndoRead
<1>4. q.kind = "undo" /\ q.decision = d
    OBVIOUS
<1> HIDE DEF q
<1>5. QED
    BY <1>2, <1>3, <1>4, RequestShared DEF RequestTyped

LEMMA PublishReadShared == ASSUME SharedInv, NEW a \in Reviewers, PublishRead(a) PROVE SharedInv'
<1>1. PICK q : /\ tx' = [tx EXCEPT ![a] = q] /\ q.kind = "publish" /\ q.new \subseteq Row
               /\ UNCHANGED <<rows, decisions>> /\ screen' = [screen EXCEPT ![a] = BlankScreen]
  <2> DEFINE p == screen[a]
             q == [kind |-> "publish", facts |-> Facts(p.scope), shows |-> p.facts,
                   source |-> source, prior |-> Current, count |-> Len(releases),
                   new |-> {r \in Publishable(p.scope) : rows[r].release = 0}]
  <2>1. q.kind = "publish" /\ q.new \subseteq Row
      BY DEF Publishable, InScope
  <2>2. tx' = [tx EXCEPT ![a] = q] /\ UNCHANGED <<rows, decisions>> /\ screen' = [screen EXCEPT ![a] = BlankScreen]
      BY DEF PublishRead
  <2> HIDE DEF q
  <2>3. QED
      BY <2>1, <2>2
<1>2. QED
    BY <1>1, RequestShared DEF RequestTyped

\* Rows are written, none is deleted or inserted, and requests are done.
LEMMA WriteShared ==
  ASSUME SharedInv, Typed', screen' = screen,
         \A b \in Reviewers : tx'[b] = tx[b] \/ tx'[b] = NoRequest,
         \A r \in Row : Exists(r)' <=> Exists(r),
         \A d \in decisions' : Lawful(d) /\ Exists(d.row),
         \A r \in Row, x \in Reviewers \cup {NoOne} : FirstBy(r, x) => FirstBy(r, x)',
         \A r \in Row : FirstBy(r, rows[r].first)',
         \A d \in decisions' : FirstBy(d.row, d.before.first)'
  PROVE  SharedInv'
<1>1. \A b \in Reviewers : tx'[b].kind \in {"decide", "undo"} => tx'[b] = tx[b]
    BY NoRequestTyped
<1>2. \A d \in decisions' : d.row \in Row
    BY DEF Typed, Decided
<1>3. \A b \in Reviewers :
          /\ tx[b].kind = "decide" => tx[b].row \in Row /\ tx[b].old.first \in Reviewers \cup {NoOne}
          /\ tx[b].kind = "undo" => tx[b].decision.row \in Row /\ tx[b].decision.before.first \in Reviewers \cup {NoOne}
    BY DEF SharedInv, Typed, RequestTyped, NoRequest, Deciding, Undoing, Decided, Candidates, Snapshots
<1>4. Lawfulness'
    BY <1>1, <1>2 DEF SharedInv, Lawfulness, DifferentReviewer
<1>5. Readings'
  <2>1. ASSUME NEW r \in Row PROVE Named(r)' => Named(r) \/ Exists(r)
    <3> SUFFICES ASSUME Named(r)' PROVE Named(r) \/ Exists(r)
        OBVIOUS
    <3>1. CASE \E d \in decisions' : d.row = r
        BY <3>1
    <3>2. CASE \E b \in Reviewers : \/ tx'[b].kind = "decide" /\ tx'[b].row = r
                                    \/ tx'[b].kind = "undo" /\ tx'[b].decision.row = r
        BY <1>1, <3>2 DEF Named
    <3>3. QED
        BY <3>1, <3>2 DEF Named
  <2>2. QED
      BY <2>1, ReadingsStay DEF SharedInv
<1>6. FirstsStand'
  <2>1. ASSUME NEW b \in Reviewers, (tx[b].kind = "decide" /\ Exists(tx[b].row))'
        PROVE  FirstBy(tx[b].row, tx[b].old.first)'
    <3>1. PICK r \in Row, x \in Reviewers \cup {NoOne} :
              r = tx[b].row /\ x = tx[b].old.first /\ tx'[b] = tx[b] /\ tx[b].kind = "decide"
        BY <1>1, <1>3, <2>1
    <3>2. FirstBy(r, x)'
        BY <2>1, <3>1 DEF SharedInv, FirstsStand
    <3>3. QED
        BY <3>1, <3>2 DEF FirstBy
  <2>2. ASSUME NEW b \in Reviewers, (tx[b].kind = "undo" /\ Exists(tx[b].decision.row))'
        PROVE  FirstBy(tx[b].decision.row, tx[b].decision.before.first)'
    <3>1. PICK r \in Row, x \in Reviewers \cup {NoOne} :
              r = tx[b].decision.row /\ x = tx[b].decision.before.first /\ tx'[b] = tx[b] /\ tx[b].kind = "undo"
        BY <1>1, <1>3, <2>2
    <3>2. FirstBy(r, x)'
        BY <2>2, <3>1 DEF SharedInv, FirstsStand
    <3>3. QED
        BY <3>1, <3>2 DEF FirstBy
  <2>3. QED
      BY <2>1, <2>2 DEF FirstsStand
<1>7. QED
    BY <1>4, <1>5, <1>6 DEF SharedInv

\* A request is decided: what is written and what the history says of it.
LEMMA DecideWriteMakes ==
  ASSUME SharedInv, NEW a \in Reviewers, DecideWrite(a)
  PROVE  LET q == tx[a]
             new == AfterDecision(q.old, a, ItemOf(q.row), q.outcome, q.value)
             d == [row |-> q.row, seq |-> new.count, by |-> a, outcome |-> q.outcome,
                   round |-> IF q.old.status = "awaiting_second_review" THEN 2 ELSE 1,
                   shows |-> q.shows, before |-> Snapshot(q.old), after |-> Snapshot(new),
                   undone |-> FALSE]
             written == Flushed(rows[q.row], q.old, new)
         IN /\ q \in Deciding /\ q.row \in Row /\ Exists(q.row) /\ d \in Decided /\ Lawful(d)
            /\ written \in Candidates /\ written.status # "absent"
            /\ written.first = rows[q.row].first \/ (d.round = 1 /\ written.first = a) \/ written.first = q.old.first
            /\ d.before.first = q.old.first
<1> DEFINE q == tx[a]
           new == AfterDecision(q.old, a, ItemOf(q.row), q.outcome, q.value)
           waits == q.old.status # "awaiting_second_review" /\ NeedsSecond(ItemOf(q.row), q.outcome)
           round == IF q.old.status = "awaiting_second_review" THEN 2 ELSE 1
           d == [row |-> q.row, seq |-> new.count, by |-> a, outcome |-> q.outcome, round |-> round,
                 shows |-> q.shows, before |-> Snapshot(q.old), after |-> Snapshot(new), undone |-> FALSE]
           written == Flushed(rows[q.row], q.old, new)
<1>1. q.kind = "decide" /\ Exists(q.row)
    BY DEF DecideWrite
<1>2. q \in Deciding
    BY <1>1 DEF SharedInv, Typed, RequestTyped, NoRequest, Undoing
<1>3. /\ q.row \in Row /\ q.outcome \in Outcomes /\ q.value \in Values \cup {NoValue} /\ q.old \in Candidates
      /\ q.shows \in Snapshots /\ rows[q.row] \in Candidates /\ ItemOf(q.row) \in Items
    BY <1>2 DEF Deciding, SharedInv, Typed, ItemOf, Row
<1>4. q.old.status \in Open /\ DifferentReviewer(a, q.old)
    BY <1>1 DEF SharedInv, Lawfulness
<1>5. /\ new \in Candidates /\ new.first = (IF waits THEN a ELSE q.old.first)
      /\ new.status = (IF waits THEN "awaiting_second_review" ELSE FinalStatus[q.outcome])
      /\ new.count = q.old.count + 1 /\ q.old.count \in Nat
    BY <1>3, AfterDecisionFields DEF Candidates
<1>6. FinalStatus[q.outcome] \in Finals \cup {"rejected", "unresolved"}
    BY <1>3, ReviewAssumption DEF FinalStatus, Finals, AllOutcomes
<1> HIDE DEF q, new
<1>7. /\ Snapshot(q.old) \in Snapshots /\ Snapshot(new) \in Snapshots
      /\ Snapshot(q.old).status = q.old.status /\ Snapshot(q.old).first = q.old.first
      /\ Snapshot(new).status = new.status /\ Snapshot(new).first = new.first
    BY <1>3, <1>5, SnapshotFields
<1>8. d \in Decided
  <2>1. new.count \in Nat \ {0} /\ round \in {1, 2}
      BY <1>5
  <2>2. QED
      BY <1>3, <1>7, <2>1 DEF Decided
<1>9. Lawful(d)
  <2>1. round = 2 <=> q.old.status = "awaiting_second_review"
      OBVIOUS
  <2>2. new.status = "awaiting_second_review" => waits /\ round = 1
      BY <1>5, <1>6 DEF Finals
  <2>3. new.status \in Finals /\ round = 1 => ~NeedsSecond(ItemOf(q.row), q.outcome)
      BY <1>5 DEF Finals
  <2>4. /\ d.before = Snapshot(q.old) /\ d.after = Snapshot(new) /\ d.round = round /\ d.by = a
        /\ d.row = q.row /\ d.outcome = q.outcome
      OBVIOUS
  <2> HIDE DEF d, round, waits
  <2>5. QED
      BY <1>4, <1>5, <1>7, <2>1, <2>2, <2>3, <2>4 DEF Lawful, DifferentReviewer
<1>10. /\ written \in Candidates /\ written.status # "absent"
       /\ written.first = rows[q.row].first \/ written.first = new.first
  <2>1. rows[q.row].status # "absent" /\ new.status # "absent"
      BY <1>1, <1>5, <1>6 DEF Exists, Finals
  <2>2. QED
      BY <1>3, <1>5, <2>1, FlushedFields
<1>11. written.first = rows[q.row].first \/ (round = 1 /\ written.first = a) \/ written.first = q.old.first
    BY <1>5, <1>10
<1>12. QED
    BY <1>1, <1>2, <1>3, <1>7, <1>8, <1>9, <1>10, <1>11 DEF q, new

LEMMA DecideWriteShared == ASSUME SharedInv, NEW a \in Reviewers, DecideWrite(a) PROVE SharedInv'
<1> DEFINE q == tx[a]
           new == AfterDecision(q.old, a, ItemOf(q.row), q.outcome, q.value)
<1>1. PICK d, written :
        /\ q \in Deciding /\ q.row \in Row /\ Exists(q.row) /\ d \in Decided /\ Lawful(d) /\ d.row = q.row /\ d.by = a
        /\ written \in Candidates /\ written.status # "absent"
        /\ written.first = rows[q.row].first \/ (d.round = 1 /\ written.first = a) \/ written.first = q.old.first
        /\ d.before.first = q.old.first
        /\ rows' = [rows EXCEPT ![q.row] = written] /\ decisions' = decisions \cup {d}
        /\ tx' = [tx EXCEPT ![a] = NoRequest] /\ screen' = screen
  <2> DEFINE d == [row |-> q.row, seq |-> new.count, by |-> a, outcome |-> q.outcome,
                   round |-> IF q.old.status = "awaiting_second_review" THEN 2 ELSE 1,
                   shows |-> q.shows, before |-> Snapshot(q.old), after |-> Snapshot(new), undone |-> FALSE]
             written == Flushed(rows[q.row], q.old, new)
  <2>1. /\ q \in Deciding /\ q.row \in Row /\ Exists(q.row) /\ d \in Decided /\ Lawful(d)
        /\ written \in Candidates /\ written.status # "absent"
        /\ written.first = rows[q.row].first \/ (d.round = 1 /\ written.first = a) \/ written.first = q.old.first
        /\ d.before.first = q.old.first
      BY DecideWriteMakes
  <2>2. d.row = q.row /\ d.by = a
      OBVIOUS
  <2>3. /\ rows' = [rows EXCEPT ![q.row] = written] /\ decisions' = decisions \cup {d}
        /\ tx' = [tx EXCEPT ![a] = NoRequest] /\ screen' = screen
      BY DEF DecideWrite
  <2> HIDE DEF q, d, written
  <2>4. QED
      BY <2>1, <2>2, <2>3
<1>2. q.kind = "decide" /\ Typed
    BY DEF DecideWrite, SharedInv
<1>3. \A b \in Reviewers : tx'[b] = IF b = a THEN NoRequest ELSE tx[b]
    BY <1>1, <1>2 DEF Typed
<1>4. \A r \in Row : rows'[r] = IF r = q.row THEN written ELSE rows[r]
    BY <1>1, <1>2 DEF Typed
<1>5. Typed'
    BY <1>1, <1>2, <1>3, <1>4, NoRequestTyped DEF Typed
<1>6. \A r \in Row : Exists(r)' <=> Exists(r)
    BY <1>1, <1>4 DEF Exists
<1>7. \A e \in decisions' : Lawful(e) /\ Exists(e.row)
    BY <1>1 DEF SharedInv, Lawfulness
<1>8. \A r \in Row, x \in Reviewers \cup {NoOne} : FirstBy(r, x) => FirstBy(r, x)'
    BY <1>1 DEF FirstBy
<1>9. q.old.first \in Reviewers \cup {NoOne} /\ FirstBy(q.row, q.old.first)
    BY <1>1, <1>2 DEF Deciding, Candidates, SharedInv, FirstsStand
<1>10. \A r \in Row : FirstBy(r, rows[r].first)'
  <2> SUFFICES ASSUME NEW r \in Row PROVE FirstBy(r, rows[r].first)'
      OBVIOUS
  <2>1. rows[r].first \in Reviewers \cup {NoOne} /\ FirstBy(r, rows[r].first)
      BY <1>2 DEF Typed, Candidates, SharedInv, FirstsStand
  <2>2. CASE rows'[r].first = rows[r].first
      BY <1>1, <2>1, <2>2 DEF FirstBy
  <2>3. CASE r = q.row /\ d.round = 1 /\ written.first = a
      BY <1>1, <1>4, <2>3 DEF FirstBy
  <2>4. CASE r = q.row /\ written.first = q.old.first
      BY <1>1, <1>4, <1>9, <2>4 DEF FirstBy
  <2>5. QED
      BY <1>1, <1>4, <2>2, <2>3, <2>4
<1>11. \A e \in decisions' : FirstBy(e.row, e.before.first)'
  <2> SUFFICES ASSUME NEW e \in decisions' PROVE \A x : x = e.before.first => FirstBy(e.row, x)'
      BY DEF FirstBy
  <2>1. CASE e \in decisions
      BY <1>1, <2>1 DEF FirstBy, SharedInv, FirstsStand
  <2>2. CASE e = d
      BY <1>1, <1>9, <2>2 DEF FirstBy
  <2>3. QED
      BY <1>1, <2>1, <2>2
<1>12. QED
    BY <1>1, <1>3, <1>5, <1>6, <1>7, <1>8, <1>10, <1>11, WriteShared

\* The decision that is undone keeps its row, its round and its reviewer.
LEMMA UndoneFields ==
  ASSUME NEW d \in Decided
  PROVE  LET e == [d EXCEPT !.undone = TRUE]
         IN /\ e \in Decided /\ e.row = d.row /\ e.round = d.round /\ e.by = d.by /\ e.seq = d.seq /\ e.undone
            /\ e.before = d.before /\ e.after = d.after /\ e.outcome = d.outcome /\ e.shows = d.shows
  BY DEF Decided

LEMMA UndoWriteShared == ASSUME SharedInv, NEW a \in Reviewers, UndoWrite(a) PROVE SharedInv'
<1> DEFINE q == tx[a]
<1>1. q.kind = "undo" /\ q \in Undoing /\ Exists(q.decision.row) /\ Typed
    BY DEF UndoWrite, SharedInv, Typed, RequestTyped, NoRequest, Deciding
<1>2. /\ q.decision \in Decided /\ q.old \in Candidates /\ q.decision.row \in Row /\ Lawful(q.decision)
      /\ q.decision.before \in Snapshots /\ rows[q.decision.row] \in Candidates
    BY <1>1 DEF Undoing, Decided, Typed, SharedInv, Lawfulness
<1>3. PICK d, e, r, written :
        /\ d = q.decision /\ d \in Decided /\ Lawful(d) /\ r = d.row /\ r \in Row /\ Exists(r)
        /\ e \in Decided /\ e.row = d.row /\ e.round = d.round /\ e.by = d.by /\ e.before = d.before /\ Lawful(e)
        /\ written \in Candidates /\ written.status # "absent"
        /\ written.first = rows[r].first \/ written.first = d.before.first
        /\ rows' = [rows EXCEPT ![r] = written] /\ decisions' = (decisions \ {d}) \cup {e}
        /\ tx' = [tx EXCEPT ![a] = NoRequest] /\ screen' = screen
  <2> DEFINE d == q.decision
             e == [d EXCEPT !.undone = TRUE]
             back == Restored(q.old, d.before)
             written == Flushed(rows[d.row], q.old, back)
  <2>1. e \in Decided /\ e.row = d.row /\ e.round = d.round /\ e.by = d.by /\ e.before = d.before
        /\ e.after = d.after /\ e.outcome = d.outcome
      BY <1>2, UndoneFields
  <2>2. Lawful(e)
      BY <1>2, <2>1 DEF Lawful
  <2>3. back \in Candidates /\ Snapshot(back) = d.before
      BY <1>2, RestoredFields
  <2>4. back.status = d.before.status /\ back.first = d.before.first
      BY <2>3, SnapshotFields
  <2>5. written \in Candidates /\ written.status # "absent"
        /\ (written.first = rows[d.row].first \/ written.first = d.before.first)
    <3>1. back.status # "absent" /\ rows[d.row].status # "absent"
        BY <1>1, <1>2, <2>4 DEF Lawful, Open, Exists
    <3>2. QED
        BY <1>2, <2>3, <2>4, <3>1, FlushedFields
  <2>6. /\ rows' = [rows EXCEPT ![d.row] = written] /\ decisions' = (decisions \ {d}) \cup {e}
        /\ tx' = [tx EXCEPT ![a] = NoRequest] /\ screen' = screen
      BY DEF UndoWrite
  <2>7. d \in Decided /\ Lawful(d) /\ d.row \in Row /\ Exists(d.row)
      BY <1>1, <1>2
  <2> HIDE DEF d, e, written
  <2>8. QED
      BY <2>1, <2>2, <2>5, <2>6, <2>7 DEF d
<1>4. \A b \in Reviewers : tx'[b] = IF b = a THEN NoRequest ELSE tx[b]
    BY <1>1, <1>3 DEF Typed
<1>5. \A s \in Row : rows'[s] = IF s = r THEN written ELSE rows[s]
    BY <1>1, <1>3 DEF Typed
<1>6. Typed'
    BY <1>1, <1>3, <1>4, <1>5, NoRequestTyped DEF Typed
<1>7. \A s \in Row : Exists(s)' <=> Exists(s)
    BY <1>3, <1>5 DEF Exists
<1>8. \A f \in decisions' : Lawful(f) /\ Exists(f.row)
    BY <1>3 DEF SharedInv, Lawfulness
<1>9. \A s \in Row, x \in Reviewers \cup {NoOne} : FirstBy(s, x) => FirstBy(s, x)'
    BY <1>3 DEF FirstBy
<1>10. d.before.first \in Reviewers \cup {NoOne} /\ FirstBy(r, d.before.first)
    BY <1>1, <1>3 DEF Decided, Snapshots, SharedInv, FirstsStand
<1>11. \A s \in Row : FirstBy(s, rows[s].first)'
  <2> SUFFICES ASSUME NEW s \in Row PROVE FirstBy(s, rows[s].first)'
      OBVIOUS
  <2>1. rows[s].first \in Reviewers \cup {NoOne} /\ FirstBy(s, rows[s].first)
      BY <1>1 DEF Typed, Candidates, SharedInv, FirstsStand
  <2>2. PICK x \in Reviewers \cup {NoOne} : x = rows'[s].first /\ FirstBy(s, x)
      BY <1>3, <1>5, <1>10, <2>1
  <2>3. FirstBy(s, x)'
      BY <1>9, <2>2
  <2>4. QED
      BY <2>2, <2>3 DEF FirstBy
<1>12. \A f \in decisions' : FirstBy(f.row, f.before.first)'
  <2> SUFFICES ASSUME NEW f \in decisions' PROVE FirstBy(f.row, f.before.first)'
      OBVIOUS
  <2>1. PICK s \in Row, x \in Reviewers \cup {NoOne} : s = f.row /\ x = f.before.first /\ FirstBy(s, x)
    <3>1. CASE f \in decisions
        BY <1>1, <3>1 DEF Typed, Decided, Snapshots, SharedInv, FirstsStand
    <3>2. CASE f = e
        BY <1>3, <1>10, <3>2
    <3>3. QED
        BY <1>3, <3>1, <3>2
  <2>2. FirstBy(s, x)'
      BY <1>9, <2>1
  <2>3. QED
      BY <2>1, <2>2 DEF FirstBy
<1>13. QED
    BY <1>3, <1>4, <1>6, <1>7, <1>8, <1>9, <1>11, <1>12, WriteShared

\* Rows are written in other columns than a decision's.
LEMMA OtherColumnsShared ==
  ASSUME SharedInv, Typed', UNCHANGED <<decisions, screen>>,
         \A b \in Reviewers : tx'[b] = tx[b] \/ tx'[b] = NoRequest,
         \A r \in Row : rows'[r].status = rows[r].status /\ rows'[r].first = rows[r].first
  PROVE  SharedInv'
<1>1. \A r \in Row : Exists(r)' <=> Exists(r)
    BY DEF Exists
<1>2. \A d \in decisions' : Lawful(d) /\ Exists(d.row)
    BY DEF SharedInv, Lawfulness
<1>3. \A r \in Row, x \in Reviewers \cup {NoOne} : FirstBy(r, x) => FirstBy(r, x)'
    BY DEF FirstBy
<1>4. \A r \in Row : FirstBy(r, rows[r].first)'
    BY DEF FirstBy, SharedInv, FirstsStand
<1>5. \A d \in decisions' : FirstBy(d.row, d.before.first)'
    BY DEF FirstBy, SharedInv, FirstsStand
<1>6. QED
    BY <1>1, <1>2, <1>3, <1>4, <1>5, WriteShared


LEMMA ValidateWriteShared == ASSUME SharedInv, ValidateWrite PROVE SharedInv'
<1>1. Typed /\ UNCHANGED <<decisions, screen, tx>>
    BY DEF SharedInv, ValidateWrite
<1>2. \A r \in Row : /\ rows'[r] \in Candidates
                     /\ rows'[r].status = rows[r].status /\ rows'[r].first = rows[r].first
  <2> SUFFICES ASSUME NEW r \in Row
               PROVE  /\ rows'[r] \in Candidates
                      /\ rows'[r].status = rows[r].status /\ rows'[r].first = rows[r].first
      OBVIOUS
  <2>1. PICK c \in Candidates : c = rows[r]
      BY <1>1 DEF Typed
  <2>2. PICK b \in BOOLEAN : b = (Exists(r) /\ Blocked(check.values, r))
      OBVIOUS
  <2>3. rows'[r] = c \/ rows'[r] = [c EXCEPT !.blocked = b]
      BY <2>1, <2>2 DEF ValidateWrite
  <2>4. QED
      BY <2>1, <2>3 DEF Candidates
<1>3. rows' \in [Row -> Candidates]
    BY <1>2 DEF ValidateWrite
<1>4. Typed'
    BY <1>1, <1>3 DEF Typed
<1>5. QED
    BY <1>1, <1>2, <1>4, OtherColumnsShared

LEMMA PublishWriteShared == ASSUME SharedInv, Recorded, NEW a \in Reviewers, PublishWrite(a) PROVE SharedInv'
<1>1. Typed /\ UNCHANGED <<decisions, screen>> /\ tx' = [tx EXCEPT ![a] = NoRequest]
    BY DEF SharedInv, PublishWrite
<1>2. PICK number \in 1 .. MaxReleases :
          rows' = [r \in Row |-> IF r \in tx[a].new THEN [rows[r] EXCEPT !.release = number] ELSE rows[r]]
  <2>1. Len(releases) + 1 \in 1 .. MaxReleases
      BY PublicationAssumption DEF PublishWrite, Recorded
  <2>2. QED
      BY <2>1 DEF PublishWrite
<1>3. \A r \in Row : /\ rows'[r] \in Candidates
                     /\ rows'[r].status = rows[r].status /\ rows'[r].first = rows[r].first
  <2> SUFFICES ASSUME NEW r \in Row
               PROVE  /\ rows'[r] \in Candidates
                      /\ rows'[r].status = rows[r].status /\ rows'[r].first = rows[r].first
      OBVIOUS
  <2>1. PICK c \in Candidates : c = rows[r]
      BY <1>1 DEF Typed
  <2>2. rows'[r] = c \/ rows'[r] = [c EXCEPT !.release = number]
      BY <1>2, <2>1
  <2>3. QED
      BY <1>2, <2>1, <2>2 DEF Candidates
<1>4. rows' \in [Row -> Candidates]
    BY <1>2, <1>3
<1>5. \A b \in Reviewers : tx'[b] = IF b = a THEN NoRequest ELSE tx[b]
    BY <1>1 DEF Typed
<1>6. Typed'
    BY <1>1, <1>4, <1>5, NoRequestTyped DEF Typed
<1>7. QED
    BY <1>1, <1>3, <1>5, <1>6, OtherColumnsShared

LEMMA DoneShared ==
  ASSUME SharedInv, NEW a \in Reviewers, RolledBack(a) \/ PublishRolledBack(a) PROVE SharedInv'
<1>1. tx' = [tx EXCEPT ![a] = NoRequest] /\ UNCHANGED <<rows, decisions, screen>>
    BY DEF RolledBack, PublishRolledBack
<1>2. QED
    BY <1>1, NoRequestTyped, RequestShared

\* A re-reading: the pending rows go with their decisions, a new reading comes.
LEMMA ReadAgainMakes ==
  ASSUME SharedInv, ReadAgain
  PROVE  \E n \in 2 .. MaxReads :
            /\ \A r \in Row : /\ (r[2] >= n => ~Exists(r) /\ ~Named(r))
                              /\ rows'[r] \in Candidates
                              /\ (r[2] = n => rows'[r].status = "pending" /\ rows'[r].first = NoOne)
                              /\ (r[2] # n /\ rows[r].status = "pending" => rows'[r].status = "absent" /\ rows'[r].first = NoOne)
                              /\ (r[2] # n /\ rows[r].status # "pending" => rows'[r] = rows[r])
            /\ rows' \in [Row -> Candidates]
            /\ decisions' = {d \in decisions : rows[d.row].status # "pending"}
            /\ UNCHANGED <<screen, tx>>
<1>1. PICK v \in [Items -> Values], n \in 2 .. MaxReads :
        /\ \A r \in Row : r[2] >= n => ~Exists(r)
        /\ \E r \in Row : r[2] = n - 1 /\ Exists(r)
        /\ rows' = [r \in Row |-> IF r[2] = n THEN AsRead(v[r[1]])
                                  ELSE IF rows[r].status = "pending" THEN Absent ELSE rows[r]]
        /\ decisions' = {d \in decisions : rows[d.row].status # "pending"}
        /\ UNCHANGED <<screen, tx>>
    BY DEF ReadAgain
<1>2. PICK last \in 1 .. MaxReads : \A r \in Row :
          (r[2] > last => ~Exists(r) /\ ~Named(r)) /\ (r[2] = last => Exists(r))
    BY DEF SharedInv, Readings
<1>3. last < n
  <2>1. PICK r \in Row : r[2] = n - 1 /\ Exists(r)
      BY <1>1
  <2>2. <<r[1], last>> \in Row
      BY <2>1 DEF Row
  <2>3. Exists(<<r[1], last>>)
      BY <1>2, <2>2
  <2>4. ~(last >= n)
      BY <1>1, <2>2, <2>3
  <2>5. QED
      BY <2>4
<1>4. ASSUME NEW r \in Row
      PROVE  /\ (r[2] >= n => ~Exists(r) /\ ~Named(r))
             /\ rows'[r] \in Candidates
             /\ (r[2] = n => rows'[r].status = "pending" /\ rows'[r].first = NoOne)
             /\ (r[2] # n /\ rows[r].status = "pending" => rows'[r].status = "absent" /\ rows'[r].first = NoOne)
             /\ (r[2] # n /\ rows[r].status # "pending" => rows'[r] = rows[r])
  <2>1. r[1] \in Items /\ r[2] \in 1 .. MaxReads /\ rows[r] \in Candidates
      BY DEF Row, SharedInv, Typed
  <2>2. r[2] >= n => ~Exists(r) /\ ~Named(r)
      BY <1>2, <1>3, <2>1
  <2>3. CASE r[2] = n
    <3>1. v[r[1]] \in Values
        BY <2>1
    <3>2. PICK w \in Values : rows'[r] = AsRead(w)
        BY <1>1, <2>3, <3>1
    <3>3. QED
        BY <2>2, <2>3, <3>2, AsReadFields
  <2>4. CASE r[2] # n /\ rows[r].status = "pending"
      BY <1>1, <2>2, <2>4, AbsentFields
  <2>5. CASE r[2] # n /\ rows[r].status # "pending"
      BY <1>1, <2>1, <2>2, <2>5
  <2>6. QED
      BY <2>3, <2>4, <2>5
<1>5. rows' \in [Row -> Candidates]
    BY <1>1, <1>4
<1>6. QED
    BY <1>1, <1>4, <1>5

LEMMA ReadAgainShared == ASSUME SharedInv, ReadAgain PROVE SharedInv'
<1>1. PICK n \in 2 .. MaxReads :
        /\ \A r \in Row : /\ (r[2] >= n => ~Exists(r) /\ ~Named(r))
                          /\ rows'[r] \in Candidates
                          /\ (r[2] = n => rows'[r].status = "pending" /\ rows'[r].first = NoOne)
                          /\ (r[2] # n /\ rows[r].status = "pending" => rows'[r].status = "absent" /\ rows'[r].first = NoOne)
                          /\ (r[2] # n /\ rows[r].status # "pending" => rows'[r] = rows[r])
        /\ rows' \in [Row -> Candidates]
        /\ decisions' = {d \in decisions : rows[d.row].status # "pending"}
        /\ UNCHANGED <<screen, tx>>
    BY ReadAgainMakes
<1>2. Typed /\ Typed'
    BY <1>1 DEF SharedInv, Typed
<1>3. \A r \in Row : r[2] \in Nat
    BY DEF Row
<1>4. \A r \in Row, x \in Reviewers \cup {NoOne} :
          Named(r) /\ Exists(r)' /\ FirstBy(r, x) => rows'[r] = rows[r] /\ FirstBy(r, x)'
    BY <1>1, <1>3 DEF Exists, FirstBy
<1>4a. \A r \in Row : Named(r) /\ Exists(r)' => Exists(r)
    BY <1>1, <1>3 DEF Exists
<1>5. \A d \in decisions' : d \in decisions /\ d.row \in Row /\ Named(d.row) /\ Exists(d.row)'
  <2> SUFFICES ASSUME NEW d \in decisions' PROVE d \in decisions /\ d.row \in Row /\ Named(d.row) /\ Exists(d.row)'
      OBVIOUS
  <2>1. d \in decisions /\ rows[d.row].status # "pending"
      BY <1>1
  <2>2. d.row \in Row /\ Named(d.row) /\ Exists(d.row)
      BY <1>2, <2>1 DEF Typed, Decided, Named, SharedInv, Lawfulness
  <2>3. rows'[d.row] = rows[d.row]
      BY <1>1, <1>3, <2>1, <2>2
  <2>4. QED
      BY <2>1, <2>2, <2>3 DEF Exists
<1>6. Lawfulness'
    BY <1>1, <1>5 DEF SharedInv, Lawfulness, DifferentReviewer
<1>7. Readings'
  <2>1. \A r \in Row : Named(r)' => Named(r)
      BY <1>1 DEF Named
  <2>2. \A r \in Row : /\ (r[2] > n => ~Exists(r)' /\ ~Named(r)')
                       /\ (r[2] = n => Exists(r)')
    <3> SUFFICES ASSUME NEW r \in Row
                 PROVE  (r[2] > n => ~Exists(r)' /\ ~Named(r)') /\ (r[2] = n => Exists(r)')
        OBVIOUS
    <3>1. r[2] = n => Exists(r)'
        BY <1>1 DEF Exists
    <3>2. r[2] > n => ~Exists(r)'
      <4> SUFFICES ASSUME r[2] > n PROVE ~Exists(r)'
          OBVIOUS
      <4>1. r[2] >= n /\ r[2] # n
          BY <1>3
      <4>2. ~Exists(r) /\ rows'[r] = rows[r]
          BY <1>1, <4>1 DEF Exists
      <4>3. QED
          BY <4>2 DEF Exists
    <3>3. r[2] > n => ~Named(r)'
        BY <1>1, <1>3, <2>1
    <3>4. QED
        BY <3>1, <3>2, <3>3
  <2>3. n \in 1 .. MaxReads
      OBVIOUS
  <2>4. QED
      BY <2>2, <2>3 DEF Readings
<1>8. FirstsStand'
  <2>1. ASSUME NEW r \in Row PROVE FirstBy(r, rows[r].first)'
    <3>1. CASE rows'[r].first = NoOne
        BY <3>1 DEF FirstBy
    <3>2. CASE rows'[r].first # NoOne
      <4>1. rows'[r] = rows[r] /\ rows[r].status # "pending"
          BY <1>1, <3>2
      <4>2. FirstBy(r, rows[r].first)
          BY DEF SharedInv, FirstsStand
      <4>3. QED
          BY <1>1, <4>1, <4>2 DEF FirstBy
    <3>3. QED
        BY <3>1, <3>2
  <2>2. ASSUME NEW d \in decisions' PROVE FirstBy(d.row, d.before.first)'
    <3>1. PICK r \in Row, x \in Reviewers \cup {NoOne} :
              r = d.row /\ x = d.before.first /\ Named(r) /\ Exists(r)' /\ FirstBy(r, x)
        BY <1>2, <1>5 DEF Typed, Decided, Snapshots, SharedInv, FirstsStand
    <3>2. FirstBy(r, x)'
        BY <1>4, <3>1
    <3>3. QED
        BY <3>1, <3>2 DEF FirstBy
  <2>3. ASSUME NEW b \in Reviewers, (tx[b].kind = "decide" /\ Exists(tx[b].row))'
        PROVE  FirstBy(tx[b].row, tx[b].old.first)'
    <3>1. tx[b] = tx'[b] /\ tx[b].kind = "decide"
        BY <1>1, <2>3
    <3>2. tx[b] \in Deciding
        BY <1>2, <3>1 DEF Typed, RequestTyped, NoRequest, Undoing
    <3>3. PICK r \in Row, x \in Reviewers \cup {NoOne} :
              r = tx[b].row /\ x = tx[b].old.first /\ Named(r) /\ Exists(r)'
        BY <2>3, <3>1, <3>2 DEF Deciding, Candidates, Named
    <3>4. Exists(r)
        BY <1>4a, <3>3
    <3>5. FirstBy(r, x)
        BY <3>1, <3>3, <3>4 DEF SharedInv, FirstsStand
    <3>6. FirstBy(r, x)'
        BY <1>4, <3>3, <3>5
    <3>7. QED
        BY <3>1, <3>3, <3>6 DEF FirstBy
  <2>4. ASSUME NEW b \in Reviewers, (tx[b].kind = "undo" /\ Exists(tx[b].decision.row))'
        PROVE  FirstBy(tx[b].decision.row, tx[b].decision.before.first)'
    <3>1. tx[b] = tx'[b] /\ tx[b].kind = "undo"
        BY <1>1, <2>4
    <3>2. tx[b] \in Undoing
        BY <1>2, <3>1 DEF Typed, RequestTyped, NoRequest, Deciding
    <3>3. PICK r \in Row, x \in Reviewers \cup {NoOne} :
              r = tx[b].decision.row /\ x = tx[b].decision.before.first /\ Named(r) /\ Exists(r)'
        BY <2>4, <3>1, <3>2 DEF Undoing, Decided, Snapshots, Named
    <3>4. Exists(r)
        BY <1>4a, <3>3
    <3>5. FirstBy(r, x)
        BY <3>1, <3>3, <3>4 DEF SharedInv, FirstsStand
    <3>6. FirstBy(r, x)'
        BY <1>4, <3>3, <3>5
    <3>7. QED
        BY <3>1, <3>3, <3>6 DEF FirstBy
  <2>5. QED
      BY <2>1, <2>2, <2>3, <2>4 DEF FirstsStand
<1>9. QED
    BY <1>2, <1>6, <1>7, <1>8 DEF SharedInv


-----------------------------------------------------------------------------
(* What is recorded of releases.                                           *)

LEMMA FactsRecorded == ASSUME SharedInv, Recorded, NEW scope PROVE Facts(scope) \subseteq FactsOf
<1> SUFFICES ASSUME NEW r \in Publishable(scope) PROVE Fact(r) \in FactsOf
    BY DEF Facts
<1>1. r \in Row /\ rows[r] \in Candidates /\ rows[r].read \in Values
    BY DEF Publishable, InScope, SharedInv, Typed, Recorded
<1>2. Effective(rows[r]) \in Values
    BY <1>1 DEF Effective, Candidates
<1>3. {d.seq : d \in LatestOf(r)} \subseteq Nat
    BY DEF LatestOf, Standing, SharedInv, Typed, Decided
<1>4. QED
    BY <1>1, <1>2, <1>3 DEF Fact, FactsOf

\* Nothing is released, and a row keeps what was read of it.
LEMMA RecordedStays ==
  ASSUME SharedInv, Recorded, UNCHANGED releases, source' \in Sources, job' \in {job, "none", "queued", "running"},
         \A r \in Row : Exists(r)' => rows'[r].read \in Values,
         \A b \in Reviewers : screen'[b].page = "preview" => screen'[b] = screen[b] \/ screen'[b].facts \subseteq FactsOf,
         \A b \in Reviewers : tx'[b].kind = "publish" =>
             \/ tx'[b] = tx[b]
             \/ tx'[b].facts \subseteq FactsOf /\ tx'[b].shows \subseteq FactsOf /\ tx'[b].source \in Sources
  PROVE  Recorded'
  BY DEF Recorded

LEMMA InitRecorded == PublicationInit => Recorded
<1> SUFFICES ASSUME PublicationInit PROVE Recorded
    OBVIOUS
<1>1. PICK v \in [Items -> Values] :
          rows = [r \in Row |-> IF r[2] > 1 THEN Absent
                                ELSE [AsRead(v[r[1]]) EXCEPT !.blocked = <<r[1], v[r[1]]>> \in Flawed]]
    BY DEF PublicationInit, Init
<1>2. ASSUME NEW r \in Row, Exists(r) PROVE rows[r].read \in Values
  <2>1. r[1] \in Items /\ ~(r[2] > 1)
      BY <1>1, <1>2, AbsentFields DEF Row, Exists
  <2>2. rows[r] = [AsRead(v[r[1]]) EXCEPT !.blocked = <<r[1], v[r[1]]>> \in Flawed]
      BY <1>1, <2>1
  <2>3. v[r[1]] \in Values /\ (<<r[1], v[r[1]]>> \in Flawed) \in BOOLEAN
      BY <2>1
  <2>4. PICK w \in Values, b \in BOOLEAN : rows[r] = [AsRead(w) EXCEPT !.blocked = b]
      BY <2>2, <2>3
  <2>5. QED
      BY <2>4, AsReadFields
<1>3. source \in Sources /\ job = "none" /\ releases = <<>> /\ releases \in Seq(Releases)
    BY DEF PublicationInit, Init, Sources
<1>4. \A a \in Reviewers : screen[a].page = "none" /\ tx[a].kind = "none"
    BY DEF PublicationInit, Init, BlankScreen, NoRequest
<1>5. QED
    BY <1>2, <1>3, <1>4 DEF Recorded

\* A row's read value is never written but by a reading.
LEMMA WrittenRead ==
  ASSUME SharedInv, Recorded, NEW r \in Row, Exists(r), NEW old \in Candidates, NEW new \in Candidates,
         new.read = old.read
  PROVE  Flushed(rows[r], old, new).read \in Values
  BY FlushedFields DEF SharedInv, Typed, Recorded

LEMMA DecideWriteRecorded == ASSUME SharedInv, Recorded, NEW a \in Reviewers, DecideWrite(a), Keep PROVE Recorded'
<1> DEFINE q == tx[a]
           new == AfterDecision(q.old, a, ItemOf(q.row), q.outcome, q.value)
<1>1. q \in Deciding /\ q.row \in Row /\ Exists(q.row) /\ Typed
    BY DecideWriteMakes DEF SharedInv
<1>2. new \in Candidates /\ new.read = q.old.read
    BY <1>1, AfterDecisionFields DEF Deciding, ItemOf, Row
<1>3. Flushed(rows[q.row], q.old, new).read \in Values
    BY <1>1, <1>2, WrittenRead DEF Deciding
<1>4. rows' = [rows EXCEPT ![q.row] = Flushed(rows[q.row], q.old, new)]
    BY DEF DecideWrite
<1>5. /\ tx' = [tx EXCEPT ![a] = NoRequest] /\ UNCHANGED <<source, screen>>
      /\ job' = job \/ job' = Queue(job)
    BY DEF DecideWrite
<1> HIDE DEF q, new
<1>6. \A r \in Row : Exists(r)' => rows'[r].read \in Values
  <2>1. \A r \in Row : r # q.row => rows'[r] = rows[r]
      BY <1>1, <1>4 DEF Typed
  <2>2. rows'[q.row] = Flushed(rows[q.row], q.old, new)
      BY <1>1, <1>4 DEF Typed
  <2>3. QED
      BY <1>3, <2>1, <2>2 DEF Exists, Recorded
<1>7. \A b \in Reviewers : tx'[b] = tx[b] \/ tx'[b] = NoRequest
    BY <1>1, <1>5 DEF Typed
<1>8. job' \in {job, "queued"} /\ source' \in Sources
    BY <1>5 DEF Queue, Recorded
<1>9. QED
    BY <1>5, <1>6, <1>7, <1>8, RecordedStays, NoRequestTyped DEF Keep

LEMMA UndoWriteRecorded == ASSUME SharedInv, Recorded, NEW a \in Reviewers, UndoWrite(a), Keep PROVE Recorded'
<1> DEFINE q == tx[a]
           back == Restored(q.old, q.decision.before)
<1>1. q.kind = "undo" /\ q \in Undoing /\ Exists(q.decision.row) /\ Typed
    BY DEF UndoWrite, SharedInv, Typed, RequestTyped, NoRequest, Deciding
<1>2. q.decision \in Decided /\ q.old \in Candidates /\ q.decision.row \in Row /\ q.decision.before \in Snapshots
    BY <1>1 DEF Undoing, Decided
<1>3. back \in Candidates /\ back.read = q.old.read
    BY <1>2, RestoredFields
<1>4. PICK r, written : /\ r \in Row /\ written.read \in Values
                        /\ rows' = [rows EXCEPT ![r] = written]
  <2>1. Flushed(rows[q.decision.row], q.old, back).read \in Values
      BY <1>1, <1>2, <1>3, WrittenRead
  <2>2. rows' = [rows EXCEPT ![q.decision.row] = Flushed(rows[q.decision.row], q.old, back)]
      BY DEF UndoWrite
  <2>3. QED
      BY <1>2, <2>1, <2>2
<1>5. tx' = [tx EXCEPT ![a] = NoRequest] /\ UNCHANGED <<source, screen, job>>
    BY DEF UndoWrite
<1>6. \A s \in Row : rows'[s] = IF s = r THEN written ELSE rows[s]
    BY <1>1, <1>4 DEF Typed
<1>7. \A s \in Row : Exists(s)' => rows'[s].read \in Values
    BY <1>4, <1>6 DEF Exists, Recorded
<1>8. \A b \in Reviewers : tx'[b] = tx[b] \/ tx'[b] = NoRequest
    BY <1>1, <1>5 DEF Typed
<1>9. source' \in Sources
    BY <1>5 DEF Recorded
<1>10. QED
    BY <1>5, <1>7, <1>8, <1>9, RecordedStays, NoRequestTyped DEF Keep

\* Nothing is written but the request and the screen of a reviewer.
LEMMA RequestRecorded ==
  ASSUME SharedInv, Recorded, NEW a \in Reviewers, UNCHANGED <<source, rows, job>>, Keep,
         \/ tx' = tx
         \/ \E q : tx' = [tx EXCEPT ![a] = q] /\ (q.kind = "publish" =>
                q.facts \subseteq FactsOf /\ q.shows \subseteq FactsOf /\ q.source \in Sources),
         \/ screen' = screen
         \/ \E p : screen' = [screen EXCEPT ![a] = p] /\ (p.page = "preview" => p.facts \subseteq FactsOf)
  PROVE  Recorded'
<1>1. Typed
    BY DEF SharedInv
<1>2. \A b \in Reviewers : tx'[b].kind = "publish" =>
          \/ tx'[b] = tx[b]
          \/ tx'[b].facts \subseteq FactsOf /\ tx'[b].shows \subseteq FactsOf /\ tx'[b].source \in Sources
  <2>1. CASE tx' = tx
      BY <2>1
  <2>2. CASE tx' # tx
    <3>1. PICK q : tx' = [tx EXCEPT ![a] = q] /\ (q.kind = "publish" =>
                       q.facts \subseteq FactsOf /\ q.shows \subseteq FactsOf /\ q.source \in Sources)
        BY <2>2
    <3>2. \A b \in Reviewers : tx'[b] = IF b = a THEN q ELSE tx[b]
        BY <1>1, <3>1 DEF Typed
    <3>3. QED
        BY <3>1, <3>2
  <2>3. QED
      BY <2>1, <2>2
<1>3. \A b \in Reviewers : screen'[b].page = "preview" => screen'[b] = screen[b] \/ screen'[b].facts \subseteq FactsOf
  <2>1. CASE screen' = screen
      BY <2>1
  <2>2. CASE screen' # screen
    <3>1. PICK p : screen' = [screen EXCEPT ![a] = p] /\ (p.page = "preview" => p.facts \subseteq FactsOf)
        BY <2>2
    <3>2. \A b \in Reviewers : screen'[b] = IF b = a THEN p ELSE screen[b]
        BY <1>1, <3>1 DEF Typed
    <3>3. QED
        BY <3>1, <3>2
  <2>3. QED
      BY <2>1, <2>2
<1>4. /\ \A r \in Row : Exists(r)' => rows'[r].read \in Values
      /\ source' \in Sources /\ job' = job
    BY DEF Exists, Recorded
<1>5. QED
    BY <1>2, <1>3, <1>4, RecordedStays DEF Keep

LEMMA QuietRecorded ==
  ASSUME SharedInv, Recorded, NEW a \in Reviewers, Keep,
         \/ \E r \in Row : Load(a, r)
         \/ \E outcome \in Outcomes, value \in Values \cup {NoValue} : DecideRead(a, outcome, value)
         \/ \E d \in decisions : UndoRead(a, d)
         \/ RolledBack(a)
  PROVE  Recorded'
<1>1. ASSUME NEW r \in Row, Load(a, r) PROVE Recorded'
  <2> DEFINE p == [page |-> "candidate", row |-> r, version |-> rows[r].version, shows |-> Snapshot(rows[r])]
  <2>1. screen' = [screen EXCEPT ![a] = p] /\ p.page = "candidate"
      BY <1>1 DEF Load
  <2> HIDE DEF p
  <2>2. UNCHANGED <<source, rows, job, tx>>
      BY <1>1 DEF Load
  <2>3. QED
      BY <2>1, <2>2, RequestRecorded
<1>2. ASSUME NEW outcome \in Outcomes, NEW value \in Values \cup {NoValue}, DecideRead(a, outcome, value) PROVE Recorded'
  <2> DEFINE r == screen[a].row
             q == [kind |-> "decide", row |-> r, outcome |-> outcome, value |-> value, old |-> rows[r],
                   shows |-> screen[a].shows]
  <2>1. tx' = [tx EXCEPT ![a] = q] /\ q.kind = "decide"
      BY <1>2 DEF DecideRead
  <2> HIDE DEF q
  <2>2. UNCHANGED <<source, rows, job>> /\ screen' = [screen EXCEPT ![a] = BlankScreen] /\ BlankScreen.page = "none"
      BY <1>2 DEF DecideRead, BlankScreen
  <2>3. QED
      BY <2>1, <2>2, RequestRecorded
<1>3. ASSUME NEW d \in decisions, UndoRead(a, d) PROVE Recorded'
  <2> DEFINE q == [kind |-> "undo", decision |-> d, old |-> rows[d.row]]
  <2>1. tx' = [tx EXCEPT ![a] = q] /\ q.kind = "undo"
      BY <1>3 DEF UndoRead
  <2> HIDE DEF q
  <2>2. UNCHANGED <<source, rows, job, screen>>
      BY <1>3 DEF UndoRead
  <2>3. QED
      BY <2>1, <2>2, RequestRecorded
<1>4. ASSUME RolledBack(a) PROVE Recorded'
    BY <1>4, RequestRecorded, NoRequestTyped DEF RolledBack
<1>5. QED
    BY <1>1, <1>2, <1>3, <1>4

LEMMA PreviewRecorded == ASSUME SharedInv, Recorded, NEW a \in Reviewers, NEW scope \in Scopes, Preview(a, scope) PROVE Recorded'
<1> DEFINE p == [page |-> "preview", scope |-> scope, version |-> source.version,
                 digest |-> Digest(scope), facts |-> Facts(scope)]
<1>1. screen' = [screen EXCEPT ![a] = p] /\ p.facts = Facts(scope)
    BY DEF Preview
<1> HIDE DEF p
<1>2. p.facts \subseteq FactsOf
    BY <1>1, FactsRecorded
<1>3. UNCHANGED <<source, rows, job, tx, releases>>
    BY DEF Preview
<1>4. QED
    BY <1>1, <1>2, <1>3, RequestRecorded DEF Keep

LEMMA PublishReadRecorded == ASSUME SharedInv, Recorded, NEW a \in Reviewers, PublishRead(a) PROVE Recorded'
<1> DEFINE p == screen[a]
           q == [kind |-> "publish", facts |-> Facts(p.scope), shows |-> p.facts,
                 source |-> source, prior |-> Current, count |-> Len(releases),
                 new |-> {r \in Publishable(p.scope) : rows[r].release = 0}]
<1>1. tx' = [tx EXCEPT ![a] = q] /\ q.facts = Facts(screen[a].scope) /\ q.shows = screen[a].facts /\ q.source = source
    BY DEF PublishRead
<1> HIDE DEF q
<1>2. q.facts \subseteq FactsOf /\ q.shows \subseteq FactsOf /\ q.source \in Sources
    BY <1>1, FactsRecorded DEF PublishRead, Recorded
<1>3. /\ UNCHANGED <<source, rows, job, releases>> /\ screen' = [screen EXCEPT ![a] = BlankScreen]
      /\ BlankScreen.page = "none"
    BY DEF PublishRead, BlankScreen
<1>4. QED
    BY <1>1, <1>2, <1>3, RequestRecorded DEF Keep

LEMMA PublishWriteRecorded == ASSUME SharedInv, Recorded, NEW a \in Reviewers, PublishWrite(a) PROVE Recorded'
<1> DEFINE q == tx[a]
           release == [facts |-> q.facts, shows |-> q.shows, current |-> TRUE]
<1>1. q.facts \subseteq FactsOf /\ q.shows \subseteq FactsOf /\ q.source \in Sources /\ Typed
    BY DEF PublishWrite, Recorded, SharedInv
<1>2. releases' \in Seq(Releases)
  <2>1. \A n \in DOMAIN releases : releases[n] \in Releases
      BY DEF Recorded
  <2>2. Superseding(q.prior) \in Seq(Releases)
    <3>1. \A n \in DOMAIN releases : Superseding(q.prior)[n] \in Releases
        BY <2>1 DEF Superseding, Releases
    <3>2. DOMAIN releases = 1 .. Len(releases) /\ Len(releases) \in Nat
        BY DEF Recorded
    <3>3. QED
        BY <3>1, <3>2 DEF Superseding
  <2>3. release \in Releases
      BY <1>1 DEF Releases
  <2>4. releases' = Append(Superseding(q.prior), release)
      BY DEF PublishWrite
  <2>5. QED
      BY <2>2, <2>3, <2>4
<1>3. source' \in Sources
  <2>1. \A old \in Sources, new \in Sources : Flushed(source, old, new) \in Sources
      BY DEF Flushed, Sources, Recorded
  <2>2. [state |-> "published", version |-> q.source.version + 1] \in Sources
      BY <1>1 DEF Sources
  <2>3. QED
      BY <1>1, <2>1, <2>2 DEF PublishWrite
<1>4. \A r \in Row : Exists(r)' => rows'[r].read \in Values
  <2> SUFFICES ASSUME NEW r \in Row, Exists(r)' PROVE rows'[r].read \in Values
      OBVIOUS
  <2>1. rows'[r].read = rows[r].read /\ rows'[r].status = rows[r].status
      BY <1>1 DEF PublishWrite, Typed, Candidates
  <2>2. QED
      BY <2>1 DEF Exists, Recorded
<1>5. tx' = [tx EXCEPT ![a] = NoRequest] /\ UNCHANGED <<job, screen>>
    BY DEF PublishWrite
<1>6. \A b \in Reviewers : tx'[b] = tx[b] \/ tx'[b] = NoRequest
    BY <1>1, <1>5 DEF Typed
<1>7. QED
    BY <1>2, <1>3, <1>4, <1>5, <1>6, NoRequestTyped DEF Recorded

LEMMA WorkerRecorded ==
  ASSUME SharedInv, Recorded, Keep, ValidateRead \/ ValidateRefused \/ ValidateWrite \/ ValidateRolledBack \/ Reprocess
  PROVE  Recorded'
<1>1. /\ job' \in {job, "none", "queued", "running"} /\ UNCHANGED <<screen, tx>>
      /\ \/ UNCHANGED source
         \/ source' = [state |-> "awaiting_review", version |-> source.version + 1]
         \/ source' = [state |-> "reading", version |-> source.version + 1]
    BY DEF ValidateRead, ValidateRefused, ValidateWrite, ValidateRolledBack, Reprocess
<1>2. source' \in Sources
    BY <1>1 DEF Sources, Recorded
<1>3. \A r \in Row : Exists(r)' => rows'[r].read \in Values
  <2> SUFFICES ASSUME NEW r \in Row, Exists(r)' PROVE rows'[r].read \in Values
      OBVIOUS
  <2>1. PICK c \in Candidates : c = rows[r]
      BY DEF SharedInv, Typed
  <2>2. PICK b \in BOOLEAN : b = (Exists(r) /\ Blocked(check.values, r))
      OBVIOUS
  <2>3. rows'[r] = c \/ rows'[r] = [c EXCEPT !.blocked = b]
      BY <2>1, <2>2 DEF ValidateRead, ValidateRefused, ValidateWrite, ValidateRolledBack, Reprocess
  <2>4. rows'[r].read = c.read /\ rows'[r].status = c.status
      BY <2>3 DEF Candidates
  <2>5. QED
      BY <2>1, <2>4 DEF Exists, Recorded
<1>4. QED
    BY <1>1, <1>2, <1>3, RecordedStays DEF Keep

LEMMA ReadAgainRecorded == ASSUME SharedInv, Recorded, Keep, ReadAgain PROVE Recorded'
<1>1. PICK v \in [Items -> Values], n \in 2 .. MaxReads :
          rows' = [r \in Row |-> IF r[2] = n THEN AsRead(v[r[1]])
                                 ELSE IF rows[r].status = "pending" THEN Absent ELSE rows[r]]
    BY DEF ReadAgain
<1>2. /\ job' = Queue(job) /\ UNCHANGED <<screen, tx>>
      /\ source' = [state |-> "extracted", version |-> source.version + 1]
    BY DEF ReadAgain
<1>3. source' \in Sources /\ job' \in {job, "queued"}
    BY <1>2 DEF Sources, Recorded, Queue
<1>4. \A r \in Row : Exists(r)' => rows'[r].read \in Values
  <2> SUFFICES ASSUME NEW r \in Row, Exists(r)' PROVE rows'[r].read \in Values
      OBVIOUS
  <2>1. CASE r[2] = n
    <3>1. v[r[1]] \in Values
        BY DEF Row
    <3>2. PICK w \in Values : rows'[r] = AsRead(w)
        BY <1>1, <2>1, <3>1
    <3>3. QED
        BY <3>2, AsReadFields
  <2>2. CASE r[2] # n
      BY <1>1, <2>2, AbsentFields DEF Exists, Recorded
  <2>3. QED
      BY <2>1, <2>2
<1>5. QED
    BY <1>2, <1>3, <1>4, RecordedStays DEF Keep

-----------------------------------------------------------------------------
(* Every step keeps both.                                                  *)

Inv == SharedInv /\ Recorded

LEMMA ReviewerStepKeeps == ASSUME Inv, NEW a \in Reviewers PROVE
  /\ \A r \in Row : Load(a, r) /\ Keep => Inv'
  /\ \A outcome \in Outcomes, value \in Values \cup {NoValue} : DecideRead(a, outcome, value) /\ Keep => Inv'
  /\ DecideWrite(a) /\ Keep => Inv'
  /\ \A d \in decisions : UndoRead(a, d) /\ Keep => Inv'
  /\ UndoWrite(a) /\ Keep => Inv'
  /\ RolledBack(a) /\ Keep => Inv'
<1>1. ASSUME NEW r \in Row, Load(a, r), Keep PROVE Inv'
    BY <1>1, LoadShared, QuietRecorded DEF Inv
<1>2. ASSUME NEW outcome \in Outcomes, NEW value \in Values \cup {NoValue}, DecideRead(a, outcome, value), Keep
      PROVE  Inv'
    BY <1>2, DecideReadShared, QuietRecorded DEF Inv
<1>3. ASSUME DecideWrite(a), Keep PROVE Inv'
    BY <1>3, DecideWriteShared, DecideWriteRecorded DEF Inv
<1>4. ASSUME NEW d \in decisions, UndoRead(a, d), Keep PROVE Inv'
    BY <1>4, UndoReadShared, QuietRecorded DEF Inv
<1>5. ASSUME UndoWrite(a), Keep PROVE Inv'
    BY <1>5, UndoWriteShared, UndoWriteRecorded DEF Inv
<1>6. ASSUME RolledBack(a), Keep PROVE Inv'
    BY <1>6, DoneShared, QuietRecorded DEF Inv
<1>7. QED
    BY <1>1, <1>2, <1>3, <1>4, <1>5, <1>6

LEMMA ReleaseStepKeeps == ASSUME Inv, NEW a \in Reviewers PROVE
  /\ \A scope \in Scopes : Preview(a, scope) => Inv'
  /\ PublishRead(a) => Inv'
  /\ PublishWrite(a) => Inv'
  /\ PublishRolledBack(a) => Inv'
<1>1. ASSUME NEW scope \in Scopes, Preview(a, scope) PROVE Inv'
    BY <1>1, PreviewShared, PreviewRecorded DEF Inv
<1>2. ASSUME PublishRead(a) PROVE Inv'
    BY <1>2, PublishReadShared, PublishReadRecorded DEF Inv
<1>3. ASSUME PublishWrite(a) PROVE Inv'
    BY <1>3, PublishWriteShared, PublishWriteRecorded DEF Inv
<1>4. ASSUME PublishRolledBack(a) PROVE Inv'
    BY <1>4, DoneShared, RequestRecorded, NoRequestTyped DEF Inv, PublishRolledBack, Keep
<1>5. QED
    BY <1>1, <1>2, <1>3, <1>4

LEMMA WorkerStepKeeps ==
  ASSUME Inv, Keep, ValidateRead \/ ValidateRefused \/ ValidateWrite \/ ValidateRolledBack \/ Reprocess \/ ReadAgain
  PROVE  Inv'
<1>1. CASE ValidateRead \/ ValidateRefused \/ ValidateRolledBack \/ Reprocess
    BY <1>1, IdleShared, WorkerRecorded DEF Inv, ValidateRead, ValidateRefused, ValidateRolledBack, Reprocess
<1>2. CASE ValidateWrite
    BY <1>2, ValidateWriteShared, WorkerRecorded DEF Inv
<1>3. CASE ReadAgain
    BY <1>3, ReadAgainShared, ReadAgainRecorded DEF Inv
<1>4. QED
    BY <1>1, <1>2, <1>3

LEMMA StepKeeps == ASSUME Inv, [Next]_vars PROVE Inv'
<1>1. CASE UNCHANGED vars
  <2>1. SharedInv'
      BY <1>1, IdleShared DEF Inv, vars
  <2>2. Recorded'
      BY <1>1 DEF Inv, vars, Recorded, Exists
  <2>3. QED
      BY <2>1, <2>2 DEF Inv
<1>2. CASE Next
    BY <1>2, ReviewerStepKeeps, ReleaseStepKeeps, WorkerStepKeeps DEF Next
<1>3. QED
    BY <1>1, <1>2

THEOREM ReviewInvariant == Spec => []Inv
<1>1. PublicationInit => Inv
    BY InitShared, InitRecorded DEF Inv
<1>2. Inv /\ [Next]_vars => Inv'
    BY StepKeeps
<1>3. QED
    BY <1>1, <1>2, PTL DEF Spec

\* Every variable of the review and of the releases keeps its kind (models.py: candidates,
\* review_decisions, data_releases, published_facts).
THEOREM ReviewTypeCorrect == Spec => []PublicationTypeOK
<1>1. ASSUME Inv PROVE PublicationTypeOK
  <2>1. \A r \in Row : /\ Snapshot(rows[r]) \in Snapshots
                       /\ rows[r].count \in Nat /\ rows[r].release \in 0 .. MaxReleases
    <3> SUFFICES ASSUME NEW r \in Row
                 PROVE  /\ Snapshot(rows[r]) \in Snapshots
                        /\ rows[r].count \in Nat /\ rows[r].release \in 0 .. MaxReleases
        OBVIOUS
    <3>1. rows[r] \in Candidates
        BY <1>1 DEF Inv, SharedInv, Typed
    <3>2. QED
        BY <3>1, SnapshotFields DEF Candidates
  <2>2. \A d \in decisions : /\ d.row \in Row /\ d.by \in Reviewers /\ d.outcome \in Outcomes
                             /\ d.seq \in Nat \ {0} /\ d.round \in {1, 2}
      BY <1>1 DEF Inv, SharedInv, Typed, Decided
  <2>3. \A n \in 1 .. Len(releases) : \A f \in releases[n].facts : f.row \in Row /\ f.value \in Values
    <3>1. \A n \in 1 .. Len(releases) : releases[n] \in Releases
        BY <1>1 DEF Inv, Recorded
    <3>2. QED
        BY <3>1 DEF Releases, FactsOf
  <2>4. /\ source.state \in {"awaiting_review", "published", "reading", "extracted"} /\ source.version \in Nat
        /\ job \in {"none", "queued", "running"}
      BY <1>1 DEF Inv, Recorded, Sources
  <2>5. QED
      BY <2>1, <2>2, <2>3, <2>4 DEF PublicationTypeOK
<1>2. QED
    BY <1>1, ReviewInvariant, PTL

\* Whether requests overlap or not, a second decision follows a first one of another
\* reviewer on the same row, the one it read (decide, undo, extract).
THEOREM ReviewSecondFollowsFirst == Spec => []SecondFollowsFirst
<1>1. Inv => SecondFollowsFirst
    BY DEF Inv, SharedInv, Lawfulness, Lawful, FirstsStand, FirstBy, SecondFollowsFirst
<1>2. QED
    BY <1>1, ReviewInvariant, PTL

-----------------------------------------------------------------------------
(* What a request writes when no other one is open.                        *)

LEMMA FreshFields ==
  ASSUME NEW v \in Values, NEW b \in BOOLEAN
  PROVE  Snapshot(AsRead(v)) = Fresh /\ Snapshot([AsRead(v) EXCEPT !.blocked = b]) = Fresh
<1>1. \A c \in {AsRead(v), [AsRead(v) EXCEPT !.blocked = b]} :
          /\ c \in Candidates /\ c.status = "pending" /\ c.reviewed = NoValue /\ c.by = NoOne
          /\ c.first = NoOne /\ c.second = "not_required"
  <2>1. /\ AsRead(v) \in Candidates /\ AsRead(v).status = "pending" /\ AsRead(v).reviewed = NoValue
        /\ AsRead(v).by = NoOne /\ AsRead(v).first = NoOne /\ AsRead(v).second = "not_required"
      BY AsReadFields, AbsentFields, ZenonT(60) DEF AsRead, Candidates
  <2>2. QED
      BY <2>1 DEF Candidates
<1>2. QED
    BY <1>1, SnapshotFields DEF Fresh

\* What is flushed onto a row that is as it was read is the new candidate.
LEMMA FlushedSame ==
  ASSUME NEW row \in Candidates, NEW old \in Candidates, NEW new \in Candidates, Same(row, old)
  PROVE  LET c == Flushed(row, old, new)
         IN /\ c \in Candidates /\ Snapshot(c) = Snapshot(new)
            /\ c.version = new.version /\ c.count = new.count /\ c.release = new.release
<1> DEFINE c == Flushed(row, old, new)
<1>1. /\ row.status = old.status /\ row.reviewed = old.reviewed /\ row.by = old.by
      /\ row.first = old.first /\ row.second = old.second
  <2>1. [status |-> row.status, reviewed |-> row.reviewed, by |-> row.by, first |-> row.first, second |-> row.second]
        = [status |-> old.status, reviewed |-> old.reviewed, by |-> old.by, first |-> old.first, second |-> old.second]
      BY SnapshotFields DEF Same
  <2>2. QED
      BY <2>1
<1>2. c \in Candidates
    BY FlushedFields
<1>3. /\ c.status = new.status /\ c.reviewed = new.reviewed /\ c.by = new.by /\ c.first = new.first /\ c.second = new.second
      /\ c.version = new.version /\ c.count = new.count /\ c.release = new.release
    BY <1>1 DEF Flushed, Candidates, Same
<1> HIDE DEF c
<1>4. Snapshot(c) = Snapshot(new)
    BY <1>2, <1>3, SnapshotFields
<1>5. QED
    BY <1>2, <1>3, <1>4 DEF c

\* A decision on row r, by itself.
DecidedOn(r, d, c) ==
    /\ r \in Row /\ Exists(r) /\ d \in Decided /\ c \in Candidates /\ c.status # "absent"
    /\ d.row = r /\ ~d.undone /\ d.seq = rows[r].count + 1
    /\ d.before = Snapshot(rows[r]) /\ d.shows = d.before /\ d.after = Snapshot(c)
    /\ c.count = rows[r].count + 1 /\ c.version = rows[r].version + 1
    /\ rows[r].release = 0 /\ c.release = 0
    /\ rows' = [rows EXCEPT ![r] = c] /\ decisions' = decisions \cup {d}
    /\ UNCHANGED <<screen, source>> /\ \A b \in Reviewers : tx'[b] = NoRequest

\* The decision d, undone as e, by itself.
UndoneOn(r, d, e, c) ==
    /\ r \in Row /\ Exists(r) /\ d \in LatestOf(r) /\ e \in Decided /\ c \in Candidates /\ c.status # "absent"
    /\ e.row = r /\ e.undone /\ e.seq = d.seq /\ e.before = d.before /\ e.shows = d.shows
    /\ Snapshot(c) = d.before /\ c.count = rows[r].count /\ c.version = rows[r].version + 1
    /\ rows[r].release = 0 /\ c.release = 0
    /\ rows' = [rows EXCEPT ![r] = c] /\ decisions' = (decisions \ {d}) \cup {e}
    /\ UNCHANGED <<screen, source>> /\ \A b \in Reviewers : tx'[b] = NoRequest

LEMMA OneIsDone ==
  ASSUME Inv, Alone, NEW a \in Reviewers, tx[a] # NoRequest, tx' = [tx EXCEPT ![a] = NoRequest]
  PROVE  \A b \in Reviewers : tx'[b] = NoRequest
  BY DEF Alone, Inv, SharedInv, Typed

LEMMA DecideWriteAlone ==
  ASSUME Inv, Sight, NEW a \in Reviewers, DecideWrite(a)
  PROVE  \E r, d, c : DecidedOn(r, d, c)
<1> DEFINE q == tx[a]
           new == AfterDecision(q.old, a, ItemOf(q.row), q.outcome, q.value)
           d == [row |-> q.row, seq |-> new.count, by |-> a, outcome |-> q.outcome,
                 round |-> IF q.old.status = "awaiting_second_review" THEN 2 ELSE 1,
                 shows |-> q.shows, before |-> Snapshot(q.old), after |-> Snapshot(new), undone |-> FALSE]
           c == Flushed(rows[q.row], q.old, new)
<1>1. q.kind = "decide" /\ SharedInv
    BY DEF DecideWrite, Inv
<1>2. q \in Deciding /\ q.row \in Row /\ Exists(q.row) /\ d \in Decided /\ c \in Candidates /\ c.status # "absent"
    BY <1>1, DecideWriteMakes
<1>3. /\ q.old \in Candidates /\ q.outcome \in Outcomes /\ q.value \in Values \cup {NoValue} /\ ItemOf(q.row) \in Items
      /\ rows[q.row] \in Candidates
    BY <1>1, <1>2 DEF Deciding, ItemOf, Row, SharedInv, Typed
<1>4. new \in Candidates /\ new.count = q.old.count + 1 /\ new.version = q.old.version + 1 /\ new.release = q.old.release
    BY <1>3, AfterDecisionFields
<1>5. /\ Same(rows[q.row], q.old) /\ q.shows = Snapshot(q.old) /\ q.old.release = 0
    BY <1>1 DEF Sight, UpToDate
<1>6. /\ d.row = q.row /\ ~d.undone /\ d.seq = new.count /\ d.before = Snapshot(q.old) /\ d.shows = q.shows
      /\ d.after = Snapshot(new)
    OBVIOUS
<1>7. /\ rows' = [rows EXCEPT ![q.row] = c] /\ decisions' = decisions \cup {d}
      /\ UNCHANGED <<screen, source>> /\ tx' = [tx EXCEPT ![a] = NoRequest]
    BY DEF DecideWrite
<1>8. q # NoRequest
    BY <1>1, NoRequestTyped
<1> HIDE DEF new, d
<1>9. Snapshot(c) = Snapshot(new) /\ c.version = new.version /\ c.count = new.count /\ c.release = new.release
    BY <1>3, <1>4, <1>5, FlushedSame
<1> HIDE DEF c
<1>10. \A b \in Reviewers : tx'[b] = NoRequest
    BY <1>7, <1>8, OneIsDone DEF Sight
<1> HIDE DEF q
<1>11. DecidedOn(q.row, d, c)
    BY <1>2, <1>4, <1>5, <1>6, <1>7, <1>9, <1>10 DEF DecidedOn, Same
<1>12. QED
    BY <1>11

LEMMA UndoWriteAlone ==
  ASSUME Inv, Sight, NEW a \in Reviewers, UndoWrite(a)
  PROVE  \E r, d, e, c : UndoneOn(r, d, e, c)
<1> DEFINE q == tx[a]
           d == q.decision
           e == [d EXCEPT !.undone = TRUE]
           back == Restored(q.old, d.before)
           c == Flushed(rows[d.row], q.old, back)
<1>1. q.kind = "undo" /\ Exists(d.row) /\ Typed /\ SharedInv
    BY DEF UndoWrite, Inv, SharedInv
<1>2. q \in Undoing
    BY <1>1 DEF Typed, RequestTyped, NoRequest, Deciding
<1>3. d \in Decided /\ q.old \in Candidates /\ d.row \in Row /\ d.before \in Snapshots /\ rows[d.row] \in Candidates
    BY <1>1, <1>2 DEF Undoing, Decided, Typed
<1>4. Lawful(d)
    BY <1>1 DEF SharedInv, Lawfulness
<1>5. e \in Decided /\ e.row = d.row /\ e.seq = d.seq /\ e.undone /\ e.before = d.before /\ e.shows = d.shows
    BY <1>3, UndoneFields
<1>6. /\ back \in Candidates /\ Snapshot(back) = d.before /\ back.version = q.old.version + 1
      /\ back.count = q.old.count /\ back.release = q.old.release
    BY <1>3, RestoredFields
<1>7. Same(rows[d.row], q.old) /\ d \in LatestOf(d.row) /\ q.old.release = 0
    BY <1>1 DEF Sight, UpToDate
<1>8. /\ rows' = [rows EXCEPT ![d.row] = c] /\ decisions' = (decisions \ {d}) \cup {e}
      /\ UNCHANGED <<screen, source>> /\ tx' = [tx EXCEPT ![a] = NoRequest]
    BY DEF UndoWrite
<1>9. q # NoRequest
    BY <1>1, NoRequestTyped
<1> HIDE DEF e, back
<1>10. /\ c \in Candidates /\ Snapshot(c) = d.before
       /\ c.version = back.version /\ c.count = back.count /\ c.release = back.release
    BY <1>3, <1>6, <1>7, FlushedSame
<1> HIDE DEF c
<1>11. c.status # "absent"
    BY <1>3, <1>4, <1>10, SnapshotFields DEF Lawful, Open
<1>12. \A b \in Reviewers : tx'[b] = NoRequest
    BY <1>8, <1>9, OneIsDone DEF Sight
<1> HIDE DEF q, d
<1>13. UndoneOn(d.row, d, e, c)
    BY <1>1, <1>3, <1>5, <1>6, <1>7, <1>8, <1>10, <1>11, <1>12 DEF UndoneOn, Same
<1>14. QED
    BY <1>13

-----------------------------------------------------------------------------
(* The story of a row.                                                     *)

LEMMA InitStory == PublicationInit => Story
<1> SUFFICES ASSUME PublicationInit PROVE Story
    OBVIOUS
<1>1. PICK v \in [Items -> Values] :
          rows = [r \in Row |-> IF r[2] > 1 THEN Absent
                                ELSE [AsRead(v[r[1]]) EXCEPT !.blocked = <<r[1], v[r[1]]>> \in Flawed]]
    BY DEF PublicationInit, Init
<1>2. decisions = {}
    BY DEF PublicationInit, Init
<1>3. ASSUME NEW r \in Row, Exists(r) PROVE Snapshot(rows[r]) = Fresh
  <2>1. r[1] \in Items /\ ~(r[2] > 1)
      BY <1>1, <1>3, AbsentFields DEF Row, Exists
  <2>2. rows[r] = [AsRead(v[r[1]]) EXCEPT !.blocked = <<r[1], v[r[1]]>> \in Flawed]
      BY <1>1, <2>1
  <2>3. v[r[1]] \in Values /\ (<<r[1], v[r[1]]>> \in Flawed) \in BOOLEAN
      BY <2>1
  <2>4. PICK w \in Values, b \in BOOLEAN : rows[r] = [AsRead(w) EXCEPT !.blocked = b]
      BY <2>2, <2>3
  <2>5. QED
      BY <2>4, FreshFields
<1>4. \A r \in Row : Standing(r) = {}
    BY <1>2 DEF Standing
<1>5. QED
    BY <1>2, <1>3, <1>4 DEF Story, Numbered, Chained, Ended, DecidedAsSeen

\* Other columns are written.
LEMMA StoryStays ==
  ASSUME Inv, Story, UNCHANGED decisions,
         \A r \in Row : rows'[r].status = rows[r].status /\ Snapshot(rows'[r]) = Snapshot(rows[r]) /\ rows'[r].count = rows[r].count
  PROVE  Story'
<1>1. \A d \in decisions : d.row \in Row
    BY DEF Inv, SharedInv, Typed, Decided
<1>2. Numbered'
    BY <1>1 DEF Story, Numbered
<1>3. \A r : Standing(r)' = Standing(r) /\ LatestOf(r)' = LatestOf(r)
    BY DEF Standing, LatestOf
<1>4. \A r \in Row : Exists(r)' <=> Exists(r)
    BY DEF Exists
<1>5. Ended'
    BY <1>3, <1>4 DEF Story, Ended
<1>6. Chained'
    BY <1>3 DEF Story, Chained, Founded, Follows
<1>7. DecidedAsSeen'
    BY DEF Story, DecidedAsSeen
<1>8. QED
    BY <1>2, <1>5, <1>6, <1>7 DEF Story

LEMMA StoryDecided == ASSUME Inv, Story, NEW r, NEW d, NEW c, DecidedOn(r, d, c) PROVE Story'
<1>1. /\ r \in Row /\ Exists(r) /\ d \in Decided /\ c \in Candidates /\ c.status # "absent"
      /\ d.row = r /\ ~d.undone /\ d.seq = rows[r].count + 1
      /\ d.before = Snapshot(rows[r]) /\ d.shows = d.before /\ d.after = Snapshot(c)
      /\ c.count = rows[r].count + 1
      /\ rows' = [rows EXCEPT ![r] = c] /\ decisions' = decisions \cup {d}
    BY DEF DecidedOn
<1>2. Typed /\ \A e \in decisions : e.row \in Row /\ e.seq \in Nat /\ Exists(e.row)
    BY DEF Inv, SharedInv, Typed, Decided, Lawfulness
<1>3. /\ \A s \in Row : rows'[s] = IF s = r THEN c ELSE rows[s]
      /\ \A s \in Row : Exists(s)' <=> Exists(s)
      /\ rows[r].count \in Nat
    BY <1>1, <1>2 DEF Typed, Exists, Candidates
<1>4. \A e \in decisions : e.row = r => e.seq < d.seq
    BY <1>1, <1>2, <1>3 DEF Story, Numbered
<1>5. Numbered'
  <2>1. ASSUME NEW e \in decisions' PROVE e.seq <= rows'[e.row].count
    <3>1. CASE e \in decisions
        BY <1>1, <1>2, <1>3, <1>4, <3>1 DEF Story, Numbered
    <3>2. CASE e = d
        BY <1>1, <1>3, <3>2
    <3>3. QED
        BY <1>1, <3>1, <3>2
  <2>2. ASSUME NEW e \in decisions', NEW f \in decisions', f.row = e.row, f.seq = e.seq PROVE f = e
    <3>1. CASE e \in decisions /\ f \in decisions
        BY <2>2, <3>1 DEF Story, Numbered
    <3>2. CASE e = d \/ f = d
      <4>1. \A g \in decisions : g.row = d.row => g.seq # d.seq
          BY <1>1, <1>2, <1>3, <1>4
      <4>2. QED
          BY <1>1, <2>2, <3>2, <4>1
    <3>3. QED
        BY <1>1, <3>1, <3>2
  <2>3. QED
      BY <2>1, <2>2 DEF Numbered
<1>6. /\ Standing(r)' = Standing(r) \cup {d}
      /\ \A s : s # r => Standing(s)' = Standing(s) /\ LatestOf(s)' = LatestOf(s)
    BY <1>1 DEF Standing, LatestOf
<1>7. d \in LatestOf(r)'
  <2>1. d.seq \in Nat
      BY <1>1, <1>3
  <2>2. \A e \in Standing(r)' : e.seq <= d.seq
    <3>1. \A e \in Standing(r) : e.seq <= d.seq
        BY <1>2, <1>4, <2>1 DEF Standing
    <3>2. QED
        BY <1>6, <2>1, <3>1
  <2>3. LatestOf(r)' = {x \in Standing(r)' : \A e \in Standing(r)' : e.seq <= x.seq}
      BY DEF LatestOf
  <2>4. QED
      BY <1>6, <2>2, <2>3
<1>8. Ended'
  <2> SUFFICES ASSUME NEW s \in Row, Exists(s)'
               PROVE  (Standing(s) = {} /\ Snapshot(rows[s]) = Fresh)' \/ \E e \in LatestOf(s)' : Snapshot(rows'[s]) = e.after
      BY DEF Ended
  <2>1. CASE s = r
      BY <1>1, <1>3, <1>7, <2>1
  <2>2. CASE s # r
      BY <1>3, <1>6, <2>2 DEF Story, Ended
  <2>3. QED
      BY <2>1, <2>2
<1>9. Chained'
  <2>1. ASSUME NEW e \in decisions, ~e.undone PROVE (Founded(e) \/ \E g \in Standing(e.row) : Follows(e, g))'
    <3>1. CASE e.row = r
      <4>1. e.seq < d.seq /\ d.seq \in Nat /\ e.seq \in Nat
          BY <1>1, <1>2, <1>3, <1>4, <3>1
      <4>2. CASE Founded(e)
          BY <1>6, <3>1, <4>1, <4>2 DEF Founded
      <4>3. CASE \E g \in Standing(r) : Follows(e, g)
          BY <1>6, <3>1, <4>1, <4>3 DEF Follows
      <4>4. QED
          BY <2>1, <3>1, <4>2, <4>3 DEF Story, Chained
    <3>2. CASE e.row # r
        BY <1>6, <2>1, <3>2 DEF Story, Chained, Founded, Follows
    <3>3. QED
        BY <3>1, <3>2
  <2>2. (Founded(d) \/ \E g \in Standing(d.row) : Follows(d, g))'
    <3>1. CASE Standing(r) = {} /\ Snapshot(rows[r]) = Fresh
        BY <1>1, <1>3, <1>6, <3>1 DEF Founded
    <3>2. CASE \E g \in LatestOf(r) : Snapshot(rows[r]) = g.after
      <4>1. PICK g \in LatestOf(r) : Snapshot(rows[r]) = g.after
          BY <3>2
      <4>2. g \in Standing(r) /\ (\A f \in Standing(r) : f.seq <= g.seq) /\ g.seq < d.seq /\ g \in Standing(r)'
          BY <1>4, <1>6, <4>1 DEF LatestOf, Standing
      <4>3. \A f \in Standing(r)' : f.seq <= g.seq \/ d.seq <= f.seq
          BY <1>1, <1>3, <1>6, <4>2
      <4>4. Follows(d, g)'
          BY <1>1, <4>1, <4>2, <4>3 DEF Follows
      <4>5. QED
          BY <1>1, <4>2, <4>4
    <3>3. QED
        BY <1>1, <3>1, <3>2 DEF Story, Ended
  <2>3. QED
      BY <1>1, <2>1, <2>2 DEF Chained
<1>10. DecidedAsSeen'
    BY <1>1 DEF Story, DecidedAsSeen
<1>11. QED
    BY <1>5, <1>8, <1>9, <1>10 DEF Story

LEMMA StoryUndone == ASSUME Inv, Story, NEW r, NEW d, NEW e, NEW c, UndoneOn(r, d, e, c) PROVE Story'
<1>1. /\ r \in Row /\ Exists(r) /\ d \in LatestOf(r) /\ e \in Decided /\ c \in Candidates /\ c.status # "absent"
      /\ e.row = r /\ e.undone /\ e.seq = d.seq /\ e.before = d.before /\ e.shows = d.shows
      /\ Snapshot(c) = d.before /\ c.count = rows[r].count
      /\ rows' = [rows EXCEPT ![r] = c] /\ decisions' = (decisions \ {d}) \cup {e}
    BY DEF UndoneOn
<1>2. /\ d \in decisions /\ d.row = r /\ ~d.undone /\ \A f \in Standing(r) : f.seq <= d.seq
      /\ Typed /\ \A f \in decisions : f.row \in Row /\ f.seq \in Nat
    BY <1>1 DEF LatestOf, Standing, Inv, SharedInv, Typed, Decided
<1>3. /\ \A s \in Row : rows'[s] = IF s = r THEN c ELSE rows[s]
      /\ \A s \in Row : Exists(s)' <=> Exists(s)
    BY <1>1, <1>2 DEF Typed, Exists
<1>4. Numbered'
  <2>1. ASSUME NEW f \in decisions' PROVE f.seq <= rows'[f.row].count
      BY <1>1, <1>2, <1>3 DEF Story, Numbered
  <2>2. ASSUME NEW f \in decisions', NEW g \in decisions', g.row = f.row, g.seq = f.seq PROVE g = f
    <3>1. \A h \in decisions : h.row = d.row /\ h.seq = d.seq => h = d
        BY <1>2 DEF Story, Numbered
    <3>2. CASE f \in decisions \ {d} /\ g \in decisions \ {d}
        BY <2>2, <3>2 DEF Story, Numbered
    <3>3. CASE f = e \/ g = e
        BY <1>1, <1>2, <2>2, <3>1, <3>3
    <3>4. QED
        BY <1>1, <3>2, <3>3
  <2>3. QED
      BY <2>1, <2>2 DEF Numbered
<1>5. /\ Standing(r)' = Standing(r) \ {d}
      /\ \A s : s # r => Standing(s)' = Standing(s) /\ LatestOf(s)' = LatestOf(s)
    BY <1>1, <1>2 DEF Standing, LatestOf
<1>6. \A f \in Standing(r)' : f.seq < d.seq /\ f \in Standing(r)
  <2> SUFFICES ASSUME NEW f \in Standing(r)' PROVE f.seq < d.seq /\ f \in Standing(r)
      OBVIOUS
  <2>1. f \in Standing(r) /\ f # d /\ f \in decisions /\ f.row = d.row
      BY <1>2, <1>5 DEF Standing
  <2>2. f.seq # d.seq
      BY <1>2, <2>1 DEF Story, Numbered
  <2>3. QED
      BY <1>2, <2>1, <2>2
<1>7. Ended'
  <2> SUFFICES ASSUME NEW s \in Row, Exists(s)'
               PROVE  (Standing(s) = {} /\ Snapshot(rows[s]) = Fresh)' \/ \E g \in LatestOf(s)' : Snapshot(rows'[s]) = g.after
      BY DEF Ended
  <2>1. CASE s = r
    <3>1. Snapshot(rows'[r]) = d.before
        BY <1>1, <1>3
    <3>2. CASE Founded(d)
      <4>1. Standing(r)' = {}
          BY <1>2, <1>6, <3>2 DEF Founded, Standing
      <4>2. QED
          BY <2>1, <3>1, <3>2, <4>1 DEF Founded
    <3>3. CASE \E g \in Standing(r) : Follows(d, g)
      <4>1. PICK g \in Standing(r) : Follows(d, g)
          BY <3>3
      <4>2. g.seq < d.seq /\ d.before = g.after /\ \A f \in Standing(r) : f.seq <= g.seq \/ d.seq <= f.seq
          BY <1>2, <4>1 DEF Follows
      <4>3. g \in Standing(r)'
          BY <1>2, <1>5, <4>2
      <4>4. \A f \in Standing(r)' : f.seq <= g.seq
        <5> SUFFICES ASSUME NEW f \in Standing(r)' PROVE f.seq <= g.seq
            OBVIOUS
        <5>1. f.seq < d.seq /\ f \in Standing(r) /\ f.seq \in Nat /\ d.seq \in Nat
            BY <1>2, <1>6 DEF Standing
        <5>2. QED
            BY <4>2, <5>1
      <4>5. g \in LatestOf(r)'
          BY <4>3, <4>4 DEF LatestOf
      <4>6. QED
          BY <2>1, <3>1, <4>2, <4>5
    <3>4. QED
        BY <1>2, <3>2, <3>3 DEF Story, Chained
  <2>2. CASE s # r
      BY <1>3, <1>5, <2>2 DEF Story, Ended
  <2>3. QED
      BY <2>1, <2>2
<1>8. Chained'
  <2> SUFFICES ASSUME NEW f \in decisions', ~f.undone
               PROVE  (Founded(f) \/ \E g \in Standing(f.row) : Follows(f, g))'
      BY DEF Chained
  <2>1. f \in decisions
      BY <1>1
  <2>2. CASE f.row = r
    <3>1. f \in Standing(r)'
        BY <2>2 DEF Standing
    <3>2. f.seq < d.seq /\ f.seq \in Nat /\ d.seq \in Nat
        BY <1>2, <1>6, <2>1, <3>1
    <3>3. CASE Founded(f)
        BY <1>5, <2>2, <3>3 DEF Founded
    <3>4. CASE \E g \in Standing(r) : Follows(f, g)
      <4>1. PICK g \in Standing(r) : Follows(f, g)
          BY <3>4
      <4>2. g # d
          BY <1>2, <3>2, <4>1 DEF Follows
      <4>3. QED
          BY <1>5, <2>2, <4>1, <4>2 DEF Follows
    <3>5. QED
        BY <2>1, <2>2, <3>3, <3>4 DEF Story, Chained
  <2>3. CASE f.row # r
      BY <1>5, <2>1, <2>3 DEF Story, Chained, Founded, Follows
  <2>4. QED
      BY <2>2, <2>3
<1>9. DecidedAsSeen'
    BY <1>1, <1>2 DEF Story, DecidedAsSeen
<1>10. QED
    BY <1>4, <1>7, <1>8, <1>9 DEF Story

\* A re-reading leaves a row that stays as it is, and takes the decisions of the others.
LEMMA ReadAgainLeaves ==
  ASSUME Inv, ReadAgain
  PROVE  /\ \A d \in decisions' : d \in decisions /\ Exists(d.row)
         /\ \A r \in Row :
              \/ /\ Exists(r) /\ rows'[r] = rows[r]
                 /\ Standing(r)' = Standing(r) /\ LatestOf(r)' = LatestOf(r)
              \/ ~Exists(r)' /\ Standing(r)' = {} /\ rows[r].status \in {"pending", "absent"}
              \/ ~Named(r) /\ Standing(r)' = {} /\ Snapshot(rows'[r]) = Fresh /\ ~Exists(r)
<1>1. PICK n \in 2 .. MaxReads :
        /\ \A r \in Row : /\ (r[2] >= n => ~Exists(r) /\ ~Named(r))
                          /\ rows'[r] \in Candidates
                          /\ (r[2] = n => rows'[r].status = "pending" /\ rows'[r].first = NoOne)
                          /\ (r[2] # n /\ rows[r].status = "pending" => rows'[r].status = "absent" /\ rows'[r].first = NoOne)
                          /\ (r[2] # n /\ rows[r].status # "pending" => rows'[r] = rows[r])
        /\ decisions' = {d \in decisions : rows[d.row].status # "pending"}
    BY ReadAgainMakes DEF Inv
<1>2. \A d \in decisions : Exists(d.row) /\ Named(d.row)
    BY DEF Inv, SharedInv, Lawfulness, Named
<1>3. ASSUME NEW r \in Row, r[2] # n, rows[r].status # "pending"
      PROVE  rows'[r] = rows[r] /\ Standing(r)' = Standing(r) /\ LatestOf(r)' = LatestOf(r)
  <2>1. rows'[r] = rows[r]
      BY <1>1, <1>3
  <2>2. Standing(r)' = Standing(r)
      BY <1>1, <1>3 DEF Standing
  <2>3. QED
      BY <2>1, <2>2 DEF LatestOf
<1>4. ASSUME NEW r \in Row, r[2] # n, rows[r].status = "pending" PROVE ~Exists(r)' /\ Standing(r)' = {}
    BY <1>1, <1>4 DEF Exists, Standing
<1>5. ASSUME NEW r \in Row, r[2] = n PROVE ~Named(r) /\ Standing(r)' = {} /\ Snapshot(rows'[r]) = Fresh /\ ~Exists(r)
  <2>1. ~Named(r)
      BY <1>1, <1>5
  <2>2. \A d \in decisions : d.row # r
      BY <1>2, <2>1
  <2>3. Standing(r)' = {}
      BY <1>1, <2>2 DEF Standing
  <2>4. PICK v \in [Items -> Values], m \in 2 .. MaxReads :
            /\ \A s \in Row : s[2] >= m => ~Exists(s)
            /\ rows' = [s \in Row |-> IF s[2] = m THEN AsRead(v[s[1]])
                                      ELSE IF rows[s].status = "pending" THEN Absent ELSE rows[s]]
      BY DEF ReadAgain
  <2>5. ~Exists(r) /\ rows'[r].status = "pending"
      BY <1>1, <1>5
  <2>6. rows'[r] = AsRead(v[r[1]]) /\ v[r[1]] \in Values
      BY <2>4, <2>5, AbsentFields DEF Exists, Row
  <2>7. QED
      BY <2>1, <2>3, <2>5, <2>6, FreshFields
<1>6. \A r \in Row : r[2] # n /\ rows[r].status # "pending" => Exists(r) \/ (~Exists(r)' /\ Standing(r)' = {})
  <2> SUFFICES ASSUME NEW r \in Row, r[2] # n, rows[r].status # "pending", ~Exists(r)
               PROVE  ~Exists(r)' /\ Standing(r)' = {}
      OBVIOUS
  <2>1. ~Exists(r)' /\ Standing(r)' = Standing(r)
      BY <1>3 DEF Exists
  <2>2. \A d \in decisions : d.row # r
      BY <1>2
  <2>3. QED
      BY <2>1, <2>2 DEF Standing
<1>7. \A r \in Row : ~Exists(r) => rows[r].status = "absent"
    BY DEF Exists
<1>8. QED
    BY <1>1, <1>2, <1>3, <1>4, <1>5, <1>6, <1>7

LEMMA StoryReadAgain == ASSUME Inv, Story, ReadAgain PROVE Story'
<1>1. /\ \A d \in decisions' : d \in decisions /\ Exists(d.row)
      /\ \A r \in Row :
              \/ /\ Exists(r) /\ rows'[r] = rows[r]
                 /\ Standing(r)' = Standing(r) /\ LatestOf(r)' = LatestOf(r)
              \/ ~Exists(r)' /\ Standing(r)' = {} /\ rows[r].status \in {"pending", "absent"}
              \/ ~Named(r) /\ Standing(r)' = {} /\ Snapshot(rows'[r]) = Fresh /\ ~Exists(r)
    BY ReadAgainLeaves
<1>2. \A d \in decisions' : d.row \in Row /\ Named(d.row) /\ Exists(d.row)'
    BY <1>1, ReadAgainShared DEF Inv, SharedInv, Typed, Decided, Named, Lawfulness
<1>3. \A d \in decisions' : rows'[d.row] = rows[d.row]
    BY <1>1, <1>2
<1>4. Numbered'
    BY <1>1, <1>3 DEF Story, Numbered
<1>5. Ended'
  <2> SUFFICES ASSUME NEW s \in Row, Exists(s)'
               PROVE  (Standing(s) = {} /\ Snapshot(rows[s]) = Fresh)' \/ \E g \in LatestOf(s)' : Snapshot(rows'[s]) = g.after
      BY DEF Ended
  <2>1. CASE Exists(s) /\ rows'[s] = rows[s] /\ Standing(s)' = Standing(s) /\ LatestOf(s)' = LatestOf(s)
      BY <2>1 DEF Story, Ended
  <2>2. QED
      BY <1>1, <2>1
<1>6. Chained'
  <2> SUFFICES ASSUME NEW f \in decisions', ~f.undone
               PROVE  (Founded(f) \/ \E g \in Standing(f.row) : Follows(f, g))'
      BY DEF Chained
  <2>1. f \in decisions /\ Standing(f.row)' = Standing(f.row)
    <3>1. f \in Standing(f.row)'
        BY DEF Standing
    <3>2. QED
        BY <1>1, <1>2, <3>1
  <2>2. QED
      BY <2>1 DEF Story, Chained, Founded, Follows
<1>7. DecidedAsSeen'
    BY <1>1 DEF Story, DecidedAsSeen
<1>8. QED
    BY <1>4, <1>5, <1>6, <1>7 DEF Story

-----------------------------------------------------------------------------
(* What a request and a screen have seen.                                  *)

LEMMA InitSight == PublicationInit => Sight
<1> SUFFICES ASSUME PublicationInit PROVE Sight
    OBVIOUS
<1>1. \A a \in Reviewers : tx[a] = NoRequest /\ tx[a].kind = "none" /\ screen[a].page = "none"
    BY DEF PublicationInit, Init, NoRequest, BlankScreen
<1>2. QED
    BY <1>1 DEF Sight, Alone, UpToDate, InSight

\* A request begins or is forgotten, or a screen changes; nothing is written.
LEMMA SightRequest ==
  ASSUME Inv, Sight, NEW a \in Reviewers, UNCHANGED <<rows, decisions, source>>,
         \A b \in Reviewers : b # a => tx'[b] = tx[b] /\ screen'[b] = screen[b],
         tx'[a] \in {tx[a], NoRequest} \/ \A b \in Reviewers : tx[b] = NoRequest,
         tx'[a].kind = "decide" =>
             \/ tx'[a] = tx[a]
             \/ /\ Reviewable /\ tx'[a].old = rows[tx'[a].row] /\ tx'[a].old.release = 0
                /\ tx'[a].shows = Snapshot(tx'[a].old),
         tx'[a].kind = "undo" =>
             \/ tx'[a] = tx[a]
             \/ /\ tx'[a].old = rows[tx'[a].decision.row] /\ tx'[a].old.release = 0
                /\ tx'[a].decision \in LatestOf(tx'[a].decision.row),
         screen'[a].page = "candidate" =>
             \/ screen'[a] = screen[a]
             \/ /\ screen'[a].row \in Row /\ screen'[a].version = rows[screen'[a].row].version
                /\ screen'[a].shows = Snapshot(rows[screen'[a].row])
  PROVE  Sight'
<1>1. \A r : /\ Exists(r)' <=> Exists(r)
             /\ Standing(r)' = Standing(r) /\ LatestOf(r)' = LatestOf(r)
    BY DEF Exists, Standing, LatestOf
<1>2. Alone'
    BY DEF Sight, Alone
<1>3. UpToDate'
  <2>1. ASSUME NEW b \in Reviewers, tx'[b].kind = "decide"
        PROVE  /\ Reviewable' /\ Same(rows[tx[b].row], tx[b].old)'
               /\ (tx[b].shows = Snapshot(tx[b].old))' /\ tx'[b].old.release = 0
      BY <2>1 DEF Sight, UpToDate, Reviewable, Same
  <2>2. ASSUME NEW b \in Reviewers, tx'[b].kind = "undo", Exists(tx[b].decision.row)'
        PROVE  /\ Same(rows[tx[b].decision.row], tx[b].old)'
               /\ (tx[b].decision \in LatestOf(tx[b].decision.row))' /\ tx'[b].old.release = 0
      BY <1>1, <2>2 DEF Sight, UpToDate, Same, Exists, LatestOf, Standing
  <2>3. QED
      BY <2>1, <2>2 DEF UpToDate
<1>4. InSight'
  <2> SUFFICES ASSUME NEW b \in Reviewers, screen'[b].page = "candidate", Exists(screen[b].row)'
               PROVE  /\ screen'[b].version <= rows'[screen'[b].row].version
                      /\ screen'[b].version = rows'[screen'[b].row].version => screen'[b].shows = Snapshot(rows'[screen'[b].row])
      BY DEF InSight
  <2>1. CASE screen'[b] = screen[b]
      BY <2>1 DEF Sight, InSight, Exists
  <2>2. CASE screen'[b] # screen[b]
    <3>1. screen'[b].row \in Row /\ screen'[b].version = rows[screen'[b].row].version
          /\ screen'[b].shows = Snapshot(rows[screen'[b].row])
        BY <2>2
    <3>2. rows[screen'[b].row].version \in Nat
        BY <3>1 DEF Inv, SharedInv, Typed, Candidates
    <3>3. QED
        BY <3>1, <3>2
  <2>3. QED
      BY <2>1, <2>2
<1>5. QED
    BY <1>2, <1>3, <1>4 DEF Sight

\* A row is written, its version goes up, and the only request is done.
LEMMA SightWrite ==
  ASSUME Inv, Sight, NEW r \in Row, NEW c, c \in Candidates, Exists(r), c.version = rows[r].version + 1,
         rows' = [rows EXCEPT ![r] = c], screen' = screen, \A b \in Reviewers : tx'[b] = NoRequest
  PROVE  Sight'
<1>1. Typed /\ \A s \in Row : rows[s].version \in Nat
    BY DEF Inv, SharedInv, Typed, Candidates
<1>2. \A s \in Row : rows'[s] = IF s = r THEN c ELSE rows[s]
    BY <1>1 DEF Typed
<1>3. InSight'
  <2> SUFFICES ASSUME NEW b \in Reviewers, screen'[b].page = "candidate", Exists(screen[b].row)'
               PROVE  /\ screen'[b].version <= rows'[screen'[b].row].version
                      /\ screen'[b].version = rows'[screen'[b].row].version => screen'[b].shows = Snapshot(rows'[screen'[b].row])
      BY DEF InSight
  <2>1. PICK p : p = screen[b] /\ p.page = "candidate" /\ p.row \in Row /\ p.version \in Nat /\ screen'[b] = p
      BY <1>1 DEF Typed, ScreenTyped
  <2>2. CASE p.row = r
    <3>1. p.version <= rows[r].version
        BY <2>1, <2>2 DEF Sight, InSight
    <3>2. rows'[r].version = rows[r].version + 1 /\ rows[r].version \in Nat
        BY <1>1, <1>2
    <3>3. p.version <= rows'[r].version /\ p.version # rows'[r].version
        BY <2>1, <3>1, <3>2
    <3>4. QED
        BY <2>1, <2>2, <3>3
  <2>3. CASE p.row # r
    <3>1. rows'[p.row] = rows[p.row]
        BY <1>2, <2>1, <2>3
    <3>2. Exists(p.row)
        BY <2>1, <3>1 DEF Exists
    <3>3. QED
        BY <2>1, <3>1, <3>2 DEF Sight, InSight
  <2>4. QED
      BY <2>2, <2>3
<1>4. UpToDate' /\ Alone'
    BY NoRequestTyped DEF UpToDate, Alone
<1>5. QED
    BY <1>3, <1>4 DEF Sight

\* Other columns are written: a validation, or a release when its request is the only one.
LEMMA SightOther ==
  ASSUME Inv, Sight, UNCHANGED <<decisions, screen>>,
         \A r \in Row : /\ rows'[r].status = rows[r].status /\ Snapshot(rows'[r]) = Snapshot(rows[r])
                        /\ rows'[r].version = rows[r].version /\ rows'[r].count = rows[r].count,
         \/ tx' = tx /\ (Reviewable => Reviewable') /\ \A r \in Row : rows'[r].release = rows[r].release
         \/ \A b \in Reviewers : tx'[b] = NoRequest
  PROVE  Sight'
<1>1. Typed
    BY DEF Inv, SharedInv
<1>2. \A r \in Row : Exists(r)' <=> Exists(r)
    BY DEF Exists
<1>3. \A r : LatestOf(r)' = LatestOf(r)
    BY DEF LatestOf, Standing
<1>4. InSight'
  <2> SUFFICES ASSUME NEW b \in Reviewers, screen'[b].page = "candidate", Exists(screen[b].row)'
               PROVE  /\ screen'[b].version <= rows'[screen'[b].row].version
                      /\ screen'[b].version = rows'[screen'[b].row].version => screen'[b].shows = Snapshot(rows'[screen'[b].row])
      BY DEF InSight
  <2>1. PICK s \in Row : s = screen[b].row /\ screen[b].page = "candidate" /\ screen'[b] = screen[b]
      BY <1>1 DEF Typed, ScreenTyped
  <2>2. Exists(s)
      BY <1>2, <2>1 DEF Exists
  <2>3. QED
      BY <2>1, <2>2 DEF Sight, InSight
<1>5. CASE \A b \in Reviewers : tx'[b] = NoRequest
    BY <1>4, <1>5, NoRequestTyped DEF Sight, UpToDate, Alone
<1>6. CASE tx' = tx /\ (Reviewable => Reviewable') /\ \A r \in Row : rows'[r].release = rows[r].release
  <2>1. Alone'
      BY <1>6 DEF Sight, Alone
  <2>2. ASSUME NEW b \in Reviewers, tx'[b].kind = "decide"
        PROVE  /\ Reviewable' /\ Same(rows[tx[b].row], tx[b].old)'
               /\ (tx[b].shows = Snapshot(tx[b].old))' /\ tx'[b].old.release = 0
    <3>1. PICK q : q = tx[b] /\ tx'[b] = q /\ q.kind = "decide" /\ q.row \in Row
        BY <1>1, <1>6, <2>2 DEF Typed, RequestTyped, NoRequest, Deciding, Undoing
    <3>2. Reviewable /\ Same(rows[q.row], q.old) /\ q.shows = Snapshot(q.old) /\ q.old.release = 0
        BY <3>1 DEF Sight, UpToDate
    <3>3. Same(rows'[q.row], q.old)
        BY <1>6, <3>1, <3>2 DEF Same
    <3>4. QED
        BY <1>6, <3>1, <3>2, <3>3 DEF Same
  <2>3. ASSUME NEW b \in Reviewers, tx'[b].kind = "undo", Exists(tx[b].decision.row)'
        PROVE  /\ Same(rows[tx[b].decision.row], tx[b].old)'
               /\ (tx[b].decision \in LatestOf(tx[b].decision.row))' /\ tx'[b].old.release = 0
    <3>0. tx[b] = tx'[b] /\ tx[b] \in Undoing
        BY <1>1, <1>6, <2>3 DEF Typed, RequestTyped, NoRequest, Deciding
    <3>1. PICK q \in Undoing, s \in Row : q = tx[b] /\ tx'[b] = q /\ q.kind = "undo" /\ s = q.decision.row
        BY <2>3, <3>0 DEF Undoing, Decided
    <3>2. Exists(s)
        BY <1>2, <2>3, <3>1 DEF Exists
    <3>3. Same(rows[s], q.old) /\ q.decision \in LatestOf(s) /\ q.old.release = 0
        BY <3>1, <3>2 DEF Sight, UpToDate
    <3>4. Same(rows'[s], q.old) /\ q.decision \in LatestOf(s)'
        BY <1>3, <1>6, <3>1, <3>3 DEF Same
    <3>5. QED
        BY <1>6, <3>1, <3>3, <3>4 DEF Same, LatestOf, Standing
  <2>4. QED
      BY <1>4, <2>1, <2>2, <2>3 DEF Sight, UpToDate
<1>7. QED
    BY <1>5, <1>6

\* The reviewer's steps, when requests do not overlap.
LEMMA SightReviewer ==
  ASSUME ~Overlap, Inv, Sight, NEW a \in Reviewers, Keep,
         \/ \E r \in Row : Load(a, r)
         \/ \E outcome \in Outcomes, value \in Values \cup {NoValue} : DecideRead(a, outcome, value)
         \/ \E d \in decisions : UndoRead(a, d)
         \/ RolledBack(a)
  PROVE  Sight'
<1>1. Typed
    BY DEF Inv, SharedInv
<1>2. BlankScreen.page = "none" /\ NoRequest.kind = "none"
    BY DEF BlankScreen, NoRequest
<1>3. ASSUME NEW r \in Row, Load(a, r) PROVE Sight'
  <2> DEFINE p == [page |-> "candidate", row |-> r, version |-> rows[r].version, shows |-> Snapshot(rows[r])]
  <2>1. /\ UNCHANGED <<rows, decisions, source, tx>> /\ screen' = [screen EXCEPT ![a] = p]
        /\ p.row = r /\ p.version = rows[r].version /\ p.shows = Snapshot(rows[r])
      BY <1>3 DEF Load
  <2> HIDE DEF p
  <2>2. \A b \in Reviewers : screen'[b] = IF b = a THEN p ELSE screen[b]
      BY <1>1, <2>1 DEF Typed
  <2>3. QED
      BY <2>1, <2>2, SightRequest
<1>4. ASSUME NEW outcome \in Outcomes, NEW value \in Values \cup {NoValue}, DecideRead(a, outcome, value) PROVE Sight'
  <2> DEFINE p == screen[a]
             q == [kind |-> "decide", row |-> p.row, outcome |-> outcome, value |-> value, old |-> rows[p.row],
                   shows |-> p.shows]
  <2>1. p.page = "candidate" /\ p.row \in Row
      BY <1>1, <1>4 DEF DecideRead, Typed, ScreenTyped
  <2>2. /\ q.kind = "decide" /\ q.row = p.row /\ q.old = rows[p.row] /\ q.shows = p.shows
        /\ tx' = [tx EXCEPT ![a] = q] /\ screen' = [screen EXCEPT ![a] = BlankScreen]
        /\ UNCHANGED <<rows, decisions, source>>
      BY <1>4 DEF DecideRead
  <2>3. /\ Reviewable /\ rows[p.row].release = 0 /\ p.version = rows[p.row].version /\ Exists(p.row)
        /\ \A b \in Reviewers : tx[b] = NoRequest
      BY <1>4 DEF DecideRead, Reviewable, Exists, Open, Accepts
  <2>4. p.shows = Snapshot(rows[p.row])
      BY <2>1, <2>3 DEF Sight, InSight
  <2> HIDE DEF p, q
  <2>5. \A b \in Reviewers : /\ tx'[b] = IF b = a THEN q ELSE tx[b]
                             /\ screen'[b] = IF b = a THEN BlankScreen ELSE screen[b]
      BY <1>1, <2>2 DEF Typed
  <2>6. QED
      BY <1>2, <2>2, <2>3, <2>4, <2>5, SightRequest
<1>5. ASSUME NEW d \in decisions, UndoRead(a, d) PROVE Sight'
  <2> DEFINE q == [kind |-> "undo", decision |-> d, old |-> rows[d.row]]
  <2>1. /\ q.kind = "undo" /\ q.decision = d /\ q.old = rows[d.row] /\ tx' = [tx EXCEPT ![a] = q]
        /\ UNCHANGED <<rows, decisions, source, screen>>
      BY <1>5 DEF UndoRead
  <2>2. rows[d.row].release = 0 /\ d \in LatestOf(d.row) /\ \A b \in Reviewers : tx[b] = NoRequest
      BY <1>5 DEF UndoRead, NotPublished, CanStepBack, Accepts
  <2> HIDE DEF q
  <2>3. \A b \in Reviewers : tx'[b] = IF b = a THEN q ELSE tx[b]
      BY <1>1, <2>1 DEF Typed
  <2>4. QED
      BY <2>1, <2>2, <2>3, SightRequest
<1>6. ASSUME RolledBack(a) PROVE Sight'
  <2>1. tx' = [tx EXCEPT ![a] = NoRequest] /\ UNCHANGED <<rows, decisions, source, screen>>
      BY <1>6 DEF RolledBack
  <2>2. \A b \in Reviewers : tx'[b] = IF b = a THEN NoRequest ELSE tx[b]
      BY <1>1, <2>1 DEF Typed
  <2>3. QED
      BY <1>2, <2>1, <2>2, SightRequest
<1>7. QED
    BY <1>3, <1>4, <1>5, <1>6

LEMMA SightRelease ==
  ASSUME ~Overlap, Inv, Sight, NEW a \in Reviewers,
         (\E scope \in Scopes : Preview(a, scope)) \/ PublishRead(a) \/ PublishRolledBack(a)
  PROVE  Sight'
<1>1. Typed
    BY DEF Inv, SharedInv
<1>2. BlankScreen.page = "none" /\ NoRequest.kind = "none"
    BY DEF BlankScreen, NoRequest
<1>3. ASSUME NEW scope \in Scopes, Preview(a, scope) PROVE Sight'
  <2> DEFINE p == [page |-> "preview", scope |-> scope, version |-> source.version,
                   digest |-> Digest(scope), facts |-> Facts(scope)]
  <2>1. UNCHANGED <<rows, decisions, source, tx>> /\ screen' = [screen EXCEPT ![a] = p] /\ p.page = "preview"
      BY <1>3 DEF Preview
  <2> HIDE DEF p
  <2>2. \A b \in Reviewers : screen'[b] = IF b = a THEN p ELSE screen[b]
      BY <1>1, <2>1 DEF Typed
  <2>3. QED
      BY <2>1, <2>2, SightRequest
<1>4. ASSUME PublishRead(a) PROVE Sight'
  <2> DEFINE p == screen[a]
             q == [kind |-> "publish", facts |-> Facts(p.scope), shows |-> p.facts,
                   source |-> source, prior |-> Current, count |-> Len(releases),
                   new |-> {r \in Publishable(p.scope) : rows[r].release = 0}]
  <2>1. /\ q.kind = "publish" /\ tx' = [tx EXCEPT ![a] = q] /\ screen' = [screen EXCEPT ![a] = BlankScreen]
        /\ UNCHANGED <<rows, decisions, source>>
      BY <1>4 DEF PublishRead
  <2>2. \A b \in Reviewers : tx[b] = NoRequest
      BY <1>4 DEF PublishRead, Accepts
  <2> HIDE DEF q
  <2>3. \A b \in Reviewers : /\ tx'[b] = IF b = a THEN q ELSE tx[b]
                             /\ screen'[b] = IF b = a THEN BlankScreen ELSE screen[b]
      BY <1>1, <2>1 DEF Typed
  <2>4. QED
      BY <1>2, <2>1, <2>2, <2>3, SightRequest
<1>5. ASSUME PublishRolledBack(a) PROVE Sight'
  <2>1. tx' = [tx EXCEPT ![a] = NoRequest] /\ UNCHANGED <<rows, decisions, source, screen>>
      BY <1>5 DEF PublishRolledBack
  <2>2. \A b \in Reviewers : tx'[b] = IF b = a THEN NoRequest ELSE tx[b]
      BY <1>1, <2>1 DEF Typed
  <2>3. QED
      BY <1>2, <2>1, <2>2, SightRequest
<1>6. QED
    BY <1>3, <1>4, <1>5

LEMMA SightReadAgain == ASSUME Inv, Sight, ReadAgain PROVE Sight'
<1>1. /\ \A r \in Row :
              \/ /\ Exists(r) /\ rows'[r] = rows[r]
                 /\ Standing(r)' = Standing(r) /\ LatestOf(r)' = LatestOf(r)
              \/ ~Exists(r)' /\ Standing(r)' = {} /\ rows[r].status \in {"pending", "absent"}
              \/ ~Named(r) /\ Standing(r)' = {} /\ Snapshot(rows'[r]) = Fresh /\ ~Exists(r)
    BY ReadAgainLeaves
<1>2. ~Reviewable /\ UNCHANGED <<screen, tx>> /\ Typed
    BY DEF ReadAgain, Reviewable, Inv, SharedInv
<1>3. \A r \in Row : Named(r) /\ Exists(r)' => Exists(r) /\ rows'[r] = rows[r] /\ LatestOf(r)' = LatestOf(r)
    BY <1>1
<1>4. Alone'
    BY <1>2 DEF Sight, Alone
<1>5. \A a \in Reviewers : tx[a].kind # "decide"
    BY <1>2 DEF Sight, UpToDate
<1>6. UpToDate'
  <2> SUFFICES ASSUME NEW a \in Reviewers, tx'[a].kind = "undo", Exists(tx[a].decision.row)'
               PROVE  /\ Same(rows[tx[a].decision.row], tx[a].old)'
                      /\ (tx[a].decision \in LatestOf(tx[a].decision.row))' /\ tx'[a].old.release = 0
      BY <1>2, <1>5 DEF UpToDate
  <2>1. tx[a] = tx'[a] /\ tx[a] \in Undoing
      BY <1>2 DEF Typed, RequestTyped, NoRequest, Deciding
  <2>2. PICK q \in Undoing, s \in Row : q = tx[a] /\ tx'[a] = q /\ q.kind = "undo" /\ s = q.decision.row
      BY <2>1 DEF Undoing, Decided
  <2>3. Named(s)
      BY <2>2 DEF Named
  <2>4. Exists(s) /\ rows'[s] = rows[s] /\ LatestOf(s)' = LatestOf(s)
      BY <1>3, <2>2, <2>3 DEF Exists
  <2>5. Same(rows[s], q.old) /\ q.decision \in LatestOf(s) /\ q.old.release = 0
      BY <2>2, <2>4 DEF Sight, UpToDate
  <2>6. QED
      BY <2>2, <2>4, <2>5 DEF Same, LatestOf, Standing
<1>7. InSight'
  <2> SUFFICES ASSUME NEW b \in Reviewers, screen'[b].page = "candidate", Exists(screen[b].row)'
               PROVE  /\ screen'[b].version <= rows'[screen'[b].row].version
                      /\ screen'[b].version = rows'[screen'[b].row].version => screen'[b].shows = Snapshot(rows'[screen'[b].row])
      BY DEF InSight
  <2>1. PICK s \in Row : s = screen[b].row /\ screen[b].page = "candidate" /\ screen'[b] = screen[b]
      BY <1>2 DEF Typed, ScreenTyped
  <2>2. Exists(s) /\ rows'[s] = rows[s]
      BY <1>3, <2>1 DEF Named, Exists
  <2>3. QED
      BY <2>1, <2>2 DEF Sight, InSight
<1>8. QED
    BY <1>4, <1>6, <1>7 DEF Sight

-----------------------------------------------------------------------------
(* Every step keeps the story and the sight of it.                         *)

\* What a validation and a release leave of a row.
OtherColumns(r) ==
    /\ rows'[r].status = rows[r].status /\ Snapshot(rows'[r]) = Snapshot(rows[r])
    /\ rows'[r].version = rows[r].version /\ rows'[r].count = rows[r].count /\ rows'[r].read = rows[r].read

LEMMA ValidateWriteColumns ==
  ASSUME Inv, ValidateWrite PROVE \A r \in Row : OtherColumns(r) /\ rows'[r].release = rows[r].release
<1> SUFFICES ASSUME NEW r \in Row PROVE OtherColumns(r) /\ rows'[r].release = rows[r].release
    OBVIOUS
<1>1. PICK c \in Candidates : c = rows[r]
    BY DEF Inv, SharedInv, Typed
<1>2. PICK b \in BOOLEAN : b = (Exists(r) /\ Blocked(check.values, r))
    OBVIOUS
<1>3. rows'[r] = c \/ rows'[r] = [c EXCEPT !.blocked = b]
    BY <1>1, <1>2 DEF ValidateWrite
<1>4. PICK e \in Candidates : /\ e = rows'[r] /\ e.status = c.status /\ e.reviewed = c.reviewed /\ e.by = c.by
                              /\ e.first = c.first /\ e.second = c.second /\ e.version = c.version
                              /\ e.count = c.count /\ e.read = c.read /\ e.release = c.release
    BY <1>3 DEF Candidates
<1>5. Snapshot(e) = Snapshot(c)
    BY <1>4, SnapshotFields
<1>6. QED
    BY <1>1, <1>4, <1>5 DEF OtherColumns

LEMMA PublishWriteColumns ==
  ASSUME Inv, NEW a \in Reviewers, PublishWrite(a)
  PROVE  \A r \in Row : /\ OtherColumns(r)
                        /\ rows'[r].release = IF r \in tx[a].new THEN Len(releases) + 1 ELSE rows[r].release
<1>1. Len(releases) + 1 \in 1 .. MaxReleases
    BY PublicationAssumption DEF PublishWrite, Inv, Recorded
<1>2. PICK number \in 1 .. MaxReleases : number = Len(releases) + 1
    BY <1>1
<1> SUFFICES ASSUME NEW r \in Row
             PROVE  OtherColumns(r) /\ rows'[r].release = IF r \in tx[a].new THEN number ELSE rows[r].release
    BY <1>2
<1>3. PICK c \in Candidates : c = rows[r]
    BY DEF Inv, SharedInv, Typed
<1>4. rows'[r] = IF r \in tx[a].new THEN [c EXCEPT !.release = number] ELSE c
    BY <1>2, <1>3 DEF PublishWrite
<1>5. PICK e \in Candidates : /\ e = rows'[r] /\ e.status = c.status /\ e.reviewed = c.reviewed /\ e.by = c.by
                              /\ e.first = c.first /\ e.second = c.second /\ e.version = c.version
                              /\ e.count = c.count /\ e.read = c.read
                              /\ e.release = IF r \in tx[a].new THEN number ELSE c.release
    BY <1>4 DEF Candidates
<1>6. Snapshot(e) = Snapshot(c)
    BY <1>5, SnapshotFields
<1>7. QED
    BY <1>3, <1>5, <1>6 DEF OtherColumns

LEMMA QuietStory == ASSUME Inv, Story, UNCHANGED <<rows, decisions>> PROVE Story'
  BY StoryStays

LEMMA ReviewerHistory ==
  ASSUME ~Overlap, Inv, Sight, Story, NEW a \in Reviewers
  PROVE  /\ \A r \in Row : Load(a, r) /\ Keep => (Sight /\ Story)'
         /\ \A outcome \in Outcomes, value \in Values \cup {NoValue} :
                DecideRead(a, outcome, value) /\ Keep => (Sight /\ Story)'
         /\ DecideWrite(a) /\ Keep => (Sight /\ Story)'
         /\ \A d \in decisions : UndoRead(a, d) /\ Keep => (Sight /\ Story)'
         /\ UndoWrite(a) /\ Keep => (Sight /\ Story)'
         /\ RolledBack(a) /\ Keep => (Sight /\ Story)'
<1>1. ASSUME NEW r \in Row, Load(a, r), Keep PROVE (Sight /\ Story)'
    BY <1>1, SightReviewer, QuietStory DEF Load
<1>2. ASSUME NEW outcome \in Outcomes, NEW value \in Values \cup {NoValue}, DecideRead(a, outcome, value), Keep
      PROVE  (Sight /\ Story)'
    BY <1>2, SightReviewer, QuietStory DEF DecideRead
<1>3. ASSUME DecideWrite(a) PROVE (Sight /\ Story)'
  <2>1. PICK r, d, c : DecidedOn(r, d, c)
      BY <1>3, DecideWriteAlone
  <2>2. Story'
      BY <2>1, StoryDecided
  <2>3. Sight'
      BY <2>1, SightWrite DEF DecidedOn
  <2>4. QED
      BY <2>2, <2>3
<1>4. ASSUME NEW d \in decisions, UndoRead(a, d), Keep PROVE (Sight /\ Story)'
    BY <1>4, SightReviewer, QuietStory DEF UndoRead
<1>5. ASSUME UndoWrite(a) PROVE (Sight /\ Story)'
  <2>1. PICK r, d, e, c : UndoneOn(r, d, e, c)
      BY <1>5, UndoWriteAlone
  <2>2. Story'
      BY <2>1, StoryUndone
  <2>3. Sight'
      BY <2>1, SightWrite DEF UndoneOn
  <2>4. QED
      BY <2>2, <2>3
<1>6. ASSUME RolledBack(a), Keep PROVE (Sight /\ Story)'
    BY <1>6, SightReviewer, QuietStory DEF RolledBack
<1>7. QED
    BY <1>1, <1>2, <1>3, <1>4, <1>5, <1>6

LEMMA ReleaseHistory ==
  ASSUME ~Overlap, Inv, Sight, Story, NEW a \in Reviewers
  PROVE  /\ \A scope \in Scopes : Preview(a, scope) => (Sight /\ Story)'
         /\ PublishRead(a) => (Sight /\ Story)'
         /\ PublishWrite(a) => (Sight /\ Story)'
         /\ PublishRolledBack(a) => (Sight /\ Story)'
<1>1. ASSUME NEW scope \in Scopes, Preview(a, scope) PROVE (Sight /\ Story)'
    BY <1>1, SightRelease, QuietStory DEF Preview
<1>2. ASSUME PublishRead(a) PROVE (Sight /\ Story)'
    BY <1>2, SightRelease, QuietStory DEF PublishRead
<1>3. ASSUME PublishWrite(a) PROVE (Sight /\ Story)'
  <2>1. /\ UNCHANGED <<decisions, screen>> /\ tx' = [tx EXCEPT ![a] = NoRequest] /\ tx[a] # NoRequest
      BY <1>3, NoRequestTyped DEF PublishWrite
  <2>2. \A b \in Reviewers : tx'[b] = NoRequest
      BY <2>1, OneIsDone DEF Sight
  <2>3. \A r \in Row : OtherColumns(r)
      BY <1>3, PublishWriteColumns
  <2>4. Story'
      BY <2>1, <2>3, StoryStays DEF OtherColumns
  <2>5. Sight'
      BY <2>1, <2>2, <2>3, SightOther DEF OtherColumns
  <2>6. QED
      BY <2>4, <2>5
<1>4. ASSUME PublishRolledBack(a) PROVE (Sight /\ Story)'
    BY <1>4, SightRelease, QuietStory DEF PublishRolledBack
<1>5. QED
    BY <1>1, <1>2, <1>3, <1>4

LEMMA IdleSight == ASSUME Inv, Sight, UNCHANGED <<rows, decisions, screen, tx>>, Reviewable => Reviewable' PROVE Sight'
  BY SightOther

LEMMA WorkerHistory ==
  ASSUME ~Overlap, Inv, Sight, Story,
         ValidateRead \/ ValidateRefused \/ ValidateWrite \/ ValidateRolledBack \/ Reprocess \/ ReadAgain
  PROVE  (Sight /\ Story)'
<1>1. CASE ValidateRead \/ ValidateRefused \/ ValidateRolledBack
  <2>1. UNCHANGED <<source, rows, decisions, screen, tx>>
      BY <1>1 DEF ValidateRead, ValidateRefused, ValidateRolledBack
  <2>2. QED
      BY <2>1, QuietStory, IdleSight DEF Reviewable
<1>2. CASE ValidateWrite
  <2>1. /\ UNCHANGED <<decisions, screen, tx>>
        /\ Reviewable => Reviewable'
      BY <1>2 DEF ValidateWrite, Reviewable
  <2>2. \A r \in Row : OtherColumns(r) /\ rows'[r].release = rows[r].release
      BY <1>2, ValidateWriteColumns
  <2>3. Story'
      BY <2>1, <2>2, StoryStays DEF OtherColumns
  <2>4. Sight'
      BY <2>1, <2>2, SightOther DEF OtherColumns
  <2>5. QED
      BY <2>3, <2>4
<1>3. CASE Reprocess
  <2>1. UNCHANGED <<rows, decisions, screen, tx>> /\ \A a \in Reviewers : tx'[a] = NoRequest
      BY <1>3 DEF Reprocess
  <2>2. QED
      BY <2>1, QuietStory, SightOther
<1>4. CASE ReadAgain
    BY <1>4, SightReadAgain, StoryReadAgain
<1>5. QED
    BY <1>1, <1>2, <1>3, <1>4

Told == Inv /\ Sight /\ Story

LEMMA StepTold == ASSUME ~Overlap, Told, [Next]_vars PROVE Told'
<1>1. Inv'
    BY StepKeeps DEF Told
<1>2. CASE UNCHANGED vars
    BY <1>1, <1>2, QuietStory, IdleSight DEF Told, vars, Reviewable
<1>3. CASE Next
    BY <1>1, <1>3, ReviewerHistory, ReleaseHistory, WorkerHistory DEF Told, Next
<1>4. QED
    BY <1>2, <1>3

LEMMA ReviewTold == ASSUME ~Overlap PROVE Spec => []Told
<1>1. PublicationInit => Told
    BY InitShared, InitRecorded, InitSight, InitStory DEF Told, Inv
<1>2. Told /\ [Next]_vars => Told'
    BY StepTold
<1>3. QED
    BY <1>1, <1>2, PTL DEF Spec

\* When requests do not overlap, a decision is taken on what its reviewer had on screen:
\* the version that decide compares names one review state of the row.
THEOREM ReviewDecidedAsSeen == ASSUME ~Overlap PROVE Spec => []DecidedAsSeen
<1>1. Told => DecidedAsSeen
    BY DEF Told, Story
<1>2. QED
    BY <1>1, ReviewTold, PTL

\* When requests do not overlap, a row is what its latest standing decision left, whatever
\* was undone and read again (decide, undo, extract).
THEOREM ReviewRowFollowsHistory == ASSUME ~Overlap PROVE Spec => []RowFollowsHistory
<1>1. ASSUME Told PROVE RowFollowsHistory
  <2> SUFFICES ASSUME NEW r \in Row, Exists(r)
               PROVE  IF Standing(r) = {} THEN Snapshot(rows[r]) = Snapshot(AsRead(rows[r].read))
                      ELSE \E d \in LatestOf(r) : Snapshot(rows[r]) = d.after
      BY DEF RowFollowsHistory
  <2>1. rows[r].read \in Values
      BY <1>1 DEF Told, Inv, Recorded
  <2>2. Snapshot(AsRead(rows[r].read)) = Fresh
      BY <2>1, FreshFields
  <2>3. QED
      BY <1>1, <2>2 DEF Told, Story, Ended, LatestOf
<1>2. QED
    BY <1>1, ReviewTold, PTL

\* When requests do not overlap, what is finally approved rests on decisions that stand:
\* one that needs no second review, or two of different reviewers (decide, undo).
THEOREM ReviewFourEyes == ASSUME ~Overlap PROVE Spec => []FourEyes
<1>1. ASSUME Told PROVE FourEyes
  <2> SUFFICES ASSUME NEW r \in Row, IsPublishable(rows[r])
               PROVE  \/ \E d \in Standing(r) : d.round = 1 /\ ~NeedsSecond(ItemOf(r), d.outcome)
                      \/ \E d, e \in Standing(r) : d.round = 1 /\ e.round = 2 /\ d.by # e.by
      BY DEF FourEyes
  <2>1. rows[r] \in Candidates /\ rows[r].status \in Finals
      BY <1>1 DEF Told, Inv, SharedInv, Typed, IsPublishable
  <2>2. Exists(r) /\ Snapshot(rows[r]).status = rows[r].status /\ Fresh.status = "pending"
      BY <2>1, SnapshotFields DEF Exists, Finals, Fresh
  <2>3. Snapshot(rows[r]) # Fresh
      BY <2>1, <2>2 DEF Finals
  <2>4. PICK d \in LatestOf(r) : Snapshot(rows[r]) = d.after
      BY <1>1, <2>2, <2>3 DEF Told, Story, Ended
  <2>5. d \in Standing(r) /\ d \in decisions /\ d.row = r /\ ~d.undone /\ d.after.status \in Finals
      BY <2>1, <2>2, <2>4 DEF LatestOf, Standing
  <2>6. Lawful(d) /\ d.round \in {1, 2}
      BY <1>1, <2>5 DEF Told, Inv, SharedInv, Lawfulness, Typed, Decided
  <2>7. CASE d.round = 1
      BY <2>5, <2>6, <2>7 DEF Lawful
  <2>8. CASE d.round = 2
    <3>1. d.before.status = "awaiting_second_review" /\ d.before.first # d.by
        BY <2>6, <2>8 DEF Lawful
    <3>2. ~Founded(d)
        BY <2>2, <3>1 DEF Founded
    <3>3. PICK e \in Standing(r) : Follows(d, e)
        BY <1>1, <2>5, <3>2 DEF Told, Story, Chained
    <3>4. Lawful(e) /\ e.after = d.before
        BY <1>1, <3>3 DEF Follows, Standing, Told, Inv, SharedInv, Lawfulness
    <3>5. e.round = 1 /\ e.by # d.by
        BY <3>1, <3>4 DEF Lawful
    <3>6. QED
        BY <2>5, <2>8, <3>3, <3>5
  <2>9. QED
      BY <2>6, <2>7, <2>8
<1>2. QED
    BY <1>1, ReviewTold, PTL
=============================================================================
