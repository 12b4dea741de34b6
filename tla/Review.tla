------------------------------- MODULE Review -------------------------------
(***************************************************************************)
(* The review of one source's candidates: decisions, second review and     *)
(* undo (services/review.py), the validation that a correction queues, and *)
(* a re-reading, which replaces the pending candidates.                    *)
(*                                                                         *)
(* A request is two steps: it reads in one transaction, READ COMMITTED and *)
(* without a lock, and writes the columns it changed at commit.  Overlap   *)
(* says whether requests may run side by side, as the server lets them.    *)
(* The worker's transactions always run beside the requests.               *)
(*                                                                         *)
(* A candidate is about an item (candidate_key) and states a value.  The   *)
(* rationale and idempotency checks only refuse or replay a request: a     *)
(* refused request is no step.  The evidence a decision must cite is in    *)
(* Evidence, the order of the queue in Worklist.                           *)
(***************************************************************************)
EXTENDS Naturals, FiniteSets

CONSTANTS
    Items,            \* what the candidates are about
    Values,           \* what a candidate can say of its item
    Reviewers,
    NoOne, NoValue,   \* NULL
    AlwaysSecond,     \* items whose approval or correction needs a second reviewer
    CorrectedSecond,  \* items whose correction does
    Flawed,           \* <<item, value>> the validators block
    Outcomes,         \* the outcomes reviewers use
    Overlap,          \* requests may overlap
    MaxReads,         \* bound: readings of the source
    MaxDecisions      \* bound: decisions in the history

AllOutcomes == {"approve", "correct", "reject", "unresolved"}

ASSUME ReviewAssumption ==
    /\ NoOne \notin Reviewers /\ NoValue \notin Values
    /\ AlwaysSecond \subseteq Items /\ CorrectedSecond \subseteq Items
    /\ Flawed \subseteq Items \X Values
    /\ Outcomes \subseteq AllOutcomes
    /\ Overlap \in BOOLEAN
    /\ MaxReads \in Nat \ {0} /\ MaxDecisions \in Nat

VARIABLES
    source,      \* state and version of the source
    rows,        \* the candidates
    decisions,   \* review_decisions
    screen,      \* what a reviewer has on screen: a candidate, or a preview
    tx,          \* the request of a reviewer between its reads and its commit
    job,         \* the validate_source job
    check        \* what the running validation read

reviewVars == <<source, rows, decisions, screen, tx, job, check>>

\* One row per item and reading.
Row == Items \X (1 .. MaxReads)
ItemOf(r) == r[1]

Finals == {"approved", "corrected"}
Open == {"pending", "awaiting_second_review"}
Status == Open \cup Finals \cup {"absent", "rejected", "unresolved"}

Snapshots == [status: Status, reviewed: Values \cup {NoValue}, by: Reviewers \cup {NoOne},
              first: Reviewers \cup {NoOne}, second: {"not_required", "pending", "done"}]

\* _snapshot: the review state that a decision remembers and an undo restores.
Snapshot(c) == [f \in {"status", "reviewed", "by", "first", "second"} |-> c[f]]

Absent == [status |-> "absent", read |-> NoValue, reviewed |-> NoValue, by |-> NoOne,
           first |-> NoOne, second |-> "not_required", version |-> 1, count |-> 0,
           blocked |-> FALSE, release |-> 0]
AsRead(v) == [Absent EXCEPT !.status = "pending", !.read = v]

\* effective_record
Effective(c) == IF c.reviewed = NoValue THEN c.read ELSE c.reviewed

Exists(r) == rows[r].status # "absent"
Standing(r) == {d \in decisions : d.row = r /\ ~d.undone}
LatestOf(r) == {d \in Standing(r) : \A e \in Standing(r) : e.seq <= d.seq}

NoRequest == [kind |-> "none"]
NoCheck == [state |-> "none", values |-> [r \in Row |-> NoValue]]
BlankScreen == [page |-> "none"]

\* The server takes a request of reviewer a.
Accepts(a) == tx[a] = NoRequest /\ (Overlap \/ \A b \in Reviewers : tx[b] = NoRequest)

\* What a commit does to a row it read as old and means to be new: only the changed columns
\* are written.
Flushed(row, old, new) == [f \in DOMAIN row |-> IF new[f] = old[f] THEN row[f] ELSE new[f]]

\* enqueue_stage: a live job is returned, a running one too.
Queue(j) == IF j = "none" THEN "queued" ELSE j

Init ==
    /\ source = [state |-> "awaiting_review", version |-> 1]
    /\ \E v \in [Items -> Values] :
          rows = [r \in Row |-> IF r[2] > 1 THEN Absent
                                ELSE [AsRead(v[r[1]]) EXCEPT !.blocked = <<r[1], v[r[1]]>> \in Flawed]]
    /\ decisions = {}
    /\ screen = [a \in Reviewers |-> BlankScreen]
    /\ tx = [a \in Reviewers |-> NoRequest]
    /\ job = "none"
    /\ check = NoCheck

-----------------------------------------------------------------------------
(* Decisions.                                                              *)

\* A reviewer loads a candidate to decide on it (any other is loaded in vain).
Load(a, r) ==
    /\ Accepts(a)
    /\ Cardinality(decisions) < MaxDecisions
    /\ rows[r].status \in Open /\ rows[r].release = 0
    /\ screen' = [screen EXCEPT ![a] = [page |-> "candidate", row |-> r, version |-> rows[r].version,
                                        shows |-> Snapshot(rows[r])]]
    /\ UNCHANGED <<source, rows, decisions, tx, job, check>>

NeedsSecond(item, outcome) ==
    \/ outcome \in {"approve", "correct"} /\ item \in AlwaysSecond
    \/ outcome = "correct" /\ item \in CorrectedSecond

FinalStatus == [approve |-> "approved", correct |-> "corrected",
                reject |-> "rejected", unresolved |-> "unresolved"]

\* The candidate after a decision.
AfterDecision(old, a, item, outcome, value) ==
    LET secondRound == old.status = "awaiting_second_review"
        waits == ~secondRound /\ NeedsSecond(item, outcome)
    IN [old EXCEPT
          !.status = IF waits THEN "awaiting_second_review" ELSE FinalStatus[outcome],
          !.second = IF waits THEN "pending" ELSE IF secondRound THEN "done" ELSE @,
          !.first = IF waits THEN a ELSE @,
          !.reviewed = IF outcome = "correct" THEN value ELSE @,
          !.by = a, !.count = @ + 1, !.version = @ + 1]

\* Mutant of DifferentReviewer: anyone may take the second decision.
AnyReviewer(a, c) == TRUE

DifferentReviewer(a, c) == c.status = "awaiting_second_review" => c.first # a

\* decide up to its checks.  The version the reviewer saw must be the row's.
DecideRead(a, outcome, value) ==
    LET p == screen[a]
        c == rows[p.row]
    IN /\ Accepts(a)
       /\ p.page = "candidate"
       /\ source.state \in {"awaiting_review", "published"}
       /\ c.release = 0
       /\ c.status \in Open
       /\ p.version = c.version
       /\ DifferentReviewer(a, c)
       /\ Cardinality(decisions) < MaxDecisions
       /\ (value = NoValue) <=> (outcome # "correct")
       /\ tx' = [tx EXCEPT ![a] = [kind |-> "decide", row |-> p.row, outcome |-> outcome,
                                   value |-> value, old |-> c, shows |-> p.shows]]
       /\ screen' = [screen EXCEPT ![a] = BlankScreen]
       /\ UNCHANGED <<source, rows, decisions, job, check>>

DecideWrite(a) ==
    LET q == tx[a]
        new == AfterDecision(q.old, a, ItemOf(q.row), q.outcome, q.value)
    IN /\ q.kind = "decide"
       /\ Exists(q.row)
       /\ rows' = [rows EXCEPT ![q.row] = Flushed(@, q.old, new)]
       /\ decisions' = decisions \cup
             {[row |-> q.row, seq |-> new.count, by |-> a, outcome |-> q.outcome,
               round |-> IF q.old.status = "awaiting_second_review" THEN 2 ELSE 1,
               shows |-> q.shows, before |-> Snapshot(q.old), after |-> Snapshot(new),
               undone |-> FALSE]}
       /\ job' = IF q.outcome = "correct" THEN Queue(job) ELSE job
       /\ tx' = [tx EXCEPT ![a] = NoRequest]
       /\ UNCHANGED <<source, screen, check>>

-----------------------------------------------------------------------------
(* Undo.                                                                   *)

\* Mutant of CanStepBack: any standing decision can be undone.
AnyStanding(d) == d \in Standing(d.row)

CanStepBack(d) == d \in LatestOf(d.row)

\* Mutant of NotPublished: the decision behind a published fact can be undone.
AlwaysReversible(c) == c.status # "absent"

NotPublished(c) == c.release = 0

UndoRead(a, d) ==
    /\ Accepts(a)
    /\ ~d.undone
    /\ d.by = a
    /\ NotPublished(rows[d.row])
    /\ CanStepBack(d)
    /\ tx' = [tx EXCEPT ![a] = [kind |-> "undo", decision |-> d, old |-> rows[d.row]]]
    /\ UNCHANGED <<source, rows, decisions, screen, job, check>>

\* Mutant of Restored: the undo keeps the version.
RestoredSameVersion(old, snapshot) == [f \in DOMAIN old |->
    IF f \in DOMAIN snapshot THEN snapshot[f] ELSE old[f]]

\* _restore, and the version goes up; decision_count stays.
Restored(old, snapshot) == [f \in DOMAIN old |->
    IF f \in DOMAIN snapshot THEN snapshot[f]
    ELSE IF f = "version" THEN old.version + 1 ELSE old[f]]

UndoWrite(a) ==
    LET q == tx[a]
        r == q.decision.row
    IN /\ q.kind = "undo"
       /\ Exists(r)
       /\ decisions' = (decisions \ {q.decision}) \cup {[q.decision EXCEPT !.undone = TRUE]}
       /\ rows' = [rows EXCEPT ![r] = Flushed(@, q.old, Restored(q.old, q.decision.before))]
       /\ tx' = [tx EXCEPT ![a] = NoRequest]
       /\ UNCHANGED <<source, screen, job, check>>

\* The row a request read is gone: its UPDATE matches nothing and the transaction is rolled
\* back.
RolledBack(a) ==
    /\ \/ tx[a].kind = "decide" /\ ~Exists(tx[a].row)
       \/ tx[a].kind = "undo" /\ ~Exists(tx[a].decision.row)
    /\ tx' = [tx EXCEPT ![a] = NoRequest]
    /\ UNCHANGED <<source, rows, decisions, screen, job, check>>

-----------------------------------------------------------------------------
(* Validation and re-reading.                                              *)

\* Blocking findings on a row: its own (Flawed), or another row of the same item with
\* another value (VAL-13), whatever the review status of that row.
Blocked(values, r) ==
    \/ <<ItemOf(r), values[r]>> \in Flawed
    \/ \E q \in Row : /\ ItemOf(q) = ItemOf(r)
                      /\ values[q] \notin {NoValue, values[r]}

Touched(r) == check.values[r] # NoValue /\ rows[r].blocked # Blocked(check.values, r)

ValidateRead ==
    /\ job = "queued"
    /\ source.state \in {"extracted", "awaiting_review"}
    /\ job' = "running"
    /\ check' = [state |-> source.state, values |-> [r \in Row |-> Effective(rows[r])]]
    /\ UNCHANGED <<source, rows, decisions, screen, tx>>

\* Any other state: the job fails for good.
ValidateRefused ==
    /\ job = "queued"
    /\ source.state \notin {"extracted", "awaiting_review"}
    /\ job' = "none"
    /\ UNCHANGED <<source, rows, decisions, screen, tx, check>>

ValidateWrite ==
    /\ job = "running"
    /\ \A r \in Row : Touched(r) => Exists(r)
    /\ rows' = [r \in Row |-> IF check.values[r] = NoValue THEN rows[r]
                              ELSE [rows[r] EXCEPT !.blocked = Exists(r) /\ Blocked(check.values, r)]]
    /\ source' = IF check.state = "extracted"
                 THEN [state |-> "awaiting_review", version |-> source.version + 1] ELSE source
    /\ job' = "none"
    /\ check' = NoCheck
    /\ UNCHANGED <<decisions, screen, tx>>

\* A row it read is gone: the transaction fails and the job is retried.
ValidateRolledBack ==
    /\ job = "running"
    /\ \E r \in Row : Touched(r) /\ ~Exists(r)
    /\ job' = "queued"
    /\ check' = NoCheck
    /\ UNCHANGED <<source, rows, decisions, screen, tx>>

\* A re-run of a reading stage is requested once the review has begun.
Reprocess ==
    /\ \A a \in Reviewers : Overlap \/ tx[a] = NoRequest
    /\ source.state \in {"awaiting_review", "published"}
    /\ \A r \in Row : r[2] = MaxReads => ~Exists(r)
    /\ source' = [state |-> "reading", version |-> source.version + 1]
    /\ job' = IF job = "queued" THEN "none" ELSE job
    /\ UNCHANGED <<rows, decisions, screen, tx, check>>

\* The last transaction of extraction: pending candidates are deleted, their decisions with
\* them; the others stay; every item read again gets a new pending row.
ReadAgain ==
    \E v \in [Items -> Values], n \in 2 .. MaxReads :
        /\ source.state = "reading"
        /\ \A r \in Row : r[2] >= n => ~Exists(r)
        /\ \E r \in Row : r[2] = n - 1 /\ Exists(r)
        /\ rows' = [r \in Row |-> IF r[2] = n THEN AsRead(v[r[1]])
                                  ELSE IF rows[r].status = "pending" THEN Absent ELSE rows[r]]
        /\ decisions' = {d \in decisions : rows[d.row].status # "pending"}
        /\ source' = [state |-> "extracted", version |-> source.version + 1]
        /\ job' = Queue(job)
        /\ UNCHANGED <<screen, tx, check>>

=============================================================================
