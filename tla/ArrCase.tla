------------------------------ MODULE ArrCase ------------------------------
(***************************************************************************)
(* One ARR or MYT case of a client (arr/cases.py) over the assumption      *)
(* sets, formulations and filing drafts it drives (arr/service.py), which  *)
(* the /arr routes also change directly.                                   *)
(*                                                                         *)
(* A request is two steps: it reads in one transaction, READ COMMITTED and *)
(* without a lock, and writes the columns it changed at commit.  Requests  *)
(* run side by side; overlaps counts those begun beside another.           *)
(* Reviewed facts are published by the reading track meanwhile.            *)
(*                                                                         *)
(* The plan reads every line of Lines in the base year and every parameter *)
(* of Keys; an assumption's value is identified with its row.  The checks  *)
(* of a request's own text (decimals, rationale, the clause an excerpt is  *)
(* on) only refuse it: a refused request is no step.                       *)
(***************************************************************************)
EXTENDS Naturals, FiniteSets, Sequences

CONSTANTS
    Users,
    Kinds,          \* the filing kinds of the case: "arr" (annual_arr, myt), "true_up" (true_up, apr)
    Keys,           \* the parameters the commission's plan reads
    Lines,          \* the lines whose base-year fact it reads
    MaxEntered,     \* bound: assumptions and actuals entered
    MaxSets,        \* bound: versions of the assumption set
    MaxRuns,        \* bound: formulations
    MaxDrafts,      \* bound: filing drafts
    MaxPublished,   \* bound: facts published for a line
    MaxOverlaps     \* bound: requests begun beside another

ASSUME CaseAssumption ==
    /\ MaxSets \in Nat \ {0} /\ MaxPublished \in Nat \ {0}
    /\ MaxEntered \in Nat /\ MaxRuns \in Nat /\ MaxDrafts \in Nat /\ MaxOverlaps \in Nat

VARIABLES
    overlaps,   \* requests begun while another was open
    facts,      \* the current reviewed fact of each line; 0: none
    case,       \* the row of arr_cases
    sets,       \* arr_assumption_sets with their arr_assumptions
    runs,       \* arr_formulations
    drafts,     \* filing_drafts
    lastId,     \* ids given to assumptions and actuals
    tx          \* the request of a user between its reads and its commit

caseVars == <<overlaps, facts, case, sets, runs, drafts, lastId, tx>>

CaseStatus == {"setup", "assumptions", "formulated", "frozen", "drafted", "closed"}
Row == [key : Keys, id : 0 .. MaxEntered]
SetVersion == [status : {"draft", "frozen"}, rows : SUBSET Row]
Base == [Lines -> 0 .. MaxPublished]
Run == [set : 1 .. MaxSets, base : Base, used : SUBSET Row, blocked : BOOLEAN,
        status : {"draft", "frozen"}]

NoRequest == [op |-> "none"]
NoStatement == [state |-> "none"]

\* create_case: the first assumption set is empty or a copy of another one.
Init ==
    /\ overlaps = 0
    /\ facts \in [Lines -> {0, 1}]
    /\ \E kind \in Kinds :
          case = [kind |-> kind, status |-> "setup", set |-> 1, run |-> 0, draft |-> 0,
                  statement |-> NoStatement]
    /\ \E copied \in SUBSET Keys :
          sets = <<[status |-> "draft", rows |-> {[key |-> k, id |-> 0] : k \in copied}]>>
    /\ runs = <<>>
    /\ drafts = <<>>
    /\ lastId = 0
    /\ tx = [u \in Users |-> NoRequest]

\* What a commit does to a row it read as old and means to be new.
Flushed(row, old, new) == [f \in DOMAIN row |-> IF new[f] = old[f] THEN row[f] ELSE new[f]]

\* The request of user u, with what it read of the case.
Begin(u, q) ==
    /\ tx[u] = NoRequest
    /\ overlaps' = overlaps + IF \A v \in Users : tx[v] = NoRequest THEN 0 ELSE 1
    /\ overlaps' <= MaxOverlaps
    /\ tx' = [tx EXCEPT ![u] = q]
    /\ UNCHANGED <<facts, case, sets, runs, drafts, lastId>>

Finish(u) ==
    /\ tx' = [tx EXCEPT ![u] = NoRequest]
    /\ UNCHANGED <<overlaps, facts>>

\* The unique index the row would break: the transaction is rolled back.
RolledBack(u) ==
    /\ Finish(u)
    /\ UNCHANGED <<case, sets, runs, drafts, lastId>>

\* _case and _touch: the case is written when the request came through it.
Touched(q, new) == IF q.through THEN Flushed(case, q.case, new) ELSE case

\* Mutant of Thawed: a closed case is open to work.
ThawedOrClosed == {"setup", "assumptions", "formulated", "closed"}

Thawed == {"setup", "assumptions", "formulated"}

-----------------------------------------------------------------------------
(* Assumptions, through the case or through the set itself.                *)

KeysOf(rows) == {r.key : r \in rows}

\* Mutant of UniqueIndex: there is none.
NoIndex(s, k) == TRUE

\* uq_arr_assumption admits one row of a set and key.
UniqueIndex(s, k) == k \notin KeysOf(sets[s].rows)

AddAssumptionRead(u, k, s, through) ==
    /\ through => case.status \in Thawed /\ s = case.set
    /\ sets[s].status = "draft"
    /\ k \notin KeysOf(sets[s].rows)
    /\ lastId < MaxEntered
    /\ Begin(u, [op |-> "add", key |-> k, set |-> s, through |-> through, case |-> case])

AddAssumptionWrite(u) ==
    LET q == tx[u]
    IN /\ q.op = "add"
       /\ \/ /\ ~UniqueIndex(q.set, q.key) \/ lastId = MaxEntered
             /\ RolledBack(u)
          \/ /\ UniqueIndex(q.set, q.key) /\ lastId < MaxEntered
             /\ lastId' = lastId + 1
             /\ sets' = [sets EXCEPT ![q.set].rows = @ \cup {[key |-> q.key, id |-> lastId']}]
             /\ case' = Touched(q, [q.case EXCEPT !.status = "assumptions"])
             /\ Finish(u)
             /\ UNCHANGED <<runs, drafts>>

\* Mutant of RemoveGuard: the case's status is asked instead of the set's.
RemoveWhenThawed(c, s) == c.status \notin {"frozen", "drafted"}

\* Only the set is asked: the case may be formulated, or closed.
RemoveGuard(c, s) == s.status = "draft"

RemoveAssumptionRead(u, row) ==
    /\ RemoveGuard(case, sets[case.set])
    /\ row \in sets[case.set].rows
    /\ Begin(u, [op |-> "remove", row |-> row, set |-> case.set])

RemoveAssumptionWrite(u) ==
    LET q == tx[u]
    IN /\ q.op = "remove"
       /\ sets' = [sets EXCEPT ![q.set].rows = @ \ {q.row}]
       /\ Finish(u)
       /\ UNCHANGED <<case, runs, drafts, lastId>>

-----------------------------------------------------------------------------
(* Formulations.                                                           *)

\* compute: a base fact or a parameter that is missing blocks its line.
Blocked(base, rows) ==
    \/ \E l \in Lines : base[l] = 0
    \/ \E k \in Keys : k \notin KeysOf(rows)

\* create_formulation: the inputs are recorded by id, with what came of them.
Computed(s) == [set |-> s, base |-> facts, used |-> sets[s].rows,
                blocked |-> Blocked(facts, sets[s].rows), status |-> "draft"]

FormulateRead(u, s, through) ==
    /\ through => case.kind = "arr" /\ case.status \in Thawed /\ s = case.set
    /\ Len(runs) < MaxRuns
    /\ Begin(u, [op |-> "formulate", run |-> Computed(s), through |-> through, case |-> case])

FormulateWrite(u) ==
    LET q == tx[u]
    IN /\ q.op = "formulate"
       /\ IF Len(runs) = MaxRuns THEN RolledBack(u)
          ELSE /\ runs' = Append(runs, q.run)
               /\ case' = Touched(q, [q.case EXCEPT !.run = Len(runs) + 1, !.status = "formulated"])
               /\ Finish(u)
               /\ UNCHANGED <<sets, drafts, lastId>>

CanFreeze(run) == run.status = "draft" /\ ~run.blocked

FreezeRead(u, i, through) ==
    /\ through => case.kind = "arr" /\ case.status = "formulated" /\ i = case.run
    /\ CanFreeze(runs[i])
    /\ Begin(u, [op |-> "freeze", run |-> i, through |-> through, case |-> case])

\* Mutant of FrozenSet: the assumptions of a frozen formulation stay open.
StillDraft(s) == s

FrozenSet(s) == [s EXCEPT !.status = "frozen"]

FreezeWrite(u) ==
    LET q == tx[u]
    IN /\ q.op = "freeze"
       /\ runs' = [runs EXCEPT ![q.run].status = "frozen"]
       /\ sets' = [sets EXCEPT ![runs[q.run].set] = FrozenSet(@)]
       /\ case' = Touched(q, [q.case EXCEPT !.status = "frozen"])
       /\ Finish(u)
       /\ UNCHANGED <<drafts, lastId>>

\* Mutant of CanDraft: any formulation is drafted.
CanDraftAny(run) == ~run.blocked

CanDraft(run) == run.status = "frozen"

\* generate_draft prints the lines as formulated, with the assumptions and facts of today.
DraftRead(u, i, through) ==
    /\ through => case.kind = "arr" /\ case.status \in {"frozen", "drafted"} /\ i = case.run
    /\ CanDraft(runs[i])
    /\ Len(drafts) < MaxDrafts
    /\ Begin(u, [op |-> "draft", through |-> through, case |-> case,
                 draft |-> [of |-> "formulation", run |-> i,
                            shows |-> sets[runs[i].set].rows, facts |-> facts]])

DraftWrite(u) ==
    LET q == tx[u]
    IN /\ q.op = "draft"
       /\ IF Len(drafts) = MaxDrafts THEN RolledBack(u)
          ELSE /\ drafts' = Append(drafts, q.draft)
               /\ case' = Touched(q, [q.case EXCEPT !.draft = Len(drafts) + 1, !.status = "drafted"])
               /\ Finish(u)
               /\ UNCHANGED <<sets, runs, lastId>>

-----------------------------------------------------------------------------
(* Revision and closing.                                                   *)

\* The new version is numbered from the latest one read; the unique index refuses a second
\* set of that number.
ReviseRead(u) ==
    /\ case.kind = "arr" /\ case.status \in {"frozen", "drafted"}
    /\ Len(sets) < MaxSets
    /\ Begin(u, [op |-> "revise", version |-> Len(sets) + 1, case |-> case,
                 rows |-> sets[case.set].rows])

\* Mutant of Revised: the case is pointed past the new version.
RevisedOffByOne(c, version) ==
    [c EXCEPT !.set = version + 1, !.run = 0, !.draft = 0, !.status = "assumptions"]

Revised(c, version) == [c EXCEPT !.set = version, !.run = 0, !.draft = 0, !.status = "assumptions"]

ReviseWrite(u) ==
    LET q == tx[u]
    IN /\ q.op = "revise"
       /\ IF q.version # Len(sets) + 1 THEN RolledBack(u)
          ELSE /\ sets' = Append(sets, [status |-> "draft", rows |-> q.rows])
               /\ case' = Flushed(case, q.case, Revised(q.case, q.version))
               /\ Finish(u)
               /\ UNCHANGED <<runs, drafts, lastId>>

\* update_case closes a case whatever its status; nothing opens it again.
CloseRead(u) ==
    /\ case.status # "closed"
    /\ Begin(u, [op |-> "close", case |-> case])

CloseWrite(u) ==
    LET q == tx[u]
    IN /\ q.op = "close"
       /\ case' = Flushed(case, q.case, [q.case EXCEPT !.status = "closed"])
       /\ Finish(u)
       /\ UNCHANGED <<sets, runs, drafts, lastId>>

\* A newer order's fact supersedes the line's current one.
Publish(l) ==
    /\ facts[l] < MaxPublished
    /\ facts' = [facts EXCEPT ![l] = @ + 1]
    /\ UNCHANGED <<overlaps, case, sets, runs, drafts, lastId, tx>>

CaseStep ==
    \/ \E l \in Lines : Publish(l)
    \/ \E u \in Users :
          \/ \E s \in DOMAIN sets, through \in BOOLEAN :
                \/ \E k \in Keys : AddAssumptionRead(u, k, s, through)
                \/ FormulateRead(u, s, through)
          \/ \E row \in Row : RemoveAssumptionRead(u, row)
          \/ \E i \in DOMAIN runs, through \in BOOLEAN :
                FreezeRead(u, i, through) \/ DraftRead(u, i, through)
          \/ ReviseRead(u) \/ CloseRead(u)
          \/ AddAssumptionWrite(u) \/ RemoveAssumptionWrite(u) \/ FormulateWrite(u)
          \/ FreezeWrite(u) \/ DraftWrite(u) \/ ReviseWrite(u) \/ CloseWrite(u)

-----------------------------------------------------------------------------
(* Properties.                                                             *)

\* reproduce: the assumptions it used are still in its set (the facts it used are never
\* deleted), so that recomputing gives the same lines and the same hash.
Reproduces(run) == run.used \subseteq sets[run.set].rows

\* A case whose requests come one at a time and that is frozen or drafted
\* rests on a frozen, unblocked formulation of its own assumption set, and
\* that set is frozen too (freeze, freeze_formulation, revise).
FrozenCaseRestsOnFrozen ==
    overlaps = 0 /\ case.kind = "arr" /\ case.status \in {"frozen", "drafted"} =>
        /\ case.run # 0
        /\ runs[case.run].status = "frozen" /\ ~runs[case.run].blocked
        /\ runs[case.run].set = case.set
        /\ sets[case.set].status = "frozen"

\* Once a formulation is frozen its set never gains or loses an assumption,
\* by way of the case or of the set, as long as requests come one at a time
\* (add_assumption, remove_assumption, freeze_formulation).
FrozenSetKept ==
    overlaps = 0 => \A i \in DOMAIN runs :
        runs[i].status = "frozen" => sets'[runs[i].set].rows = sets[runs[i].set].rows

\* Even with requests side by side, every draft is of a formulation that is
\* frozen and has no blocked line (generate_draft, freeze_formulation).
DraftsRestOnFrozen ==
    \A i \in DOMAIN drafts : drafts[i].of = "formulation" =>
        runs[drafts[i].run].status = "frozen" /\ ~runs[drafts[i].run].blocked

\* Even with requests side by side, a set holds one assumption per key: the
\* lookup before the insert cannot see the other request, the index can.
OneAssumptionPerKey ==
    \A s \in DOMAIN sets : \A r, t \in sets[s].rows : r.key = t.key => r = t

\* What ADR-0018 says of a frozen formulation: recomputing it gives the same
\* lines (reproduce).
FrozenReproduces ==
    overlaps = 0 => \A i \in DOMAIN runs : runs[i].status = "frozen" => Reproduces(runs[i])
=============================================================================
