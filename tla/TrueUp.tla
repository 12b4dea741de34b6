------------------------------- MODULE TrueUp -------------------------------
(***************************************************************************)
(* The true-up and APR side of a case (arr/cases.py, arr/trueup.py): the   *)
(* actuals entered for its year, the statement that sets them against the  *)
(* approved facts, its freeze and its draft.  With ArrCase this is every   *)
(* operation of a case.                                                    *)
(*                                                                         *)
(* A statement's input hash covers the approved facts and the actuals by   *)
(* id and value: here it is those inputs.                                  *)
(***************************************************************************)
EXTENDS ArrCase

VARIABLE actuals     \* arr_actuals of the case, one row per line

vars == <<caseVars, actuals>>

NoActual == [id |-> 0, figure |-> "none"]

\* What an entered figure turns out to be: in the approval's unit, breaking an identity over
\* the actuals, in a unit with no conversion, or in another unit than the approval's.
Figures == {"fits", "breaks_identity", "no_conversion", "other_unit"}
Actual == [id : 1 .. MaxEntered, figure : Figures] \cup {NoActual}

TrueUpInit == Init /\ actuals = [l \in Lines |-> NoActual]

\* _variance
RowStatus(approved, actual) ==
    CASE actual = NoActual -> "actual_missing"
      [] actual.figure = "no_conversion" -> "actual_unconverted"
      [] actual.figure # "no_conversion" /\ approved = 0 -> "approved_missing"
      [] actual.figure = "other_unit" /\ approved # 0 -> "unit_mismatch"
      [] OTHER -> "complete"

\* compute: the rows are the lines approved or entered.
Ready(inputs) ==
    /\ \A l \in Lines :
          inputs.approved[l] # 0 \/ inputs.actuals[l] # NoActual =>
              RowStatus(inputs.approved[l], inputs.actuals[l]) \in {"complete", "approved_missing"}
    /\ \A l \in Lines : inputs.actuals[l].figure # "breaks_identity"
    /\ \E l \in Lines : inputs.approved[l] # 0

Live == [approved |-> facts, actuals |-> actuals]

-----------------------------------------------------------------------------
(* Actuals.                                                                *)

\* Mutant of Editable: the status of the case is not asked.
EditableAlways(c) == c.kind = "true_up" /\ c.status # "closed"

Editable(c) == c.kind = "true_up" /\ c.status \in Thawed

\* _stale: a statement that was computed and not frozen is dropped.
Stale(c) == [c EXCEPT !.statement = IF c.status = "formulated" THEN NoStatement ELSE c.statement,
                      !.status = "assumptions"]

AddActualRead(u, l, figure) ==
    /\ Editable(case)
    /\ actuals[l] = NoActual
    /\ lastId < MaxEntered
    /\ Begin(u, [op |-> "add_actual", line |-> l, figure |-> figure, case |-> case])
    /\ UNCHANGED actuals

\* A second actual of the line breaks the unique constraint.
AddActualWrite(u) ==
    LET q == tx[u]
    IN /\ q.op = "add_actual"
       /\ \/ /\ actuals[q.line] # NoActual \/ lastId = MaxEntered
             /\ RolledBack(u)
             /\ UNCHANGED actuals
          \/ /\ actuals[q.line] = NoActual /\ lastId < MaxEntered
             /\ lastId' = lastId + 1
             /\ actuals' = [actuals EXCEPT ![q.line] = [id |-> lastId', figure |-> q.figure]]
             /\ case' = Flushed(case, q.case, Stale(q.case))
             /\ Finish(u)
             /\ UNCHANGED <<sets, runs, drafts>>

RemoveActualRead(u, l) ==
    /\ Editable(case)
    /\ actuals[l] # NoActual
    /\ Begin(u, [op |-> "remove_actual", line |-> l, id |-> actuals[l].id, case |-> case])
    /\ UNCHANGED actuals

RemoveActualWrite(u) ==
    LET q == tx[u]
    IN /\ q.op = "remove_actual"
       /\ actuals' = [actuals EXCEPT ![q.line] = IF actuals[q.line].id = q.id THEN NoActual ELSE @]
       /\ case' = Flushed(case, q.case, Stale(q.case))
       /\ Finish(u)
       /\ UNCHANGED <<sets, runs, drafts, lastId>>

-----------------------------------------------------------------------------
(* The statement.                                                          *)

ComputeStatementRead(u) ==
    /\ Editable(case)
    /\ Begin(u, [op |-> "compute", inputs |-> Live, case |-> case])
    /\ UNCHANGED actuals

ComputeStatementWrite(u) ==
    LET q == tx[u]
    IN /\ q.op = "compute"
       /\ case' = Flushed(case, q.case, [q.case EXCEPT
                      !.statement = [state |-> "computed", inputs |-> q.inputs],
                      !.status = "formulated"])
       /\ Finish(u)
       /\ UNCHANGED <<sets, runs, drafts, lastId, actuals>>

\* Mutant of StillAsComputed: the hash is not compared.
HasStatement(c) == c.statement.state # "none"

StillAsComputed(c) == c.statement.state # "none" /\ c.statement.inputs = Live

FreezeStatementRead(u) ==
    /\ case.kind = "true_up" /\ case.status = "formulated"
    /\ StillAsComputed(case)
    /\ Ready(Live)
    /\ Begin(u, [op |-> "freeze_statement", case |-> case])
    /\ UNCHANGED actuals

FreezeStatementWrite(u) ==
    LET q == tx[u]
    IN /\ q.op = "freeze_statement"
       /\ case' = Flushed(case, q.case, [q.case EXCEPT !.statement.state = "frozen", !.status = "frozen"])
       /\ Finish(u)
       /\ UNCHANGED <<sets, runs, drafts, lastId, actuals>>

DraftTrueUpRead(u) ==
    /\ case.kind = "true_up" /\ case.status \in {"frozen", "drafted"}
    /\ case.statement.state = "frozen"
    /\ StillAsComputed(case)
    /\ Len(drafts) < MaxDrafts
    /\ Begin(u, [op |-> "draft", through |-> TRUE, case |-> case,
                 draft |-> [of |-> "statement", statement |-> case.statement.inputs, live |-> Live]])
    /\ UNCHANGED actuals

\* revise, for a true-up: the statement is dropped and the actuals thaw.
ReviseTrueUpRead(u) ==
    /\ case.kind = "true_up" /\ case.status \in {"frozen", "drafted"}
    /\ Begin(u, [op |-> "revise_true_up", case |-> case])
    /\ UNCHANGED actuals

ReviseTrueUpWrite(u) ==
    LET q == tx[u]
    IN /\ q.op = "revise_true_up"
       /\ case' = Flushed(case, q.case, [q.case EXCEPT !.statement = NoStatement, !.draft = 0,
                                                       !.status = "assumptions"])
       /\ Finish(u)
       /\ UNCHANGED <<sets, runs, drafts, lastId, actuals>>

Next ==
    \/ CaseStep /\ UNCHANGED actuals
    \/ \E u \in Users :
          \/ \E l \in Lines : RemoveActualRead(u, l) \/ \E f \in Figures : AddActualRead(u, l, f)
          \/ ComputeStatementRead(u) \/ FreezeStatementRead(u)
          \/ DraftTrueUpRead(u) \/ ReviseTrueUpRead(u)
          \/ AddActualWrite(u) \/ RemoveActualWrite(u) \/ ComputeStatementWrite(u)
          \/ FreezeStatementWrite(u) \/ ReviseTrueUpWrite(u)

Spec == TrueUpInit /\ [][Next]_vars

-----------------------------------------------------------------------------
(* Properties.                                                             *)

\* Type correctness of the case's tables.
TrueUpTypeOK ==
    /\ overlaps \in 0 .. MaxOverlaps
    /\ facts \in Base
    /\ case.kind \in Kinds /\ case.status \in CaseStatus
    /\ case.set \in DOMAIN sets /\ case.run \in {0} \cup DOMAIN runs
    /\ case.draft \in {0} \cup DOMAIN drafts
    /\ case.statement.state \in {"none", "computed", "frozen"}
    /\ sets \in Seq(SetVersion) /\ runs \in Seq(Run)
    /\ lastId \in 0 .. MaxEntered
    /\ actuals \in [Lines -> Actual]

\* With requests one at a time, a frozen true-up case keeps a frozen
\* statement that was ready and is of the actuals as they stand: nothing
\* edits them until the case is revised (_editable, freeze_statement).
FrozenStatementStands ==
    overlaps = 0 /\ case.kind = "true_up" /\ case.status \in {"frozen", "drafted"} =>
        /\ case.statement.state = "frozen"
        /\ case.statement.inputs.actuals = actuals
        /\ Ready(case.statement.inputs)

\* Even with requests side by side, no draft is rendered from a statement
\* that was not ready, or whose approvals or actuals had changed by the time
\* the draft was asked for (draft_true_up compares the hashes again).
DraftsAreOfLiveStatements ==
    \A i \in DOMAIN drafts : drafts[i].of = "statement" =>
        Ready(drafts[i].statement) /\ drafts[i].statement = drafts[i].live

\* What was frozen stands, whichever of its inputs the case could still reach.
FrozenStands == FrozenCaseRestsOnFrozen /\ FrozenStatementStands /\ OneAssumptionPerKey

\* A draft is only ever rendered from what was frozen, unblocked and current.
DraftsRest == DraftsRestOnFrozen /\ DraftsAreOfLiveStatements

\* With requests one at a time a closed case is never worked on again: its
\* status, formulation, statement and draft stay (update_case, and every
\* handler that asks the status).
ClosedKept == overlaps = 0 /\ case.status = "closed" => case' = case

LeftAlone == FrozenSetKept /\ ClosedKept

\* What was frozen or closed is left alone by every later step: neither the
\* assumptions of a frozen formulation nor a closed case change.
FrozenIsLeftAlone == [][LeftAlone]_vars
=============================================================================
