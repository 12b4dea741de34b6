---------------------------- MODULE PetitionFill ----------------------------
(***************************************************************************)
(* The petition_fill job of a case (arr/petition.py, stages/petition.py):  *)
(* an inputs workbook is uploaded, a fill of it is requested as a row and  *)
(* a job, and the handler reads, fills, stores the artefacts and records   *)
(* them in three transactions.  The handler saves no checkpoint and is not *)
(* fenced: after its lease has expired it goes on writing the row.         *)
(*                                                                         *)
(* What a fill computes is WorkbookFill; here it succeeds or raises.       *)
(***************************************************************************)
EXTENDS Naturals, FiniteSets

CONSTANTS
    Fills,          \* fill requests, each with its row and its job
    Narrative,      \* whether the layout binds a narrative
    MaxCrashes      \* bound: worker deaths and stalls past the lease

ASSUME PetitionAssumption == Narrative \in BOOLEAN /\ MaxCrashes \in Nat

VARIABLES
    inputs,     \* the inputs workbooks stored
    row,        \* status of the filled workbook's row
    job,        \* status of its job
    claims,     \* times the job was claimed
    handler,    \* where each handler run of the job is; one per claim
    stored,     \* the artefacts in the object store
    crashes

petitionVars == <<inputs, row, job, claims, handler, stored, crashes>>

RowStatuses == {"none", "queued", "running", "filled", "failed"}
JobStatuses == {"none", "queued", "leased", "succeeded", "failed", "cancelled"}
Phases == {"idle", "read", "filled", "put_book", "put_report", "put_all", "done"}
Artefacts == {"book", "report"} \cup IF Narrative THEN {"narrative"} ELSE {}
Claims == 1 .. 2

\* Mutant of MaxAttempts: the job is retried.
RetriedOnce == 2

\* request_fill enqueues with max_attempts=1.
MaxAttempts == 1

PetitionInit ==
    /\ inputs = FALSE
    /\ row = [f \in Fills |-> "none"]
    /\ job = [f \in Fills |-> "none"]
    /\ claims = [f \in Fills |-> 0]
    /\ handler = [f \in Fills |-> [n \in Claims |-> "idle"]]
    /\ stored = [f \in Fills |-> {}]
    /\ crashes = 0

StoreInputs ==
    /\ ~inputs
    /\ inputs' = TRUE
    /\ UNCHANGED <<row, job, claims, handler, stored, crashes>>

RequestFill(f) ==
    /\ inputs /\ row[f] = "none"
    /\ row' = [row EXCEPT ![f] = "queued"]
    /\ job' = [job EXCEPT ![f] = "queued"]
    /\ UNCHANGED <<inputs, claims, handler, stored, crashes>>

\* request_cancel; a leased job is only flagged, and this handler never looks at the flag.
CancelQueued(f) ==
    /\ job[f] = "queued"
    /\ job' = [job EXCEPT ![f] = "cancelled"]
    /\ UNCHANGED <<inputs, row, claims, handler, stored, crashes>>

\* run_fill, first transaction: a filled row is left alone.
Start(f) ==
    /\ job[f] = "queued" /\ claims[f] < MaxAttempts
    /\ claims' = [claims EXCEPT ![f] = @ + 1]
    /\ IF row[f] = "filled"
       THEN /\ job' = [job EXCEPT ![f] = "succeeded"]
            /\ UNCHANGED <<row, handler>>
       ELSE /\ job' = [job EXCEPT ![f] = "leased"]
            /\ row' = [row EXCEPT ![f] = "running"]
            /\ handler' = [handler EXCEPT ![f][claims'[f]] = "read"]
    /\ UNCHANGED <<inputs, stored, crashes>>

\* Only the run that holds the lease can settle the job.
Settle(f, n, status) ==
    job' = IF job[f] = "leased" /\ claims[f] = n THEN [job EXCEPT ![f] = status] ELSE job

FillWorkbook(f, n) ==
    /\ handler[f][n] = "read"
    /\ handler' = [handler EXCEPT ![f][n] = "filled"]
    /\ UNCHANGED <<inputs, row, job, claims, stored, crashes>>

\* storage.get or fill_workbook raises: the row says so, the job fails without a retry.
FillRaises(f, n) ==
    /\ handler[f][n] = "read"
    /\ row' = [row EXCEPT ![f] = "failed"]
    /\ Settle(f, n, "failed")
    /\ handler' = [handler EXCEPT ![f][n] = "done"]
    /\ UNCHANGED <<inputs, claims, stored, crashes>>

\* Mutant of Stores: the report is recorded and not stored.
StoresBookOnly(phase) == IF phase = "filled" THEN {"book"} ELSE {}

\* The objects are put one after the other: what the phase stores.
Stores(phase) ==
    CASE phase = "filled" -> {"book"}
      [] phase = "put_book" -> {"report"}
      [] phase = "put_report" -> Artefacts \ {"book", "report"}

After(phase) ==
    CASE phase = "filled" -> "put_book"
      [] phase = "put_book" -> "put_report"
      [] phase = "put_report" -> "put_all"

Putting == {"filled", "put_book", "put_report"}

Put(f, n) ==
    /\ handler[f][n] \in Putting
    /\ stored' = [stored EXCEPT ![f] = @ \cup Stores(handler[f][n])]
    /\ handler' = [handler EXCEPT ![f][n] = After(@)]
    /\ UNCHANGED <<inputs, row, job, claims, crashes>>

\* A put outside the try raises: the job fails and the row stays running.
PutRaises(f, n) ==
    /\ handler[f][n] \in Putting
    /\ Settle(f, n, "failed")
    /\ handler' = [handler EXCEPT ![f][n] = "done"]
    /\ UNCHANGED <<inputs, row, claims, stored, crashes>>

Record(f, n) ==
    /\ handler[f][n] = "put_all"
    /\ row' = [row EXCEPT ![f] = "filled"]
    /\ Settle(f, n, "succeeded")
    /\ handler' = [handler EXCEPT ![f][n] = "done"]
    /\ UNCHANGED <<inputs, claims, stored, crashes>>

WorkerDies(f) ==
    /\ job[f] = "leased" /\ handler[f][claims[f]] # "done" /\ crashes < MaxCrashes
    /\ crashes' = crashes + 1
    /\ handler' = [handler EXCEPT ![f][claims[f]] = "done"]
    /\ UNCHANGED <<inputs, row, job, claims, stored>>

\* Mutant of Expired: a lease whose worker is gone is never noticed.
NeverExpired(f) == FALSE

Expired(f) == job[f] = "leased" /\ handler[f][claims[f]] = "done"

\* claim finds the expired lease: the attempts are spent, or the job is taken again.
Reclaimed(f) == job' = [job EXCEPT ![f] = IF claims[f] < MaxAttempts THEN "queued" ELSE "failed"]

LeaseExpires(f) ==
    /\ Expired(f)
    /\ Reclaimed(f)
    /\ UNCHANGED <<inputs, row, claims, handler, stored, crashes>>

\* A worker stalls past its lease and goes on afterwards.
Stall(f) ==
    /\ job[f] = "leased" /\ handler[f][claims[f]] # "done" /\ crashes < MaxCrashes
    /\ crashes' = crashes + 1
    /\ Reclaimed(f)
    /\ UNCHANGED <<inputs, row, claims, handler, stored>>

HandlerStep(f) ==
    \E n \in Claims :
        FillWorkbook(f, n) \/ FillRaises(f, n) \/ Put(f, n) \/ PutRaises(f, n) \/ Record(f, n)

PetitionNext ==
    \/ StoreInputs
    \/ \E f \in Fills :
          RequestFill(f) \/ CancelQueued(f) \/ Start(f) \/ HandlerStep(f)
          \/ WorkerDies(f) \/ LeaseExpires(f) \/ Stall(f)

PetitionSpec == PetitionInit /\ [][PetitionNext]_petitionVars

\* The pool keeps claiming, expired leases included, and a handler that is alive goes on (JobRunner).
PetitionFairness ==
    \A f \in Fills :
        WF_petitionVars(Start(f)) /\ WF_petitionVars(HandlerStep(f)) /\ WF_petitionVars(LeaseExpires(f))

PetitionFairSpec == PetitionSpec /\ PetitionFairness

-----------------------------------------------------------------------------
(* Properties.                                                             *)

\* Type correctness of the fill job's state.
PetitionTypeOK ==
    /\ inputs \in BOOLEAN
    /\ row \in [Fills -> RowStatuses] /\ job \in [Fills -> JobStatuses]
    /\ claims \in [Fills -> 0 .. MaxAttempts]
    /\ handler \in [Fills -> [Claims -> Phases]]
    /\ stored \in [Fills -> SUBSET Artefacts]
    /\ crashes \in 0 .. MaxCrashes

\* A row that says filled has its workbook, its report and its narrative in
\* the store, and what is filled or failed stays so, whatever crashed, was put
\* twice or outlived its lease: one handler at most ever runs for a row.
FillHolds ==
    [][\A f \in Fills :
          /\ row'[f] = "filled" => stored'[f] = Artefacts
          /\ row[f] \in {"filled", "failed"} => row'[f] = row[f]]_petitionVars

\* A fill that was requested ends: its job settles, whatever dies.
EveryFillEnds == \A f \in Fills : job[f] = "queued" ~> job[f] \in {"succeeded", "failed", "cancelled"}
=============================================================================
