------------------------------ MODULE JobQueue ------------------------------
(***************************************************************************)
(* The durable job queue of services/api/src/tariff_api/queue.py: the      *)
(* table `jobs` and the functions that write it.  A row is a record; each  *)
(* function runs in one PostgreSQL transaction and is one action.          *)
(*                                                                         *)
(* Jobs are named by their idempotency key, which is unique in the table.  *)
(* Time is abstracted to two flags of a row: "due" is available_at <=      *)
(* now() and "expired" is lease_expires_at < now().  A run id is a fresh   *)
(* uuid in the code; here it is a number no earlier claim of the job used. *)
(* The caller is any worker with any run id it was ever given; JobRunner   *)
(* replaces that caller by the real worker process.                        *)
(***************************************************************************)
EXTENDS Naturals, FiniteSets

CONSTANTS
    Jobs,          \* idempotency keys
    Workers,       \* worker processes
    NoWorker,      \* lease_owner IS NULL
    MaxAttempts,   \* max_attempts of a job
    Priority,      \* priority of a job
    Checkpoints    \* how far a handler can get, 0 .. Checkpoints

ASSUME QueueAssumption ==
    /\ IsFiniteSet(Jobs)
    /\ NoWorker \notin Workers
    /\ MaxAttempts \in Nat \ {0}
    /\ Priority \in [Jobs -> Nat]
    /\ Checkpoints \in Nat

VARIABLES
    job,           \* the rows of table jobs
    cancelTx       \* what the open POST /jobs/{id}/cancel request read

queueVars == <<job, cancelTx>>

Status == {"absent", "queued", "leased", "succeeded", "failed", "cancelled"}
Terminal == {"succeeded", "failed", "cancelled"}
Errors == {"none", "retries_exhausted", "handler"}
Runs == 0 .. MaxAttempts + 1

Row == [status: Status,
        attempts: 0 .. MaxAttempts + 1,
        run: Runs,
        owner: Workers \cup {NoWorker},
        due: BOOLEAN,
        expired: BOOLEAN,
        cancelRequested: BOOLEAN,
        checkpoint: 0 .. Checkpoints,
        error: Errors,
        created: Nat]

NoRow == [status |-> "absent", attempts |-> 0, run |-> 0, owner |-> NoWorker,
          due |-> FALSE, expired |-> FALSE, cancelRequested |-> FALSE,
          checkpoint |-> 0, error |-> "none", created |-> 0]

Init ==
    /\ job = [j \in Jobs |-> NoRow]
    /\ cancelTx = [j \in Jobs |-> "none"]

-----------------------------------------------------------------------------
(* enqueue: a second call with the same key finds the row and changes      *)
(* nothing, so only the first is a step.                                   *)

Existing == {j \in Jobs : job[j].status # "absent"}

Enqueue(j) ==
    /\ job[j].status = "absent"
    /\ job' = [job EXCEPT ![j] = [NoRow EXCEPT !.status = "queued", !.due = TRUE,
                                               !.created = Cardinality(Existing)]]
    /\ UNCHANGED cancelTx

-----------------------------------------------------------------------------
(* claim.  The row other sessions hold locked is skipped, so the caller    *)
(* gets the first claimable row outside the set locked.                    *)

\* Mutant of Claimable: an expired lease is never taken over.
ClaimableQueuedOnly == {j \in Jobs : job[j].status = "queued" /\ job[j].due}

Claimable == {j \in Jobs : \/ job[j].status = "queued" /\ job[j].due
                           \/ job[j].status = "leased" /\ job[j].expired}

Before(j, k) ==
    \/ Priority[j] > Priority[k]
    \/ Priority[j] = Priority[k] /\ job[j].created < job[k].created

IsFirst(j, S) == j \in S /\ \A k \in S : ~Before(k, j)

Leased(j, w) ==
    [job[j] EXCEPT !.status = "leased", !.owner = w, !.expired = FALSE,
                   !.attempts = @ + 1, !.run = job[j].attempts + 1]

\* Mutant of ClaimRun: the test of the attempts is off by one.
ClaimRunOnceMore(w, j, locked) ==
    /\ IsFirst(j, Claimable \ locked)
    /\ job[j].attempts <= MaxAttempts
    /\ job' = [job EXCEPT ![j] = Leased(j, w)]
    /\ UNCHANGED cancelTx

\* Mutant of ClaimRun: nothing bounds the attempts.
ClaimRunUnbounded(w, j, locked) ==
    /\ IsFirst(j, Claimable \ locked)
    /\ job' = [job EXCEPT ![j] = Leased(j, w)]
    /\ UNCHANGED cancelTx

ClaimRun(w, j, locked) ==
    /\ IsFirst(j, Claimable \ locked)
    /\ job[j].attempts + 1 <= MaxAttempts
    /\ job' = [job EXCEPT ![j] = Leased(j, w)]
    /\ UNCHANGED cancelTx

\* Mutant of ClaimExhausted: the row stays leased.
ClaimExhaustedStaysLeased(w, j, locked) ==
    /\ IsFirst(j, Claimable \ locked)
    /\ job[j].attempts + 1 > MaxAttempts
    /\ job' = [job EXCEPT ![j] = Leased(j, w)]
    /\ UNCHANGED cancelTx

ClaimExhausted(w, j, locked) ==
    /\ IsFirst(j, Claimable \ locked)
    /\ job[j].attempts + 1 > MaxAttempts
    /\ job' = [job EXCEPT ![j] = [Leased(j, w) EXCEPT !.status = "failed", !.owner = NoWorker,
                                                      !.error = "retries_exhausted"]]
    /\ UNCHANGED cancelTx

-----------------------------------------------------------------------------
(* The fenced writes of the run that owns the lease.                       *)

\* Mutants of Fence: either half of the test alone.
FenceByStatus(j, r) == job[j].status = "leased"
FenceByRun(j, r) == job[j].run = r

Fence(j, r) == job[j].run = r /\ job[j].status = "leased"

Heartbeat(j, r) ==
    /\ Fence(j, r)
    /\ job' = [job EXCEPT ![j].expired = FALSE]
    /\ UNCHANGED cancelTx

Checkpoint(j, r, c) ==
    /\ Fence(j, r)
    /\ job' = [job EXCEPT ![j].checkpoint = c]
    /\ UNCHANGED cancelTx

Complete(j, r) ==
    /\ Fence(j, r)
    /\ job' = [job EXCEPT ![j].status = "succeeded", ![j].owner = NoWorker]
    /\ UNCHANGED cancelTx

\* Mutant of Exhausted: one more retry than attempts.
ExhaustedLate(j) == job[j].attempts > MaxAttempts

Exhausted(j) == job[j].attempts >= MaxAttempts

FailRetry(j, r) ==
    /\ ~Exhausted(j)
    /\ Fence(j, r)
    /\ job' = [job EXCEPT ![j].status = "queued", ![j].owner = NoWorker,
                          ![j].due = FALSE, ![j].error = "handler"]
    /\ UNCHANGED cancelTx

FailFinal(j, r, retry) ==
    /\ retry => Exhausted(j)
    /\ Fence(j, r)
    /\ job' = [job EXCEPT ![j].status = "failed", ![j].owner = NoWorker,
                          ![j].error = IF retry THEN "retries_exhausted" ELSE "handler"]
    /\ UNCHANGED cancelTx

CancelFromWorker(j, r) ==
    /\ Fence(j, r)
    /\ job' = [job EXCEPT ![j].status = "cancelled", ![j].owner = NoWorker]
    /\ UNCHANGED cancelTx

-----------------------------------------------------------------------------
(* request_cancel inside POST /jobs/{id}/cancel.  The request reads the    *)
(* row without a lock and writes at commit, whatever the row says by then. *)

RequestCancelRead(j) ==
    /\ cancelTx[j] = "none"
    /\ job[j].status \in {"queued", "leased"}
    /\ cancelTx' = [cancelTx EXCEPT ![j] = job[j].status]
    /\ UNCHANGED job

RequestCancelWrite(j) ==
    /\ cancelTx[j] # "none"
    /\ job' = IF cancelTx[j] = "queued"
              THEN [job EXCEPT ![j].status = "cancelled"]
              ELSE [job EXCEPT ![j].cancelRequested = TRUE]
    /\ cancelTx' = [cancelTx EXCEPT ![j] = "none"]

-----------------------------------------------------------------------------
(* The passage of time.                                                    *)

LeaseExpires(j) ==
    /\ job[j].status = "leased" /\ ~job[j].expired
    /\ job' = [job EXCEPT ![j].expired = TRUE]
    /\ UNCHANGED cancelTx

RetryDelayEnds(j) ==
    /\ job[j].status = "queued" /\ ~job[j].due
    /\ job' = [job EXCEPT ![j].due = TRUE]
    /\ UNCHANGED cancelTx

-----------------------------------------------------------------------------

\* The rows the other sessions can hold at one instant: one each.
LockedSets == {S \in SUBSET Jobs : Cardinality(S) < Cardinality(Workers)}

Next ==
    \/ \E j \in Jobs : \/ Enqueue(j)
                       \/ RequestCancelRead(j)
                       \/ RequestCancelWrite(j)
                       \/ LeaseExpires(j)
                       \/ RetryDelayEnds(j)
    \/ \E w \in Workers, j \in Jobs, locked \in LockedSets :
           ClaimRun(w, j, locked) \/ ClaimExhausted(w, j, locked)
    \/ \E j \in Jobs, r \in Runs :
           \/ Heartbeat(j, r)
           \/ \E c \in 0 .. Checkpoints : Checkpoint(j, r, c)
           \/ Complete(j, r)
           \/ FailRetry(j, r)
           \/ \E retry \in BOOLEAN : FailFinal(j, r, retry)
           \/ CancelFromWorker(j, r)

Spec == Init /\ [][Next]_queueVars
-----------------------------------------------------------------------------
(* Properties.                                                             *)

\* Type correctness: the columns of table jobs and what a cancel request read.
TypeOK ==
    /\ job \in [Jobs -> Row]
    /\ cancelTx \in [Jobs -> {"none", "queued", "leased"}]

\* A job that was claimed more often than max_attempts is failed, or was
\* cancelled; it never waits or runs again (claim's exhausted branch).
ExhaustedIsSettled ==
    \A j \in Jobs : job[j].attempts > MaxAttempts => job[j].status \in {"failed", "cancelled"}

\* A settled job never becomes live again and its outcome is not rewritten,
\* except that a cancel request which read it while it was still queued
\* writes "cancelled" over whatever happened since (request_cancel).
SettledStaysSettled ==
    [][\A j \in Jobs : job[j].status \in Terminal =>
          \/ job'[j].status = job[j].status
          \/ cancelTx[j] = "queued" /\ job'[j].status = "cancelled"]_queueVars
=============================================================================
