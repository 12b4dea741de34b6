-------------------------- MODULE JobRunnerProofs --------------------------
(***************************************************************************)
(* Proofs about the queue with its workers, for any jobs, workers and      *)
(* bounds: however many processes die, stall or come back stale.           *)
(*                                                                         *)
(* None of the properties is inductive.  That only one process can write a *)
(* row rests on the run ids: every claim takes a new one (RowsOK, RunsOK), *)
(* so no two processes carry the same (RunsDistinct).  That the holder     *)
(* resumes where the row is rests on that, and that the row claims no more *)
(* than was done rests on what a process knows at each point of its        *)
(* handler (ContextOK).                                                    *)
(*                                                                         *)
(* The first part is about the queue alone, under every caller.            *)
(***************************************************************************)
EXTENDS JobRunner, FiniteSetTheorems, TLAPS

-----------------------------------------------------------------------------
(* The queue.  TypeOK alone is not inductive: claim adds one to attempts,  *)
(* so its upper bound needs that a claimable row was claimed at most       *)
(* MaxAttempts times.  That is ExhaustedIsSettled, and QueueInv is their   *)
(* conjunction.                                                            *)

QueueInv == TypeOK /\ ExhaustedIsSettled

LEMMA ExistingCount == Cardinality(Existing) \in Nat
<1>1. Existing \subseteq Jobs
  BY DEF Existing
<1> QED
  BY <1>1, QueueAssumption, FS_Subset, FS_CardinalityType

LEMMA InitQueueInv == Init => QueueInv
BY QueueAssumption DEF Init, QueueInv, TypeOK, ExhaustedIsSettled, Row, NoRow, Status, Errors, Runs

\* A row that claim may take was claimed at most MaxAttempts times.
LEMMA ClaimableAttempts ==
  ASSUME QueueInv, NEW j \in Claimable
  PROVE  j \in Jobs /\ job[j].attempts \in 0 .. MaxAttempts
BY QueueAssumption DEF QueueInv, TypeOK, ExhaustedIsSettled, Claimable, Row

\* Every write of a row is of this shape, and keeps the invariant.
LEMMA RowWrite ==
  ASSUME QueueInv, NEW j \in Jobs, NEW row \in Row,
         row.attempts > MaxAttempts => row.status \in {"failed", "cancelled"},
         job' = [job EXCEPT ![j] = row],
         cancelTx' \in [Jobs -> {"none", "queued", "leased"}]
  PROVE  QueueInv'
<1>1. TypeOK'
  BY DEF QueueInv, TypeOK
<1>2. ExhaustedIsSettled'
  BY DEF QueueInv, TypeOK, ExhaustedIsSettled
<1> QED
  BY <1>1, <1>2 DEF QueueInv

\* The row a claim writes.
LEMMA LeasedRow ==
  ASSUME NEW j \in Jobs, NEW w \in Workers, job[j] \in Row, job[j].attempts \in 0 .. MaxAttempts
  PROVE  Leased(j, w) \in Row /\ Leased(j, w).attempts = job[j].attempts + 1
<1> DEFINE n == job[j].attempts + 1
           row == [job[j] EXCEPT !.status = "leased", !.owner = w, !.expired = FALSE,
                                 !.attempts = n, !.run = n]
<1>1. n \in 0 .. MaxAttempts + 1
  BY QueueAssumption
<1>2. row = Leased(j, w)
  BY DEF Leased, Row
<1> HIDE DEF n
<1>3. row \in Row /\ row.attempts = n
  BY <1>1 DEF Row, Status, Runs
<1> QED
  BY <1>2, <1>3 DEF n

\* Each function of the queue keeps the invariant.
LEMMA NextQueueInv == QueueInv /\ [Next]_queueVars => QueueInv'
<1> SUFFICES ASSUME QueueInv, [Next]_queueVars
             PROVE  QueueInv'
  OBVIOUS
<1>a. ASSUME NEW j \in Jobs
      PROVE  /\ job[j] \in Row
             /\ job[j].attempts > MaxAttempts => job[j].status \in {"failed", "cancelled"}
             /\ cancelTx \in [Jobs -> {"none", "queued", "leased"}]
  BY DEF QueueInv, TypeOK, ExhaustedIsSettled
<1> USE QueueAssumption
<1>1. ASSUME NEW j \in Jobs, Enqueue(j)
      PROVE  QueueInv'
  <2> DEFINE row == [NoRow EXCEPT !.status = "queued", !.due = TRUE,
                                  !.created = Cardinality(Existing)]
  <2>a. NoRow \in Row
    BY DEF NoRow, Row, Status, Errors, Runs
  <2>1. row \in Row /\ row.attempts = 0
    BY <2>a, ExistingCount DEF NoRow, Row, Status
  <2>b. ~(row.attempts > MaxAttempts)
    BY <2>1
  <2>2. job' = [job EXCEPT ![j] = row] /\ cancelTx' = cancelTx
    BY <1>1 DEF Enqueue
  <2>3. cancelTx' \in [Jobs -> {"none", "queued", "leased"}]
    BY <1>a, <2>2
  <2> HIDE DEF row
  <2> QED
    BY <2>1, <2>b, <2>2, <2>3, RowWrite
<1>2. ASSUME NEW j \in Jobs, RequestCancelRead(j)
      PROVE  QueueInv'
  BY <1>2 DEF RequestCancelRead, QueueInv, TypeOK, ExhaustedIsSettled
<1>3. ASSUME NEW j \in Jobs, RequestCancelWrite(j)
      PROVE  QueueInv'
  <2> DEFINE row == IF cancelTx[j] = "queued"
                    THEN [job[j] EXCEPT !.status = "cancelled"]
                    ELSE [job[j] EXCEPT !.cancelRequested = TRUE]
  <2>1. row \in Row /\ (row.attempts > MaxAttempts => row.status \in {"failed", "cancelled"})
    BY <1>a DEF Row, Status
  <2>2. job' = [job EXCEPT ![j] = row]
    BY <1>3 DEF RequestCancelWrite
  <2>3. cancelTx' \in [Jobs -> {"none", "queued", "leased"}]
    BY <1>a, <1>3 DEF RequestCancelWrite
  <2> HIDE DEF row
  <2> QED
    BY <2>1, <2>2, <2>3, RowWrite
<1>4. ASSUME NEW j \in Jobs, LeaseExpires(j) \/ RetryDelayEnds(j)
      PROVE  QueueInv'
  <2>1. PICK e, d \in BOOLEAN : job' = [job EXCEPT ![j] = [job[j] EXCEPT !.expired = e, !.due = d]]
    <3>1. job[j].expired \in BOOLEAN /\ job[j].due \in BOOLEAN
      BY <1>a DEF Row
    <3>2. CASE LeaseExpires(j)
      <4>1. job' = [job EXCEPT ![j] = [job[j] EXCEPT !.expired = TRUE, !.due = job[j].due]]
        BY <1>a, <3>2 DEF LeaseExpires, Row
      <4> QED  BY <3>1, <4>1
    <3>3. CASE RetryDelayEnds(j)
      <4>1. job' = [job EXCEPT ![j] = [job[j] EXCEPT !.expired = job[j].expired, !.due = TRUE]]
        BY <1>a, <3>3 DEF RetryDelayEnds, Row
      <4> QED  BY <3>1, <4>1
    <3> QED
      BY <1>4, <3>2, <3>3
  <2> DEFINE row == [job[j] EXCEPT !.expired = e, !.due = d]
  <2>2. row \in Row /\ (row.attempts > MaxAttempts => row.status \in {"failed", "cancelled"})
    BY <1>a DEF Row, Status
  <2>3. cancelTx' = cancelTx
    BY <1>4 DEF LeaseExpires, RetryDelayEnds
  <2> HIDE DEF row
  <2> QED
    BY <1>a, <2>1, <2>2, <2>3, RowWrite DEF row
<1>5. ASSUME NEW w \in Workers, NEW j \in Jobs, NEW locked \in LockedSets,
             ClaimRun(w, j, locked)
      PROVE  QueueInv'
  <2>a. job[j].attempts \in Nat /\ job[j].attempts + 1 \in 0 .. MaxAttempts
    BY <1>a, <1>5 DEF ClaimRun, Row
  <2>1. Leased(j, w) \in Row /\ ~(Leased(j, w).attempts > MaxAttempts)
    BY <1>a, <2>a, LeasedRow
  <2>3. cancelTx' \in [Jobs -> {"none", "queued", "leased"}]
    BY <1>a, <1>5 DEF ClaimRun
  <2>2. job' = [job EXCEPT ![j] = Leased(j, w)] /\ cancelTx' = cancelTx
    BY <1>5 DEF ClaimRun
  <2> QED
    BY <2>1, <2>2, <2>3, RowWrite
<1>6. ASSUME NEW w \in Workers, NEW j \in Jobs, NEW locked \in LockedSets,
             ClaimExhausted(w, j, locked)
      PROVE  QueueInv'
  <2> DEFINE row == [Leased(j, w) EXCEPT !.status = "failed", !.owner = NoWorker,
                                         !.error = "retries_exhausted"]
  <2>1. job[j].attempts \in 0 .. MaxAttempts
    BY <1>6, ClaimableAttempts DEF ClaimExhausted, IsFirst
  <2>a. Leased(j, w) \in Row
    BY <1>a, <2>1, LeasedRow
  <2>2. row \in Row /\ row.status = "failed"
    BY <2>a DEF Row, Status, Errors
  <2>3. job' = [job EXCEPT ![j] = row] /\ cancelTx' = cancelTx
    BY <1>6 DEF ClaimExhausted
  <2> HIDE DEF row
  <2> QED
    BY <1>a, <2>2, <2>3, RowWrite
<1>7. ASSUME NEW j \in Jobs, NEW r \in Runs,
             \/ Heartbeat(j, r) \/ Complete(j, r) \/ FailRetry(j, r) \/ CancelFromWorker(j, r)
             \/ \E c \in 0 .. Checkpoints : Checkpoint(j, r, c)
             \/ \E retry \in BOOLEAN : FailFinal(j, r, retry)
      PROVE  QueueInv'
  <2>1. job[j].attempts \in 0 .. MaxAttempts /\ cancelTx' = cancelTx
    BY <1>a, <1>7 DEF Heartbeat, Checkpoint, Complete, FailRetry, FailFinal, CancelFromWorker, Fence, Row
  <2>2. ASSUME NEW row \in Row, row.attempts = job[j].attempts,
               job' = [job EXCEPT ![j] = row]
        PROVE  QueueInv'
    <3>1. row.attempts > MaxAttempts => row.status \in {"failed", "cancelled"}
      BY <2>1, <2>2
    <3> QED
      BY <1>a, <2>1, <2>2, <3>1, RowWrite
  <2>a. job[j] \in Row
    BY <1>a
  <2>3. CASE Heartbeat(j, r)
    <3>1. [job[j] EXCEPT !.expired = FALSE] \in Row
      BY <2>a DEF Row
    <3> QED
      BY <2>a, <2>2, <2>3, <3>1 DEF Heartbeat, Row
  <2>4. ASSUME NEW c \in 0 .. Checkpoints, Checkpoint(j, r, c) PROVE QueueInv'
    <3>1. [job[j] EXCEPT !.checkpoint = c] \in Row
      BY <2>a DEF Row
    <3> QED
      BY <2>a, <2>2, <2>4, <3>1 DEF Checkpoint, Row
  <2>5. CASE Complete(j, r)
    <3>1. [job[j] EXCEPT !.status = "succeeded", !.owner = NoWorker] \in Row
      BY <2>a DEF Row, Status
    <3> QED
      BY <2>a, <2>2, <2>5, <3>1 DEF Complete, Row
  <2>6. CASE FailRetry(j, r)
    <3>1. [job[j] EXCEPT !.status = "queued", !.owner = NoWorker,
                         !.due = FALSE, !.error = "handler"] \in Row
      BY <2>a DEF Row, Status, Errors
    <3> QED
      BY <2>a, <2>2, <2>6, <3>1, ZenonT(60) DEF FailRetry, Row
  <2>7. ASSUME NEW retry \in BOOLEAN, FailFinal(j, r, retry) PROVE QueueInv'
    <3>1. [job[j] EXCEPT !.status = "failed", !.owner = NoWorker,
                         !.error = IF retry THEN "retries_exhausted" ELSE "handler"] \in Row
      BY <2>a DEF Row, Status, Errors
    <3> QED
      BY <2>a, <2>2, <2>7, <3>1, ZenonT(60) DEF FailFinal, Row
  <2>8. CASE CancelFromWorker(j, r)
    <3>1. [job[j] EXCEPT !.status = "cancelled", !.owner = NoWorker] \in Row
      BY <2>a DEF Row, Status
    <3> QED
      BY <2>a, <2>2, <2>8, <3>1 DEF CancelFromWorker, Row
  <2> QED
    BY <1>7, <2>3, <2>4, <2>5, <2>6, <2>7, <2>8
<1>8. CASE UNCHANGED queueVars
  BY <1>8 DEF queueVars, QueueInv, TypeOK, ExhaustedIsSettled
<1> QED
  BY <1>1, <1>2, <1>3, <1>4, <1>5, <1>6, <1>7, <1>8 DEF Next

\* The rows of the queue are well typed: in particular attempts never passes
\* max_attempts + 1, for any number of workers, crashes and expired leases.
THEOREM QueueTypeCorrect == Spec => []TypeOK
<1>1. QueueInv => TypeOK
  BY DEF QueueInv
<1> QED
  BY InitQueueInv, NextQueueInv, <1>1, PTL DEF Spec

\* A job claimed more often than max_attempts is settled and stays so.
THEOREM QueueExhaustedIsSettled == Spec => []ExhaustedIsSettled
<1>1. QueueInv => ExhaustedIsSettled
  BY DEF QueueInv
<1> QED
  BY InitQueueInv, NextQueueInv, <1>1, PTL DEF Spec

\* What a step of the queue may do to a row that is settled.
KeepsOutcome(j) == job[j].status \in Terminal =>
    \/ job'[j].status = job[j].status
    \/ cancelTx[j] = "queued" /\ job'[j].status = "cancelled"

\* Every function but request_cancel asks for a row that is not settled; request_cancel asked when
\* it read the row.
LEMMA QueueKeepsOutcomes ==
  ASSUME TypeOK, [Next]_queueVars, NEW j \in Jobs
  PROVE  KeepsOutcome(j)
<1>t. job \in [Jobs -> Row]
  BY DEF TypeOK
<1>1. ASSUME NEW k \in Jobs, NEW row, job' = [job EXCEPT ![k] = row], job[k].status \notin Terminal
      PROVE  KeepsOutcome(j)
  BY <1>t, <1>1 DEF KeepsOutcome
<1>2. ASSUME NEW k \in Jobs, Enqueue(k) \/ LeaseExpires(k) \/ RetryDelayEnds(k) PROVE KeepsOutcome(j)
  <2>1. job[k].status \notin Terminal /\ \E row : job' = [job EXCEPT ![k] = row]
    BY <1>2 DEF Enqueue, LeaseExpires, RetryDelayEnds, Terminal
  <2> QED
    BY <1>1, <2>1
<1>3. ASSUME NEW k \in Jobs, RequestCancelRead(k) PROVE KeepsOutcome(j)
  BY <1>3 DEF RequestCancelRead, KeepsOutcome
<1>4. ASSUME NEW k \in Jobs, RequestCancelWrite(k) PROVE KeepsOutcome(j)
  <2>1. CASE cancelTx[k] = "queued"
    BY <1>t, <1>4, <2>1 DEF RequestCancelWrite, KeepsOutcome, Row
  <2>2. CASE cancelTx[k] # "queued"
    <3>1. job' = [job EXCEPT ![k] = [job[k] EXCEPT !.cancelRequested = TRUE]]
      BY <1>4, <2>2 DEF RequestCancelWrite
    <3>2. [job[k] EXCEPT !.cancelRequested = TRUE].status = job[k].status
      BY <1>t DEF Row
    <3> QED
      BY <1>t, <3>1, <3>2 DEF KeepsOutcome
  <2> QED
    BY <2>1, <2>2
<1>5. ASSUME NEW w \in Workers, NEW k \in Jobs, NEW locked \in LockedSets,
             ClaimRun(w, k, locked) \/ ClaimExhausted(w, k, locked)
      PROVE  KeepsOutcome(j)
  <2>1. job[k].status \notin Terminal
    BY <1>5 DEF ClaimRun, ClaimExhausted, IsFirst, Claimable, Terminal
  <2>2. \E row : job' = [job EXCEPT ![k] = row]
    BY <1>5 DEF ClaimRun, ClaimExhausted
  <2> QED
    BY <1>1, <2>1, <2>2
<1>6. ASSUME NEW k \in Jobs, NEW r \in Runs,
             \/ Heartbeat(k, r) \/ Complete(k, r) \/ FailRetry(k, r) \/ CancelFromWorker(k, r)
             \/ \E c \in 0 .. Checkpoints : Checkpoint(k, r, c)
             \/ \E retry \in BOOLEAN : FailFinal(k, r, retry)
      PROVE  KeepsOutcome(j)
  <2>1. job[k].status \notin Terminal
    BY <1>6 DEF Heartbeat, Complete, FailRetry, CancelFromWorker, Checkpoint, FailFinal, Fence, Terminal
  <2>2. \E row : job' = [job EXCEPT ![k] = row]
    BY <1>6 DEF Heartbeat, Complete, FailRetry, CancelFromWorker, Checkpoint, FailFinal
  <2> QED
    BY <1>1, <2>1, <2>2
<1>7. CASE UNCHANGED queueVars
  BY <1>7 DEF queueVars, KeepsOutcome
<1> QED
  BY <1>2, <1>3, <1>4, <1>5, <1>6, <1>7 DEF Next

-----------------------------------------------------------------------------
(* The queue with its workers.                                             *)

RowsOK == \A j \in Jobs :
    /\ job[j].run = job[j].attempts
    /\ job[j].status = "absent" => job[j].attempts = 0 /\ job[j].checkpoint = 0

RunsOK == \A w \in Workers : Executing(w) =>
    worker[w].run <= job[worker[w].job].attempts /\ worker[w].run <= MaxAttempts

RunsDistinct == \A v, w \in Workers :
    Executing(v) /\ Executing(w) /\ worker[v].job = worker[w].job /\ worker[v].run = worker[w].run
        => v = w

ContextOK(ctx, done) ==
    /\ ctx.pc = "save" => ctx.checkpoint < Checkpoints /\ ctx.checkpoint + 1 \in done[ctx.job]
    /\ ctx.pc = "complete" => ctx.checkpoint = Checkpoints

ContextsOK == \A w \in Workers : ContextOK(worker[w], units)

RunnerInv ==
    /\ RunnerTypeOK /\ ExhaustedIsSettled
    /\ RowsOK /\ RunsOK /\ RunsDistinct /\ ContextsOK
    /\ HolderResumesFromRow /\ CheckpointedWorkIsDone

-----------------------------------------------------------------------------
(* Most steps keep what the invariant says of a row and of a process.      *)

KeepsRow(old, new) ==
    /\ new.checkpoint = old.checkpoint
    /\ new.attempts >= old.attempts
    /\ new.run = new.attempts
    /\ new.status = "leased" => old.status = "leased" /\ new.run = old.run
    /\ new.status = "absent" => new.attempts = 0 /\ new.checkpoint = 0
    /\ new.status = "succeeded" => old.status = "succeeded"

KeepsContext(old, new) ==
    new.pc \notin {"down", "idle"} =>
        /\ old.pc \notin {"down", "idle"}
        /\ new.job = old.job /\ new.run = old.run /\ new.checkpoint = old.checkpoint

Keeps ==
    /\ \A j \in Jobs : KeepsRow(job[j], job'[j])
    /\ \A w \in Workers : KeepsContext(worker[w], worker'[w])
    /\ \A j \in Jobs : units[j] \subseteq units'[j]

\* The parts of the invariant that a keeping step preserves.
LEMMA KeepingStep ==
  ASSUME RunnerInv, RunnerTypeOK', ExhaustedIsSettled', Keeps, ContextsOK'
  PROVE  RunnerInv'
<1> USE QueueAssumption
<1>t. /\ \A j \in Jobs : job[j] \in Row /\ job'[j] \in Row
      /\ \A w \in Workers : worker[w] \in WorkerState /\ worker'[w] \in WorkerState
      /\ \A j \in Jobs : units[j] \subseteq 1 .. Checkpoints /\ units'[j] \subseteq 1 .. Checkpoints
  BY DEF RunnerInv, RunnerTypeOK, TypeOK
<1>1. RowsOK'
  BY DEF RowsOK, Keeps, KeepsRow
<1>2. RunsOK'
  <2> SUFFICES ASSUME NEW w \in Workers, Executing(w)'
               PROVE  /\ worker'[w].run <= job'[worker'[w].job].attempts
                      /\ worker'[w].run <= MaxAttempts
    BY DEF RunsOK
  <2>1. Executing(w) /\ worker'[w].job = worker[w].job /\ worker'[w].run = worker[w].run
    BY DEF Keeps, KeepsContext, Executing
  <2>2. worker[w].job \in Jobs /\ worker[w].run \in Nat
    BY <1>t DEF WorkerState, Runs
  <2>3. worker[w].run <= job[worker[w].job].attempts /\ worker[w].run <= MaxAttempts
    BY <2>1 DEF RunnerInv, RunsOK
  <2>4. job'[worker[w].job].attempts >= job[worker[w].job].attempts
    BY <2>2 DEF Keeps, KeepsRow
  <2>5. job[worker[w].job].attempts \in Nat /\ job'[worker[w].job].attempts \in Nat
    BY <1>t, <2>2 DEF Row
  <2> QED
    BY <2>1, <2>2, <2>3, <2>4, <2>5
<1>3. RunsDistinct'
  BY DEF RunnerInv, RunsDistinct, Keeps, KeepsContext, Executing
<1>4. HolderResumesFromRow'
  <2> SUFFICES ASSUME NEW w \in Workers, Holds(w)'
               PROVE  worker'[w].checkpoint = job'[worker'[w].job].checkpoint
    BY DEF HolderResumesFromRow
  <2>1. /\ Executing(w) /\ worker'[w].job = worker[w].job /\ worker'[w].run = worker[w].run
        /\ worker'[w].checkpoint = worker[w].checkpoint
    BY DEF Keeps, KeepsContext, Executing, Holds
  <2>2. worker[w].job \in Jobs
    BY <1>t DEF WorkerState
  <2>3. KeepsRow(job[worker[w].job], job'[worker[w].job])
    BY <2>2 DEF Keeps
  <2>4. Holds(w)
    BY <2>1, <2>3 DEF Holds, Fence, KeepsRow
  <2> QED
    BY <2>1, <2>3, <2>4 DEF RunnerInv, HolderResumesFromRow, KeepsRow
<1>5. CheckpointedWorkIsDone'
  <2> SUFFICES ASSUME NEW j \in Jobs
               PROVE  /\ 1 .. job'[j].checkpoint \subseteq units'[j]
                      /\ job'[j].status = "succeeded" => units'[j] = 1 .. Checkpoints
    BY DEF CheckpointedWorkIsDone
  <2>1. KeepsRow(job[j], job'[j]) /\ units[j] \subseteq units'[j]
    BY DEF Keeps
  <2>2. 1 .. job[j].checkpoint \subseteq units[j]
    BY DEF RunnerInv, CheckpointedWorkIsDone
  <2>3. job[j].status = "succeeded" => units[j] = 1 .. Checkpoints
    BY DEF RunnerInv, CheckpointedWorkIsDone
  <2>4. job'[j].checkpoint = job[j].checkpoint
    BY <2>1 DEF KeepsRow
  <2>5. job'[j].status = "succeeded" => units[j] = 1 .. Checkpoints
    BY <2>1, <2>3 DEF KeepsRow
  <2> QED
    BY <1>t, <2>1, <2>2, <2>4, <2>5
<1> QED
  BY <1>1, <1>2, <1>3, <1>4, <1>5 DEF RunnerInv

-----------------------------------------------------------------------------
(* Every step of the processes is a step of the queue, or leaves it alone; *)
(* so the rows stay typed (QueueInv).                                      *)

LEMMA RunnerStepsAreQueueSteps ==
  ASSUME RunnerTypeOK, ContextsOK, [RunnerNext]_vars
  PROVE  [Next]_queueVars
<1> USE QueueAssumption
<1>t. \A w \in Workers : /\ worker[w].job \in Jobs /\ worker[w].run \in Runs
                         /\ worker[w].checkpoint \in 0 .. Checkpoints
  BY DEF RunnerTypeOK, WorkerState
<1>1. ASSUME NEW j \in Jobs, Outside(j) PROVE Next
  BY <1>1 DEF Outside, Next
<1>2. ASSUME NEW w \in Workers, Poll(w) PROVE Next
  BY <1>2 DEF Poll, RunOnce, RunOnceExhausted, Next
<1>3. ASSUME NEW w \in Workers, NEW j \in Jobs, NEW r \in Runs,
             \/ Complete(j, r) \/ CancelFromWorker(j, r) \/ FailRetry(j, r) \/ Heartbeat(j, r)
             \/ \E c \in 0 .. Checkpoints : Checkpoint(j, r, c)
             \/ FailFinal(j, r, TRUE) \/ FailFinal(j, r, FALSE)
      PROVE  Next
  <2>1. (FailFinal(j, r, TRUE) \/ FailFinal(j, r, FALSE)) => \E retry \in BOOLEAN : FailFinal(j, r, retry)
    OBVIOUS
  <2> QED
    BY <1>3, <2>1 DEF Next
<1>4. ASSUME NEW w \in Workers, SaveCheckpoint(w) PROVE Next
  <2>1. Checkpoint(worker[w].job, worker[w].run, worker[w].checkpoint + 1)
    BY <1>4 DEF SaveCheckpoint
  <2>2. worker[w].checkpoint + 1 \in 0 .. Checkpoints
    <3>1. worker[w].pc = "save"
      BY <1>4 DEF SaveCheckpoint
    <3>2. worker[w].checkpoint < Checkpoints
      BY <3>1 DEF ContextsOK, ContextOK
    <3> QED
      BY <1>t, <3>2
  <2> QED
    BY <1>t, <1>3, <2>1, <2>2
<1>5. ASSUME NEW w \in Workers, RecordSuccess(w) \/ RecordCancel(w) \/ RecordFailure(w) \/ HeartbeatTick(w)
      PROVE  Next
  BY <1>t, <1>3, <1>5 DEF RecordSuccess, RecordCancel, RecordFailure, HeartbeatTick
<1>6. ASSUME NEW w \in Workers,
             \/ Start(w) \/ RunOnceEmpty(w) \/ CommitUnit(w) \/ HandlerReturns(w) \/ LeaseLost(w)
             \/ LeaseLostCancelling(w) \/ HandlerRaises(w) \/ Killed(w) \/ HeartbeatLost(w)
      PROVE  UNCHANGED queueVars
  BY <1>6 DEF Start, RunOnceEmpty, CommitUnit, HandlerReturns, LeaseLost, LeaseLostCancelling,
              HandlerRaises, Killed, HeartbeatLost, queueVars
<1>7. CASE UNCHANGED vars
  BY <1>7 DEF vars, queueVars
<1> QED
  BY <1>1, <1>2, <1>4, <1>5, <1>6, <1>7 DEF RunnerNext, Proceed

LEMMA RunnerStepsKeepQueueInv ==
  ASSUME RunnerInv, [RunnerNext]_vars
  PROVE  TypeOK' /\ ExhaustedIsSettled'
<1>1. QueueInv /\ [Next]_queueVars
  BY RunnerStepsAreQueueSteps DEF RunnerInv, QueueInv, RunnerTypeOK
<1> QED
  BY <1>1, NextQueueInv DEF QueueInv

-----------------------------------------------------------------------------
(* The steps that keep what the invariant says.                            *)

LEMMA NoContextTyped ==
  ASSUME NEW pc \in PC \ {"save", "complete"}, NEW done
  PROVE  NoContext(pc) \in WorkerState /\ NoContext(pc).pc = pc /\ ContextOK(NoContext(pc), done)
<1>1. AnyJob \in Jobs
  BY RunnerAssumption DEF AnyJob
<1>2. 0 \in Runs /\ 0 \in 0 .. Checkpoints
  BY QueueAssumption DEF Runs
<1> QED
  BY <1>1, <1>2 DEF NoContext, WorkerState, ContextOK

\* A process that takes on a context that keeps its run, while the rows are kept.
LEMMA ContextStep ==
  ASSUME RunnerInv, TypeOK', ExhaustedIsSettled',
         \A j \in Jobs : KeepsRow(job[j], job'[j]),
         units' \in [Jobs -> SUBSET (1 .. Checkpoints)],
         \A j \in Jobs : units[j] \subseteq units'[j],
         NEW w \in Workers, NEW ctx \in WorkerState, Becomes(w, ctx),
         KeepsContext(worker[w], ctx), ContextOK(ctx, units')
  PROVE  RunnerInv'
<1>1. worker \in [Workers -> WorkerState]
  BY DEF RunnerInv, RunnerTypeOK
<1>2. worker' = [worker EXCEPT ![w] = ctx]
  BY DEF Becomes
<1>3. RunnerTypeOK'
  BY <1>1, <1>2 DEF RunnerTypeOK
<1>4. ASSUME NEW v \in Workers
      PROVE  KeepsContext(worker[v], worker'[v]) /\ ContextOK(worker'[v], units')
  <2>1. CASE v = w
    BY <1>1, <1>2, <2>1
  <2>2. CASE v # w
    <3>1. worker'[v] = worker[v] /\ worker[v].job \in Jobs
      BY <1>1, <1>2, <2>2 DEF WorkerState
    <3>2. ContextOK(worker[v], units)
      BY DEF RunnerInv, ContextsOK
    <3>3. units[worker[v].job] \subseteq units'[worker[v].job]
      BY <3>1
    <3> QED
      BY <3>1, <3>2, <3>3 DEF KeepsContext, ContextOK
  <2> QED
    BY <2>1, <2>2
<1>5. Keeps /\ ContextsOK'
  BY <1>4 DEF Keeps, ContextsOK
<1> QED
  BY <1>3, <1>5, KeepingStep

\* The rows that a step leaves alone are kept.
LEMMA RowsKept ==
  ASSUME RunnerInv, UNCHANGED job
  PROVE  \A j \in Jobs : KeepsRow(job[j], job'[j])
BY DEF RunnerInv, RunnerTypeOK, TypeOK, RowsOK, KeepsRow, Row

LEMMA OneRowKept ==
  ASSUME RunnerInv, NEW j \in Jobs, NEW row, job' = [job EXCEPT ![j] = row],
         KeepsRow(job[j], row)
  PROVE  \A k \in Jobs : KeepsRow(job[k], job'[k])
<1>1. job \in [Jobs -> Row]
  BY DEF RunnerInv, RunnerTypeOK, TypeOK
<1>2. ASSUME NEW k \in Jobs, k # j PROVE KeepsRow(job[k], job'[k])
  <2>1. job'[k] = job[k] /\ job[k].attempts \in Nat
    BY <1>1, <1>2 DEF Row
  <2> QED
    BY <2>1 DEF RunnerInv, RowsOK, KeepsRow
<1>3. KeepsRow(job[j], job'[j])
  BY <1>1
<1> QED
  BY <1>2, <1>3

\* The functions of the queue that neither start a run nor record progress.
LEMMA QuietQueueSteps ==
  ASSUME RunnerInv, NEW j \in Jobs, NEW r,
         \/ Enqueue(j) \/ RequestCancelRead(j) \/ RequestCancelWrite(j)
         \/ LeaseExpires(j) \/ RetryDelayEnds(j) \/ Heartbeat(j, r) \/ FailRetry(j, r)
         \/ \E retry \in BOOLEAN : FailFinal(j, r, retry)
         \/ CancelFromWorker(j, r)
         \/ \E w \in Workers, locked \in LockedSets : ClaimExhausted(w, j, locked)
  PROVE  \A k \in Jobs : KeepsRow(job[k], job'[k])
<1>a. /\ job[j] \in Row /\ job[j].attempts \in Nat
      /\ job[j].run = job[j].attempts
      /\ job[j].status = "absent" => job[j].attempts = 0 /\ job[j].checkpoint = 0
  BY DEF RunnerInv, RunnerTypeOK, TypeOK, RowsOK, Row
<1>1. CASE Enqueue(j)
  <2> DEFINE row == [NoRow EXCEPT !.status = "queued", !.due = TRUE,
                                  !.created = Cardinality(Existing)]
  <2>1. KeepsRow(job[j], row)
    BY <1>a, <1>1 DEF Enqueue, KeepsRow, NoRow
  <2>2. job' = [job EXCEPT ![j] = row]
    BY <1>1 DEF Enqueue
  <2> HIDE DEF row
  <2> QED
    BY <2>1, <2>2, OneRowKept
<1>2. CASE RequestCancelRead(j)
  BY <1>2, RowsKept DEF RequestCancelRead
<1>3. CASE RequestCancelWrite(j)
  <2> DEFINE row == IF cancelTx[j] = "queued"
                    THEN [job[j] EXCEPT !.status = "cancelled"]
                    ELSE [job[j] EXCEPT !.cancelRequested = TRUE]
  <2>1. KeepsRow(job[j], row)
    BY <1>a DEF Row, KeepsRow
  <2>2. job' = [job EXCEPT ![j] = row]
    BY <1>3 DEF RequestCancelWrite
  <2> HIDE DEF row
  <2> QED
    BY <2>1, <2>2, OneRowKept
<1>4. CASE LeaseExpires(j)
  <2>1. KeepsRow(job[j], [job[j] EXCEPT !.expired = TRUE])
    BY <1>a DEF Row, KeepsRow
  <2> QED
    BY <1>a, <1>4, <2>1, OneRowKept DEF LeaseExpires
<1>5. CASE RetryDelayEnds(j)
  <2>1. KeepsRow(job[j], [job[j] EXCEPT !.due = TRUE])
    BY <1>a DEF Row, KeepsRow
  <2> QED
    BY <1>a, <1>5, <2>1, OneRowKept DEF RetryDelayEnds
<1>6. CASE Heartbeat(j, r)
  <2>1. KeepsRow(job[j], [job[j] EXCEPT !.expired = FALSE])
    BY <1>a DEF Row, KeepsRow
  <2> QED
    BY <1>a, <1>6, <2>1, OneRowKept DEF Heartbeat
<1>7. CASE FailRetry(j, r)
  <2> DEFINE row == [job[j] EXCEPT !.status = "queued", !.owner = NoWorker,
                                   !.due = FALSE, !.error = "handler"]
  <2>1. KeepsRow(job[j], row)
    BY <1>a DEF Row, KeepsRow
  <2>2. job' = [job EXCEPT ![j] = row]
    BY <1>a, <1>7 DEF FailRetry, Row
  <2> HIDE DEF row
  <2> QED
    BY <2>1, <2>2, OneRowKept
<1>8. ASSUME NEW retry \in BOOLEAN, FailFinal(j, r, retry)
      PROVE  \A k \in Jobs : KeepsRow(job[k], job'[k])
  <2> DEFINE row == [job[j] EXCEPT !.status = "failed", !.owner = NoWorker,
                         !.error = IF retry THEN "retries_exhausted" ELSE "handler"]
  <2>1. KeepsRow(job[j], row)
    BY <1>a DEF Row, KeepsRow
  <2>2. job' = [job EXCEPT ![j] = row]
    BY <1>a, <1>8 DEF FailFinal, Row
  <2> HIDE DEF row
  <2> QED
    BY <2>1, <2>2, OneRowKept
<1>9. CASE CancelFromWorker(j, r)
  <2> DEFINE row == [job[j] EXCEPT !.status = "cancelled", !.owner = NoWorker]
  <2>1. KeepsRow(job[j], row)
    BY <1>a DEF Row, KeepsRow
  <2>2. job' = [job EXCEPT ![j] = row]
    BY <1>a, <1>9 DEF CancelFromWorker, Row
  <2> HIDE DEF row
  <2> QED
    BY <2>1, <2>2, OneRowKept
<1>10. ASSUME NEW w \in Workers, NEW locked \in LockedSets, ClaimExhausted(w, j, locked)
       PROVE  \A k \in Jobs : KeepsRow(job[k], job'[k])
  <2> DEFINE row == [Leased(j, w) EXCEPT !.status = "failed", !.owner = NoWorker,
                                         !.error = "retries_exhausted"]
  <2>1. KeepsRow(job[j], row)
    BY <1>a DEF Leased, Row, KeepsRow
  <2>2. job' = [job EXCEPT ![j] = row]
    BY <1>10 DEF ClaimExhausted
  <2> HIDE DEF row
  <2> QED
    BY <2>1, <2>2, OneRowKept
<1> QED
  BY <1>1, <1>2, <1>3, <1>4, <1>5, <1>6, <1>7, <1>8, <1>9, <1>10

\* The steps of a process that leave every row but for its lease or its end.
LEMMA QuietRunnerSteps ==
  ASSUME RunnerInv, NEW w \in Workers,
         \/ Start(w) \/ RunOnceEmpty(w) \/ RunOnceExhausted(w) \/ Killed(w)
         \/ CommitUnit(w) \/ HandlerReturns(w) \/ HandlerRaises(w)
         \/ RecordCancel(w) \/ RecordFailure(w) \/ LeaseLost(w) \/ LeaseLostCancelling(w)
         \/ HeartbeatTick(w) \/ HeartbeatLost(w)
  PROVE  \A j \in Jobs : KeepsRow(job[j], job'[j])
<1>1. worker[w].job \in Jobs
  BY DEF RunnerInv, RunnerTypeOK, WorkerState
<1>2. CASE \/ Start(w) \/ RunOnceEmpty(w) \/ Killed(w) \/ LeaseLost(w) \/ LeaseLostCancelling(w)
           \/ CommitUnit(w) \/ HandlerReturns(w) \/ HandlerRaises(w) \/ HeartbeatLost(w)
  BY <1>2, RowsKept DEF Start, RunOnceEmpty, Killed, LeaseLost, LeaseLostCancelling, CommitUnit,
                        HandlerReturns, HandlerRaises, HeartbeatLost
<1>3. CASE RunOnceExhausted(w)
  BY <1>3, QuietQueueSteps DEF RunOnceExhausted
<1>4. CASE RecordCancel(w) \/ HeartbeatTick(w)
  BY <1>1, <1>4, QuietQueueSteps DEF RecordCancel, HeartbeatTick
<1>5. CASE RecordFailure(w)
  <2>1. \/ FailRetry(worker[w].job, worker[w].run)
        \/ \E retry \in BOOLEAN : FailFinal(worker[w].job, worker[w].run, retry)
    BY <1>5 DEF RecordFailure
  <2> QED
    BY <1>1, <2>1, QuietQueueSteps
<1> QED
  BY <1>2, <1>3, <1>4, <1>5

-----------------------------------------------------------------------------
(* The initial states, and each action in turn.                            *)

LEMMA InitRunnerInv == RunnerInit => RunnerInv
<1> SUFFICES ASSUME RunnerInit PROVE RunnerInv
  OBVIOUS
<1>1. TypeOK /\ ExhaustedIsSettled
  BY InitQueueInv DEF RunnerInit, QueueInv
<1>2. /\ job = [j \in Jobs |-> NoRow] /\ units = [j \in Jobs |-> {}]
      /\ worker = [w \in Workers |-> NoContext("down")]
  BY DEF RunnerInit, Init
<1>3. NoContext("down") \in WorkerState /\ NoContext("down").pc = "down"
  BY NoContextTyped DEF PC
<1>4. \A w \in Workers : worker[w].pc = "down"
  BY <1>2, <1>3
<1>5. \A w \in Workers : ~Executing(w)
  BY <1>4 DEF Executing
<1>6. RunnerTypeOK
  BY <1>1, <1>2, <1>3 DEF RunnerTypeOK
<1>7. RowsOK /\ CheckpointedWorkIsDone
  BY <1>2 DEF RowsOK, CheckpointedWorkIsDone, NoRow
<1>8. ContextsOK
  BY <1>4 DEF ContextsOK, ContextOK
<1> QED
  BY <1>1, <1>5, <1>6, <1>7, <1>8
  DEF RunnerInv, RunsOK, RunsDistinct, HolderResumesFromRow, Holds

LEMMA OutsideStep ==
  ASSUME RunnerInv, TypeOK', ExhaustedIsSettled', NEW j \in Jobs, Outside(j)
  PROVE  RunnerInv'
<1>1. UNCHANGED <<worker, units>>
  BY DEF Outside
<1>2. \A k \in Jobs : KeepsRow(job[k], job'[k])
  BY QuietQueueSteps DEF Outside
<1>3. Keeps /\ ContextsOK' /\ RunnerTypeOK'
  BY <1>1, <1>2 DEF Keeps, KeepsContext, ContextsOK, RunnerInv, RunnerTypeOK
<1> QED
  BY <1>3, KeepingStep

\* A process that drops its run, or never had one, while the rows are kept.
LEMMA DropStep ==
  ASSUME RunnerInv, TypeOK', ExhaustedIsSettled',
         \A j \in Jobs : KeepsRow(job[j], job'[j]), UNCHANGED units,
         NEW w \in Workers, NEW pc \in {"down", "idle"}, Becomes(w, NoContext(pc))
  PROVE  RunnerInv'
<1>1. /\ NoContext(pc) \in WorkerState
      /\ NoContext(pc).pc = pc
      /\ ContextOK(NoContext(pc), units')
  BY NoContextTyped DEF PC
<1>2. KeepsContext(worker[w], NoContext(pc))
  BY <1>1 DEF KeepsContext
<1>3. units' \in [Jobs -> SUBSET (1 .. Checkpoints)] /\ \A j \in Jobs : units[j] \subseteq units'[j]
  BY DEF RunnerInv, RunnerTypeOK
<1> QED
  BY <1>1, <1>2, <1>3, ContextStep

\* The steps after which the process has no run.
LEMMA DropSteps ==
  ASSUME RunnerInv, TypeOK', ExhaustedIsSettled', NEW w \in Workers,
         \/ Start(w) \/ RunOnceEmpty(w) \/ RunOnceExhausted(w) \/ Killed(w)
         \/ RecordCancel(w) \/ RecordFailure(w) \/ LeaseLost(w) \/ LeaseLostCancelling(w)
  PROVE  RunnerInv'
<1>1. UNCHANGED units
  BY DEF Start, RunOnceEmpty, RunOnceExhausted, Killed, RecordCancel, RecordFailure, LeaseLost,
         LeaseLostCancelling, RunEnds
<1>2. \E pc \in {"down", "idle"} : Becomes(w, NoContext(pc))
  BY DEF Start, RunOnceEmpty, RunOnceExhausted, AfterNone, Killed, RecordCancel, RecordFailure,
         LeaseLost, LeaseLostCancelling, RunEnds
<1>3. \A j \in Jobs : KeepsRow(job[j], job'[j])
  BY QuietRunnerSteps
<1> QED
  BY <1>1, <1>2, <1>3, DropStep

\* The steps of a run that write nothing, or only the lease.
LEMMA RunSteps ==
  ASSUME RunnerInv, TypeOK', ExhaustedIsSettled', NEW w \in Workers,
         HandlerReturns(w) \/ HandlerRaises(w) \/ HeartbeatTick(w) \/ HeartbeatLost(w)
  PROVE  RunnerInv'
<1>t. worker[w] \in WorkerState /\ worker[w].job \in Jobs /\ ContextOK(worker[w], units)
  BY DEF RunnerInv, RunnerTypeOK, WorkerState, ContextsOK
<1>u. /\ UNCHANGED units
      /\ units' \in [Jobs -> SUBSET (1 .. Checkpoints)]
      /\ \A j \in Jobs : units[j] \subseteq units'[j]
  BY DEF HandlerReturns, HandlerRaises, HeartbeatTick, HeartbeatLost, RunnerInv, RunnerTypeOK
<1>1. CASE HandlerReturns(w)
  <2> DEFINE ctx == [worker[w] EXCEPT !.pc = "complete"]
  <2>1. ctx \in WorkerState /\ KeepsContext(worker[w], ctx) /\ ContextOK(ctx, units')
    BY <1>t, <1>1 DEF HandlerReturns, WorkerState, PC, KeepsContext, ContextOK
  <2>2. Becomes(w, ctx) /\ UNCHANGED job
    BY <1>1 DEF HandlerReturns, GoesTo
  <2> HIDE DEF ctx
  <2> QED
    BY <1>u, <2>1, <2>2, RowsKept, ContextStep
<1>2. CASE HandlerRaises(w)
  <2>1. PICK pc \in {"retry", "giveUp"} : GoesTo(w, pc)
    BY <1>2 DEF HandlerRaises
  <2> DEFINE ctx == [worker[w] EXCEPT !.pc = pc]
  <2>2. ctx \in WorkerState /\ KeepsContext(worker[w], ctx) /\ ContextOK(ctx, units')
    BY <1>t, <1>2 DEF HandlerRaises, WorkerState, PC, KeepsContext, ContextOK
  <2>3. Becomes(w, ctx) /\ UNCHANGED job
    BY <1>2, <2>1 DEF HandlerRaises, GoesTo
  <2> HIDE DEF ctx
  <2> QED
    BY <1>u, <2>2, <2>3, RowsKept, ContextStep
<1>3. CASE HeartbeatTick(w)
  <2> DEFINE ctx == [worker[w] EXCEPT !.cancelSeen = @ \/ job[worker[w].job].cancelRequested]
  <2>a. job[worker[w].job].cancelRequested \in BOOLEAN
    BY <1>t DEF RunnerInv, RunnerTypeOK, TypeOK, Row
  <2>1. ctx \in WorkerState
    BY <1>t, <2>a DEF WorkerState
  <2>2. KeepsContext(worker[w], ctx) /\ ContextOK(ctx, units')
    BY <1>t, <1>u DEF WorkerState, KeepsContext, ContextOK
  <2>3. Becomes(w, ctx) /\ Heartbeat(worker[w].job, worker[w].run)
    BY <1>3 DEF HeartbeatTick
  <2>4. \A j \in Jobs : KeepsRow(job[j], job'[j])
    BY <1>t, <2>3, QuietQueueSteps
  <2> HIDE DEF ctx
  <2> QED
    BY <1>u, <2>1, <2>2, <2>3, <2>4, ContextStep
<1>4. CASE HeartbeatLost(w)
  <2> DEFINE ctx == [worker[w] EXCEPT !.leaseLost = TRUE]
  <2>1. ctx \in WorkerState /\ KeepsContext(worker[w], ctx) /\ ContextOK(ctx, units')
    BY <1>t, <1>u DEF WorkerState, KeepsContext, ContextOK
  <2>2. Becomes(w, ctx) /\ UNCHANGED job
    BY <1>4 DEF HeartbeatLost
  <2> HIDE DEF ctx
  <2> QED
    BY <1>u, <2>1, <2>2, RowsKept, ContextStep
<1> QED
  BY <1>1, <1>2, <1>3, <1>4

LEMMA CommitUnitStep ==
  ASSUME RunnerInv, TypeOK', ExhaustedIsSettled', NEW w \in Workers, CommitUnit(w)
  PROVE  RunnerInv'
<1> DEFINE ctx == [worker[w] EXCEPT !.pc = "save"]
<1> USE QueueAssumption
<1>t. /\ worker[w] \in WorkerState /\ worker[w].job \in Jobs
      /\ worker[w].checkpoint \in 0 .. Checkpoints /\ worker[w].checkpoint < Checkpoints
      /\ units \in [Jobs -> SUBSET (1 .. Checkpoints)]
  BY DEF RunnerInv, RunnerTypeOK, WorkerState, CommitUnit
<1>1. worker[w].checkpoint + 1 \in 1 .. Checkpoints
  BY <1>t
<1>2. units' = [units EXCEPT ![worker[w].job] = @ \cup {worker[w].checkpoint + 1}]
  BY DEF CommitUnit
<1>3. /\ units' \in [Jobs -> SUBSET (1 .. Checkpoints)]
      /\ \A j \in Jobs : units[j] \subseteq units'[j]
      /\ worker[w].checkpoint + 1 \in units'[worker[w].job]
  BY <1>t, <1>1, <1>2
<1>4. ctx \in WorkerState /\ KeepsContext(worker[w], ctx) /\ ContextOK(ctx, units')
  BY <1>t, <1>3 DEF CommitUnit, WorkerState, PC, KeepsContext, ContextOK
<1>5. Becomes(w, ctx) /\ UNCHANGED job
  BY DEF CommitUnit, GoesTo
<1> HIDE DEF ctx
<1> QED
  BY <1>3, <1>4, <1>5, RowsKept, ContextStep

\* A claim gives the process a run that no other process has.
LEMMA RunOnceStep ==
  ASSUME RunnerInv, TypeOK', ExhaustedIsSettled', NEW w \in Workers, RunOnce(w)
  PROVE  RunnerInv'
<1> USE QueueAssumption
<1>1. PICK j \in Jobs, locked \in LockedSets :
         /\ ClaimRun(w, j, locked)
         /\ Becomes(w, [NoContext("work") EXCEPT !.job = j, !.run = job'[j].run,
                                                 !.checkpoint = job[j].checkpoint])
  BY DEF RunOnce
<1> DEFINE n == job[j].attempts + 1
           ctx == [NoContext("work") EXCEPT !.job = j, !.run = n, !.checkpoint = job[j].checkpoint]
<1>t. /\ job \in [Jobs -> Row] /\ job[j] \in Row /\ job[j].attempts \in Nat
      /\ job[j].checkpoint \in 0 .. Checkpoints
      /\ worker \in [Workers -> WorkerState]
      /\ units \in [Jobs -> SUBSET (1 .. Checkpoints)] /\ UNCHANGED units
  BY DEF RunnerInv, RunnerTypeOK, TypeOK, Row, RunOnce
<1>2. n <= MaxAttempts /\ n \in Nat /\ n \in Runs
  BY <1>1, <1>t DEF ClaimRun, Runs
<1>3. Leased(j, w) = [job[j] EXCEPT !.status = "leased", !.owner = w, !.expired = FALSE,
                                    !.attempts = n, !.run = n]
  BY <1>t DEF Leased, Row
<1>4. /\ job' = [job EXCEPT ![j] = Leased(j, w)]
      /\ Leased(j, w).run = n /\ Leased(j, w).attempts = n
      /\ Leased(j, w).status = "leased" /\ Leased(j, w).checkpoint = job[j].checkpoint
  BY <1>1, <1>3, <1>t DEF ClaimRun, Row
<1>5. /\ job'[j].run = n /\ job'[j].attempts = n
      /\ job'[j].status = "leased" /\ job'[j].checkpoint = job[j].checkpoint
      /\ \A k \in Jobs : k # j => job'[k] = job[k]
  BY <1>4, <1>t
<1>6. /\ NoContext("work") \in WorkerState
      /\ ctx \in WorkerState
      /\ ctx.pc = "work" /\ ctx.job = j /\ ctx.run = n /\ ctx.checkpoint = job[j].checkpoint
  <2>1. NoContext("work") \in WorkerState /\ NoContext("work").pc = "work"
    BY NoContextTyped DEF PC
  <2> QED
    BY <2>1, <1>2, <1>t DEF WorkerState
<1>7. worker' = [worker EXCEPT ![w] = ctx]
  BY <1>1, <1>5 DEF Becomes
<1> HIDE DEF n, ctx
<1>8. worker'[w] = ctx /\ \A v \in Workers : v # w => worker'[v] = worker[v]
  BY <1>7, <1>t
<1>9. RunnerTypeOK'
  BY <1>6, <1>7, <1>t DEF RunnerTypeOK
<1>10. RowsOK'
  BY <1>5 DEF RunnerInv, RowsOK
\* No run in a process is as late as the new one.
<1>11. ASSUME NEW v \in Workers, Executing(v), worker[v].job = j
       PROVE  worker[v].run < n
  <2>1. worker[v].run <= job[j].attempts /\ worker[v].run \in Nat
    BY <1>11, <1>t DEF RunnerInv, RunsOK, WorkerState, Runs
  <2> QED
    BY <2>1, <1>t DEF n
<1>12. RunsOK'
  <2> SUFFICES ASSUME NEW v \in Workers, Executing(v)'
               PROVE  /\ worker'[v].run <= job'[worker'[v].job].attempts
                      /\ worker'[v].run <= MaxAttempts
    BY DEF RunsOK
  <2>1. CASE v = w
    BY <2>1, <1>2, <1>5, <1>6, <1>8
  <2>2. CASE v # w
    <3>1. worker'[v] = worker[v] /\ Executing(v)
      BY <2>2, <1>8 DEF Executing
    <3>2. /\ worker[v].run <= job[worker[v].job].attempts /\ worker[v].run <= MaxAttempts
          /\ worker[v].run \in Nat /\ worker[v].job \in Jobs
      BY <3>1, <1>t DEF RunnerInv, RunsOK, WorkerState, Runs
    <3>3. CASE worker[v].job = j
      BY <3>1, <3>2, <3>3, <1>2, <1>5, <1>11
    <3>4. CASE worker[v].job # j
      BY <3>1, <3>2, <3>4, <1>5
    <3> QED
      BY <3>3, <3>4
  <2> QED
    BY <2>1, <2>2
<1>13. RunsDistinct'
  <2> SUFFICES ASSUME NEW u \in Workers, NEW v \in Workers, Executing(u)', Executing(v)',
                      worker'[u].job = worker'[v].job, worker'[u].run = worker'[v].run
               PROVE  u = v
    BY DEF RunsDistinct
  <2>1. \A x \in Workers : x # w /\ Executing(x)' => Executing(x) /\ worker'[x] = worker[x]
    BY <1>8 DEF Executing
  <2>2. \A x \in Workers : x # w /\ Executing(x)' /\ worker'[x].job = j => worker'[x].run # n
    <3> SUFFICES ASSUME NEW x \in Workers, x # w, Executing(x)', worker'[x].job = j
                 PROVE  worker'[x].run # n
      OBVIOUS
    <3>1. worker[x].run < n /\ worker[x].run \in Nat
      BY <2>1, <1>11, <1>t DEF WorkerState, Runs
    <3> QED
      BY <3>1, <2>1, <1>2
  <2>3. CASE u = w \/ v = w
    BY <2>2, <2>3, <1>6, <1>8
  <2>4. CASE u # w /\ v # w
    BY <2>1, <2>4 DEF RunnerInv, RunsDistinct
  <2> QED
    BY <2>3, <2>4
<1>14. ContextsOK'
  BY <1>6, <1>8, <1>t DEF RunnerInv, ContextsOK, ContextOK
<1>15. HolderResumesFromRow'
  <2> SUFFICES ASSUME NEW v \in Workers, Holds(v)'
               PROVE  worker'[v].checkpoint = job'[worker'[v].job].checkpoint
    BY DEF HolderResumesFromRow
  <2>1. CASE v = w
    BY <2>1, <1>5, <1>6, <1>8
  <2>2. CASE v # w
    <3>1. worker'[v] = worker[v] /\ Executing(v) /\ worker[v].job \in Jobs /\ worker[v].run \in Nat
      BY <2>2, <1>8, <1>t DEF Executing, Holds, WorkerState, Runs
    <3>2. worker[v].job # j
      <4> SUFFICES ASSUME worker[v].job = j PROVE FALSE
        OBVIOUS
      <4>1. worker[v].run < n
        BY <3>1, <1>11
      <4>2. worker[v].run = n
        BY <3>1, <1>5 DEF Holds, Fence
      <4> QED
        BY <4>1, <4>2, <1>2
    <3>3. job'[worker[v].job] = job[worker[v].job]
      BY <3>1, <3>2, <1>5
    <3>4. Holds(v)
      BY <3>1, <3>3 DEF Holds, Fence
    <3> QED
      BY <3>1, <3>3, <3>4 DEF RunnerInv, HolderResumesFromRow
  <2> QED
    BY <2>1, <2>2
<1>16. CheckpointedWorkIsDone'
  <2> SUFFICES ASSUME NEW k \in Jobs
               PROVE  /\ 1 .. job'[k].checkpoint \subseteq units[k]
                      /\ job'[k].status = "succeeded" => units[k] = 1 .. Checkpoints
    BY <1>t DEF CheckpointedWorkIsDone
  <2> QED
    BY <1>5 DEF RunnerInv, CheckpointedWorkIsDone
<1> QED
  BY <1>9, <1>10, <1>12, <1>13, <1>14, <1>15, <1>16 DEF RunnerInv

\* The run that saves its progress is the only one the fence lets write.
LEMMA SaveCheckpointStep ==
  ASSUME RunnerInv, TypeOK', ExhaustedIsSettled', NEW w \in Workers, SaveCheckpoint(w)
  PROVE  RunnerInv'
<1> USE QueueAssumption
<1> DEFINE j == worker[w].job
           c == worker[w].checkpoint + 1
           pc == IF worker[w].cancelSeen THEN "cancel" ELSE "work"
           ctx == [worker[w] EXCEPT !.checkpoint = c, !.pc = pc]
<1>t. /\ job \in [Jobs -> Row] /\ j \in Jobs /\ job[j] \in Row
      /\ worker \in [Workers -> WorkerState] /\ worker[w] \in WorkerState
      /\ worker[w].checkpoint \in 0 .. Checkpoints
      /\ units \in [Jobs -> SUBSET (1 .. Checkpoints)] /\ UNCHANGED units
  BY DEF RunnerInv, RunnerTypeOK, TypeOK, WorkerState, SaveCheckpoint
<1>1. /\ worker[w].pc = "save" /\ Fence(j, worker[w].run)
      /\ job' = [job EXCEPT ![j] = [job[j] EXCEPT !.checkpoint = c]]
      /\ worker' = [worker EXCEPT ![w] = ctx]
  BY <1>t DEF SaveCheckpoint, Checkpoint, Becomes
<1>2. Holds(w)
  BY <1>1 DEF Holds, Executing
<1>3. c \in units[j] /\ c \in 1 .. Checkpoints /\ job[j].checkpoint = worker[w].checkpoint
  BY <1>1, <1>2, <1>t DEF RunnerInv, ContextsOK, ContextOK, HolderResumesFromRow
<1>4. /\ ctx \in WorkerState /\ ctx.pc \in {"cancel", "work"}
      /\ ctx.job = j /\ ctx.run = worker[w].run /\ ctx.checkpoint = c
  <2>1. pc \in {"cancel", "work"} /\ pc \in PC /\ c \in 0 .. Checkpoints
    BY <1>3 DEF PC
  <2> HIDE DEF pc, c
  <2> QED
    BY <2>1, <1>t DEF WorkerState
<1>5. /\ job'[j].checkpoint = c /\ job'[j].status = job[j].status
      /\ job'[j].run = job[j].run /\ job'[j].attempts = job[j].attempts
      /\ \A k \in Jobs : k # j => job'[k] = job[k]
  BY <1>1, <1>t DEF Row
<1> HIDE DEF j, c, ctx
<1>6. worker'[w] = ctx /\ \A v \in Workers : v # w => worker'[v] = worker[v]
  BY <1>1, <1>t
<1>7. RunnerTypeOK'
  BY <1>1, <1>4, <1>t DEF RunnerTypeOK
<1>8. RowsOK'
  BY <1>1, <1>5 DEF RunnerInv, RowsOK, Fence
<1>9. /\ \A v \in Workers : /\ worker'[v].job = worker[v].job /\ worker'[v].run = worker[v].run
                            /\ worker'[v].job \in Jobs
                            /\ Executing(v)' => Executing(v)
      /\ \A k \in Jobs : /\ job'[k].attempts = job[k].attempts
                         /\ job'[k].status = job[k].status /\ job'[k].run = job[k].run
  BY <1>1, <1>4, <1>5, <1>6, <1>t DEF Executing, WorkerState, j
<1>10. RunsOK' /\ RunsDistinct'
  BY <1>9 DEF RunnerInv, RunsOK, RunsDistinct
<1>11. ContextsOK'
  BY <1>4, <1>6, <1>t DEF RunnerInv, ContextsOK, ContextOK
<1>12. HolderResumesFromRow'
  <2> SUFFICES ASSUME NEW v \in Workers, Holds(v)'
               PROVE  worker'[v].checkpoint = job'[worker'[v].job].checkpoint
    BY DEF HolderResumesFromRow
  <2>1. CASE v = w
    BY <2>1, <1>4, <1>5, <1>6
  <2>2. CASE v # w
    <3>1. Holds(v) /\ worker'[v] = worker[v] /\ worker[v].job \in Jobs
      BY <2>2, <1>6, <1>9 DEF Holds, Fence
    <3>2. worker[v].job # j
      BY <2>2, <3>1, <1>2 DEF RunnerInv, RunsDistinct, Holds, Fence, j
    <3> QED
      BY <3>1, <3>2, <1>5 DEF RunnerInv, HolderResumesFromRow
  <2> QED
    BY <2>1, <2>2
<1>13. CheckpointedWorkIsDone'
  <2> SUFFICES ASSUME NEW k \in Jobs
               PROVE  /\ 1 .. job'[k].checkpoint \subseteq units[k]
                      /\ job'[k].status = "succeeded" => units[k] = 1 .. Checkpoints
    BY <1>t DEF CheckpointedWorkIsDone
  <2>1. /\ 1 .. job[k].checkpoint \subseteq units[k]
        /\ job[k].status = "succeeded" => units[k] = 1 .. Checkpoints
    BY DEF RunnerInv, CheckpointedWorkIsDone
  <2>2. CASE k = j
    <3>1. 1 .. c = (1 .. job[j].checkpoint) \cup {c}
      BY <1>3, <1>t DEF c
    <3> QED
      BY <2>1, <2>2, <3>1, <1>3, <1>5
  <2>3. CASE k # j
    BY <2>1, <2>3, <1>5
  <2> QED
    BY <2>2, <2>3
<1> QED
  BY <1>7, <1>8, <1>10, <1>11, <1>12, <1>13 DEF RunnerInv

\* A run that completes has done all its units and nobody holds the job then.
LEMMA RecordSuccessStep ==
  ASSUME RunnerInv, TypeOK', ExhaustedIsSettled', NEW w \in Workers, RecordSuccess(w)
  PROVE  RunnerInv'
<1> USE QueueAssumption
<1> DEFINE j == worker[w].job
           ctx == NoContext("idle")
<1>t. /\ job \in [Jobs -> Row] /\ j \in Jobs /\ job[j] \in Row
      /\ worker \in [Workers -> WorkerState]
      /\ units \in [Jobs -> SUBSET (1 .. Checkpoints)] /\ UNCHANGED units
  BY DEF RunnerInv, RunnerTypeOK, TypeOK, WorkerState, RecordSuccess, RunEnds
<1>1. /\ worker[w].pc = "complete" /\ Fence(j, worker[w].run)
      /\ job' = [job EXCEPT ![j] = [job[j] EXCEPT !.status = "succeeded", !.owner = NoWorker]]
      /\ worker' = [worker EXCEPT ![w] = ctx]
  BY <1>t DEF RecordSuccess, Complete, RunEnds, Becomes, Row
<1>2. Holds(w)
  BY <1>1 DEF Holds, Executing
<1>3. job[j].checkpoint = Checkpoints
  BY <1>1, <1>2 DEF RunnerInv, ContextsOK, ContextOK, HolderResumesFromRow
<1>4. ctx \in WorkerState /\ ctx.pc = "idle"
  BY NoContextTyped DEF PC
<1>5. /\ job'[j].checkpoint = job[j].checkpoint /\ job'[j].status = "succeeded"
      /\ job'[j].run = job[j].run /\ job'[j].attempts = job[j].attempts
      /\ \A k \in Jobs : k # j => job'[k] = job[k]
  BY <1>1, <1>t DEF Row
<1> HIDE DEF j, ctx
<1>6. worker'[w] = ctx /\ \A v \in Workers : v # w => worker'[v] = worker[v]
  BY <1>1, <1>t
<1>7. RunnerTypeOK'
  BY <1>1, <1>4, <1>t DEF RunnerTypeOK
<1>8. RowsOK'
  BY <1>1, <1>5 DEF RunnerInv, RowsOK
<1>9. /\ \A v \in Workers : Executing(v)' => Executing(v) /\ worker'[v] = worker[v]
      /\ \A v \in Workers : worker[v].job \in Jobs
      /\ \A k \in Jobs : job'[k].attempts = job[k].attempts /\ job'[k].checkpoint = job[k].checkpoint
  BY <1>4, <1>5, <1>6, <1>t DEF Executing, WorkerState
<1>10. RunsOK' /\ RunsDistinct'
  BY <1>9 DEF RunnerInv, RunsOK, RunsDistinct
<1>11. ContextsOK'
  BY <1>4, <1>6, <1>t DEF RunnerInv, ContextsOK, ContextOK
<1>12. HolderResumesFromRow'
  <2> SUFFICES ASSUME NEW v \in Workers, Holds(v)'
               PROVE  worker'[v].checkpoint = job'[worker'[v].job].checkpoint
    BY DEF HolderResumesFromRow
  <2>1. Executing(v) /\ worker'[v] = worker[v] /\ worker[v].job \in Jobs
    BY <1>9 DEF Holds
  <2>2. worker[v].job # j
    BY <2>1, <1>5 DEF Holds, Fence
  <2>3. Holds(v)
    BY <2>1, <2>2, <1>5 DEF Holds, Fence
  <2> QED
    BY <2>1, <2>3, <1>9 DEF RunnerInv, HolderResumesFromRow
<1>13. CheckpointedWorkIsDone'
  <2> SUFFICES ASSUME NEW k \in Jobs
               PROVE  /\ 1 .. job'[k].checkpoint \subseteq units[k]
                      /\ job'[k].status = "succeeded" => units[k] = 1 .. Checkpoints
    BY <1>t DEF CheckpointedWorkIsDone
  <2>1. /\ 1 .. job[k].checkpoint \subseteq units[k]
        /\ job[k].status = "succeeded" => units[k] = 1 .. Checkpoints
        /\ units[k] \subseteq 1 .. Checkpoints
    BY <1>t DEF RunnerInv, CheckpointedWorkIsDone
  <2>2. CASE k = j
    BY <2>1, <2>2, <1>3, <1>5
  <2>3. CASE k # j
    BY <2>1, <2>3, <1>5
  <2> QED
    BY <2>2, <2>3
<1> QED
  BY <1>7, <1>8, <1>10, <1>11, <1>12, <1>13 DEF RunnerInv

LEMMA NextRunnerInv == RunnerInv /\ [RunnerNext]_vars => RunnerInv'
<1> SUFFICES ASSUME RunnerInv, [RunnerNext]_vars
             PROVE  RunnerInv'
  OBVIOUS
<1>q. TypeOK' /\ ExhaustedIsSettled'
  BY RunnerStepsKeepQueueInv
<1>1. ASSUME NEW j \in Jobs, Outside(j) PROVE RunnerInv'
  BY <1>q, <1>1, OutsideStep
<1>2. ASSUME NEW w \in Workers, RunOnce(w) PROVE RunnerInv'
  BY <1>q, <1>2, RunOnceStep
<1>3. ASSUME NEW w \in Workers,
             \/ Start(w) \/ RunOnceEmpty(w) \/ RunOnceExhausted(w) \/ Killed(w)
             \/ RecordCancel(w) \/ RecordFailure(w) \/ LeaseLost(w) \/ LeaseLostCancelling(w)
      PROVE  RunnerInv'
  BY <1>q, <1>3, DropSteps
<1>4. ASSUME NEW w \in Workers,
             HandlerReturns(w) \/ HandlerRaises(w) \/ HeartbeatTick(w) \/ HeartbeatLost(w)
      PROVE  RunnerInv'
  BY <1>q, <1>4, RunSteps
<1>5. ASSUME NEW w \in Workers, CommitUnit(w) PROVE RunnerInv'
  BY <1>q, <1>5, CommitUnitStep
<1>6. ASSUME NEW w \in Workers, SaveCheckpoint(w) PROVE RunnerInv'
  BY <1>q, <1>6, SaveCheckpointStep
<1>7. ASSUME NEW w \in Workers, RecordSuccess(w) PROVE RunnerInv'
  BY <1>q, <1>7, RecordSuccessStep
<1>8. CASE UNCHANGED vars
  <2>1. /\ UNCHANGED <<job, worker, units>>
        /\ \A k \in Jobs : KeepsRow(job[k], job'[k])
    BY <1>8, RowsKept DEF vars
  <2>2. Keeps /\ ContextsOK' /\ RunnerTypeOK'
    BY <1>q, <2>1 DEF Keeps, KeepsContext, ContextsOK, RunnerInv, RunnerTypeOK
  <2> QED
    BY <1>q, <2>2, KeepingStep
<1> QED
  BY <1>1, <1>2, <1>3, <1>4, <1>5, <1>6, <1>7, <1>8 DEF RunnerNext, Poll, Proceed

\* The invariant of the queue with its workers.
THEOREM RunnerInvariant == RunnerSpec => []RunnerInv
BY InitRunnerInv, NextRunnerInv, PTL DEF RunnerSpec

-----------------------------------------------------------------------------
(* What follows from the invariant.                                        *)

\* The processes, the rows and the domain tables are well typed.
THEOREM RunnerTypeCorrect == RunnerSpec => []RunnerTypeOK
<1>1. RunnerInv => RunnerTypeOK
  BY DEF RunnerInv
<1> QED
  BY RunnerInvariant, <1>1, PTL

\* Whatever leases run out and whatever processes come back stale, the fence
\* lets at most one of them write the row of a job.
THEOREM RunnerOneHolder == RunnerSpec => []OneHolder
<1>1. RunnerInv => OneHolder
  BY DEF RunnerInv, RunsDistinct, OneHolder, Holds, Fence
<1> QED
  BY RunnerInvariant, <1>1, PTL

\* A job is not started once too often, deaths of its worker included, and
\* one that was claimed beyond its last run is settled.
THEOREM RunnerAttemptsAreBounded == RunnerSpec => []AttemptsAreBounded
<1>1. RunnerInv => AttemptsAreBounded
  BY DEF RunnerInv, RunsOK, StartsAreBounded, AttemptsAreBounded
<1> QED
  BY RunnerInvariant, <1>1, PTL

\* The process that holds a job works from the checkpoint in its row, and
\* every unit the row claims was committed.
THEOREM RunnerNoUnitIsLost == RunnerSpec => []NoUnitIsLost
<1>1. RunnerInv => NoUnitIsLost
  BY DEF RunnerInv, NoUnitIsLost
<1> QED
  BY RunnerInvariant, <1>1, PTL

\* Progress that is in a row is never undone, by its holder or by a stale run.
THEOREM RunnerCheckpointNeverGoesBack == RunnerSpec => CheckpointNeverGoesBack
<1>1. RunnerInv /\ [RunnerNext]_vars => [\A j \in Jobs : job'[j].checkpoint >= job[j].checkpoint]_vars
  <2> SUFFICES ASSUME RunnerInv, [RunnerNext]_vars, NEW j \in Jobs
               PROVE  job'[j].checkpoint >= job[j].checkpoint
    OBVIOUS
  <2> USE QueueAssumption
  <2>t. /\ job \in [Jobs -> Row] /\ job[j].checkpoint \in Nat
        /\ \A w \in Workers : worker[w].job \in Jobs /\ worker[w].checkpoint \in Nat
    BY DEF RunnerInv, RunnerTypeOK, TypeOK, Row, WorkerState
  <2>1. CASE KeepsRow(job[j], job'[j])
    BY <2>1, <2>t DEF KeepsRow
  <2>2. ASSUME NEW w \in Workers, RunOnce(w) PROVE job'[j].checkpoint >= job[j].checkpoint
    <3>1. PICK k \in Jobs : job' = [job EXCEPT ![k] = Leased(k, w)]
      BY <2>2 DEF RunOnce, ClaimRun
    <3>2. Leased(k, w).checkpoint = job[k].checkpoint
      BY <2>t DEF Leased, Row
    <3> QED
      BY <2>t, <3>1, <3>2
  <2>3. ASSUME NEW w \in Workers, SaveCheckpoint(w) PROVE job'[j].checkpoint >= job[j].checkpoint
    <3> DEFINE k == worker[w].job
               c == worker[w].checkpoint + 1
    <3>1. /\ worker[w].pc = "save" /\ Fence(k, worker[w].run)
          /\ job' = [job EXCEPT ![k] = [job[k] EXCEPT !.checkpoint = c]]
      BY <2>t, <2>3 DEF SaveCheckpoint, Checkpoint
    <3>2. Holds(w)
      BY <3>1 DEF Holds, Executing
    <3>3. worker[w].checkpoint = job[k].checkpoint
      BY <3>2 DEF RunnerInv, HolderResumesFromRow
    <3>4. k \in Jobs /\ job[k] \in Row /\ job[k].checkpoint \in Nat /\ c = job[k].checkpoint + 1
      BY <2>t, <3>3 DEF Row
    <3> HIDE DEF k, c
    <3>5. CASE j = k
      <4>1. job'[j].checkpoint = c
        BY <2>t, <3>1, <3>4, <3>5 DEF Row
      <4> QED
        BY <4>1, <3>4, <3>5
    <3>6. CASE j # k
      BY <2>t, <3>1, <3>6
    <3> QED
      BY <3>5, <3>6
  <2>4. ASSUME NEW w \in Workers, RecordSuccess(w) PROVE job'[j].checkpoint >= job[j].checkpoint
    <3> DEFINE k == worker[w].job
    <3>1. k \in Jobs /\ job[k] \in Row
      BY <2>t
    <3>2. job' = [job EXCEPT ![k] = [job[k] EXCEPT !.status = "succeeded", !.owner = NoWorker]]
      BY <2>4, <3>1 DEF RecordSuccess, Complete, Row
    <3> HIDE DEF k
    <3>3. job'[j].checkpoint = job[j].checkpoint
      BY <2>t, <3>1, <3>2 DEF Row
    <3> QED
      BY <2>t, <3>3
  <2>5. ASSUME NEW k \in Jobs, Outside(k) PROVE KeepsRow(job[j], job'[j])
    BY <2>5, QuietQueueSteps DEF Outside
  <2>6. ASSUME NEW w \in Workers,
               \/ Start(w) \/ RunOnceEmpty(w) \/ RunOnceExhausted(w) \/ Killed(w)
               \/ CommitUnit(w) \/ HandlerReturns(w) \/ HandlerRaises(w)
               \/ RecordCancel(w) \/ RecordFailure(w) \/ LeaseLost(w) \/ LeaseLostCancelling(w)
               \/ HeartbeatTick(w) \/ HeartbeatLost(w)
        PROVE  KeepsRow(job[j], job'[j])
    BY <2>6, QuietRunnerSteps
  <2>7. CASE UNCHANGED vars
    BY <2>1, <2>7, RowsKept DEF vars
  <2> QED
    BY <2>1, <2>2, <2>3, <2>4, <2>5, <2>6, <2>7 DEF RunnerNext, Poll, Proceed
<1> QED
  BY RunnerInvariant, <1>1, PTL DEF RunnerSpec, CheckpointNeverGoesBack

\* Whoever dies, stalls or comes back stale, the outcome of a settled job is only rewritten by a
\* cancel request that read the row while it was queued (request_cancel, the fenced writes).
THEOREM RunnerSettledStaysSettled == RunnerSpec => SettledStaysSettled
<1>1. RunnerInv /\ [RunnerNext]_vars =>
          [\A j \in Jobs : job[j].status \in Terminal =>
              \/ job'[j].status = job[j].status
              \/ cancelTx[j] = "queued" /\ job'[j].status = "cancelled"]_queueVars
  <2> SUFFICES ASSUME RunnerInv, [RunnerNext]_vars
               PROVE  \A j \in Jobs : KeepsOutcome(j)
    BY DEF KeepsOutcome
  <2>1. TypeOK /\ [Next]_queueVars
    BY RunnerStepsAreQueueSteps DEF RunnerInv, RunnerTypeOK
  <2> QED
    BY <2>1, QueueKeepsOutcomes
<1> QED
  BY RunnerInvariant, <1>1, PTL DEF RunnerSpec, SettledStaysSettled
-----------------------------------------------------------------------------
(* The refinement.  Each step of RunnerSpec is a step of one job's life in *)
(* JobLifecycle or changes nothing a client can see, for any jobs, workers *)
(* and bounds.                                                             *)
(*                                                                         *)
(* Two more facts are needed.  A queued row has attempts left, so that the *)
(* claim which fails an exhausted job finds a lease that ran out and maps  *)
(* to Fail; and a cancel request is only open on a row that exists, so     *)
(* that its write maps to Withdraw.                                        *)

RetriesLeft == \A j \in Jobs :
    /\ job[j].status = "queued" => job[j].attempts < MaxAttempts
    /\ cancelTx[j] # "none" => job[j].status # "absent"

LEMMA InitRetriesLeft == Init => RetriesLeft
BY QueueAssumption DEF Init, RetriesLeft, NoRow

\* Every write of a row is of this shape, and keeps RetriesLeft.
LEMMA RetriesLeftRowWrite ==
  ASSUME RetriesLeft, TypeOK, NEW j \in Jobs, NEW row, job' = [job EXCEPT ![j] = row],
         row.status = "queued" => row.attempts < MaxAttempts,
         row.status # "absent",
         \A k \in Jobs : cancelTx'[k] # "none" => cancelTx[k] # "none"
  PROVE  RetriesLeft'
BY DEF RetriesLeft, TypeOK

LEMMA NextRetriesLeft == QueueInv /\ RetriesLeft /\ [Next]_queueVars => RetriesLeft'
<1> SUFFICES ASSUME QueueInv, RetriesLeft, [Next]_queueVars PROVE RetriesLeft'
  OBVIOUS
<1> USE QueueAssumption
<1>t. TypeOK
  BY DEF QueueInv
<1>1. ASSUME NEW j \in Jobs, Enqueue(j) PROVE RetriesLeft'
  <2> DEFINE row == [NoRow EXCEPT !.status = "queued", !.due = TRUE,
                                  !.created = Cardinality(Existing)]
  <2>1. row.status = "queued" /\ row.attempts = 0
    BY DEF NoRow
  <2>2. job' = [job EXCEPT ![j] = row] /\ UNCHANGED cancelTx
    BY <1>1 DEF Enqueue
  <2>3. row.status # "absent" /\ row.attempts < MaxAttempts
    BY <2>1
  <2> HIDE DEF row
  <2> QED
    BY <1>t, <2>2, <2>3, RetriesLeftRowWrite
<1>2. ASSUME NEW j \in Jobs, RequestCancelRead(j) PROVE RetriesLeft'
  BY <1>t, <1>2 DEF RequestCancelRead, RetriesLeft, TypeOK
<1>3. ASSUME NEW j \in Jobs, RequestCancelWrite(j) PROVE RetriesLeft'
  <2> DEFINE row == IF cancelTx[j] = "queued"
                    THEN [job[j] EXCEPT !.status = "cancelled"]
                    ELSE [job[j] EXCEPT !.cancelRequested = TRUE]
  <2>a. job[j] \in Row
    BY <1>t DEF TypeOK
  <2>1. /\ row.status # "absent"
        /\ row.status = "queued" => row.attempts < MaxAttempts
    BY <2>a, <1>3 DEF RequestCancelWrite, RetriesLeft, Row
  <2>2. /\ job' = [job EXCEPT ![j] = row]
        /\ \A k \in Jobs : cancelTx'[k] # "none" => cancelTx[k] # "none"
    BY <1>t, <1>3 DEF RequestCancelWrite, TypeOK
  <2> HIDE DEF row
  <2> QED
    BY <1>t, <2>1, <2>2, RetriesLeftRowWrite
<1>4. ASSUME NEW j \in Jobs,
             LeaseExpires(j) \/ RetryDelayEnds(j)
               \/ \E r \in Runs : Heartbeat(j, r) \/ \E c \in 0 .. Checkpoints : Checkpoint(j, r, c)
      PROVE  RetriesLeft'
  <2>1. job[j] \in Row /\ UNCHANGED cancelTx
    BY <1>t, <1>4 DEF TypeOK, LeaseExpires, RetryDelayEnds, Heartbeat, Checkpoint
  <2>2. \A k \in Jobs : job'[k].status = job[k].status /\ job'[k].attempts = job[k].attempts
    BY <1>t, <1>4, <2>1 DEF TypeOK, LeaseExpires, RetryDelayEnds, Heartbeat, Checkpoint, Row
  <2> QED
    BY <2>1, <2>2 DEF RetriesLeft
<1>5. ASSUME NEW w \in Workers, NEW j \in Jobs, NEW locked \in LockedSets, ClaimRun(w, j, locked)
      PROVE  RetriesLeft'
  <2>1. Leased(j, w).status # "queued" /\ Leased(j, w).status # "absent"
    BY <1>t DEF Leased, TypeOK, Row
  <2> QED
    BY <1>t, <1>5, <2>1, RetriesLeftRowWrite DEF ClaimRun
<1>6. ASSUME NEW w \in Workers, NEW j \in Jobs, NEW locked \in LockedSets,
             ClaimExhausted(w, j, locked)
      PROVE  RetriesLeft'
  <2> DEFINE row == [Leased(j, w) EXCEPT !.status = "failed", !.owner = NoWorker,
                                         !.error = "retries_exhausted"]
  <2>1. row.status = "failed"
    BY <1>t DEF Leased, TypeOK, Row
  <2>2. job' = [job EXCEPT ![j] = row] /\ UNCHANGED cancelTx
    BY <1>6 DEF ClaimExhausted
  <2>3. row.status # "queued" /\ row.status # "absent"
    BY <2>1
  <2> HIDE DEF row
  <2> QED
    BY <1>t, <2>2, <2>3, RetriesLeftRowWrite
<1>7. ASSUME NEW j \in Jobs, NEW r \in Runs,
             \/ Complete(j, r) \/ CancelFromWorker(j, r)
             \/ \E retry \in BOOLEAN : FailFinal(j, r, retry)
      PROVE  RetriesLeft'
  <2>1. job[j] \in Row /\ UNCHANGED cancelTx
    BY <1>t, <1>7 DEF TypeOK, Complete, CancelFromWorker, FailFinal
  <2>2. \A k \in Jobs : job'[k] = job[k] \/ job'[k].status \in {"succeeded", "cancelled", "failed"}
    BY <1>t, <1>7, <2>1 DEF TypeOK, Complete, CancelFromWorker, FailFinal, Row
  <2> QED
    BY <2>1, <2>2 DEF RetriesLeft
<1>8. ASSUME NEW j \in Jobs, NEW r \in Runs, FailRetry(j, r) PROVE RetriesLeft'
  <2> DEFINE row == [job[j] EXCEPT !.status = "queued", !.owner = NoWorker,
                                   !.due = FALSE, !.error = "handler"]
  <2>1. job[j] \in Row /\ UNCHANGED cancelTx /\ job[j].attempts \in Nat
    BY <1>t, <1>8 DEF TypeOK, FailRetry, Row
  <2>2. row.status = "queued" /\ row.attempts < MaxAttempts
    BY <2>1, <1>8 DEF FailRetry, Exhausted, Row
  <2>3. job' = [job EXCEPT ![j] = row]
    BY <2>1, <1>8 DEF FailRetry, Row
  <2> HIDE DEF row
  <2> QED
    BY <1>t, <2>1, <2>2, <2>3, RetriesLeftRowWrite
<1>9. CASE UNCHANGED queueVars
  BY <1>9 DEF queueVars, RetriesLeft
<1> QED
  BY <1>1, <1>2, <1>3, <1>4, <1>5, <1>6, <1>7, <1>8, <1>9 DEF Next

-----------------------------------------------------------------------------
(* What a step of one row is in the life of the jobs.                      *)

Capped(n) == IF n > MaxAttempts THEN MaxAttempts ELSE n

LEMMA MappedRowWrite ==
  ASSUME TypeOK, NEW j \in Jobs, NEW row, job' = [job EXCEPT ![j] = row]
  PROVE  /\ [k \in Jobs |-> job[k].status]'
              = [[k \in Jobs |-> job[k].status] EXCEPT ![j] = row.status]
         /\ [k \in Jobs |-> Capped(job[k].attempts)]'
              = [[k \in Jobs |-> Capped(job[k].attempts)] EXCEPT ![j] = Capped(row.attempts)]
         /\ [k \in Jobs |-> job[k].checkpoint]'
              = [[k \in Jobs |-> job[k].checkpoint] EXCEPT ![j] = row.checkpoint]
BY DEF TypeOK

\* A row write that leaves what the mapping shows is a stutter.
LEMMA MappedStutter ==
  ASSUME \A k \in Jobs : /\ job'[k].status = job[k].status
                         /\ job'[k].attempts = job[k].attempts
                         /\ job'[k].checkpoint = job[k].checkpoint
  PROVE  UNCHANGED Lifecycle!lifecycleVars
BY DEF Lifecycle!lifecycleVars

\* A row write that leaves attempts and checkpoint moves the phase only.
LEMMA MappedPhaseStep ==
  ASSUME TypeOK, NEW j \in Jobs, NEW row, job' = [job EXCEPT ![j] = row],
         Capped(row.attempts) = Capped(job[j].attempts), row.checkpoint = job[j].checkpoint,
         \/ job[j].status = "absent" /\ row.status = "queued"
         \/ job[j].status = "leased" /\ row.status = "queued" /\ Capped(job[j].attempts) < MaxAttempts
         \/ job[j].status = "leased" /\ row.status = "failed"
         \/ job[j].status = "leased" /\ row.status = "succeeded" /\ row.checkpoint = Checkpoints
         \/ job[j].status # "absent" /\ row.status = "cancelled"
  PROVE  Lifecycle!LifecycleNext
<1>1. /\ [k \in Jobs |-> job[k].status]'
           = [[k \in Jobs |-> job[k].status] EXCEPT ![j] = row.status]
      /\ [k \in Jobs |-> Capped(job[k].attempts)]' = [k \in Jobs |-> Capped(job[k].attempts)]
      /\ [k \in Jobs |-> job[k].checkpoint]' = [k \in Jobs |-> job[k].checkpoint]
  <2>1. /\ \A k \in Jobs : k # j => job'[k] = job[k]
        /\ job'[j] = row
    BY DEF TypeOK
  <2>2. \A k \in Jobs : /\ Capped(job'[k].attempts) = Capped(job[k].attempts)
                        /\ job'[k].checkpoint = job[k].checkpoint
    BY <2>1
  <2>3. [k \in Jobs |-> job[k].status]'
          = [[k \in Jobs |-> job[k].status] EXCEPT ![j] = row.status]
    BY MappedRowWrite
  <2>4. [k \in Jobs |-> Capped(job[k].attempts)]' = [k \in Jobs |-> Capped(job[k].attempts)]
    BY <2>2 DEF Capped
  <2>5. [k \in Jobs |-> job[k].checkpoint]' = [k \in Jobs |-> job[k].checkpoint]
    BY <2>2
  <2> QED
    BY <2>3, <2>4, <2>5
<1>2. \/ Lifecycle!Submit(j) \/ Lifecycle!Requeue(j) \/ Lifecycle!Fail(j)
      \/ Lifecycle!Succeed(j) \/ Lifecycle!Withdraw(j)
  BY <1>1 DEF Lifecycle!Submit, Lifecycle!Requeue, Lifecycle!Fail, Lifecycle!Succeed,
              Lifecycle!Withdraw, Capped
<1> QED
  BY <1>2 DEF Lifecycle!LifecycleNext

-----------------------------------------------------------------------------
(* Every step of the queue with its workers is a step of the life of a job.*)

LEMMA RunnerStepRefines ==
  ASSUME RunnerInv, RetriesLeft, [RunnerNext]_vars
  PROVE  [Lifecycle!LifecycleNext]_(Lifecycle!lifecycleVars)
<1> USE QueueAssumption
<1> DEFINE Goal == [Lifecycle!LifecycleNext]_(Lifecycle!lifecycleVars)
<1>t. /\ TypeOK /\ QueueInv
      /\ \A j \in Jobs : job[j] \in Row /\ job[j].attempts \in Nat /\ job[j].checkpoint \in 0 .. Checkpoints
      /\ \A w \in Workers : worker[w].job \in Jobs /\ worker[w].checkpoint \in Nat
  BY DEF RunnerInv, RunnerTypeOK, TypeOK, QueueInv, Row, WorkerState
<1>p. Lifecycle!LifecycleNext => Goal
  OBVIOUS
<1>s. UNCHANGED job => Goal
  BY MappedStutter
<1> HIDE DEF Goal
<1>1. ASSUME NEW j \in Jobs, Enqueue(j) PROVE Goal
  <2> DEFINE row == [NoRow EXCEPT !.status = "queued", !.due = TRUE,
                                  !.created = Cardinality(Existing)]
  <2>1. row.status = "queued" /\ row.attempts = 0 /\ row.checkpoint = 0
    BY DEF NoRow
  <2>2. job' = [job EXCEPT ![j] = row] /\ job[j].status = "absent"
    BY <1>1 DEF Enqueue
  <2>3. job[j].attempts = 0 /\ job[j].checkpoint = 0
    BY <2>2 DEF RunnerInv, RowsOK
  <2> HIDE DEF row
  <2>4. Capped(row.attempts) = Capped(job[j].attempts) /\ row.checkpoint = job[j].checkpoint
    BY <2>1, <2>3
  <2> QED
    BY <1>t, <1>p, <2>1, <2>2, <2>4, MappedPhaseStep
<1>2. ASSUME NEW j \in Jobs, RequestCancelWrite(j) PROVE Goal
  <2>1. CASE cancelTx[j] = "queued"
    <3> DEFINE row == [job[j] EXCEPT !.status = "cancelled"]
    <3>1. /\ job' = [job EXCEPT ![j] = row] /\ job[j].status # "absent"
          /\ row.attempts = job[j].attempts /\ row.checkpoint = job[j].checkpoint
          /\ row.status = "cancelled"
      BY <1>t, <1>2, <2>1 DEF RequestCancelWrite, RetriesLeft, Row
    <3> HIDE DEF row
    <3> QED
      BY <1>t, <1>p, <3>1, MappedPhaseStep
  <2>2. CASE cancelTx[j] # "queued"
    <3>1. \A k \in Jobs : /\ job'[k].status = job[k].status
                          /\ job'[k].attempts = job[k].attempts
                          /\ job'[k].checkpoint = job[k].checkpoint
      BY <1>t, <1>2, <2>2 DEF RequestCancelWrite, TypeOK, Row
    <3> QED
      BY <3>1, MappedStutter DEF Goal
  <2> QED
    BY <2>1, <2>2
<1>3. ASSUME NEW j \in Jobs, NEW r, LeaseExpires(j) \/ RetryDelayEnds(j) \/ Heartbeat(j, r)
      PROVE  Goal
  <2>1. \A k \in Jobs : /\ job'[k].status = job[k].status
                        /\ job'[k].attempts = job[k].attempts
                        /\ job'[k].checkpoint = job[k].checkpoint
    BY <1>t, <1>3 DEF LeaseExpires, RetryDelayEnds, Heartbeat, TypeOK, Row
  <2> QED
    BY <2>1, MappedStutter DEF Goal
<1>4. ASSUME NEW j \in Jobs, Outside(j) PROVE Goal
  BY <1>1, <1>2, <1>3, <1>4, <1>s DEF Outside, RequestCancelRead
<1>5. ASSUME NEW w \in Workers, RunOnce(w) PROVE Goal
  <2>1. PICK j \in Jobs, locked \in LockedSets : ClaimRun(w, j, locked)
    BY <1>5 DEF RunOnce
  <2>2. /\ job' = [job EXCEPT ![j] = Leased(j, w)]
        /\ job[j].attempts < MaxAttempts
        /\ job[j].status \in {"queued", "leased"}
    BY <1>t, <2>1 DEF ClaimRun, IsFirst, Claimable
  <2>3. /\ Leased(j, w).status = "leased" /\ Leased(j, w).checkpoint = job[j].checkpoint
        /\ Leased(j, w).attempts = job[j].attempts + 1
    BY <1>t DEF Leased, Row
  <2>4. [k \in Jobs |-> job[k].status]' = [[k \in Jobs |-> job[k].status] EXCEPT ![j] = "leased"]
    BY <1>t, <2>2, <2>3 DEF TypeOK
  <2>5. \A k \in Jobs : job'[k].checkpoint = job[k].checkpoint
    BY <1>t, <2>2, <2>3 DEF TypeOK
  <2>6. \A k \in Jobs : k # j => job'[k].attempts = job[k].attempts
    BY <1>t, <2>2 DEF TypeOK
  <2>7. job'[j].attempts = job[j].attempts + 1
    BY <1>t, <2>2, <2>3 DEF TypeOK
  <2>8. [k \in Jobs |-> Capped(job[k].attempts)]'
          = [[k \in Jobs |-> Capped(job[k].attempts)] EXCEPT ![j] = Capped(job[j].attempts) + 1]
    <3>1. Capped(job'[j].attempts) = Capped(job[j].attempts) + 1
      BY <1>t, <2>2, <2>7 DEF Capped
    <3>2. \A k \in Jobs : k # j => Capped(job'[k].attempts) = Capped(job[k].attempts)
      BY <2>6
    <3>3. [k \in Jobs |-> Capped(job'[k].attempts)]
            = [[k \in Jobs |-> Capped(job[k].attempts)] EXCEPT ![j] = Capped(job[j].attempts) + 1]
      BY <3>1, <3>2
    <3> QED
      BY <3>3 DEF Capped
  <2>9. Capped(job[j].attempts) < MaxAttempts
    BY <1>t, <2>2 DEF Capped
  <2>10. Lifecycle!Begin(j)
    BY <2>2, <2>4, <2>5, <2>8, <2>9 DEF Lifecycle!Begin, Capped
  <2> QED
    BY <1>p, <2>10 DEF Lifecycle!LifecycleNext
<1>6. ASSUME NEW w \in Workers, RunOnceExhausted(w) PROVE Goal
  <2>1. PICK j \in Jobs, locked \in LockedSets : ClaimExhausted(w, j, locked)
    BY <1>6 DEF RunOnceExhausted
  <2> DEFINE row == [Leased(j, w) EXCEPT !.status = "failed", !.owner = NoWorker,
                                         !.error = "retries_exhausted"]
  <2>2. job[j].attempts = MaxAttempts /\ j \in Claimable
    BY <1>t, <2>1, ClaimableAttempts DEF ClaimExhausted, IsFirst
  <2>3. job[j].status = "leased"
    BY <2>2 DEF RetriesLeft, Claimable
  <2>4. /\ job' = [job EXCEPT ![j] = row]
        /\ row.status = "failed" /\ row.checkpoint = job[j].checkpoint
        /\ row.attempts = MaxAttempts + 1
    BY <1>t, <2>1, <2>2 DEF ClaimExhausted, Leased, Row
  <2> HIDE DEF row
  <2>5. Capped(row.attempts) = Capped(job[j].attempts)
    BY <2>2, <2>4 DEF Capped
  <2> QED
    BY <1>t, <1>p, <2>3, <2>4, <2>5, MappedPhaseStep
<1>7. ASSUME NEW w \in Workers, SaveCheckpoint(w) PROVE Goal
  <2>j. PICK j \in Jobs : j = worker[w].job
    BY <1>t
  <2> DEFINE row == [job[j] EXCEPT !.checkpoint = worker[w].checkpoint + 1]
  <2>1. /\ worker[w].pc = "save" /\ Fence(j, worker[w].run)
        /\ job' = [job EXCEPT ![j] = row]
    BY <1>t, <1>7, <2>j DEF SaveCheckpoint, Checkpoint
  <2>2. job[j].checkpoint = worker[w].checkpoint /\ worker[w].checkpoint < Checkpoints
    BY <2>j, <2>1 DEF RunnerInv, HolderResumesFromRow, ContextsOK, ContextOK, Holds, Executing
  <2>3. /\ job[j].status = "leased"
        /\ row.status = job[j].status /\ row.attempts = job[j].attempts
        /\ row.checkpoint = job[j].checkpoint + 1
    BY <1>t, <2>1, <2>2 DEF Fence, Row
  <2> HIDE DEF row
  <2>4. [k \in Jobs |-> job[k].checkpoint]'
          = [[k \in Jobs |-> job[k].checkpoint] EXCEPT ![j] = job[j].checkpoint + 1]
    BY <1>t, <2>1, <2>3 DEF TypeOK
  <2>5. \A k \in Jobs : job'[k].status = job[k].status /\ job'[k].attempts = job[k].attempts
    BY <1>t, <2>1, <2>3 DEF TypeOK
  <2>6. Lifecycle!Advance(j)
    BY <1>t, <2>2, <2>3, <2>4, <2>5 DEF Lifecycle!Advance
  <2> QED
    BY <1>p, <2>6 DEF Lifecycle!LifecycleNext
<1>8. ASSUME NEW w \in Workers, RecordSuccess(w) PROVE Goal
  <2> DEFINE j == worker[w].job
             row == [job[j] EXCEPT !.status = "succeeded", !.owner = NoWorker]
  <2>1. /\ worker[w].pc = "complete" /\ Fence(j, worker[w].run)
        /\ job' = [job EXCEPT ![j] = row]
    BY <1>t, <1>8 DEF RecordSuccess, Complete, Row
  <2>2. job[j].checkpoint = Checkpoints
    BY <2>1 DEF RunnerInv, HolderResumesFromRow, ContextsOK, ContextOK, Holds, Executing
  <2>3. /\ j \in Jobs /\ job[j].status = "leased"
        /\ row.status = "succeeded" /\ row.attempts = job[j].attempts
        /\ row.checkpoint = job[j].checkpoint
    BY <1>t, <2>1 DEF Fence, Row
  <2> HIDE DEF j, row
  <2> QED
    BY <1>t, <1>p, <2>1, <2>2, <2>3, MappedPhaseStep
<1>9. ASSUME NEW w \in Workers, RecordCancel(w) PROVE Goal
  <2> DEFINE j == worker[w].job
             row == [job[j] EXCEPT !.status = "cancelled", !.owner = NoWorker]
  <2>1. /\ job' = [job EXCEPT ![j] = row] /\ j \in Jobs /\ job[j].status = "leased"
        /\ row.status = "cancelled" /\ row.attempts = job[j].attempts
        /\ row.checkpoint = job[j].checkpoint
    BY <1>t, <1>9, ZenonT(60) DEF RecordCancel, CancelFromWorker, Fence, Row
  <2> HIDE DEF j, row
  <2> QED
    BY <1>t, <1>p, <2>1, MappedPhaseStep
<1>10. ASSUME NEW w \in Workers, FailRetry(worker[w].job, worker[w].run) PROVE Goal
  <2> DEFINE j == worker[w].job
             row == [job[j] EXCEPT !.status = "queued", !.owner = NoWorker,
                                   !.due = FALSE, !.error = "handler"]
  <2>1. /\ job' = [job EXCEPT ![j] = row] /\ j \in Jobs /\ job[j].status = "leased"
        /\ row.status = "queued" /\ row.attempts = job[j].attempts
        /\ row.checkpoint = job[j].checkpoint
    BY <1>t, <1>10, ZenonT(60) DEF FailRetry, Fence, Row
  <2>2. Capped(job[j].attempts) < MaxAttempts
    BY <1>t, <1>10 DEF FailRetry, Exhausted, Capped
  <2> HIDE DEF j, row
  <2> QED
    BY <1>t, <1>p, <2>1, <2>2, MappedPhaseStep
<1>11. ASSUME NEW w \in Workers, NEW retry \in BOOLEAN,
              FailFinal(worker[w].job, worker[w].run, retry)
       PROVE  Goal
  <2> DEFINE j == worker[w].job
             row == [job[j] EXCEPT !.status = "failed", !.owner = NoWorker,
                         !.error = IF retry THEN "retries_exhausted" ELSE "handler"]
  <2>1. /\ job' = [job EXCEPT ![j] = row] /\ j \in Jobs /\ job[j].status = "leased"
        /\ row.status = "failed" /\ row.attempts = job[j].attempts
        /\ row.checkpoint = job[j].checkpoint
    BY <1>t, <1>11, ZenonT(60) DEF FailFinal, Fence, Row
  <2> HIDE DEF j, row
  <2> QED
    BY <1>t, <1>p, <2>1, MappedPhaseStep
<1>12. ASSUME NEW w \in Workers, RecordFailure(w) PROVE Goal
  <2>1. \/ FailRetry(worker[w].job, worker[w].run)
        \/ \E retry \in BOOLEAN : FailFinal(worker[w].job, worker[w].run, retry)
    BY <1>12 DEF RecordFailure
  <2> QED
    BY <1>10, <1>11, <2>1
<1>13. ASSUME NEW w \in Workers, HeartbeatTick(w) PROVE Goal
  BY <1>t, <1>3, <1>13 DEF HeartbeatTick
<1>14. ASSUME NEW w \in Workers,
              \/ Start(w) \/ RunOnceEmpty(w) \/ CommitUnit(w) \/ HandlerReturns(w) \/ LeaseLost(w)
              \/ LeaseLostCancelling(w) \/ HandlerRaises(w) \/ Killed(w) \/ HeartbeatLost(w)
       PROVE  Goal
  BY <1>s, <1>14 DEF Start, RunOnceEmpty, CommitUnit, HandlerReturns, LeaseLost,
                     LeaseLostCancelling, HandlerRaises, Killed, HeartbeatLost
<1>15. ASSUME UNCHANGED vars PROVE Goal
  BY <1>s, <1>15 DEF vars
<1>16. Goal
  BY <1>4, <1>5, <1>6, <1>7, <1>8, <1>9, <1>12, <1>13, <1>14, <1>15 DEF RunnerNext, Poll, Proceed
<1> QED
  BY <1>16 DEF Goal

\* The queue with its workers is a JobLifecycle: whatever dies, expires or is
\* retried, a job starts at most MaxAttempts times, advances one unit at a
\* time, never goes back, and succeeds only with all its units done.
THEOREM RunnerImplementsLifecycle == RunnerSpec => ImplementsLifecycle
<1>1. RunnerInit => Lifecycle!LifecycleInit /\ RetriesLeft
  <2> SUFFICES ASSUME RunnerInit PROVE Lifecycle!LifecycleInit /\ RetriesLeft
    OBVIOUS
  <2>1. Init /\ job = [j \in Jobs |-> NoRow]
    BY DEF RunnerInit, Init
  <2>2. Lifecycle!LifecycleInit
    BY <2>1, QueueAssumption DEF Lifecycle!LifecycleInit, NoRow
  <2> QED
    BY <2>1, <2>2, InitRetriesLeft
<1>2. RunnerInv /\ RetriesLeft /\ [RunnerNext]_vars => RetriesLeft'
  <2> SUFFICES ASSUME RunnerInv, RetriesLeft, [RunnerNext]_vars PROVE RetriesLeft'
    OBVIOUS
  <2>1. QueueInv /\ [Next]_queueVars
    BY RunnerStepsAreQueueSteps DEF RunnerInv, QueueInv, RunnerTypeOK
  <2> QED
    BY <2>1, NextRetriesLeft
<1>3. RunnerInv /\ RetriesLeft /\ [RunnerNext]_vars
        => [Lifecycle!LifecycleNext]_(Lifecycle!lifecycleVars)
  BY RunnerStepRefines
<1> QED
  BY RunnerInvariant, <1>1, <1>2, <1>3, PTL
  DEF RunnerSpec, ImplementsLifecycle, Lifecycle!LifecycleSpec
=============================================================================
