------------------------------ MODULE JobRunner ------------------------------
(***************************************************************************)
(* The worker process of services/worker/src/tariff_worker/runner.py over  *)
(* the queue: claim a job, run its handler beside a heartbeat thread, and  *)
(* record what became of it.  A handler is a loop over Checkpoints units   *)
(* of work: it commits a unit to the domain tables, without a fence, and   *)
(* then calls save_checkpoint.                                             *)
(*                                                                         *)
(* A process can be killed at any point of a run.  SIGTERM lets the run    *)
(* end first, so it adds no behaviour to that of a worker that is idle.    *)
(***************************************************************************)
EXTENDS JobQueue

CONSTANTS
    DrainWorkers   \* the workers started with --drain; the others poll for ever

ASSUME RunnerAssumption == Jobs # {} /\ DrainWorkers \subseteq Workers

VARIABLES
    worker,        \* each process: where it is and its JobContext
    units          \* the units of work of each job found in the domain tables

vars == <<job, cancelTx, worker, units>>

PC == {"down", "idle", "work", "save", "complete", "cancel", "retry", "giveUp"}

WorkerState == [pc: PC,
                job: Jobs,
                run: Runs,
                checkpoint: 0 .. Checkpoints,
                cancelSeen: BOOLEAN,
                leaseLost: BOOLEAN]

AnyJob == CHOOSE j \in Jobs : TRUE

NoContext(pc) == [pc |-> pc, job |-> AnyJob, run |-> 0, checkpoint |-> 0,
                  cancelSeen |-> FALSE, leaseLost |-> FALSE]

RunnerInit ==
    /\ Init
    /\ worker = [w \in Workers |-> NoContext("down")]
    /\ units = [j \in Jobs |-> {}]

Executing(w) == worker[w].pc \notin {"down", "idle"}

\* The run of w is the one the fence of its job lets write.
Holds(w) == Executing(w) /\ Fence(worker[w].job, worker[w].run)

Becomes(w, ctx) == worker' = [worker EXCEPT ![w] = ctx]
GoesTo(w, pc) == Becomes(w, [worker[w] EXCEPT !.pc = pc])

-----------------------------------------------------------------------------
(* The process: main, run_forever, run_once.                               *)

Start(w) ==
    /\ worker[w].pc = "down"
    /\ Becomes(w, NoContext("idle"))
    /\ UNCHANGED <<job, cancelTx, units>>

\* claim returned None: --drain ends the process, a polling worker waits.
AfterNone(w) == Becomes(w, NoContext(IF w \in DrainWorkers THEN "down" ELSE "idle"))

\* Mutant of RunOnce: the handler starts over, not from the checkpoint.
RunOnceFromStart(w) ==
    /\ worker[w].pc = "idle"
    /\ \E j \in Jobs, locked \in LockedSets :
          /\ ClaimRun(w, j, locked)
          /\ Becomes(w, [NoContext("work") EXCEPT !.job = j, !.run = job'[j].run])
    /\ UNCHANGED units

RunOnce(w) ==
    /\ worker[w].pc = "idle"
    /\ \E j \in Jobs, locked \in LockedSets :
          /\ ClaimRun(w, j, locked)
          /\ Becomes(w, [NoContext("work") EXCEPT !.job = j, !.run = job'[j].run,
                                                  !.checkpoint = job[j].checkpoint])
    /\ UNCHANGED units

RunOnceExhausted(w) ==
    /\ worker[w].pc = "idle"
    /\ \E j \in Jobs, locked \in LockedSets : ClaimExhausted(w, j, locked)
    /\ AfterNone(w)
    /\ UNCHANGED units

RunOnceEmpty(w) ==
    /\ worker[w].pc = "idle"
    /\ \E locked \in LockedSets : Claimable \subseteq locked
    /\ AfterNone(w)
    /\ UNCHANGED <<job, cancelTx, units>>

Killed(w) ==
    /\ Executing(w)
    /\ Becomes(w, NoContext("down"))
    /\ UNCHANGED <<job, cancelTx, units>>

-----------------------------------------------------------------------------
(* The handler and JobContext.save_checkpoint.                             *)

CommitUnit(w) ==
    /\ worker[w].pc = "work"
    /\ worker[w].checkpoint < Checkpoints
    /\ units' = [units EXCEPT ![worker[w].job] = @ \cup {worker[w].checkpoint + 1}]
    /\ GoesTo(w, "save")
    /\ UNCHANGED <<job, cancelTx>>

SaveCheckpoint(w) ==
    LET ctx == worker[w]
    IN  /\ ctx.pc = "save"
        /\ ~ctx.leaseLost
        /\ Checkpoint(ctx.job, ctx.run, ctx.checkpoint + 1)
        /\ Becomes(w, [ctx EXCEPT !.checkpoint = @ + 1,
                                  !.pc = IF ctx.cancelSeen THEN "cancel" ELSE "work"])
        /\ UNCHANGED units

\* Mutant of HandlerReturns: the loop stops one unit short.
HandlerReturnsEarly(w) ==
    /\ worker[w].pc = "work"
    /\ worker[w].checkpoint + 1 >= Checkpoints
    /\ GoesTo(w, "complete")
    /\ UNCHANGED <<job, cancelTx, units>>

HandlerReturns(w) ==
    /\ worker[w].pc = "work"
    /\ worker[w].checkpoint = Checkpoints
    /\ GoesTo(w, "complete")
    /\ UNCHANGED <<job, cancelTx, units>>

\* The handler raises JobFailure, or anything it calls raises Exception.
HandlerRaises(w) ==
    /\ worker[w].pc \in {"work", "save", "complete"}
    /\ \E pc \in {"retry", "giveUp"} : GoesTo(w, pc)
    /\ UNCHANGED <<job, cancelTx, units>>

-----------------------------------------------------------------------------
(* How _execute records the end of a run.                                  *)

RunEnds(w) == Becomes(w, NoContext("idle")) /\ UNCHANGED units

RecordSuccess(w) ==
    /\ worker[w].pc = "complete"
    /\ Complete(worker[w].job, worker[w].run)
    /\ RunEnds(w)

RecordCancel(w) ==
    /\ worker[w].pc = "cancel"
    /\ CancelFromWorker(worker[w].job, worker[w].run)
    /\ RunEnds(w)

RecordFailure(w) ==
    /\ \/ worker[w].pc = "retry" /\ FailRetry(worker[w].job, worker[w].run)
       \/ worker[w].pc = "retry" /\ FailFinal(worker[w].job, worker[w].run, TRUE)
       \/ worker[w].pc = "giveUp" /\ FailFinal(worker[w].job, worker[w].run, FALSE)
    /\ RunEnds(w)

\* LeaseLost inside the try, or inside the handlers of a failure: abandon.
LeaseLost(w) ==
    /\ \/ worker[w].pc = "save" /\ (worker[w].leaseLost \/ ~Holds(w))
       \/ worker[w].pc \in {"complete", "retry", "giveUp"} /\ ~Holds(w)
    /\ RunEnds(w)
    /\ UNCHANGED <<job, cancelTx>>

\* LeaseLost out of cancel_from_worker: nothing catches it, the process ends.
LeaseLostCancelling(w) ==
    /\ worker[w].pc = "cancel"
    /\ ~Holds(w)
    /\ Becomes(w, NoContext("down"))
    /\ UNCHANGED <<job, cancelTx, units>>

-----------------------------------------------------------------------------
(* The heartbeat thread: it ends itself on LeaseLost.                      *)

HeartbeatTick(w) ==
    LET ctx == worker[w]
    IN  /\ Executing(w) /\ ~ctx.leaseLost
        /\ Heartbeat(ctx.job, ctx.run)
        /\ Becomes(w, [ctx EXCEPT !.cancelSeen = @ \/ job[ctx.job].cancelRequested])
        /\ UNCHANGED units

HeartbeatLost(w) ==
    /\ Executing(w) /\ ~worker[w].leaseLost
    /\ ~Holds(w)
    /\ Becomes(w, [worker[w] EXCEPT !.leaseLost = TRUE])
    /\ UNCHANGED <<job, cancelTx, units>>

-----------------------------------------------------------------------------

Outside(j) ==
    /\ \/ Enqueue(j)
       \/ RequestCancelRead(j)
       \/ RequestCancelWrite(j)
       \/ LeaseExpires(j)
       \/ RetryDelayEnds(j)
    /\ UNCHANGED <<worker, units>>

Poll(w) == RunOnce(w) \/ RunOnceExhausted(w)

Proceed(w) ==
    \/ CommitUnit(w) \/ SaveCheckpoint(w) \/ HandlerReturns(w)
    \/ RecordSuccess(w) \/ RecordCancel(w) \/ RecordFailure(w)
    \/ LeaseLost(w) \/ LeaseLostCancelling(w)

RunnerNext ==
    \/ \E j \in Jobs : Outside(j)
    \/ \E w \in Workers :
          \/ Start(w) \/ Poll(w) \/ RunOnceEmpty(w)
          \/ Proceed(w) \/ HandlerRaises(w) \/ Killed(w)
          \/ HeartbeatTick(w) \/ HeartbeatLost(w)

RunnerSpec == RunnerInit /\ [][RunnerNext]_vars

(* A lease nobody renews runs out.  A lease its worker renews need not.    *)
Abandoned(j) == ~\E w \in Workers : Holds(w) /\ worker[w].job = j

(* The scheduler starts the worker again, a worker that is up polls and a  *)
(* handler makes progress.  Poll needs strong fairness because a row that  *)
(* another session locks for one transaction is skipped, and a --drain     *)
(* worker then ends until it is started again.                             *)
Fairness ==
    /\ \A w \in Workers : WF_vars(Start(w)) /\ SF_vars(Poll(w)) /\ WF_vars(Proceed(w))
    /\ \A j \in Jobs : /\ WF_vars(Outside(j) /\ LeaseExpires(j) /\ Abandoned(j))
                       /\ WF_vars(Outside(j) /\ RetryDelayEnds(j))

FairRunnerSpec == RunnerSpec /\ Fairness
-----------------------------------------------------------------------------
(* Properties.                                                             *)

\* Type correctness of the processes and of the domain tables.
RunnerTypeOK ==
    /\ TypeOK
    /\ worker \in [Workers -> WorkerState]
    /\ units \in [Jobs -> SUBSET (1 .. Checkpoints)]

\* Of all processes that believe they run a job, at most one can write its
\* row: the fence by (job_id, run_id) tells a stale worker from the owner.
OneHolder ==
    \A v, w \in Workers :
        Holds(v) /\ Holds(w) /\ worker[v].job = worker[w].job => v = w

\* A handler is started at most max_attempts times for a job, counting the
\* starts whose worker died: the run in a process is never a later one.
StartsAreBounded ==
    \A w \in Workers : Executing(w) => worker[w].run <= MaxAttempts

\* The run that holds the lease carries the checkpoint of the row, so a
\* resumed handler neither repeats a unit that was checkpointed nor skips one.
HolderResumesFromRow ==
    \A w \in Workers : Holds(w) => worker[w].checkpoint = job[worker[w].job].checkpoint

\* The row never claims more than the domain tables hold: every unit up to
\* the checkpoint was committed, and a succeeded job has all of them.
CheckpointedWorkIsDone ==
    \A j \in Jobs : /\ 1 .. job[j].checkpoint \subseteq units[j]
                    /\ job[j].status = "succeeded" => units[j] = 1 .. Checkpoints

\* However workers die and return, a job is not started once too often, and
\* one that was is settled (claim's exhausted branch).
AttemptsAreBounded == ExhaustedIsSettled /\ StartsAreBounded

\* Resuming loses no unit of work and claims none that was not committed,
\* whoever took the job over (save_checkpoint, claim).
NoUnitIsLost == HolderResumesFromRow /\ CheckpointedWorkIsDone

\* Progress recorded by one run is never undone by another, stale or not.
CheckpointNeverGoesBack ==
    [][\A j \in Jobs : job'[j].checkpoint >= job[j].checkpoint]_vars

\* Every job that was enqueued settles: whatever workers die, whatever lease
\* runs out, retries are bounded and the last failure is recorded.
EveryJobSettles ==
    \A j \in Jobs : (job[j].status = "queued") ~> (job[j].status \in Terminal)

\* The queue with its workers implements the life of a job.  A start is a
\* claim that ran the handler; the claim that only fails the job is not one.
Lifecycle == INSTANCE JobLifecycle WITH
    phase <- [j \in Jobs |-> job[j].status],
    starts <- [j \in Jobs |-> IF job[j].attempts > MaxAttempts THEN MaxAttempts
                                                               ELSE job[j].attempts],
    progress <- [j \in Jobs |-> job[j].checkpoint]

ImplementsLifecycle == Lifecycle!LifecycleSpec

\* Jobs of one urgency, the priority of every enqueue that names none.
SamePriority == [j \in Jobs |-> 0]

=============================================================================
