---------------------------- MODULE JobLifecycle ----------------------------
(***************************************************************************)
(* What the queue and its workers promise of one job, without workers,     *)
(* leases, fences or run ids.  A job is submitted, started at most         *)
(* MaxAttempts times, advances one unit at a time and never goes back, and *)
(* succeeds only when all its units are done.  An administrator can        *)
(* withdraw it; a withdrawal read before the job settled may land after.   *)
(***************************************************************************)
EXTENDS Naturals

CONSTANTS Jobs, MaxAttempts, Checkpoints

VARIABLES phase, starts, progress

lifecycleVars == <<phase, starts, progress>>

LifecycleInit ==
    /\ phase = [j \in Jobs |-> "absent"]
    /\ starts = [j \in Jobs |-> 0]
    /\ progress = [j \in Jobs |-> 0]

Submit(j) ==
    /\ phase[j] = "absent"
    /\ phase' = [phase EXCEPT ![j] = "queued"]
    /\ UNCHANGED <<starts, progress>>

\* A worker starts the job, or takes it over from one that went silent.
Begin(j) ==
    /\ phase[j] \in {"queued", "leased"}
    /\ starts[j] < MaxAttempts
    /\ phase' = [phase EXCEPT ![j] = "leased"]
    /\ starts' = [starts EXCEPT ![j] = @ + 1]
    /\ UNCHANGED progress

Advance(j) ==
    /\ phase[j] = "leased"
    /\ progress[j] < Checkpoints
    /\ progress' = [progress EXCEPT ![j] = @ + 1]
    /\ UNCHANGED <<phase, starts>>

Requeue(j) ==
    /\ phase[j] = "leased"
    /\ starts[j] < MaxAttempts
    /\ phase' = [phase EXCEPT ![j] = "queued"]
    /\ UNCHANGED <<starts, progress>>

Succeed(j) ==
    /\ phase[j] = "leased"
    /\ progress[j] = Checkpoints
    /\ phase' = [phase EXCEPT ![j] = "succeeded"]
    /\ UNCHANGED <<starts, progress>>

Fail(j) ==
    /\ phase[j] = "leased"
    /\ phase' = [phase EXCEPT ![j] = "failed"]
    /\ UNCHANGED <<starts, progress>>

Withdraw(j) ==
    /\ phase[j] # "absent"
    /\ phase' = [phase EXCEPT ![j] = "cancelled"]
    /\ UNCHANGED <<starts, progress>>

LifecycleNext ==
    \E j \in Jobs : \/ Submit(j) \/ Begin(j) \/ Advance(j) \/ Requeue(j)
                    \/ Succeed(j) \/ Fail(j) \/ Withdraw(j)

LifecycleSpec == LifecycleInit /\ [][LifecycleNext]_lifecycleVars
=============================================================================
