------------------------ MODULE SourcePipelineProofs ------------------------
(***************************************************************************)
(* Proofs about the reading pipeline of a source, for any workers,         *)
(* profiles, calls and bounds: any number of re-runs, corrections, crashes *)
(* and lost leases, in any order.                                          *)
(*                                                                         *)
(* The gate of the code is a flag on the record that a stage tests when it *)
(* opens; the stage writes minutes later, unfenced.  The flag alone is     *)
(* therefore not inductive: it has to be tied to the region set as it      *)
(* stands, and what a run in flight has read to the decisions made so far, *)
(* which are never taken back (ReadersDecided).                            *)
(*                                                                         *)
(* A transaction commits what it decided by an older state of the source.  *)
(* What it loaded then still says something, if what is said once stays    *)
(* true: the stages done are never undone (StagesInOrder holds of what was *)
(* loaded as well), and a profile once bound stays (BoundOnce).            *)
(*                                                                         *)
(* What stands before the reviewers is current only while some calls are   *)
(* not made: each theorem below excludes the calls under which it fails.   *)
(* Behind the last two is, up to the second decision, the present reading  *)
(* under every run in flight (DecidedOnce).                                *)
(***************************************************************************)
EXTENDS SourcePipeline, TLAPS

RunState == [kind: JobKinds, live: BOOLEAN,
             pc: {"idle", "claimed", "reading", "writing", "finished", "refused", "raised"},
             read: Generation \cup Profiles \cup {NoProfile}, seen: Snapshot]

RequestState == [open: BOOLEAN, seen: Snapshot]

\* A run that has read and not yet written.
Busy == {"reading", "writing"}

\* The generations a reviewer decided on, and those an overlap left.
Settled == decided \cup late

\* What a busy run has read, given the generations settled so far.
ReaderOK(r, generations) == r.pc \in Busy =>
    /\ StageOf(r.kind) = "localise" => r.read \in Profiles \cup {NoProfile}
    /\ StageOf(r.kind) \in {"grid", "extract"} => r.read \in generations \cup {0}

ReadersDecided == \A w \in Workers : ReaderOK(run[w], Settled)

PipelineInv == PipelineTypeOK /\ ReadOnlyDecidedRegions /\ ReadersDecided

\* The type invariant in parts that a step changes apart from each other.
DocumentTypeOK ==
    /\ state \in SourceState
    /\ done \subseteq Stages
    /\ profile \in Profiles \cup {NoProfile} /\ detected \in Profiles \cup {NoProfile}
    /\ record \in Record
    /\ regions \in Generation /\ decided \subseteq Generation
    /\ structure \in Generation /\ candidates \in Generation
    /\ late \subseteq Generation /\ overtaken \in BOOLEAN

BoundsOK == edits \in 0 .. MaxEdits /\ faults \in 0 .. MaxFaults

LEMMA PipelineTypeParts ==
  PipelineTypeOK <=> /\ DocumentTypeOK
                     /\ job \in [JobKinds -> JobRow]
                     /\ run \in [Workers -> RunState]
                     /\ request \in [Users -> RequestState]
                     /\ BoundsOK
BY DEF PipelineTypeOK, DocumentTypeOK, BoundsOK, RunState, RequestState

-----------------------------------------------------------------------------
(* The tables of the state machine.                                        *)

LEMMA StageNames ==
  /\ Stages = {"inventory", "triage", "parse", "localise", "grid", "extract", "validate"}
  /\ JobKinds = Stages \cup {"inventory_again"}
  /\ \A k \in JobKinds : StageOf(k) \in Stages
BY DEF Stages, InputState, JobKinds, StageOf

LEMMA StateNames ==
  SourceState = {"uploaded", "inventoried", "triaged", "parsed", "localised", "gridded",
                 "extracted", "validated", "awaiting_review", "published", "failed",
                 "cancelled", "rejected", "superseded", "needs_reprocessing"}
BY DEF SourceState, Rank

LEMMA InputStates == \A t \in Stages : InputState[t] \in SourceState
BY StageNames, StateNames DEF InputState

LEMMA TransitionTargets == \A s \in SourceState : Transitions[s] \subseteq SourceState
BY StateNames DEF Transitions, Withdrawn

LEMMA MovesStay ==
  ASSUME state \in SourceState, NEW to \in SourceState, NEW seen,
         MoveTo(seen, to) \/ Transition(seen, to) \/ MoveBackTo(seen, to)
  PROVE  state' \in SourceState
BY DEF MoveTo, Transition, MoveBackTo, Flushed

\* What a transaction loads is typed, and what it writes of the record is.
LEMMA SnapshotsTyped ==
  /\ Blank \in Snapshot
  /\ DocumentTypeOK => Now \in Snapshot
<1>1. 0 \in Generation /\ "uploaded" \in SourceState /\ NoRecord \in Record
  BY PipelineAssumption, StateNames DEF Generation, NoRecord, Record
<1>2. Blank \in Snapshot
  BY <1>1 DEF Blank, Snapshot
<1>3. DocumentTypeOK => Now \in Snapshot
  BY DEF DocumentTypeOK, Now, Snapshot
<1> QED
  BY <1>2, <1>3

LEMMA RecordWritten ==
  ASSUME record \in Record, NEW seen \in Snapshot, NEW new \in Record, new.status # "none", WriteRecord(seen, new)
  PROVE  /\ record' \in Record
         /\ (seen.record.status = "none") <=> (record.status = "none")
         /\ record'.allowed = Flushed(new.allowed, seen.record.allowed, record.allowed)
         /\ record'.profile \in {new.profile, record.profile}
         /\ record.status = "none" => record'.profile = Flushed(new.profile, seen.record.profile, record.profile)
         /\ record'.status # "none"
<1>1. /\ (seen.record.status = "none") = (record.status = "none")
      /\ record' = [status  |-> Flushed(new.status, seen.record.status, record.status),
                    allowed |-> Flushed(new.allowed, seen.record.allowed, record.allowed),
                    profile |-> Flushed(new.profile, seen.record.profile, record.profile)]
  BY DEF WriteRecord, RecordFits
<1>2. /\ Flushed(new.status, seen.record.status, record.status) \in {new.status, record.status}
      /\ Flushed(new.allowed, seen.record.allowed, record.allowed) \in {new.allowed, record.allowed}
      /\ Flushed(new.profile, seen.record.profile, record.profile) \in {new.profile, record.profile}
  BY DEF Flushed
<1>3. Flushed(new.status, seen.record.status, record.status) # "none"
  BY <1>1 DEF Flushed
<1> HIDE DEF Flushed
<1>4. record' \in Record
  BY <1>1, <1>2 DEF Record
<1> QED
  BY <1>1, <1>2, <1>3, <1>4

LEMMA EnqueuedTyped ==
  ASSUME NEW js \in [JobKinds -> JobRow], NEW t \in Stages
  PROVE  Enqueued(js, t) \in [JobKinds -> JobRow]
<1>1. NewJob \in JobRow
  BY DEF NewJob, JobRow
<1> QED
  BY <1>1 DEF Enqueued

LEMMA CancelledTyped ==
  ASSUME NEW js \in [JobKinds -> JobRow], NEW t \in Stages
  PROVE  CancelledFrom(js, t) \in [JobKinds -> JobRow]
<1> SUFFICES ASSUME NEW k \in JobKinds
             PROVE  (IF Rank[InputState[StageOf(k)]] < Rank[InputState[t]] THEN js[k]
                     ELSE CASE js[k].status = "queued" -> [js[k] EXCEPT !.status = "cancelled"]
                            [] js[k].status = "leased" -> [js[k] EXCEPT !.cancel = TRUE]
                            [] OTHER -> js[k]) \in JobRow
  BY DEF CancelledFrom
<1>1. js[k] \in JobRow
  OBVIOUS
<1>2. [js[k] EXCEPT !.status = "cancelled"] \in JobRow /\ [js[k] EXCEPT !.cancel = TRUE] \in JobRow
  BY <1>1 DEF JobRow
<1> QED
  BY <1>1, <1>2

LEMMA RerunTyped ==
  ASSUME state \in SourceState, job \in [JobKinds -> JobRow], NEW seen, NEW t \in Stages, RerunFrom(seen, t)
  PROVE  state' \in SourceState /\ job' \in [JobKinds -> JobRow]
<1>1. InputState[t] \in SourceState
  BY InputStates
<1>2. state' \in SourceState
  BY <1>1, MovesStay DEF RerunFrom
<1>3. job' \in [JobKinds -> JobRow]
  BY CancelledTyped, EnqueuedTyped DEF RerunFrom
<1> QED
  BY <1>2, <1>3

-----------------------------------------------------------------------------
(* The runs: a run moves on, loads, stops, is taken over or is claimed.    *)

ClaimedRun(k) == [Idle EXCEPT !.kind = k, !.pc = "claimed", !.live = TRUE]

RunMoves(w) ==
    \/ UNCHANGED run
    \/ \E pc \in {"finished", "refused", "raised"} : Goes(w, pc)
    \/ Load(w)
    \/ Stops(w)
    \/ \E k \in JobKinds : run' = TakenOver(k) \/ run' = [TakenOver(k) EXCEPT ![w] = ClaimedRun(k)]

LEMMA IdleTyped ==
  /\ Idle \in RunState /\ NoRequest \in RequestState
  /\ \A k \in JobKinds : ClaimedRun(k) \in RunState
<1>1. 0 \in Generation
  BY PipelineAssumption DEF Generation
<1>2. Idle \in RunState /\ NoRequest \in RequestState
  BY <1>1, StageNames, SnapshotsTyped DEF Idle, NoRequest, RunState, RequestState
<1> QED
  BY <1>2 DEF ClaimedRun, RunState

\* What such a move makes s of a run r: it starts no reading, a run that is busy
\* or has finished is about the job it was about, and one that writes has loaded
\* what is there, or what it had loaded.
StartsNothing(r, s) ==
    /\ s.pc \in Busy => r.pc \in Busy /\ s.read = r.read
    /\ s.pc \in Busy \cup {"finished"} => s.kind = r.kind
    /\ s.pc = "writing" => s.seen = Now \/ (r.pc = "writing" /\ s.seen = r.seen)

LEMMA RunMovesStartNothing ==
  ASSUME DocumentTypeOK, run \in [Workers -> RunState], NEW w \in Workers, RunMoves(w)
  PROVE  /\ run' \in [Workers -> RunState]
         /\ \A v \in Workers : StartsNothing(run[v], run'[v])
<1> DEFINE Kept(r, s) == s \in RunState /\ StartsNothing(r, s)
<1> USE DEF StartsNothing, Busy
<1>1. ASSUME DOMAIN run' = Workers, run' = [v \in Workers |-> run'[v]],
             \A v \in Workers : Kept(run[v], run'[v])
      PROVE  run' \in [Workers -> RunState] /\ \A v \in Workers : StartsNothing(run[v], run'[v])
  BY <1>1
<1>u. ASSUME NEW r \in RunState, run' = [run EXCEPT ![w] = r], StartsNothing(run[w], r)
      PROVE  run' \in [Workers -> RunState] /\ \A v \in Workers : StartsNothing(run[v], run'[v])
  BY <1>1, <1>u
<1>2. CASE UNCHANGED run
  BY <1>1, <1>2
<1>3. ASSUME NEW pc \in {"finished", "refused", "raised"}, Goes(w, pc)
      PROVE  run' \in [Workers -> RunState] /\ \A v \in Workers : StartsNothing(run[v], run'[v])
  <2> DEFINE r == [run[w] EXCEPT !.pc = pc, !.read = 0, !.seen = Blank]
  <2>1. 0 \in Generation /\ Blank \in Snapshot
    BY PipelineAssumption, SnapshotsTyped DEF Generation
  <2>2. r \in RunState /\ r.pc = pc /\ r.kind = run[w].kind
    BY <2>1 DEF RunState
  <2>3. run' = [run EXCEPT ![w] = r]
    BY <1>3 DEF Goes
  <2> QED
    BY <1>u, <2>2, <2>3
<1>l. CASE Load(w)
  <2> DEFINE r == [run[w] EXCEPT !.pc = "writing", !.read = run[w].read, !.seen = Now]
  <2>1. Now \in Snapshot
    BY SnapshotsTyped
  <2>2. r \in RunState /\ r.kind = run[w].kind /\ r.read = run[w].read /\ r.seen = Now
    BY <2>1 DEF RunState
  <2>3. run' = [run EXCEPT ![w] = r] /\ run[w].pc = "reading"
    BY <1>l DEF Load, Loads
  <2> HIDE DEF r
  <2> QED
    BY <1>u, <2>2, <2>3
<1>4. CASE Stops(w)
  <2>1. run' = [run EXCEPT ![w] = Idle] /\ Idle.pc = "idle"
    BY <1>4 DEF Stops, Idle
  <2> QED
    BY <1>1, <2>1, IdleTyped
<1>5. ASSUME NEW k \in JobKinds
      PROVE  /\ TakenOver(k) \in [Workers -> RunState]
             /\ \A v \in Workers : Kept(run[v], TakenOver(k)[v])
  <2>1. ASSUME NEW v \in Workers
        PROVE  Kept(run[v], IF v \in Holders(k) THEN [run[v] EXCEPT !.live = FALSE] ELSE run[v])
    <3>1. Kept(run[v], [run[v] EXCEPT !.live = FALSE])
      BY DEF RunState
    <3> QED
      BY <3>1
  <2> QED
    BY <2>1 DEF TakenOver
<1>6. ASSUME NEW k \in JobKinds, run' = TakenOver(k)
      PROVE  run' \in [Workers -> RunState] /\ \A v \in Workers : StartsNothing(run[v], run'[v])
  BY <1>1, <1>5, <1>6
<1>7. ASSUME NEW k \in JobKinds, run' = [TakenOver(k) EXCEPT ![w] = ClaimedRun(k)]
      PROVE  run' \in [Workers -> RunState] /\ \A v \in Workers : StartsNothing(run[v], run'[v])
  <2>1. ClaimedRun(k) \in RunState /\ ClaimedRun(k).pc = "claimed"
    BY IdleTyped DEF ClaimedRun, Idle
  <2>2. \A v \in Workers : Kept(run[v], run'[v])
    BY <1>5, <1>7, <2>1
  <2> QED
    BY <1>1, <1>5, <1>7, <2>1, <2>2
<1> QED
  BY <1>2, <1>3, <1>l, <1>4, <1>6, <1>7 DEF RunMoves

LEMMA RunMovesKeepReaders ==
  ASSUME DocumentTypeOK, run \in [Workers -> RunState], ReadersDecided, Settled \subseteq Settled',
         NEW w \in Workers, RunMoves(w)
  PROVE  run' \in [Workers -> RunState] /\ ReadersDecided'
<1>1. ASSUME NEW v \in Workers PROVE ReaderOK(run'[v], Settled')
  <2>1. ReaderOK(run[v], Settled) /\ StartsNothing(run[v], run'[v])
    BY RunMovesStartNothing DEF ReadersDecided
  <2> QED
    BY <2>1 DEF ReaderOK, StartsNothing
<1> QED
  BY <1>1, RunMovesStartNothing DEF ReadersDecided

-----------------------------------------------------------------------------
(* The columns of the source, the record and the generations.              *)

DocumentOK == /\ DocumentTypeOK /\ job \in [JobKinds -> JobRow]
              /\ ReadOnlyDecidedRegions

\* New regions under a record that no longer allows extraction, or left by an overlap.
LEMMA RegionsReplaced ==
  ASSUME DocumentTypeOK, ReadOnlyDecidedRegions, NEW seen \in Snapshot, NEW new \in Record,
         new.status # "none", ~new.allowed, ReplaceRegions(seen, new), UNCHANGED <<decided, structure, candidates>>
  PROVE  /\ record' \in Record /\ regions' \in Generation /\ late' \subseteq Generation
         /\ late \subseteq late'
         /\ seen # Now => regions' \in late'
         /\ seen = Now => ~record'.allowed
         /\ ReadOnlyDecidedRegions'
<1>1. record' \in Record /\ record'.allowed = Flushed(new.allowed, seen.record.allowed, record.allowed)
  BY RecordWritten DEF DocumentTypeOK, ReplaceRegions
<1>2. regions' \in Generation
  BY PipelineAssumption DEF ReplaceRegions, DocumentTypeOK, Generation
<1>3. late' = IF seen = Now THEN late ELSE late \cup {regions'}
  BY DEF ReplaceRegions
<1>4. seen = Now => ~record'.allowed
  <2> SUFFICES ASSUME seen = Now PROVE ~record'.allowed
    OBVIOUS
  <2>1. seen.record.allowed = record.allowed
    BY DEF Now
  <2>2. record.allowed \in BOOLEAN
    BY DEF DocumentTypeOK, Record
  <2> QED
    BY <1>1, <2>1, <2>2 DEF Flushed
<1> QED
  BY <1>1, <1>2, <1>3, <1>4 DEF DocumentTypeOK, ReadOnlyDecidedRegions

\* The stages write what they read, and what they read was decided on.
LEMMA StageEndsKeepDocument ==
  ASSUME PipelineInv, NEW w \in Workers, EndStage(w) \/ FailSource(w)
  PROVE  DocumentOK' /\ Settled \subseteq Settled'
<1> USE PipelineAssumption
<1>a. DocumentTypeOK /\ job \in [JobKinds -> JobRow] /\ ReadOnlyDecidedRegions /\ run \in [Workers -> RunState]
  BY PipelineTypeParts DEF PipelineInv
<1>b. \A seen : \A to \in SourceState : MoveTo(seen, to) \/ Transition(seen, to) => state' \in SourceState
  BY <1>a, MovesStay DEF DocumentTypeOK
<1>c. ReaderOK(run[w], Settled) /\ run[w].seen \in Snapshot
  BY <1>a DEF PipelineInv, ReadersDecided, RunState
<1>d. \A t \in Stages : done \cup {t} \subseteq Stages
  BY <1>a DEF DocumentTypeOK
<1>e. Settled \cup {0} \subseteq Generation
  BY <1>a DEF DocumentTypeOK, Generation, Settled
<1>f. UNCHANGED detected /\ overtaken' \in BOOLEAN
  BY <1>a DEF EndStage, EndInventory, EndTriage, EndParse, EndLocalise, EndGrid, EndExtract, EndValidate, Ends,
              LocaliseWithoutProfile, FailSource, Writes, DocumentTypeOK
<1>1. CASE EndInventory(w) \/ EndTriage(w) \/ EndParse(w) \/ EndValidate(w) \/ FailSource(w)
  <2>1. state' \in SourceState
    BY <1>1, <1>a, <1>b, StateNames DEF EndInventory, EndTriage, EndParse, EndValidate, FailSource, DocumentTypeOK
  <2>2. done' \subseteq Stages
    BY <1>1, <1>a, <1>d, StageNames
    DEF EndInventory, EndTriage, EndParse, EndValidate, Ends, FailSource, DocumentTypeOK
  <2>3. job' \in [JobKinds -> JobRow]
    BY <1>a, <1>1, StageNames, EnqueuedTyped DEF EndInventory, EndTriage, EndParse, EndValidate, FailSource
  <2>4. UNCHANGED <<profile, record, regions, decided, structure, candidates, late>>
    BY <1>1 DEF EndInventory, EndTriage, EndParse, EndValidate, Ends, FailSource
  <2> QED
    BY <1>a, <1>f, <2>1, <2>2, <2>3, <2>4 DEF DocumentOK, DocumentTypeOK, ReadOnlyDecidedRegions, Settled
<1>2. CASE EndLocalise(w) \/ LocaliseWithoutProfile(w)
  <2>1. state' \in SourceState
    BY <1>2, <1>b, StateNames DEF EndLocalise, LocaliseWithoutProfile
  <2>2. done' \subseteq Stages
    BY <1>2, <1>a, <1>d, StageNames DEF EndLocalise, LocaliseWithoutProfile, Ends, DocumentTypeOK
  <2>3. UNCHANGED <<profile, decided, structure, candidates, job>>
    BY <1>2 DEF EndLocalise, LocaliseWithoutProfile, Ends
  <2>4. \E new \in Record : new.status # "none" /\ ~new.allowed /\ ReplaceRegions(run[w].seen, new)
    <3>1. CASE EndLocalise(w)
      <4>1. run[w].read \in Profiles
        BY <1>c, <3>1 DEF EndLocalise, Ends, Writes, Unbound, ReaderOK, Busy
      <4>2. PICK status \in {"proposed", "ambiguous"} :
               ReplaceRegions(run[w].seen, [status |-> status, allowed |-> FALSE, profile |-> run[w].read])
        BY <3>1 DEF EndLocalise
      <4> QED
        BY <4>1, <4>2 DEF Record
    <3>2. CASE LocaliseWithoutProfile(w)
      BY <3>2 DEF LocaliseWithoutProfile, NoRecord, Record
    <3> QED
      BY <1>2, <3>1, <3>2
  <2>5. /\ record' \in Record /\ regions' \in Generation /\ late' \subseteq Generation
        /\ late \subseteq late' /\ ReadOnlyDecidedRegions'
    BY <1>a, <1>c, <2>3, <2>4, RegionsReplaced
  <2> QED
    BY <1>a, <1>f, <2>1, <2>2, <2>3, <2>5 DEF DocumentOK, DocumentTypeOK, Settled
<1>3. CASE EndGrid(w) \/ EndExtract(w)
  <2>1. state' \in SourceState /\ done' \subseteq Stages
    BY <1>3, <1>b, <1>d, StateNames, StageNames DEF EndGrid, EndExtract, Ends
  <2>2. run[w].read \in Settled \cup {0}
    BY <1>3, <1>c DEF EndGrid, EndExtract, Ends, Writes, ReaderOK, Busy
  <2>3. job' \in [JobKinds -> JobRow]
    BY <1>a, <1>3, StageNames, EnqueuedTyped DEF EndGrid, EndExtract
  <2>4. /\ UNCHANGED <<profile, record, regions, decided, late>>
        /\ structure' \in {structure, run[w].read} /\ candidates' \in {candidates, run[w].read}
    BY <1>3 DEF EndGrid, EndExtract, Ends
  <2> QED
    BY <1>a, <1>e, <1>f, <2>1, <2>2, <2>3, <2>4 DEF DocumentOK, DocumentTypeOK, ReadOnlyDecidedRegions, Settled
<1> QED
  BY <1>1, <1>2, <1>3 DEF EndStage

\* The rest of what workers do touches the jobs and the bound profile alone.
LEMMA QueueStepsKeepDocument ==
  ASSUME PipelineInv, NEW w \in Workers,
         \/ Skip(w) \/ Refuse(w) \/ Open(w) \/ BindDetected(w) \/ Load(w) \/ Raise(w) \/ Complete(w)
         \/ Fail(w) \/ StopAtCheckpoint(w) \/ Abandon(w) \/ Crash(w)
         \/ \E k \in JobKinds : Claim(w, k) \/ ClaimExhausted(k)
  PROVE  DocumentOK' /\ Settled \subseteq Settled'
<1>a. DocumentTypeOK /\ job \in [JobKinds -> JobRow] /\ ReadOnlyDecidedRegions /\ run \in [Workers -> RunState]
  BY PipelineTypeParts DEF PipelineInv
<1>0. CASE Open(w) \/ BindDetected(w) \/ Load(w)
  <2>1. profile' \in Profiles \cup {NoProfile} /\ overtaken' \in BOOLEAN
    BY <1>a, <1>0 DEF Open, Load, Loads, Reads, document, BindDetected, Writes, DocumentTypeOK
  <2>2. UNCHANGED <<state, done, detected, record, regions, decided, structure, candidates, late, job>>
    BY <1>0 DEF Open, Load, Loads, Reads, document, BindDetected, Writes
  <2> QED
    BY <1>a, <2>1, <2>2 DEF DocumentOK, DocumentTypeOK, ReadOnlyDecidedRegions, Settled
<1>q. CASE ~(Open(w) \/ BindDetected(w) \/ Load(w))
  <2>1. UNCHANGED document
    BY <1>q DEF Skip, Refuse, Raise, Complete, Fail, StopAtCheckpoint, Abandon, Crash, Claim, ClaimExhausted
  <2>2. run[w].kind \in JobKinds
    BY <1>a DEF RunState
  <2>3. \/ UNCHANGED job
        \/ \E k \in JobKinds, s \in {"queued", "leased", "succeeded", "failed", "cancelled"} : Settle(k, s)
    BY <1>q, <2>2 DEF Skip, Refuse, Raise, Complete, Fail, StopAtCheckpoint, Abandon, Crash, Claim, ClaimExhausted
  <2>4. job' \in [JobKinds -> JobRow]
    <3>1. ASSUME NEW k \in JobKinds, NEW s \in {"queued", "leased", "succeeded", "failed", "cancelled"}
          PROVE  [job[k] EXCEPT !.status = s] \in JobRow
      BY <1>a DEF JobRow
    <3> QED
      BY <1>a, <2>3, <3>1, ZenonT(60) DEF Settle
  <2> QED
    BY <1>a, <2>1, <2>4 DEF document, DocumentOK, DocumentTypeOK, ReadOnlyDecidedRegions, Settled
<1> QED
  BY <1>0, <1>q

\* A call decides on the regions it was shown or leaves its own, forgets the
\* record, or is late.
LEMMA CallsKeepDocument ==
  ASSUME PipelineInv, NEW u \in Users, Call(u)
  PROVE  DocumentOK' /\ Settled \subseteq Settled'
<1> USE PipelineAssumption
<1> DEFINE seen == request[u].seen
<1>a. /\ DocumentTypeOK /\ job \in [JobKinds -> JobRow] /\ ReadOnlyDecidedRegions
      /\ request \in [Users -> RequestState]
  BY PipelineTypeParts DEF PipelineInv
<1>s. seen \in Snapshot /\ seen.record \in Record /\ seen.regions \in Generation
  BY <1>a DEF RequestState, Snapshot
<1>o. UNCHANGED <<done, detected, structure, candidates>> /\ overtaken' \in BOOLEAN
  BY <1>a DEF Call, RerunStage, Reprocess, AssignProfile, Confirm, Correct, Annotate, Commits, DocumentTypeOK
<1> HIDE DEF seen
<1>b. ASSUME NEW t \in Stages, RerunFrom(seen, t) PROVE state' \in SourceState /\ job' \in [JobKinds -> JobRow]
  BY <1>a, <1>b, RerunTyped DEF DocumentTypeOK
<1>c. regions < MaxRegions => regions + 1 \in Generation
  BY <1>a DEF DocumentTypeOK, Generation
<1>d. NoRecord \in Record /\ ~NoRecord.allowed
  BY DEF NoRecord, Record
<1>g. "grid" \in Stages /\ "localise" \in Stages
  BY StageNames
<1>q. QueueGrid(seen) => state' \in SourceState /\ job' \in [JobKinds -> JobRow]
  <2> SUFFICES ASSUME QueueGrid(seen) PROVE state' \in SourceState /\ job' \in [JobKinds -> JobRow]
    OBVIOUS
  <2>1. state \in SourceState
    BY <1>a DEF DocumentTypeOK
  <2>2. \/ job' = Enqueued(job, "grid") /\ UNCHANGED state
        \/ RerunFrom(seen, "grid")
        \/ UNCHANGED <<state, job>>
    BY DEF QueueGrid
  <2> QED
    BY <1>a, <1>b, <1>g, <2>1, <2>2, EnqueuedTyped
<1>1. ASSUME NEW t \in Stages, RerunStage(u, t) PROVE DocumentOK' /\ Settled \subseteq Settled'
  <2>1. RerunFrom(seen, t) /\ UNCHANGED <<profile, record, regions, decided, late>>
    BY <1>1 DEF RerunStage, seen
  <2> QED
    BY <1>a, <1>b, <1>o, <2>1 DEF DocumentOK, DocumentTypeOK, ReadOnlyDecidedRegions, Settled
<1>2. CASE Reprocess(u)
  <2>0. Transition(seen, "uploaded") /\ UNCHANGED <<profile, record, regions, decided, late>>
    BY <1>2 DEF Reprocess, seen
  <2>1. state' \in SourceState
    BY <1>a, <2>0, MovesStay, StateNames DEF DocumentTypeOK
  <2>2. job' \in [JobKinds -> JobRow]
    BY <1>a, <1>2, StageNames DEF Reprocess, NewJob, JobRow
  <2> QED
    BY <1>a, <1>o, <2>0, <2>1, <2>2 DEF DocumentOK, DocumentTypeOK, ReadOnlyDecidedRegions, Settled
<1>3. ASSUME NEW p \in Profiles, AssignProfile(u, p) PROVE DocumentOK' /\ Settled \subseteq Settled'
  <2>1. UNCHANGED <<regions, decided, late>> /\ profile' = Flushed(p, seen.profile, profile)
    BY <1>3 DEF AssignProfile, seen
  <2>p. profile' \in Profiles \cup {NoProfile}
    BY <1>a, <2>1 DEF Flushed, DocumentTypeOK
  <2>2. CASE seen.state \in LocalisedOrLater
    <3>1. record' = NoRecord
      BY <1>3, <2>2 DEF AssignProfile, seen
    <3>2. \/ job' = Enqueued(job, "localise") /\ UNCHANGED state
          \/ RerunFrom(seen, "localise")
      BY <1>3, <2>2 DEF AssignProfile, seen
    <3>3. state' \in SourceState /\ job' \in [JobKinds -> JobRow]
      BY <1>a, <1>b, <1>g, <3>2, EnqueuedTyped DEF DocumentTypeOK
    <3> QED
      BY <1>a, <1>d, <1>o, <2>1, <2>p, <3>1, <3>3 DEF DocumentOK, DocumentTypeOK, ReadOnlyDecidedRegions, Settled
  <2>3. CASE seen.state \notin LocalisedOrLater
    <3>1. UNCHANGED <<state, record, job>>
      BY <1>3, <2>3 DEF AssignProfile, seen
    <3> QED
      BY <1>a, <1>o, <2>1, <2>p, <3>1 DEF DocumentOK, DocumentTypeOK, ReadOnlyDecidedRegions, Settled
  <2> QED
    BY <2>2, <2>3
<1>4. CASE Confirm(u) \/ Correct(u)
  <2>1. state' \in SourceState /\ job' \in [JobKinds -> JobRow]
    BY <1>4, <1>q DEF Confirm, Correct, seen
  <2>2. PICK s \in {"confirmed", "corrected"} : WriteRecord(seen, [seen.record EXCEPT !.status = s, !.allowed = TRUE])
    BY <1>4 DEF Confirm, Correct, seen
  <2>3. record' \in Record
    <3> DEFINE new == [seen.record EXCEPT !.status = s, !.allowed = TRUE]
    <3>1. new \in Record /\ new.status # "none"
      BY <1>s DEF Record
    <3> HIDE DEF new
    <3>2. WriteRecord(seen, new)
      BY <2>2 DEF new
    <3> QED
      BY <1>a, <1>s, <3>1, <3>2, RecordWritten DEF DocumentTypeOK
  <2>4. /\ regions' \in Generation /\ decided \subseteq decided' /\ decided' \subseteq Generation
        /\ late \subseteq late' /\ late' \subseteq Generation
        /\ regions' \in decided' \cup late'
    <3>1. CASE Confirm(u)
      <4>1. /\ UNCHANGED regions /\ decided' = decided \cup {seen.regions}
            /\ late' = IF seen.regions = regions THEN late ELSE late \cup {regions}
        BY <3>1 DEF Confirm, seen
      <4> QED
        BY <1>a, <1>s, <4>1 DEF DocumentTypeOK
    <3>2. CASE Correct(u)
      <4>1. regions' \in Generation /\ decided' = decided \cup {regions'} /\ UNCHANGED late
        BY <1>c, <3>2 DEF Correct
      <4> QED
        BY <1>a, <4>1 DEF DocumentTypeOK
    <3> QED
      BY <1>4, <3>1, <3>2
  <2>5. UNCHANGED profile
    BY <1>4 DEF Confirm, Correct
  <2> QED
    BY <1>a, <1>o, <2>1, <2>3, <2>4, <2>5 DEF DocumentOK, DocumentTypeOK, ReadOnlyDecidedRegions, Settled
<1>5. CASE Annotate(u)
  <2>1. RerunFrom(seen, "grid") \/ UNCHANGED <<state, job>>
    BY <1>5 DEF Annotate, seen
  <2>2. state' \in SourceState /\ job' \in [JobKinds -> JobRow]
    BY <1>a, <1>b, <1>g, <2>1 DEF DocumentTypeOK
  <2>3. /\ regions' \in Generation
        /\ decided' = IF seen.record.allowed THEN decided \cup {regions'} ELSE decided
        /\ late' = IF seen = Now THEN late ELSE late \cup {regions'}
    BY <1>c, <1>5 DEF Annotate, seen
  <2>4. UNCHANGED <<profile, record>>
    BY <1>5 DEF Annotate
  <2>5. seen = Now => seen.record = record
    BY DEF Now
  <2> QED
    BY <1>a, <1>o, <2>2, <2>3, <2>4, <2>5 DEF DocumentOK, DocumentTypeOK, ReadOnlyDecidedRegions, Settled
<1> QED
  BY <1>1, <1>2, <1>3, <1>4, <1>5 DEF Call

-----------------------------------------------------------------------------
(* The invariant.                                                          *)

LEMMA InitPipelineInv == Init => PipelineInv
<1> SUFFICES ASSUME Init PROVE PipelineInv
  OBVIOUS
<1> USE PipelineAssumption
<1>1. "uploaded" \in SourceState /\ 0 \in Generation /\ NoRecord \in Record
  BY StateNames DEF Generation, NoRecord, Record
<1>2. job \in [JobKinds -> JobRow]
  BY DEF Init, NewJob, NoJob, JobRow
<1>3. /\ run \in [Workers -> RunState] /\ \A w \in Workers : run[w] = Idle
      /\ request \in [Users -> RequestState]
  BY IdleTyped DEF Init
<1>o. overtaken \in BOOLEAN
  BY Zenon DEF Init
<1>4. DocumentTypeOK /\ BoundsOK
  BY <1>1, <1>o DEF Init, DocumentTypeOK, BoundsOK
<1>5. ReadersDecided
  BY <1>3 DEF ReadersDecided, ReaderOK, Idle, Busy
<1>6. ReadOnlyDecidedRegions
  BY DEF Init, ReadOnlyDecidedRegions, NoRecord
<1> QED
  BY <1>2, <1>3, <1>4, <1>5, <1>6, PipelineTypeParts DEF PipelineInv

Opening(w) == Open(w) \/ BindDetected(w)

ToRead(r, x) == [r EXCEPT !.pc = "reading", !.read = x]
Loaded(r, pc, x, seen) == [r EXCEPT !.pc = pc, !.read = x, !.seen = seen]

\* What stage t reads to work from, and whether it opens with its one transaction.
ReadBy(t) == CASE t = "localise" -> profile [] t = "grid" -> regions [] t = "extract" -> structure [] OTHER -> 0
AtOnce(t) == t = "validate" \/ (t = "localise" /\ profile = NoProfile)

\* The run s that a stage t starts, or a localise that has bound its profile.
StartedBy(w, s) ==
    \/ \E t \in Stages : /\ Opens(w, t) /\ s.read = ReadBy(t)
                         /\ s.pc = "writing" <=> AtOnce(t)
    \/ BindDetected(w) /\ s.pc = "reading" /\ s.read = detected

\* Opening a stage, or binding the profile it localises under, starts the
\* reading of one worker.
LEMMA OpeningStartsOne ==
  ASSUME PipelineInv, NEW w \in Workers, Opening(w)
  PROVE  \E s \in RunState : /\ run' = [run EXCEPT ![w] = s]
                             /\ s.kind = run[w].kind /\ s.pc \in Busy
                             /\ s.pc = "writing" => s.seen = Now
                             /\ StartedBy(w, s)
<1>a. DocumentTypeOK /\ run \in [Workers -> RunState] /\ run[w] \in RunState
  BY PipelineTypeParts DEF PipelineInv
<1>b. /\ {0, regions, structure} \subseteq Generation /\ {profile, detected} \subseteq Profiles \cup {NoProfile}
      /\ Now \in Snapshot /\ Blank \in Snapshot /\ run[w].seen \in Snapshot
  BY <1>a, PipelineAssumption, SnapshotsTyped DEF Generation, DocumentTypeOK, RunState
<1>c. \A t \in Stages : ReadBy(t) \in Generation \cup Profiles \cup {NoProfile}
  BY <1>b DEF ReadBy
<1>d. "reading" \in Busy /\ "writing" \in Busy
  BY DEF Busy
<1>r. ASSUME NEW x, Reads(w, x)
      PROVE  run' = [run EXCEPT ![w] = ToRead(run[w], x)]
  BY <1>r DEF Reads, ToRead
<1>l. ASSUME NEW x, Loads(w, x)
      PROVE  run' = [run EXCEPT ![w] = Loaded(run[w], "writing", x, Now)]
  BY <1>l DEF Loads, Loaded
<1>1. ASSUME NEW t \in Stages, Opens(w, t), Reads(w, ReadBy(t)), ~AtOnce(t)
      PROVE  \E s \in RunState : /\ run' = [run EXCEPT ![w] = s] /\ s.kind = run[w].kind /\ s.pc \in Busy
                                 /\ s.pc = "writing" => s.seen = Now
                                 /\ StartedBy(w, s)
  <2> DEFINE s == ToRead(run[w], ReadBy(t))
  <2>1. s \in RunState /\ s.kind = run[w].kind /\ s.pc = "reading" /\ s.read = ReadBy(t)
    BY <1>a, <1>b, <1>c DEF ToRead, Loaded, RunState
  <2>2. run' = [run EXCEPT ![w] = s]
    BY <1>1, <1>r
  <2> HIDE DEF s
  <2>3. StartedBy(w, s)
    BY <1>1, <2>1 DEF StartedBy
  <2> QED
    BY <1>d, <2>1, <2>2, <2>3
<1>2. ASSUME NEW t \in Stages, Opens(w, t), Loads(w, ReadBy(t)), AtOnce(t)
      PROVE  \E s \in RunState : /\ run' = [run EXCEPT ![w] = s] /\ s.kind = run[w].kind /\ s.pc \in Busy
                                 /\ s.pc = "writing" => s.seen = Now
                                 /\ StartedBy(w, s)
  <2> DEFINE s == Loaded(run[w], "writing", ReadBy(t), Now)
  <2>1. s \in RunState /\ s.kind = run[w].kind /\ s.pc = "writing" /\ s.read = ReadBy(t) /\ s.seen = Now
    BY <1>a, <1>b, <1>c DEF ToRead, Loaded, RunState
  <2>2. run' = [run EXCEPT ![w] = s]
    BY <1>2, <1>l
  <2> HIDE DEF s
  <2>3. StartedBy(w, s)
    BY <1>2, <2>1 DEF StartedBy
  <2> QED
    BY <1>d, <2>1, <2>2, <2>3
<1>3. CASE Open(w)
  <2>1. \E t \in Stages : /\ Opens(w, t)
                          /\ (Reads(w, ReadBy(t)) /\ ~AtOnce(t)) \/ (Loads(w, ReadBy(t)) /\ AtOnce(t))
    BY <1>3, StageNames DEF Open, ReadBy, AtOnce
  <2> QED
    BY <1>1, <1>2, <2>1
<1>4. CASE BindDetected(w)
  <2> DEFINE s == Loaded(run[w], "reading", detected, Blank)
  <2>1. s \in RunState /\ s.kind = run[w].kind /\ s.pc = "reading" /\ s.read = detected
    BY <1>a, <1>b DEF Loaded, RunState
  <2>2. run' = [run EXCEPT ![w] = s]
    BY <1>4 DEF BindDetected, Loaded
  <2> HIDE DEF s
  <2>3. StartedBy(w, s)
    BY <1>4, <2>1 DEF StartedBy
  <2> QED
    BY <1>d, <2>1, <2>2, <2>3
<1> QED
  BY <1>3, <1>4 DEF Opening

\* A stage that opens reads a generation that was decided on: the gate.
LEMMA OpeningsKeepReaders ==
  ASSUME PipelineInv, NEW w \in Workers, Opening(w)
  PROVE  run' \in [Workers -> RunState] /\ ReadersDecided'
<1>a. DocumentTypeOK /\ ReadOnlyDecidedRegions /\ run \in [Workers -> RunState]
  BY PipelineTypeParts DEF PipelineInv
<1>1. PICK s \in RunState : /\ run' = [run EXCEPT ![w] = s]
                            /\ s.kind = run[w].kind /\ StartedBy(w, s)
  BY OpeningStartsOne
<1>3. UNCHANGED <<decided, late>>
  BY DEF Opening, Open, Reads, Loads, document, BindDetected
<1>4. ReaderOK(s, Settled)
  <2>1. CASE BindDetected(w) /\ s.read = detected
    BY <1>a, <1>1, <2>1 DEF BindDetected, Writes, Unbound, ReaderOK, DocumentTypeOK
  <2>2. ASSUME NEW t \in Stages, Opens(w, t), s.read = ReadBy(t)
        PROVE  ReaderOK(s, Settled)
    <3>1. StageOf(s.kind) = t /\ (t = "grid" => record.allowed)
      BY <1>1, <2>2 DEF Opens, Accepts, Prepared
    <3> QED
      BY <1>a, <2>2, <3>1 DEF ReaderOK, ReadBy, DocumentTypeOK, ReadOnlyDecidedRegions, Settled
  <2> QED
    BY <1>1, <2>1, <2>2 DEF StartedBy
<1>5. run' \in [Workers -> RunState] /\ \A v \in Workers : run'[v] = IF v = w THEN s ELSE run[v]
  BY <1>a, <1>1
<1> QED
  BY <1>3, <1>4, <1>5 DEF PipelineInv, ReadersDecided, Settled

\* Only opening a stage starts to read.
Passes(w) ==
    \/ Skip(w) \/ Refuse(w) \/ Load(w) \/ EndStage(w) \/ FailSource(w) \/ Raise(w) \/ Complete(w)
    \/ Fail(w) \/ StopAtCheckpoint(w) \/ Abandon(w) \/ Crash(w)
    \/ \E k \in JobKinds : Claim(w, k) \/ ClaimExhausted(k)

LEMMA WorkerStepsMoveRuns ==
  ASSUME NEW w \in Workers, Passes(w)
  PROVE  RunMoves(w)
BY DEF Passes, RunMoves, Skip, Refuse, LocaliseWithoutProfile, EndStage, EndInventory, EndTriage,
       EndParse, EndLocalise, EndGrid, EndExtract, EndValidate, Ends, FailSource, Raise, Complete, Fail,
       StopAtCheckpoint, Abandon, Crash, Claim, ClaimExhausted, ClaimedRun

\* A step is one of a worker that opens a stage, or of one that passes on, or of
\* a user who asks or calls.
LEMMA StepCases ==
  ASSUME [Next]_vars
  PROVE  \/ \E w \in Workers : Opening(w) \/ Passes(w)
         \/ \E u \in Users : Ask(u) \/ Call(u)
         \/ UNCHANGED vars
BY DEF Next, Work, Opening, Passes, ClaimExhausted

\* What the calls load and leave of their requests.
LEMMA CallsTyped ==
  ASSUME DocumentTypeOK, request \in [Users -> RequestState], NEW u \in Users, Ask(u) \/ Call(u)
  PROVE  /\ request' \in [Users -> RequestState]
         /\ UNCHANGED run
         /\ \A v \in Users : request'[v].open => \/ request'[v] = request[v]
                                                 \/ Ask(u) /\ request'[v].seen = Now
<1>1. /\ [open |-> TRUE, seen |-> Now] \in RequestState
      /\ NoRequest \in RequestState /\ ~NoRequest.open
  BY SnapshotsTyped, IdleTyped DEF RequestState, NoRequest
<1>2. CASE Ask(u)
  BY <1>1, <1>2 DEF Ask
<1>3. CASE Call(u)
  BY <1>1, <1>3 DEF Call, RerunStage, Reprocess, AssignProfile, Confirm, Correct, Annotate, Commits
<1> QED
  BY <1>2, <1>3

\* Every step counts its fault or its call within the bound, or counts nothing.
LEMMA BoundsKept ==
  ASSUME BoundsOK, [Next]_vars
  PROVE  BoundsOK'
<1> USE PipelineAssumption
<1> DEFINE FaultCounted == UNCHANGED faults \/ (faults < MaxFaults /\ faults' = faults + 1)
<1>1. /\ UNCHANGED edits \/ (edits < MaxEdits /\ edits' = edits + 1)
      /\ FaultCounted
  <2>1. ASSUME NEW u \in Users, Ask(u) \/ Call(u)
        PROVE  (UNCHANGED edits \/ (edits < MaxEdits /\ edits' = edits + 1)) /\ UNCHANGED faults
    BY <2>1 DEF Ask, Call, RerunStage, Reprocess, AssignProfile, Confirm, Correct, Annotate, Commits
  <2>2. ASSUME NEW w \in Workers, Opening(w) \/ Passes(w)
        PROVE  UNCHANGED edits /\ FaultCounted
    BY <2>2 DEF Opening, Passes, Skip, Refuse, Open, Load, Loads, Reads, BindDetected, LocaliseWithoutProfile,
                EndStage, EndInventory, EndTriage, EndParse, EndLocalise, EndGrid, EndExtract, EndValidate, Ends,
                Writes, FailSource, Raise, Complete, Fail, StopAtCheckpoint, Abandon, CountFault, Crash, Claim,
                ClaimExhausted
  <2>3. CASE UNCHANGED vars
    BY <2>3 DEF vars
  <2> QED
    BY <2>1, <2>2, <2>3, StepCases
<1> QED
  BY <1>1 DEF BoundsOK

LEMMA NextPipelineInv == PipelineInv /\ [Next]_vars => PipelineInv'
<1> SUFFICES ASSUME PipelineInv, [Next]_vars PROVE PipelineInv'
  OBVIOUS
<1>a. /\ DocumentOK /\ BoundsOK /\ ReadersDecided
      /\ run \in [Workers -> RunState] /\ request \in [Users -> RequestState]
  BY PipelineTypeParts DEF PipelineInv, DocumentOK
<1>b. BoundsOK'
  BY <1>a, BoundsKept
<1>c. ASSUME DocumentOK', run' \in [Workers -> RunState], request' \in [Users -> RequestState], ReadersDecided'
      PROVE  PipelineInv'
  BY <1>b, <1>c DEF PipelineInv, PipelineTypeOK, DocumentOK, DocumentTypeOK, BoundsOK, RunState, RequestState
<1>1. ASSUME NEW w \in Workers, Opening(w)
      PROVE  PipelineInv'
  <2>1. DocumentOK' /\ UNCHANGED request
    BY <1>1, QueueStepsKeepDocument DEF Opening, Open, Reads, Loads, BindDetected, Writes
  <2> QED
    BY <1>1, <1>a, <1>c, <2>1, OpeningsKeepReaders
<1>2. ASSUME NEW w \in Workers, Passes(w)
      PROVE  PipelineInv'
  <2>1. RunMoves(w)
    BY <1>2, WorkerStepsMoveRuns
  <2>2. DocumentOK' /\ Settled \subseteq Settled'
    BY <1>2, StageEndsKeepDocument, QueueStepsKeepDocument DEF Passes
  <2>3. UNCHANGED request
    BY <1>2 DEF Passes, Skip, Refuse, Load, Loads, LocaliseWithoutProfile, EndStage, EndInventory, EndTriage,
                EndParse, EndLocalise, EndGrid, EndExtract, EndValidate, Ends, Writes, FailSource, Raise, Complete,
                Fail, StopAtCheckpoint, Abandon, Crash, Claim, ClaimExhausted
  <2> QED
    BY <1>a, <1>c, <2>1, <2>2, <2>3, RunMovesKeepReaders DEF DocumentOK
<1>3. ASSUME NEW u \in Users, Ask(u) \/ Call(u)
      PROVE  PipelineInv'
  <2>1. UNCHANGED run /\ request' \in [Users -> RequestState]
    BY <1>a, <1>3, CallsTyped DEF DocumentOK
  <2>2. DocumentOK' /\ Settled \subseteq Settled'
    <3>1. CASE Ask(u)
      BY <1>a, <3>1 DEF Ask, document, DocumentOK, DocumentTypeOK, ReadOnlyDecidedRegions, Settled
    <3> QED
      BY <1>3, <3>1, CallsKeepDocument
  <2>3. ReadersDecided'
    BY <1>a, <2>1, <2>2 DEF ReadersDecided, ReaderOK
  <2> QED
    BY <1>a, <1>c, <2>1, <2>2, <2>3
<1>4. CASE UNCHANGED vars
  BY <1>a, <1>4, <1>c DEF vars, DocumentOK, DocumentTypeOK, ReadOnlyDecidedRegions, ReadersDecided, Settled
<1> QED
  BY <1>1, <1>2, <1>3, <1>4, StepCases

-----------------------------------------------------------------------------

\* The columns of the source, its jobs and the runs are well typed.
THEOREM PipelineTypeCorrect == Spec => []PipelineTypeOK
<1>1. PipelineInv => PipelineTypeOK
  BY DEF PipelineInv
<1> QED
  BY InitPipelineInv, NextPipelineInv, <1>1, PTL DEF Spec

\* Whatever is re-run, corrected, re-bound, taken over or killed, no structure
\* is built and no fact is extracted from regions nobody decided on, but those
\* of a stage or a call that another one overtook.
THEOREM PipelineReadsOnlyDecidedRegions == Spec => []ReadOnlyDecidedRegions
<1>1. PipelineInv => ReadOnlyDecidedRegions
  BY DEF PipelineInv
<1> QED
  BY InitPipelineInv, NextPipelineInv, <1>1, PTL DEF Spec

-----------------------------------------------------------------------------
(* What reads, what has loaded and what has finished after a step, under   *)
(* any calls.                                                              *)

Reading(w, t) == run[w].pc \in Busy /\ StageOf(run[w].kind) = t

Finishes(w) == Skip(w) \/ EndStage(w)

\* Who asks or calls leaves the runs alone.
Leaves == (\E u \in Users : Ask(u) \/ Call(u)) \/ UNCHANGED vars

LEMMA LeavesRuns == Leaves => UNCHANGED run
BY DEF Leaves, Ask, Call, RerunStage, Reprocess, AssignProfile, Confirm, Correct, Annotate, Commits, vars

LEMMA ReadersStay ==
  ASSUME PipelineInv, (\E w \in Workers : Passes(w)) \/ Leaves, NEW v \in Workers
  PROVE  /\ \A t : Reading(v, t)' => Reading(v, t) /\ run'[v].read = run[v].read
         /\ run'[v].pc = "writing" => run'[v].seen = Now \/ (run[v].pc = "writing" /\ run'[v].seen = run[v].seen)
<1>a. DocumentTypeOK /\ run \in [Workers -> RunState]
  BY PipelineTypeParts DEF PipelineInv
<1>1. ASSUME NEW w \in Workers, Passes(w)
      PROVE  StartsNothing(run[v], run'[v])
  <2>1. RunMoves(w)
    BY <1>1, WorkerStepsMoveRuns
  <2> QED
    BY <1>a, <2>1, RunMovesStartNothing
<1>2. StartsNothing(run[v], run'[v]) \/ UNCHANGED run
  BY <1>1, LeavesRuns
<1> QED
  BY <1>2 DEF StartsNothing, Reading, Busy

LEMMA ReadersCome ==
  ASSUME PipelineInv, NEW w \in Workers, Opening(w), NEW v \in Workers
  PROVE  /\ \A t \in Stages : Reading(v, t)' =>
               \/ Reading(v, t) /\ run'[v].read = run[v].read /\ v # w
               \/ v = w /\ Opens(v, t) /\ run'[v].read = ReadBy(t)
               \/ v = w /\ BindDetected(v) /\ run'[v].read = detected /\ Reading(v, t) /\ t = "localise"
         /\ run'[v].pc = "writing" => run'[v].seen = Now \/ (run[v].pc = "writing" /\ run'[v].seen = run[v].seen)
         /\ run'[v].pc = "finished" => run'[v].kind = run[v].kind /\ run[v].pc = "finished"
<1>a. run \in [Workers -> RunState]
  BY PipelineTypeParts DEF PipelineInv
<1>1. PICK s \in RunState : /\ run' = [run EXCEPT ![w] = s]
                            /\ s.kind = run[w].kind /\ s.pc \in Busy
                            /\ s.pc = "writing" => s.seen = Now
                            /\ StartedBy(w, s)
  BY OpeningStartsOne
<1>2. CASE v = w
  <2>1. run'[v] = s
    BY <1>a, <1>1, <1>2
  <2>2. ASSUME NEW t \in Stages, Opens(w, t), s.read = ReadBy(t)
        PROVE  \A u \in Stages : Reading(v, u)' => Opens(v, u) /\ run'[v].read = ReadBy(u)
    BY <1>1, <1>2, <2>1, <2>2 DEF Reading, Opens
  <2>3. ASSUME BindDetected(w), s.read = detected
        PROVE  \A u \in Stages : Reading(v, u)' =>
                  BindDetected(v) /\ run'[v].read = detected /\ Reading(v, u) /\ u = "localise"
    BY <1>1, <1>2, <2>1, <2>3 DEF Reading, BindDetected, Unbound, Busy
  <2>4. \A t \in Stages : Reading(v, t)' =>
               \/ Opens(v, t) /\ run'[v].read = ReadBy(t)
               \/ BindDetected(v) /\ run'[v].read = detected /\ Reading(v, t) /\ t = "localise"
    BY <1>1, <2>2, <2>3 DEF StartedBy
  <2>5. s.pc # "finished"
    BY <1>1 DEF Busy
  <2> QED
    BY <1>1, <1>2, <2>1, <2>4, <2>5
<1>3. CASE v # w
  <2>1. run'[v] = run[v]
    BY <1>a, <1>1, <1>3
  <2> QED
    BY <1>3, <2>1 DEF Reading
<1> QED
  BY <1>2, <1>3

\* What a run or a request has loaded after a step is what was there, or what
\* it had loaded before.
LEMMA LoadsComeOfNow ==
  ASSUME PipelineInv, [Next]_vars
  PROVE  /\ \A v \in Workers : run'[v].pc = "writing" =>
                run'[v].seen = Now \/ (run[v].pc = "writing" /\ run'[v].seen = run[v].seen)
         /\ \A v \in Users : request'[v].open =>
                request'[v] = request[v] \/ (request'[v].seen = Now /\ \E u \in Users : Ask(u))
<1>a. DocumentTypeOK /\ request \in [Users -> RequestState]
  BY PipelineTypeParts DEF PipelineInv
<1>1. \A v \in Workers : run'[v].pc = "writing" =>
                run'[v].seen = Now \/ (run[v].pc = "writing" /\ run'[v].seen = run[v].seen)
  BY StepCases, ReadersStay, ReadersCome DEF Leaves
<1>2. ASSUME NEW w \in Workers, Opening(w) \/ Passes(w)
      PROVE  UNCHANGED request
  BY <1>2 DEF Opening, Open, Reads, Loads, BindDetected, Passes, Skip, Refuse, Load, LocaliseWithoutProfile, EndStage,
       EndInventory, EndTriage, EndParse, EndLocalise, EndGrid, EndExtract, EndValidate, Ends, Writes, FailSource,
       Raise, Complete, Fail, StopAtCheckpoint, Abandon, Crash, Claim, ClaimExhausted
<1>3. \A v \in Users : request'[v].open =>
                request'[v] = request[v] \/ (request'[v].seen = Now /\ \E u \in Users : Ask(u))
  BY <1>a, <1>2, StepCases, CallsTyped DEF vars
<1> QED
  BY <1>1, <1>3

LEMMA FinishersCome ==
  ASSUME PipelineInv, [Next]_vars, NEW v \in Workers, run'[v].pc = "finished"
  PROVE  /\ run'[v].kind = run[v].kind
         /\ run[v].pc = "finished" \/ Finishes(v)
<1>a. DocumentTypeOK /\ run \in [Workers -> RunState]
  BY PipelineTypeParts DEF PipelineInv
<1>1. ASSUME NEW w \in Workers, Opening(w)
      PROVE  run'[v].kind = run[v].kind /\ run[v].pc = "finished"
  BY <1>1, ReadersCome
<1>2. ASSUME NEW w \in Workers, Passes(w)
      PROVE  run'[v].kind = run[v].kind /\ (run[v].pc = "finished" \/ Finishes(v))
  <2>1. RunMoves(w)
    BY <1>2, WorkerStepsMoveRuns
  <2>2. run'[v].kind = run[v].kind
    BY <1>a, <2>1, RunMovesStartNothing DEF StartsNothing
  <2>3. ASSUME NEW k \in JobKinds, run' = TakenOver(k) \/ run' = [TakenOver(k) EXCEPT ![w] = ClaimedRun(k)]
        PROVE  run[v].pc = "finished"
    <3>1. TakenOver(k)[v].pc = run[v].pc
      BY <1>a DEF TakenOver, RunState
    <3>2. ClaimedRun(k).pc = "claimed" /\ TakenOver(k) = [u \in Workers |-> TakenOver(k)[u]]
      BY DEF ClaimedRun, Idle, TakenOver
    <3> QED
      BY <2>3, <3>1, <3>2
  <2>4. ASSUME ~Finishes(w)
        PROVE  run[v].pc = "finished"
    <3>1. \/ \E pc \in {"refused", "raised"} : Goes(w, pc)
          \/ Load(w)
          \/ Stops(w)
          \/ \E k \in JobKinds : run' = TakenOver(k) \/ run' = [TakenOver(k) EXCEPT ![w] = ClaimedRun(k)]
      BY <1>2, <2>4 DEF Passes, Finishes, Refuse, FailSource, Raise, Complete, Fail, StopAtCheckpoint,
                        Abandon, Crash, Claim, ClaimExhausted, ClaimedRun
    <3>2. ASSUME NEW r, run' = [run EXCEPT ![w] = r], r.pc # "finished"
          PROVE  run[v].pc = "finished"
      BY <1>a, <3>2
    <3>3. ASSUME NEW pc \in {"refused", "raised"}, Goes(w, pc)
          PROVE  run[v].pc = "finished"
      <4>1. [run[w] EXCEPT !.pc = pc, !.read = 0, !.seen = Blank].pc # "finished"
        BY <1>a DEF RunState
      <4> QED
        BY <3>2, <3>3, <4>1 DEF Goes
    <3>4. CASE Load(w)
      <4>1. [run[w] EXCEPT !.pc = "writing", !.read = run[w].read, !.seen = Now].pc # "finished"
        BY <1>a DEF RunState
      <4> QED
        BY <3>2, <3>4, <4>1 DEF Load, Loads
    <3>5. CASE Stops(w)
      BY <3>2, <3>5 DEF Stops, Idle
    <3> QED
      BY <2>3, <3>1, <3>3, <3>4, <3>5
  <2>5. ASSUME Finishes(w), v # w
        PROVE  run[v].pc = "finished"
    <3>1. Goes(w, "finished")
      BY <2>5 DEF Finishes, Skip, LocaliseWithoutProfile, EndStage, EndInventory, EndTriage,
                  EndParse, EndLocalise, EndGrid, EndExtract, EndValidate, Ends
    <3> QED
      BY <1>a, <2>5, <3>1 DEF Goes
  <2> QED
    BY <2>2, <2>4, <2>5
<1>3. Leaves => run'[v].kind = run[v].kind /\ run[v].pc = "finished"
  BY LeavesRuns
<1> QED
  BY <1>1, <1>2, <1>3, StepCases DEF Leaves

-----------------------------------------------------------------------------
(* The regions are frozen, under any calls.  It is the table of            *)
(* transitions that stops a stage, if what it loaded is what is there.     *)

LEMMA FrozenStates ==
  ASSUME state \in SourceState, Rank[state] \in Rank["extracted"] .. Rank["published"]
  PROVE  /\ state \in {"extracted", "validated", "awaiting_review", "published"}
         /\ "localised" \notin Transitions[state]
<1>1. state \in {"extracted", "validated", "awaiting_review", "published"}
  BY StateNames DEF Rank
<1> QED
  BY <1>1 DEF Transitions, Withdrawn

\* Whatever runs late or twice, is re-run, corrected or bound anew, regions from
\* which candidates were extracted stay as they are, unless a reviewer's decision
\* or a transaction that was overtaken replaces them.
THEOREM PipelineFreezesRegions == Spec => RegionsFrozenOnceExtracted
<1>1. ASSUME PipelineInv, [Next]_vars, Rank[state] \in Rank["extracted"] .. Rank["published"], regions' # regions
      PROVE  regions' \in decided' \cup late'
  <2>a. /\ state \in {"extracted", "validated", "awaiting_review", "published"}
        /\ "localised" \notin Transitions[state]
    BY <1>1, FrozenStates DEF PipelineInv, PipelineTypeOK
  <2>1. ASSUME NEW w \in Workers, EndLocalise(w) \/ LocaliseWithoutProfile(w)
        PROVE  regions' \in late'
    <3>1. /\ MoveTo(run[w].seen, "localised")
          /\ \E new : ReplaceRegions(run[w].seen, new)
      BY <2>1 DEF EndLocalise, LocaliseWithoutProfile
    <3>2. run[w].seen # Now
      BY <2>a, <3>1 DEF MoveTo, Transition, Now
    <3> QED
      BY <3>1, <3>2 DEF ReplaceRegions
  <2>2. ASSUME NEW w \in Workers, Opening(w) \/ Passes(w), ~EndLocalise(w), ~LocaliseWithoutProfile(w)
        PROVE  regions' = regions
    BY <2>2 DEF Opening, Open, Reads, Loads, BindDetected, Passes, Skip, Refuse, Load, EndStage,
       EndInventory, EndTriage, EndParse, EndGrid, EndExtract, EndValidate, FailSource, Raise,
       Complete, Fail, StopAtCheckpoint, Abandon, Crash, Claim, ClaimExhausted, document
  <2>3. ASSUME NEW u \in Users, Ask(u) \/ Call(u)
        PROVE  regions' \in decided' \cup late'
    <3>1. CASE Correct(u)
      BY <3>1 DEF Correct
    <3>2. CASE Annotate(u)
      <4>1. late' = IF request[u].seen = Now THEN late ELSE late \cup {regions'}
        BY <3>2 DEF Annotate
      <4>2. request[u].seen # Now
        BY <2>a, <3>2 DEF Annotate, Now
      <4> QED
        BY <4>1, <4>2
    <3>3. CASE ~Correct(u) /\ ~Annotate(u)
      BY <1>1, <2>3, <3>3 DEF Ask, Call, RerunStage, Reprocess, AssignProfile, Confirm, document
    <3> QED
      BY <3>1, <3>2, <3>3
  <2>4. CASE UNCHANGED vars
    BY <1>1, <2>4 DEF vars
  <2> QED
    BY <1>1, <2>1, <2>2, <2>3, <2>4, StepCases
<1> QED
  BY InitPipelineInv, NextPipelineInv, <1>1, PTL DEF Spec, RegionsFrozenOnceExtracted

-----------------------------------------------------------------------------
(* Under any calls but the assignment of a profile, a profile is bound at  *)
(* most once: what a run of localise has read is the profile of the source,*)
(* or the run found none and the headings name the one bound since; and a  *)
(* record made without one is of a source whose headings name none.        *)

\* A record that is not there names no profile.
UnmadeNamesNone(rec) == rec.status = "none" => rec.profile = NoProfile

LocalisesAsBound(r) == IF r.read = NoProfile THEN profile \in {NoProfile, detected} ELSE r.read = profile

BoundOnce ==
    /\ \A w \in Workers : Reading(w, "localise") => LocalisesAsBound(run[w])
    /\ record.status # "none" => record.profile = profile /\ (profile = NoProfile => detected = NoProfile)
    /\ UnmadeNamesNone(record)
    /\ \A w \in Workers : run[w].pc = "writing" => UnmadeNamesNone(run[w].seen.record)

\* What is made of a record under the profile read is under that profile.
LEMMA RecordMadeUnder ==
  ASSUME record \in Record, NEW seen \in Snapshot, NEW new \in Record, new.status # "none", WriteRecord(seen, new),
         UnmadeNamesNone(record), UnmadeNamesNone(seen.record), record.status # "none" => record.profile = new.profile
  PROVE  record'.profile = new.profile /\ record'.status # "none"
<1>1. /\ (seen.record.status = "none") <=> (record.status = "none")
      /\ record'.profile \in {new.profile, record.profile}
      /\ record.status = "none" => record'.profile = Flushed(new.profile, seen.record.profile, record.profile)
      /\ record'.status # "none"
  BY RecordWritten
<1> QED
  BY <1>1 DEF UnmadeNamesNone, Flushed

LEMMA NextBoundOnce ==
  ASSUME "profile" \notin Calls, PipelineInv, BoundOnce, [Next]_vars
  PROVE  BoundOnce'
<1>t. DocumentTypeOK /\ run \in [Workers -> RunState] /\ request \in [Users -> RequestState]
  BY PipelineTypeParts DEF PipelineInv
<1>s. ASSUME UnmadeNamesNone(record)
      PROVE  \A w \in Workers : run'[w].pc = "writing" => UnmadeNamesNone(run'[w].seen.record)
  BY <1>s, LoadsComeOfNow DEF BoundOnce, Now
<1>a. ASSUME UNCHANGED <<profile, detected>>, (\E w \in Workers : Passes(w)) \/ Leaves
      PROVE  \A v \in Workers : Reading(v, "localise")' => LocalisesAsBound(run[v])'
  BY <1>a, ReadersStay DEF BoundOnce, LocalisesAsBound
<1>b. ASSUME UNCHANGED <<profile, detected>>, record' = record, (\E w \in Workers : Passes(w)) \/ Leaves
      PROVE  BoundOnce'
  BY <1>a, <1>b, <1>s DEF BoundOnce, UnmadeNamesNone
<1>1. ASSUME NEW w \in Workers, Opening(w)
      PROVE  BoundOnce'
  <2>1. UNCHANGED <<record, detected>>
    BY <1>1 DEF Opening, Open, Reads, Loads, document, BindDetected, Writes
  <2>2. CASE BindDetected(w)
    <3>1. profile' = detected /\ detected # NoProfile /\ profile \in {NoProfile, detected}
      BY <2>2 DEF BindDetected, Unbound, Reading, Busy, BoundOnce, LocalisesAsBound
    <3>2. ASSUME NEW v \in Workers, Reading(v, "localise")'
          PROVE  LocalisesAsBound(run[v])'
      <4>1. \/ Reading(v, "localise") /\ run'[v].read = run[v].read
            \/ run'[v].read = detected
            \/ Opens(v, "localise") /\ v = w
        BY <1>1, <3>2, ReadersCome, StageNames
      <4>2. ~(Opens(v, "localise") /\ v = w)
        BY <2>2 DEF Opens, BindDetected, Unbound
      <4>3. CASE Reading(v, "localise") /\ run'[v].read = run[v].read
        BY <2>1, <3>1, <4>3 DEF BoundOnce, LocalisesAsBound
      <4>4. CASE run'[v].read = detected
        BY <2>1, <3>1, <4>4 DEF LocalisesAsBound
      <4> QED
        BY <4>1, <4>2, <4>3, <4>4
    <3>3. record.status # "none" => profile' = profile
      BY <3>1 DEF BoundOnce
    <3> QED
      BY <1>s, <2>1, <3>1, <3>2, <3>3 DEF BoundOnce, UnmadeNamesNone
  <2>3. CASE Open(w)
    <3>1. profile' = profile
      BY <2>3 DEF Open, Reads, Loads, document
    <3>2. ASSUME NEW v \in Workers, Reading(v, "localise")'
          PROVE  LocalisesAsBound(run[v])'
      <4>1. \/ Reading(v, "localise") /\ run'[v].read = run[v].read
            \/ run'[v].read = ReadBy("localise")
            \/ BindDetected(v) /\ v = w
        BY <1>1, <3>2, ReadersCome, StageNames
      <4>2. ~(BindDetected(v) /\ v = w)
        BY <2>3 DEF Open, Opens, BindDetected, Unbound
      <4>3. CASE Reading(v, "localise") /\ run'[v].read = run[v].read
        BY <2>1, <3>1, <4>3 DEF BoundOnce, LocalisesAsBound
      <4>4. CASE run'[v].read = ReadBy("localise")
        BY <2>1, <3>1, <4>4 DEF LocalisesAsBound, ReadBy
      <4> QED
        BY <4>1, <4>2, <4>3, <4>4
    <3> QED
      BY <1>s, <2>1, <3>1, <3>2 DEF BoundOnce, UnmadeNamesNone
  <2> QED
    BY <1>1, <2>2, <2>3 DEF Opening
<1>2. ASSUME NEW w \in Workers, LocaliseWithoutProfile(w) \/ EndLocalise(w)
      PROVE  BoundOnce'
  <2> DEFINE seen == run[w].seen
  <2>1. /\ UNCHANGED <<profile, detected>> /\ Passes(w)
        /\ Reading(w, "localise") /\ UnmadeNamesNone(seen.record) /\ seen \in Snapshot
    BY <1>2, <1>t DEF LocaliseWithoutProfile, EndLocalise, Ends, Writes, Passes, EndStage, Reading, Busy, BoundOnce, RunState
  <2>2. \E new \in Record : /\ new.status # "none" /\ WriteRecord(seen, new) /\ new.profile = profile
                            /\ profile = NoProfile => detected = NoProfile
    <3>1. CASE LocaliseWithoutProfile(w)
      <4>1. profile = NoProfile /\ detected = NoProfile
        BY <2>1, <3>1 DEF LocaliseWithoutProfile, Unbound, BoundOnce, LocalisesAsBound
      <4>2. [NoRecord EXCEPT !.status = "ambiguous"] \in Record /\ [NoRecord EXCEPT !.status = "ambiguous"].profile = NoProfile
            /\ [NoRecord EXCEPT !.status = "ambiguous"].status = "ambiguous"
        BY DEF NoRecord, Record
      <4>3. WriteRecord(seen, [NoRecord EXCEPT !.status = "ambiguous"])
        BY <3>1 DEF LocaliseWithoutProfile, ReplaceRegions
      <4> QED
        BY <4>1, <4>2, <4>3
    <3>2. CASE EndLocalise(w)
      <4>1. run[w].read = profile /\ profile # NoProfile
        BY <2>1, <3>2 DEF EndLocalise, Ends, Writes, Unbound, BoundOnce, LocalisesAsBound
      <4>2. PICK status \in {"proposed", "ambiguous"} :
               WriteRecord(seen, [status |-> status, allowed |-> FALSE, profile |-> run[w].read])
        BY <3>2 DEF EndLocalise, ReplaceRegions
      <4>3. [status |-> status, allowed |-> FALSE, profile |-> run[w].read] \in Record
        BY <1>t, <4>1 DEF Record, DocumentTypeOK
      <4> QED
        BY <4>1, <4>2, <4>3
    <3> QED
      BY <1>2, <3>1, <3>2
  <2> HIDE DEF seen
  <2>3. record'.profile = profile /\ record'.status # "none" /\ (profile = NoProfile => detected = NoProfile)
    BY <1>t, <2>1, <2>2, RecordMadeUnder DEF BoundOnce, DocumentTypeOK
  <2> QED
    BY <1>a, <1>s, <2>1, <2>3 DEF BoundOnce, UnmadeNamesNone
<1>3. ASSUME NEW w \in Workers, Passes(w), ~LocaliseWithoutProfile(w), ~EndLocalise(w)
      PROVE  UNCHANGED <<profile, detected>> /\ record' = record
  BY <1>3 DEF Passes, Skip, Refuse, Load, Loads, EndStage, EndInventory, EndTriage, EndParse, EndGrid, EndExtract,
     EndValidate, Ends, Writes, FailSource, Raise, Complete, Fail, StopAtCheckpoint, Abandon, Crash, Claim,
     ClaimExhausted, document
<1>4. ASSUME NEW u \in Users, Ask(u) \/ Call(u)
      PROVE  BoundOnce'
  <2> DEFINE seen == request[u].seen
  <2>1. UNCHANGED <<profile, detected>> /\ Leaves
    BY <1>4 DEF Leaves, Ask, document, Call, RerunStage, Reprocess, AssignProfile, Confirm, Correct, Annotate, Commits
  <2>2. \/ record' = record
        \/ \E s \in {"confirmed", "corrected"} :
              seen.record.status # "none" /\ WriteRecord(seen, [seen.record EXCEPT !.status = s, !.allowed = TRUE])
    <3>1. CASE Confirm(u)
      BY <3>1 DEF Confirm
    <3>2. CASE Correct(u)
      BY <3>2 DEF Correct
    <3>3. CASE ~Confirm(u) /\ ~Correct(u)
      BY <1>4, <3>3 DEF Ask, document, Call, RerunStage, Reprocess, AssignProfile, Annotate, Commits
    <3> QED
      BY <3>1, <3>2, <3>3
  <2>3. seen \in Snapshot /\ seen.record \in Record
    BY <1>t DEF RequestState, Snapshot
  <2> HIDE DEF seen
  <2>4. ASSUME NEW s \in {"confirmed", "corrected"}, seen.record.status # "none",
               WriteRecord(seen, [seen.record EXCEPT !.status = s, !.allowed = TRUE])
        PROVE  record'.profile = record.profile /\ record'.status # "none" /\ record.status # "none"
    <3> DEFINE new == [seen.record EXCEPT !.status = s, !.allowed = TRUE]
    <3>1. new \in Record /\ new.status # "none" /\ new.profile = seen.record.profile
      BY <2>3 DEF Record
    <3>2. WriteRecord(seen, new)
      BY <2>4
    <3> HIDE DEF new
    <3>3. record'.profile = Flushed(new.profile, seen.record.profile, record.profile)
      BY <3>2 DEF WriteRecord
    <3>4. record'.status # "none" /\ record.status # "none"
      BY <1>t, <2>3, <2>4, <3>1, <3>2, RecordWritten DEF DocumentTypeOK
    <3> QED
      BY <3>1, <3>3, <3>4 DEF Flushed
  <2>5. record' = record \/ (record'.profile = record.profile /\ record'.status # "none" /\ record.status # "none")
    BY <2>2, <2>4
  <2> QED
    BY <1>a, <1>b, <1>s, <2>1, <2>5 DEF BoundOnce, UnmadeNamesNone
<1>5. CASE UNCHANGED vars
  BY <1>5, <1>b DEF vars, Leaves
<1> QED
  BY <1>b, <1>1, <1>2, <1>3, <1>4, <1>5, StepCases

LEMMA InitBoundOnce == Init => BoundOnce
BY DEF Init, BoundOnce, Reading, Idle, Busy, NoRecord, UnmadeNamesNone

\* Unless a user assigns a profile, what was localised was localised under the
\* profile the source is bound to, at any time and not only at rest.
THEOREM PipelineLocalisesUnderProfile ==
  ASSUME "profile" \notin Calls
  PROVE  Spec => []LocalisedUnderBoundProfile
<1>1. BoundOnce => LocalisedUnderBoundProfile
  BY DEF BoundOnce, LocalisedUnderBoundProfile
<1>2. PipelineInv /\ BoundOnce /\ [Next]_vars => BoundOnce'
  BY NextBoundOnce
<1> QED
  BY InitPipelineInv, NextPipelineInv, InitBoundOnce, <1>1, <1>2, PTL DEF Spec

-----------------------------------------------------------------------------
(* Under any calls but a re-run of a stage and the assignment of a profile,*)
(* a source passes its stages in order: what a state says was done is in   *)
(* done, and as nothing done is undone, so is what a loaded state says.    *)
(* The one stage that moves a source without it is localise, where no      *)
(* profile is found; then no structure can be built.                       *)

Ahead == {"uploaded", "inventoried", "triaged", "parsed", "localised"}
Behind == {"gridded", "extracted", "awaiting_review"}
Ordinary == Ahead \cup Behind \cup {"failed"}

InOrder(s, stages, unnamed) ==
    /\ s \in Ordinary
    /\ s \notin {"uploaded", "failed"} => "inventory" \in stages
    /\ s \notin {"uploaded", "failed", "inventoried"} => "triage" \in stages
    /\ s \notin {"uploaded", "failed", "inventoried", "triaged"} => "parse" \in stages
    /\ s = "localised" => "localise" \in stages \/ unnamed
    /\ s \in Behind => {"localise", "grid"} \subseteq stages
    /\ s \in {"extracted", "awaiting_review"} => "extract" \in stages
    /\ s = "awaiting_review" => "validate" \in stages

Unnamed == profile = NoProfile /\ detected = NoProfile

StagesInOrder ==
    /\ InOrder(state, done, Unnamed)
    /\ \A w \in Workers : run[w].pc = "writing" => InOrder(run[w].seen.state, done, Unnamed)
    /\ \A u \in Users : request[u].open => InOrder(request[u].seen.state, done, Unnamed)
    /\ \A w \in Workers : Reading(w, "grid") => "localise" \in done

LEMMA OrderIsKept ==
  ASSUME NEW s, NEW stages, NEW more, stages \subseteq more, NEW u \in BOOLEAN, NEW v \in BOOLEAN, u => v,
         InOrder(s, stages, u)
  PROVE  InOrder(s, more, v)
BY DEF InOrder

\* Where a move of a source that is in order may come from.
LEMMA MovesInOrder ==
  ASSUME NEW seen, seen.state \in Ordinary
  PROVE  /\ Transition(seen, "uploaded") => seen.state = "failed"
         /\ Transition(seen, "inventoried") => seen.state = "uploaded"
         /\ MoveTo(seen, "triaged") => seen.state \in {"inventoried", "triaged"}
         /\ MoveTo(seen, "parsed") => seen.state \in {"triaged", "parsed"}
         /\ MoveTo(seen, "localised") => seen.state \in {"parsed", "localised"}
         /\ MoveTo(seen, "gridded") => seen.state \in {"localised", "gridded"}
         /\ MoveTo(seen, "extracted") => seen.state \in {"gridded", "extracted"}
         /\ \A to \in Ordinary : MoveTo(seen, to) => state' = to \/ (state' = state /\ seen.state = to)
BY DEF Ordinary, Ahead, Behind, MoveTo, Transition, Transitions, Withdrawn

\* A decision leaves the source, or takes a gridded one back to localised.
LEMMA DecisionsMove ==
  ASSUME NEW u \in Users, Confirm(u) \/ Correct(u) \/ Annotate(u)
  PROVE  state' = state \/ (request[u].seen.state = "gridded" /\ state' = "localised")
<1>1. RerunFrom(request[u].seen, "grid") => state' = Flushed("localised", request[u].seen.state, state)
  BY DEF RerunFrom, MoveBackTo, InputState
<1>2. \/ UNCHANGED state
      \/ request[u].seen.state = "gridded" /\ RerunFrom(request[u].seen, "grid")
  BY DEF Confirm, Correct, Annotate, QueueGrid
<1> QED
  BY <1>1, <1>2 DEF Flushed

\* What is loaded is in order, if what was there is.
LEMMA LoadsInOrder ==
  ASSUME PipelineInv, StagesInOrder, [Next]_vars, done \subseteq done', Unnamed => Unnamed',
         InOrder(state', done', Unnamed'),
         \A w \in Workers : Reading(w, "grid")' => Reading(w, "grid") \/ "localise" \in done'
  PROVE  StagesInOrder'
<1>1. InOrder(state, done', Unnamed') /\ Unnamed \in BOOLEAN /\ Unnamed' \in BOOLEAN
  BY OrderIsKept DEF StagesInOrder, Unnamed
<1>2. ASSUME NEW w \in Workers, run'[w].pc = "writing"
      PROVE  InOrder(run'[w].seen.state, done', Unnamed')
  <2>1. CASE run'[w].seen = Now
    BY <1>1, <2>1 DEF Now
  <2>2. CASE run[w].pc = "writing" /\ run'[w].seen = run[w].seen
    BY <1>1, <2>2, OrderIsKept DEF StagesInOrder
  <2> QED
    BY <1>2, <2>1, <2>2, LoadsComeOfNow
<1>3. ASSUME NEW u \in Users, request'[u].open
      PROVE  InOrder(request'[u].seen.state, done', Unnamed')
  <2>1. CASE request'[u].seen = Now
    BY <1>1, <2>1 DEF Now
  <2>2. CASE request'[u] = request[u]
    BY <1>1, <1>3, <2>2, OrderIsKept DEF StagesInOrder
  <2> QED
    BY <1>3, <2>1, <2>2, LoadsComeOfNow
<1> QED
  BY <1>2, <1>3 DEF StagesInOrder

LEMMA NextStagesInOrder ==
  ASSUME "rerun" \notin Calls, "profile" \notin Calls, PipelineInv, BoundOnce, StagesInOrder, [Next]_vars
  PROVE  StagesInOrder'
<1>t. /\ Unnamed \in BOOLEAN /\ Unnamed' \in BOOLEAN
  BY DEF Unnamed
<1>a. ASSUME (\E w \in Workers : Passes(w)) \/ Leaves
      PROVE  \A v \in Workers : Reading(v, "grid")' => Reading(v, "grid")
  BY <1>a, ReadersStay
<1>b. ASSUME UNCHANGED <<state, done, profile, detected>>, (\E w \in Workers : Passes(w)) \/ Leaves
      PROVE  StagesInOrder'
  BY <1>a, <1>b, <1>t, LoadsInOrder DEF StagesInOrder, Unnamed
<1>1. ASSUME NEW w \in Workers, Opening(w)
      PROVE  StagesInOrder'
  <2>1. UNCHANGED <<state, done, detected>>
    BY <1>1 DEF Opening, Open, Reads, Loads, document, BindDetected, Writes
  <2>2. Unnamed => Unnamed'
    BY <1>1 DEF Opening, Open, Reads, Loads, document, BindDetected, Writes, Unnamed
  <2>3. ASSUME NEW v \in Workers, Reading(v, "grid")'
        PROVE  Reading(v, "grid") \/ "localise" \in done'
    <3>1. CASE v = w /\ Opens(v, "grid")
      <4>1. state \in {"localised", "gridded", "needs_reprocessing"}
        BY <3>1 DEF Opens, Accepts, AcceptedStates
      <4>2. profile # NoProfile
        BY <1>1, <3>1 DEF Opening, Open, BindDetected, Unbound, Opens
      <4> QED
        BY <2>1, <4>1, <4>2 DEF StagesInOrder, InOrder, Ordinary, Ahead, Behind, Unnamed
    <3> QED
      BY <1>1, <2>3, <3>1, ReadersCome, StageNames
  <2> QED
    BY <1>t, <2>1, <2>2, <2>3, LoadsInOrder, OrderIsKept DEF StagesInOrder
<1>2. ASSUME NEW w \in Workers, EndStage(w) \/ FailSource(w)
      PROVE  StagesInOrder'
  <2> DEFINE seen == run[w].seen
  <2> USE DEF Ordinary, Ahead, Behind
  <2>1. /\ UNCHANGED <<profile, detected>> /\ done \subseteq done' /\ Passes(w)
        /\ InOrder(seen.state, done, Unnamed) /\ seen.state \in Ordinary
    BY <1>2 DEF EndStage, EndInventory, EndTriage, EndParse, EndLocalise, LocaliseWithoutProfile, EndGrid, EndExtract,
                EndValidate, FailSource, Ends, Writes, Passes, StagesInOrder, InOrder
  <2>2. ASSUME InOrder(state', done', Unnamed)
        PROVE  StagesInOrder'
    BY <1>a, <2>1, <2>2, LoadsInOrder DEF Unnamed
  <2>3. InOrder(state, done', Unnamed) /\ InOrder(seen.state, done', Unnamed)
    BY <1>t, <2>1, OrderIsKept DEF StagesInOrder
  <2> HIDE DEF seen
  <2>4. CASE EndInventory(w)
    <3>1. state' = "inventoried" /\ "inventory" \in done'
      BY <2>4 DEF EndInventory, Ends, Transition
    <3> QED
      BY <2>2, <3>1 DEF InOrder
  <2>5. CASE EndTriage(w)
    <3>1. /\ seen.state \in {"inventoried", "triaged"} /\ state' \in {state, "triaged"}
          /\ "triage" \in done'
      BY <2>1, <2>5, MovesInOrder DEF EndTriage, Ends, seen
    <3> QED
      BY <2>2, <2>3, <3>1 DEF InOrder
  <2>6. CASE EndParse(w)
    <3>1. /\ seen.state \in {"triaged", "parsed"} /\ state' \in {state, "parsed"}
          /\ "parse" \in done'
      BY <2>1, <2>6, MovesInOrder DEF EndParse, Ends, seen
    <3> QED
      BY <2>2, <2>3, <3>1 DEF InOrder
  <2>7. CASE EndLocalise(w)
    <3>1. /\ seen.state \in {"parsed", "localised"} /\ state' \in {state, "localised"}
          /\ "localise" \in done'
      BY <2>1, <2>7, MovesInOrder DEF EndLocalise, Ends, seen
    <3> QED
      BY <2>2, <2>3, <3>1 DEF InOrder
  <2>8. CASE LocaliseWithoutProfile(w)
    <3>1. seen.state \in {"parsed", "localised"} /\ state' \in {state, "localised"}
      BY <2>1, <2>8, MovesInOrder DEF LocaliseWithoutProfile, seen
    <3>2. Unnamed
      BY <2>8 DEF LocaliseWithoutProfile, Unbound, Reading, Busy, BoundOnce, LocalisesAsBound, Unnamed
    <3> QED
      BY <2>2, <2>3, <3>1, <3>2 DEF InOrder
  <2>9. CASE EndGrid(w)
    <3>1. /\ seen.state \in {"localised", "gridded"} /\ state' \in {state, "gridded"}
          /\ "grid" \in done'
      BY <2>1, <2>9, MovesInOrder DEF EndGrid, Ends, seen
    <3>2. "localise" \in done'
      BY <2>1, <2>9 DEF EndGrid, Ends, Writes, Reading, Busy, StagesInOrder
    <3> QED
      BY <2>2, <2>3, <3>1, <3>2 DEF InOrder
  <2>10. CASE EndExtract(w)
    <3>1. /\ seen.state \in {"gridded", "extracted"} /\ state' \in {state, "extracted"}
          /\ "extract" \in done'
      BY <2>1, <2>10, MovesInOrder DEF EndExtract, Ends, seen
    <3> QED
      BY <2>2, <2>3, <3>1 DEF InOrder
  <2>11. CASE EndValidate(w)
    <3>1. /\ "validate" \in done'
          /\ \/ seen.state = "extracted" /\ state' = "awaiting_review"
             \/ state' = state
      BY <2>1, <2>11 DEF EndValidate, Ends, seen
    <3> QED
      BY <2>2, <2>3, <3>1 DEF InOrder
  <2>12. CASE FailSource(w)
    <3>1. state' = "failed"
      BY <2>12 DEF FailSource, Transition
    <3> QED
      BY <2>2, <3>1 DEF InOrder
  <2> QED
    BY <1>2, <2>4, <2>5, <2>6, <2>7, <2>8, <2>9, <2>10, <2>11, <2>12 DEF EndStage
<1>3. ASSUME NEW w \in Workers, Passes(w), ~EndStage(w), ~FailSource(w)
      PROVE  UNCHANGED <<state, done, profile, detected>>
  BY <1>3 DEF Passes, Skip, Refuse, Load, Loads, Raise, Complete, Fail, StopAtCheckpoint, Abandon, Crash, Claim,
              ClaimExhausted, document
<1>4. ASSUME NEW u \in Users, Ask(u) \/ Call(u)
      PROVE  StagesInOrder'
  <2>1. UNCHANGED <<done, profile, detected>> /\ Leaves
    BY <1>4 DEF Leaves, Ask, document, Call, RerunStage, Reprocess, AssignProfile, Confirm, Correct, Annotate, Commits
  <2>2. \/ state' = state \/ state' = "uploaded"
        \/ state' = "localised" /\ request[u].seen.state = "gridded" /\ request[u].open
    <3>1. CASE Confirm(u) \/ Correct(u) \/ Annotate(u)
      BY <3>1, DecisionsMove DEF Confirm, Correct, Annotate, Commits
    <3>2. CASE ~(Confirm(u) \/ Correct(u) \/ Annotate(u))
      BY <1>4, <3>2 DEF Ask, document, Call, RerunStage, Reprocess, AssignProfile, Commits, Transition
    <3> QED
      BY <3>1, <3>2
  <2>3. InOrder(state', done, Unnamed)
    BY <2>2 DEF StagesInOrder, InOrder, Ordinary, Ahead, Behind
  <2> QED
    BY <1>a, <1>t, <2>1, <2>3, LoadsInOrder DEF Unnamed
<1>5. CASE UNCHANGED vars
  BY <1>5, <1>b DEF vars, Leaves
<1> QED
  BY <1>b, <1>1, <1>2, <1>3, <1>4, <1>5, StepCases

LEMMA InitStagesInOrder == Init => StagesInOrder
BY DEF Init, StagesInOrder, InOrder, Ordinary, Ahead, Reading, Idle, NoRequest, Busy, Behind

LEMMA OrderedSourceWasRead ==
  ASSUME PipelineInv, StagesInOrder
  PROVE  AwaitingReviewWasRead
<1> SUFFICES ASSUME state = "awaiting_review" PROVE done = Stages
  BY DEF AwaitingReviewWasRead
<1>1. done \subseteq Stages
  BY DEF PipelineInv, PipelineTypeOK
<1>2. {"inventory", "triage", "parse"} \subseteq done
  BY DEF StagesInOrder, InOrder
<1>3. {"localise", "grid", "extract", "validate"} \subseteq done
  BY DEF StagesInOrder, InOrder, Behind
<1> QED
  BY <1>1, <1>2, <1>3, StageNames

\* Unless a user has a stage run again or assigns a profile, nothing is put before
\* the reviewers that did not pass every stage, whatever else they call and
\* whichever transactions overlap.
THEOREM PipelinePassesEveryStage ==
  ASSUME "rerun" \notin Calls, "profile" \notin Calls
  PROVE  Spec => []AwaitingReviewWasRead
<1>1. PipelineInv /\ StagesInOrder => AwaitingReviewWasRead
  BY OrderedSourceWasRead
<1>2. PipelineInv /\ BoundOnce /\ StagesInOrder /\ [Next]_vars => StagesInOrder'
  BY NextStagesInOrder
<1>3. PipelineInv /\ BoundOnce /\ [Next]_vars => BoundOnce'
  BY NextBoundOnce
<1> QED
  BY InitPipelineInv, NextPipelineInv, InitBoundOnce, InitStagesInOrder, <1>1, <1>2, <1>3, PTL DEF Spec

-----------------------------------------------------------------------------
(* Up to the second decision, where the calls are decisions and no commit  *)
(* came after the source had moved.  With one decision the source never    *)
(* goes back, so that the generation a reader has is the present one, or   *)
(* the regions were proposed anew and nothing is allowed any more, or an   *)
(* overlap left them; and each stage that ended well has moved the source  *)
(* on and queued the next.                                                 *)

OneDecisionCalls == {"confirm", "correct"}

\* Before the decision nothing is allowed, read or built past the regions.
Undecided ==
    /\ state \in Ahead \cup {"failed"}
    /\ ~record.allowed
    /\ \A w \in Workers : ~Reading(w, "grid")

\* x is of the present regions, unless an overlap left these.
Current(x) == regions \in late \/ x = regions

\* What a stage past the checkpoint has read is the present regions, unless they
\* were proposed anew; past the structure they are the ones it was built from.
ReadingIsCurrent ==
    /\ record.status # "none" => state \in {"localised", "failed"} \cup Behind
    /\ record.allowed => record.status # "none"
    /\ \A w \in Workers : Reading(w, "grid") =>
          /\ state \in {"localised", "failed"} \cup Behind
          /\ record.allowed => Current(run[w].read)
    /\ \A w \in Workers : Reading(w, "extract") =>
          /\ state \in {"failed"} \cup Behind
          /\ record.allowed /\ Current(run[w].read) /\ Current(structure)
    /\ \A w \in Workers : Reading(w, "validate") => state \in {"extracted", "awaiting_review", "failed"}
    /\ state = "gridded" /\ record.allowed => Current(structure)
    /\ state \in {"extracted", "awaiting_review"} =>
          Current(structure) /\ Current(candidates) /\ record.allowed

\* A source in state s is past stage t.
Past(s, t) == Rank[s] > Rank[InputState[t]]

\* A stage that ended well has moved the source on, and the stage the source
\* waits for has a job.
ChainHolds ==
    /\ \A k \in JobKinds : ~job[k].cancel /\ job[k].status # "cancelled"
    /\ \A k \in JobKinds : job[k].status = "succeeded" => Past(state, StageOf(k))
    /\ \A w \in Workers : run[w].pc = "finished" => Past(state, StageOf(run[w].kind))
    /\ \A t \in Stages : InputState[t] = state /\ (t = "grid" => record.allowed) => job[t].status # "none"

DecidedOnce ==
    /\ state \in Ordinary
    /\ edits = 0 => Undecided
    /\ ReadingIsCurrent
    /\ ChainHolds

LEMMA StageRanks ==
  /\ \A s \in SourceState : Rank[s] \in Nat
  /\ Rank["uploaded"] = 0 /\ Rank["inventoried"] = 1 /\ Rank["triaged"] = 2 /\ Rank["parsed"] = 3
  /\ Rank["localised"] = 4 /\ Rank["gridded"] = 5 /\ Rank["extracted"] = 6
  /\ Rank["awaiting_review"] = 8 /\ Rank["failed"] = 10
BY StateNames DEF Rank

LEMMA InputOf ==
  /\ InputState["inventory"] = "uploaded" /\ InputState["triage"] = "inventoried"
  /\ InputState["parse"] = "triaged" /\ InputState["localise"] = "parsed"
  /\ InputState["grid"] = "localised" /\ InputState["extract"] = "gridded"
  /\ InputState["validate"] = "extracted"
BY DEF InputState

\* A commit that was not overtaken moves the source from the state it loaded.
LEMMA CommitsFromNow ==
  ASSUME NEW w \in Workers, EndStage(w) \/ FailSource(w), ~overtaken'
  PROVE  /\ run[w].seen.state = state /\ run[w].pc = "writing" /\ ~overtaken
         /\ \A to : MoveTo(run[w].seen, to) => state' = to /\ (state = to \/ Transition(run[w].seen, to))
BY DEF EndStage, EndInventory, EndTriage, EndParse, EndLocalise, LocaliseWithoutProfile, EndGrid, EndExtract,
       EndValidate, FailSource, Ends, Writes, MoveTo, Transition

\* The jobs after a stage or a call has queued one.
LEMMA EnqueuedJob ==
  ASSUME job \in [JobKinds -> JobRow], NEW t \in Stages, job' = Enqueued(job, t)
  PROVE  /\ \A k \in JobKinds : job'[k] = job[k] \/ job'[k] = NewJob
         /\ t # "inventory" => job'[t].status # "none"
<1>1. \A k \in JobKinds : job'[k] = job[k] \/ job'[k] = NewJob
  BY DEF Enqueued
<1>2. ASSUME t # "inventory"
      PROVE  job'[t].status # "none"
  <2>1. CASE \E k \in JobKinds : StageOf(k) = t /\ IsLive(job[k])
    <3>1. \A k \in JobKinds : StageOf(k) = t => k = t
      BY <1>2 DEF StageOf
    <3> QED
      BY <2>1, <3>1 DEF Enqueued, IsLive
  <2>2. CASE ~\E k \in JobKinds : StageOf(k) = t /\ IsLive(job[k])
    <3>1. t \in JobKinds
      BY DEF JobKinds
    <3> QED
      BY <2>2, <3>1 DEF Enqueued, NewJob
  <2> QED
    BY <2>1, <2>2
<1> QED
  BY <1>1, <1>2

\* Where the end of a stage that was not overtaken takes the source.
LEMMA EndsMove ==
  ASSUME NEW w \in Workers, state \in Ordinary, ~overtaken', EndStage(w)
  PROVE  /\ EndInventory(w) => state = "uploaded" /\ state' = "inventoried"
         /\ EndTriage(w) => state \in {"inventoried", "triaged"} /\ state' = "triaged"
         /\ EndParse(w) => state \in {"triaged", "parsed"} /\ state' = "parsed"
         /\ EndLocalise(w) \/ LocaliseWithoutProfile(w) => state \in {"parsed", "localised"} /\ state' = "localised"
         /\ EndGrid(w) => state \in {"localised", "gridded"} /\ state' = "gridded"
         /\ EndExtract(w) => state \in {"gridded", "extracted"} /\ state' = "extracted"
         /\ EndValidate(w) => IF state = "extracted" THEN state' = "awaiting_review" ELSE state' = state
<1> DEFINE seen == run[w].seen
<1>1. seen.state = state /\ \A to : MoveTo(seen, to) => state' = to
  BY CommitsFromNow
<1> HIDE DEF seen
<1>2. /\ EndInventory(w) => Transition(seen, "inventoried")
      /\ EndTriage(w) => MoveTo(seen, "triaged")
      /\ EndParse(w) => MoveTo(seen, "parsed")
      /\ EndLocalise(w) \/ LocaliseWithoutProfile(w) => MoveTo(seen, "localised")
      /\ EndGrid(w) => MoveTo(seen, "gridded")
      /\ EndExtract(w) => MoveTo(seen, "extracted")
  BY DEF seen, EndInventory, EndTriage, EndParse, EndLocalise, LocaliseWithoutProfile, EndGrid, EndExtract
<1>3. EndInventory(w) => state' = "inventoried"
  BY <1>2 DEF Transition
<1>4. EndValidate(w) => IF state = "extracted" THEN state' = "awaiting_review" ELSE state' = state
  BY <1>1 DEF EndValidate, seen, Ordinary, Ahead, Behind
<1> QED
  BY <1>1, <1>2, <1>3, <1>4, MovesInOrder

\* Whoever finishes in a step leaves the source past its stage.
LEMMA FinishersArePast ==
  ASSUME PipelineInv, state \in Ordinary, ReadingIsCurrent, ~overtaken', NEW w \in Workers, Finishes(w)
  PROVE  Past(state', StageOf(run[w].kind))
<1> USE StageRanks, InputOf DEF Past
<1>1. CASE Skip(w)
  <2>1. state' = state /\ AlreadyDone(StageOf(run[w].kind)) /\ StageOf(run[w].kind) \in Stages
    BY <1>1, StageNames, PipelineTypeParts DEF Skip, document, PipelineInv, RunState
  <2> QED
    BY <2>1, StageNames DEF AlreadyDone
<1>2. CASE EndStage(w)
  <2>1. /\ EndInventory(w) => state' = "inventoried" /\ StageOf(run[w].kind) = "inventory"
        /\ EndTriage(w) => state' = "triaged" /\ StageOf(run[w].kind) = "triage"
        /\ EndParse(w) => state' = "parsed" /\ StageOf(run[w].kind) = "parse"
    BY <1>2, EndsMove DEF EndInventory, EndTriage, EndParse, Ends, Writes
  <2>2. /\ EndLocalise(w) \/ LocaliseWithoutProfile(w) => state' = "localised" /\ StageOf(run[w].kind) = "localise"
        /\ EndGrid(w) => state' = "gridded" /\ StageOf(run[w].kind) = "grid"
        /\ EndExtract(w) => state' = "extracted" /\ StageOf(run[w].kind) = "extract"
    BY <1>2, EndsMove DEF EndLocalise, LocaliseWithoutProfile, EndGrid, EndExtract, Ends, Writes
  <2>3. EndValidate(w) => state' \in {"awaiting_review", "failed"} /\ StageOf(run[w].kind) = "validate"
    <3>1. EndValidate(w) => Reading(w, "validate")
      BY DEF EndValidate, Ends, Writes, Reading, Busy
    <3>2. EndValidate(w) => state \in {"extracted", "awaiting_review", "failed"}
      BY <3>1 DEF ReadingIsCurrent
    <3> QED
      BY <1>2, <3>1, <3>2, EndsMove DEF Reading
  <2> QED
    BY <1>2, <2>1, <2>2, <2>3 DEF EndStage
<1> QED
  BY <1>1, <1>2 DEF Finishes

\* A step that moves the source on or leaves it, and queues jobs or none, keeps
\* the first three parts of the chain.
LEMMA OnwardKeepsChain ==
  ASSUME PipelineInv, ChainHolds, [Next]_vars, state' \in SourceState, Rank[state'] >= Rank[state],
         \A k \in JobKinds : job'[k] = job[k] \/ job'[k] = NewJob, state \in Ordinary, ReadingIsCurrent, ~overtaken'
  PROVE  /\ \A k \in JobKinds : ~job'[k].cancel /\ job'[k].status # "cancelled"
         /\ \A k \in JobKinds : job'[k].status = "succeeded" => Past(state', StageOf(k))
         /\ \A w \in Workers : run'[w].pc = "finished" => Past(state', StageOf(run[w].kind)) /\ run'[w].kind = run[w].kind
<1>a. state \in SourceState /\ run \in [Workers -> RunState]
  BY PipelineTypeParts DEF PipelineInv, DocumentTypeOK
<1>b. \A t \in Stages : Past(state, t) => Past(state', t)
  <2> SUFFICES ASSUME NEW t \in Stages, Past(state, t) PROVE Past(state', t)
    OBVIOUS
  <2>1. Rank[InputState[t]] \in Nat /\ Rank[state] \in Nat /\ Rank[state'] \in Nat
    BY <1>a, StageRanks, InputStates
  <2> QED
    BY <2>1 DEF Past
<1>1. \A k \in JobKinds : ~job'[k].cancel /\ job'[k].status # "cancelled"
  BY DEF ChainHolds, NewJob
<1>2. \A k \in JobKinds : job'[k].status = "succeeded" => Past(state', StageOf(k))
  BY <1>b, StageNames DEF ChainHolds, NewJob
<1>3. ASSUME NEW w \in Workers, run'[w].pc = "finished"
      PROVE  Past(state', StageOf(run[w].kind)) /\ run'[w].kind = run[w].kind
  <2>1. StageOf(run[w].kind) \in Stages
    BY <1>a, StageNames DEF RunState
  <2>2. run'[w].kind = run[w].kind /\ (run[w].pc = "finished" \/ Finishes(w))
    BY <1>3, FinishersCome
  <2> QED
    BY <1>b, <2>1, <2>2, FinishersArePast DEF ChainHolds
<1> QED
  BY <1>1, <1>2, <1>3

\* Steps that leave the source alone.
LEMMA QueueStepsKeepDecision ==
  ASSUME PipelineInv, DecidedOnce, NEW w \in Workers, Passes(w), [Next]_vars,
         ~EndStage(w), ~FailSource(w), ~overtaken'
  PROVE  DecidedOnce'
<1>a. run \in [Workers -> RunState] /\ job \in [JobKinds -> JobRow] /\ state \in SourceState
  BY PipelineTypeParts DEF PipelineInv, DocumentTypeOK
<1>k. run[w].kind \in JobKinds /\ StageOf(run[w].kind) \in Stages
  BY <1>a, StageNames DEF RunState
<1>1. UNCHANGED document /\ UNCHANGED edits
  BY DEF Passes, Skip, Refuse, Load, Loads, Raise, Complete, Fail, StopAtCheckpoint, Abandon, Crash, Claim, ClaimExhausted
<1>2. \A v \in Workers : \A t : Reading(v, t)' => Reading(v, t) /\ run'[v].read = run[v].read
  BY ReadersStay
<1>3. state' \in Ordinary /\ (edits' = 0 => Undecided')
  BY <1>1, <1>2 DEF DecidedOnce, Undecided, document
<1>4. ReadingIsCurrent'
  BY <1>1, <1>2 DEF DecidedOnce, ReadingIsCurrent, Current, document
<1>5. ~StopAtCheckpoint(w)
  BY <1>k DEF StopAtCheckpoint, DecidedOnce, ChainHolds
<1>6. \/ UNCHANGED job
      \/ \E k \in JobKinds, s \in {"queued", "leased", "failed"} : Settle(k, s)
      \/ Settle(run[w].kind, "succeeded") /\ Past(state, StageOf(run[w].kind))
  BY <1>5, <1>k DEF Passes, Skip, Refuse, Load, Loads, Raise, Complete, Fail, Abandon, Crash, Claim, ClaimExhausted,
                    DecidedOnce, ChainHolds
<1>7. /\ \A k \in JobKinds : job'[k].status = job[k].status \/ job'[k].status \in {"queued", "leased", "failed"}
                               \/ (job'[k].status = "succeeded" /\ Past(state, StageOf(k)))
      /\ \A k \in JobKinds : job'[k].cancel = job[k].cancel
  <2>1. ASSUME NEW k \in JobKinds, NEW s, Settle(k, s)
        PROVE  /\ job'[k].status = s
               /\ \A h \in JobKinds : h # k => job'[h] = job[h]
               /\ \A h \in JobKinds : job'[h].cancel = job[h].cancel
    <3>1. job' = [job EXCEPT ![k] = [job[k] EXCEPT !.status = s]]
      BY <2>1 DEF Settle
    <3>2. [job[k] EXCEPT !.status = s].status = s /\ [job[k] EXCEPT !.status = s].cancel = job[k].cancel
      BY <1>a DEF JobRow
    <3> QED
      BY <1>a, <3>1, <3>2
  <2> QED
    BY <1>6, <1>k, <2>1
<1>8. \A v \in Workers : run'[v].pc = "finished" => Past(state, StageOf(run'[v].kind))
  <2> SUFFICES ASSUME NEW v \in Workers, run'[v].pc = "finished"
               PROVE  Past(state, StageOf(run'[v].kind))
    OBVIOUS
  <2>1. run'[v].kind = run[v].kind /\ (run[v].pc = "finished" \/ Finishes(v))
    BY FinishersCome
  <2>2. state' = state
    BY <1>1 DEF document
  <2> QED
    BY <2>1, <2>2, FinishersArePast DEF DecidedOnce, ChainHolds
<1>9. ChainHolds'
  <2>1. state' = state /\ record' = record
    BY <1>1 DEF document
  <2>2. \A k \in JobKinds : ~job'[k].cancel /\ job'[k].status # "cancelled"
    BY <1>7 DEF DecidedOnce, ChainHolds
  <2>3. \A k \in JobKinds : job'[k].status = "succeeded" => Past(state', StageOf(k))
    BY <1>7, <2>1 DEF DecidedOnce, ChainHolds
  <2>4. \A t \in Stages : InputState[t] = state' /\ (t = "grid" => record'.allowed) => job'[t].status # "none"
    BY <1>7, <2>1, StageNames DEF DecidedOnce, ChainHolds
  <2> QED
    BY <1>8, <2>1, <2>2, <2>3, <2>4 DEF ChainHolds
<1> QED
  BY <1>3, <1>4, <1>9 DEF DecidedOnce

\* A stage opens: it may only read what the decision left.
LEMMA OpeningsKeepDecision ==
  ASSUME PipelineInv, DecidedOnce, NEW w \in Workers, Opening(w), [Next]_vars
  PROVE  DecidedOnce'
<1> USE DEF Ordinary, Ahead, Behind
<1>1. UNCHANGED <<state, record, regions, structure, candidates, late, job, edits>>
  BY DEF Opening, Open, Reads, Loads, BindDetected, Writes, document
<1>2. \A v \in Workers : \A t \in {"grid", "extract", "validate"} : Reading(v, t)' =>
        \/ Reading(v, t) /\ run'[v].read = run[v].read
        \/ Opens(v, t) /\ run'[v].read = ReadBy(t)
  BY ReadersCome, StageNames
<1>3. \A v \in Workers : Opens(v, "grid") => record.allowed /\ state \in {"localised", "gridded"}
  BY DEF Opens, Accepts, AcceptedStates, Prepared, DecidedOnce
<1>4. \A v \in Workers : Opens(v, "extract") => record.allowed /\ state \in {"gridded", "extracted"}
  BY DEF Opens, Accepts, AcceptedStates, Prepared, DecidedOnce
<1>v. \A v \in Workers : Opens(v, "validate") => state \in {"extracted", "awaiting_review"}
  BY DEF Opens, Accepts, AcceptedStates, DecidedOnce
<1>5. edits' = 0 => Undecided'
  BY <1>1, <1>2, <1>3 DEF DecidedOnce, Undecided
<1>6. ReadingIsCurrent'
  <2>1. \A v \in Workers : Reading(v, "grid")' =>
          /\ state' \in {"localised", "failed"} \cup Behind
          /\ record'.allowed => Current(run[v].read)'
    BY <1>1, <1>2, <1>3 DEF DecidedOnce, ReadingIsCurrent, Current, ReadBy
  <2>2. \A v \in Workers : Reading(v, "extract")' =>
          /\ state' \in {"failed"} \cup Behind
          /\ record'.allowed /\ Current(run[v].read)' /\ Current(structure)'
    BY <1>1, <1>2, <1>4 DEF DecidedOnce, ReadingIsCurrent, Current, ReadBy
  <2>3. \A v \in Workers : Reading(v, "validate")' => state' \in {"extracted", "awaiting_review", "failed"}
    BY <1>1, <1>2, <1>v DEF DecidedOnce, ReadingIsCurrent
  <2> QED
    BY <1>1, <2>1, <2>2, <2>3 DEF DecidedOnce, ReadingIsCurrent, Current
<1>7. ChainHolds'
  <2>1. \A v \in Workers : run'[v].pc = "finished" => run[v].pc = "finished" /\ run'[v].kind = run[v].kind
    BY ReadersCome
  <2> QED
    BY <1>1, <2>1 DEF DecidedOnce, ChainHolds
<1> QED
  BY <1>1, <1>5, <1>6, <1>7 DEF DecidedOnce

\* New regions: what was allowed is not any more, or they are known to be late.
LEMMA RegionsOpenAgain ==
  ASSUME PipelineInv, NEW w \in Workers, EndLocalise(w) \/ LocaliseWithoutProfile(w)
  PROVE  /\ regions' \in late' \/ ~record'.allowed
         /\ ~record.allowed => ~record'.allowed
         /\ record'.status # "none"
<1> DEFINE seen == run[w].seen
<1>a. DocumentTypeOK /\ ReadOnlyDecidedRegions /\ run \in [Workers -> RunState] /\ ReaderOK(run[w], Settled)
  BY PipelineTypeParts DEF PipelineInv, ReadersDecided
<1>1. seen \in Snapshot /\ UNCHANGED <<decided, structure, candidates>>
  BY <1>a DEF RunState, EndLocalise, LocaliseWithoutProfile
<1>2. \E new \in Record : new.status # "none" /\ ~new.allowed /\ new.allowed \in BOOLEAN /\ ReplaceRegions(seen, new)
  <2>1. CASE EndLocalise(w)
    <3>1. run[w].read \in Profiles
      BY <1>a, <2>1 DEF EndLocalise, Ends, Writes, Unbound, ReaderOK, Busy
    <3>2. PICK status \in {"proposed", "ambiguous"} :
             ReplaceRegions(seen, [status |-> status, allowed |-> FALSE, profile |-> run[w].read])
      BY <2>1 DEF EndLocalise
    <3> QED
      BY <3>1, <3>2 DEF Record
  <2>2. CASE LocaliseWithoutProfile(w)
    BY <2>2 DEF LocaliseWithoutProfile, NoRecord, Record
  <2> QED
    BY <2>1, <2>2
<1> HIDE DEF seen
<1>3. PICK new \in Record : new.status # "none" /\ ~new.allowed /\ ReplaceRegions(seen, new)
  BY <1>2
<1>4. (seen # Now => regions' \in late') /\ (seen = Now => ~record'.allowed)
  BY <1>a, <1>1, <1>3, RegionsReplaced
<1>5. /\ record'.allowed = Flushed(new.allowed, seen.record.allowed, record.allowed)
      /\ record'.status # "none"
  BY <1>a, <1>1, <1>3, RecordWritten DEF ReplaceRegions, DocumentTypeOK
<1>6. Flushed(new.allowed, seen.record.allowed, record.allowed) \in {new.allowed, record.allowed}
  BY DEF Flushed
<1> QED
  BY <1>3, <1>4, <1>5, <1>6

\* The last transaction of a stage, or of one that failed the source.
LEMMA EndsKeepDecision ==
  ASSUME PipelineInv, DecidedOnce, NEW w \in Workers, EndStage(w) \/ FailSource(w), [Next]_vars, ~overtaken'
  PROVE  DecidedOnce'
<1> USE DEF Ordinary, Ahead, Behind
<1>a. job \in [JobKinds -> JobRow] /\ run \in [Workers -> RunState]
  BY PipelineTypeParts DEF PipelineInv
<1>b. Passes(w)
  BY DEF Passes
<1>c. \A v \in Workers : \A t : Reading(v, t)' => Reading(v, t) /\ run'[v].read = run[v].read
  BY <1>b, ReadersStay
<1>d. UNCHANGED edits
  BY DEF EndStage, EndInventory, EndTriage, EndParse, EndLocalise, LocaliseWithoutProfile, EndGrid, EndExtract,
         EndValidate, Ends, Writes, FailSource
<1>e. state \in Ordinary /\ ReadingIsCurrent /\ ChainHolds
  BY DEF DecidedOnce
<1>m. EndStage(w) =>
         /\ EndInventory(w) => state = "uploaded" /\ state' = "inventoried"
         /\ EndTriage(w) => state \in {"inventoried", "triaged"} /\ state' = "triaged"
         /\ EndParse(w) => state \in {"triaged", "parsed"} /\ state' = "parsed"
         /\ EndLocalise(w) \/ LocaliseWithoutProfile(w) => state \in {"parsed", "localised"} /\ state' = "localised"
         /\ EndGrid(w) => state \in {"localised", "gridded"} /\ state' = "gridded"
         /\ EndExtract(w) => state \in {"gridded", "extracted"} /\ state' = "extracted"
         /\ EndValidate(w) => IF state = "extracted" THEN state' = "awaiting_review" ELSE state' = state
  BY <1>e, EndsMove
<1>f. ASSUME NEW to \in Ordinary, state' = to, Rank[to] >= Rank[state],
             \/ UNCHANGED job /\ \A t \in Stages : InputState[t] = to => to = "localised" /\ ~record'.allowed
             \/ UNCHANGED <<state, job>> /\ (record'.allowed => record.allowed)
             \/ \E t \in Stages \ {"inventory"} : job' = Enqueued(job, t) /\ InputState[t] = to
      PROVE  ChainHolds'
  <2>1. \A k \in JobKinds : job'[k] = job[k] \/ job'[k] = NewJob
    BY <1>a, <1>f, EnqueuedJob
  <2>2. /\ \A k \in JobKinds : ~job'[k].cancel /\ job'[k].status # "cancelled"
        /\ \A k \in JobKinds : job'[k].status = "succeeded" => Past(state', StageOf(k))
        /\ \A v \in Workers : run'[v].pc = "finished" => Past(state', StageOf(run[v].kind)) /\ run'[v].kind = run[v].kind
    BY <1>e, <1>f, <2>1, OnwardKeepsChain, StateNames
  <2>3. \A t \in Stages : InputState[t] = state' /\ (t = "grid" => record'.allowed) => job'[t].status # "none"
    <3> SUFFICES ASSUME NEW t \in Stages, InputState[t] = state', t = "grid" => record'.allowed
                 PROVE  job'[t].status # "none"
      OBVIOUS
    <3>1. \A u \in Stages : InputState[u] = InputState[t] => u = t
      BY StageNames, InputOf
    <3>2. CASE UNCHANGED job /\ \A u \in Stages : InputState[u] = to => to = "localised" /\ ~record'.allowed
      BY <1>f, <3>1, <3>2, StageNames, InputOf
    <3>3. ASSUME NEW u \in Stages \ {"inventory"}, job' = Enqueued(job, u), InputState[u] = to
          PROVE  job'[t].status # "none"
      <4>1. u = t
        BY <1>f, <3>1, <3>3
      <4> QED
        BY <1>a, <3>3, <4>1, EnqueuedJob
    <3>4. CASE UNCHANGED <<state, job>> /\ (record'.allowed => record.allowed)
      BY <1>e, <3>4 DEF ChainHolds
    <3> QED
      BY <1>f, <3>2, <3>3, <3>4
  <2> QED
    BY <2>2, <2>3 DEF ChainHolds
<1>1. CASE EndInventory(w) \/ EndTriage(w) \/ EndParse(w)
  <2>1. /\ state \in {"uploaded", "inventoried", "triaged", "parsed"} /\ state' \in {"inventoried", "triaged", "parsed"}
        /\ Rank[state'] >= Rank[state]
        /\ \E t \in {"triage", "parse", "localise"} : job' = Enqueued(job, t) /\ InputState[t] = state'
    <3>1. CASE EndInventory(w)
      <4>1. state = "uploaded" /\ state' = "inventoried" /\ job' = Enqueued(job, "triage")
        BY <1>m, <3>1 DEF EndStage, EndInventory
      <4> QED
        BY <4>1, StageRanks, InputOf
    <3>2. CASE EndTriage(w)
      <4>1. state \in {"inventoried", "triaged"} /\ state' = "triaged" /\ job' = Enqueued(job, "parse")
        BY <1>m, <3>2 DEF EndStage, EndTriage
      <4> QED
        BY <4>1, StageRanks, InputOf
    <3>3. CASE EndParse(w)
      <4>1. state \in {"triaged", "parsed"} /\ state' = "parsed" /\ job' = Enqueued(job, "localise")
        BY <1>m, <3>3 DEF EndStage, EndParse
      <4> QED
        BY <4>1, StageRanks, InputOf
    <3> QED
      BY <1>1, <3>1, <3>2, <3>3
  <2>2. UNCHANGED <<record, regions, structure, candidates, late>>
    BY <1>1 DEF EndInventory, EndTriage, EndParse
  <2>3. ChainHolds'
    BY <1>f, <2>1, StageNames
  <2>4. ReadingIsCurrent' /\ (edits' = 0 => Undecided')
    BY <1>c, <1>d, <1>e, <2>1, <2>2 DEF DecidedOnce, ReadingIsCurrent, Current, Undecided
  <2> QED
    BY <2>1, <2>3, <2>4 DEF DecidedOnce
<1>2. CASE EndLocalise(w) \/ LocaliseWithoutProfile(w)
  <2>1. state \in {"parsed", "localised"} /\ state' = "localised" /\ UNCHANGED <<job, structure, candidates>>
    BY <1>m, <1>2 DEF EndStage, EndLocalise, LocaliseWithoutProfile
  <2>2. /\ regions' \in late' \/ ~record'.allowed
        /\ ~record.allowed => ~record'.allowed
        /\ record'.status # "none"
    BY <1>2, RegionsOpenAgain
  <2>3. Rank[state'] >= Rank[state]
    BY <2>1, StageRanks
  <2>4. ChainHolds'
    <3>1. CASE ~record'.allowed
      BY <1>f, <2>1, <2>3, <3>1
    <3>2. CASE record'.allowed
      <4>1. state = state'
        BY <1>e, <2>1, <2>2, <3>2 DEF ReadingIsCurrent
      <4> QED
        BY <1>f, <2>1, <2>2, <2>3, <3>2, <4>1
    <3> QED
      BY <3>1, <3>2
  <2>5. ReadingIsCurrent'
    <3>1. \A v \in Workers : Reading(v, "grid")' => (record'.allowed => Current(run[v].read)')
      BY <2>2 DEF Current
    <3>2. \A v \in Workers : ~Reading(v, "extract") /\ ~Reading(v, "validate")
      BY <1>e, <2>1 DEF ReadingIsCurrent
    <3> QED
      BY <1>c, <2>1, <2>2, <3>1, <3>2 DEF ReadingIsCurrent
  <2>6. edits' = 0 => Undecided'
    BY <1>c, <1>d, <2>1, <2>2 DEF DecidedOnce, Undecided
  <2> QED
    BY <2>1, <2>4, <2>5, <2>6 DEF DecidedOnce
<1>3. CASE EndGrid(w)
  <2>1. state \in {"localised", "gridded"} /\ state' = "gridded" /\ job' = Enqueued(job, "extract")
    BY <1>m, <1>3 DEF EndStage, EndGrid
  <2>2. Reading(w, "grid") /\ structure' = run[w].read /\ UNCHANGED <<record, regions, candidates, late>>
    BY <1>3 DEF EndGrid, Ends, Writes, Reading, Busy
  <2>3. ChainHolds'
    BY <1>f, <2>1, StageRanks, InputOf, StageNames
  <2>4. edits # 0 /\ (record.allowed => Current(structure)')
    BY <1>e, <2>2 DEF DecidedOnce, Undecided, ReadingIsCurrent, Current
  <2>5. ReadingIsCurrent'
    BY <1>c, <1>e, <2>1, <2>2, <2>4 DEF ReadingIsCurrent, Current
  <2> QED
    BY <1>d, <2>1, <2>3, <2>4, <2>5 DEF DecidedOnce
<1>4. CASE EndExtract(w)
  <2>1. state \in {"gridded", "extracted"} /\ state' = "extracted" /\ job' = Enqueued(job, "validate")
    BY <1>m, <1>4 DEF EndStage, EndExtract
  <2>2. Reading(w, "extract") /\ candidates' = run[w].read /\ UNCHANGED <<record, regions, structure, late>>
    BY <1>4 DEF EndExtract, Ends, Writes, Reading, Busy
  <2>3. ChainHolds'
    BY <1>f, <2>1, StageRanks, InputOf, StageNames
  <2>4. edits # 0 /\ record.allowed /\ Current(structure)' /\ Current(candidates)'
    BY <1>e, <2>1, <2>2 DEF DecidedOnce, Undecided, ReadingIsCurrent, Current
  <2>5. ReadingIsCurrent'
    BY <1>c, <1>e, <2>1, <2>2, <2>4 DEF ReadingIsCurrent, Current
  <2> QED
    BY <1>d, <2>1, <2>3, <2>4, <2>5 DEF DecidedOnce
<1>5. CASE EndValidate(w)
  <2>1. Reading(w, "validate") /\ UNCHANGED <<record, regions, structure, candidates, late, job>>
    BY <1>5 DEF EndValidate, Ends, Writes, Reading, Busy
  <2>2. \/ state \in {"extracted", "awaiting_review"} /\ state' = "awaiting_review"
        \/ state = "failed" /\ state' = "failed"
    BY <1>e, <1>m, <1>5, <2>1 DEF EndStage, ReadingIsCurrent
  <2>3. ChainHolds'
    BY <1>f, <2>1, <2>2, StageRanks, InputOf, StageNames
  <2>4. ReadingIsCurrent' /\ (edits' = 0 => Undecided')
    BY <1>c, <1>d, <1>e, <2>1, <2>2 DEF ReadingIsCurrent, Current, DecidedOnce, Undecided
  <2> QED
    BY <2>2, <2>3, <2>4 DEF DecidedOnce
<1>6. CASE FailSource(w)
  <2>1. state' = "failed" /\ UNCHANGED <<record, regions, structure, candidates, late, job>>
    BY <1>6 DEF FailSource, Transition
  <2>2. Rank[state'] >= Rank[state]
    BY <1>e, <2>1, StageRanks
  <2>3. ChainHolds'
    BY <1>f, <2>1, <2>2, InputOf, StageNames
  <2>4. ReadingIsCurrent' /\ (edits' = 0 => Undecided')
    BY <1>c, <1>d, <1>e, <2>1 DEF ReadingIsCurrent, Current, DecidedOnce, Undecided
  <2> QED
    BY <2>1, <2>3, <2>4 DEF DecidedOnce
<1> QED
  BY <1>1, <1>2, <1>3, <1>4, <1>5, <1>6 DEF EndStage

\* The decision itself: nothing past the checkpoint was read before it.
LEMMA DecisionIsTheFirst ==
  ASSUME PipelineInv, DecidedOnce, edits = 0, NEW u \in Users, Confirm(u) \/ Correct(u), [Next]_vars, ~overtaken'
  PROVE  DecidedOnce'
<1> USE DEF Ordinary, Ahead, Behind
<1> DEFINE seen == request[u].seen
<1>a. /\ job \in [JobKinds -> JobRow] /\ record \in Record /\ "grid" \in Stages
      /\ seen \in Snapshot /\ seen.record \in Record
  BY PipelineTypeParts, StageNames DEF PipelineInv, DocumentTypeOK, RequestState, Snapshot
<1>b. Undecided /\ ReadingIsCurrent /\ ChainHolds
  BY DEF DecidedOnce
<1>n. Commits(u, "confirm") \/ Commits(u, "correct")
  BY DEF Confirm, Correct
<1>c. UNCHANGED run /\ edits' = 1 /\ seen.state = state
  <2>1. UNCHANGED run /\ edits' = edits + 1
    BY <1>n DEF Commits
  <2>2. overtaken' = (overtaken \/ seen.state # state)
    BY <1>n DEF Commits
  <2>3. seen.state = state
    BY <2>2, Zenon
  <2> QED
    BY <2>1, <2>3
<1>w. \E s \in {"confirmed", "corrected"} :
         seen.record.status # "none" /\ WriteRecord(seen, [seen.record EXCEPT !.status = s, !.allowed = TRUE])
  BY DEF Confirm, Correct
<1>q. QueueGrid(seen)
  BY DEF Confirm, Correct
<1> HIDE DEF seen
<1>2. record.status # "none" /\ record'.status # "none"
  <2>1. PICK s \in {"confirmed", "corrected"} :
           seen.record.status # "none" /\ WriteRecord(seen, [seen.record EXCEPT !.status = s, !.allowed = TRUE])
    BY <1>w
  <2> DEFINE new == [seen.record EXCEPT !.status = s, !.allowed = TRUE]
  <2>2. new \in Record /\ new.status # "none"
    BY <1>a DEF Record
  <2>3. WriteRecord(seen, new)
    BY <2>1
  <2> HIDE DEF new
  <2> QED
    BY <1>a, <2>1, <2>2, <2>3, RecordWritten
<1>1. state \in {"localised", "failed"}
  BY <1>b, <1>2 DEF Undecided, ReadingIsCurrent
<1>3. \/ state = "localised" /\ job' = Enqueued(job, "grid") /\ state' = state
      \/ state = "failed" /\ UNCHANGED job /\ state' = state
  BY <1>1, <1>c, <1>q DEF QueueGrid
<1>4. \A v \in Workers : ~Reading(v, "grid")' /\ ~Reading(v, "extract")' /\ (Reading(v, "validate")' => Reading(v, "validate"))
  BY <1>b, <1>c DEF Undecided, ReadingIsCurrent, Reading
<1>5. ReadingIsCurrent'
  BY <1>b, <1>1, <1>2, <1>3, <1>4 DEF ReadingIsCurrent
<1>6. ChainHolds'
  <2>1. \A k \in JobKinds : job'[k] = job[k] \/ job'[k] = NewJob
    BY <1>a, <1>3, EnqueuedJob
  <2>2. /\ \A k \in JobKinds : ~job'[k].cancel /\ job'[k].status # "cancelled"
        /\ \A k \in JobKinds : job'[k].status = "succeeded" => Past(state', StageOf(k))
    BY <1>b, <1>3, <2>1 DEF ChainHolds, NewJob
  <2>3. \A v \in Workers : run'[v].pc = "finished" => Past(state', StageOf(run'[v].kind))
    BY <1>b, <1>c, <1>3 DEF ChainHolds
  <2>4. \A t \in Stages : InputState[t] = state' /\ (t = "grid" => record'.allowed) => job'[t].status # "none"
    BY <1>a, <1>3, EnqueuedJob, StageNames, InputOf
  <2> QED
    BY <2>2, <2>3, <2>4 DEF ChainHolds
<1> QED
  BY <1>1, <1>3, <1>c, <1>5, <1>6 DEF DecidedOnce

LEMMA NextDecidedOnce ==
  ASSUME Calls \subseteq OneDecisionCalls, PipelineInv, edits <= 1 /\ ~overtaken => DecidedOnce, [Next]_vars,
         edits' <= 1, ~overtaken'
  PROVE  DecidedOnce'
<1>0. edits \in Nat /\ overtaken \in BOOLEAN
  BY DEF PipelineInv, PipelineTypeOK
<1>1. /\ UNCHANGED edits \/ edits' = edits + 1
      /\ ~overtaken
  <2>2. ASSUME NEW u \in Users, Call(u)
        PROVE  edits' = edits + 1 /\ ~overtaken
    BY <2>2 DEF Call, RerunStage, Reprocess, AssignProfile, Confirm, Correct, Annotate, Commits
  <2>3. ASSUME NEW w \in Workers, Opening(w) \/ Passes(w)
        PROVE  UNCHANGED edits /\ ~overtaken
    <3>1. CASE EndStage(w) \/ FailSource(w)
      BY <3>1, CommitsFromNow DEF EndStage, EndInventory, EndTriage, EndParse, EndLocalise, LocaliseWithoutProfile, EndGrid,
         EndExtract, EndValidate, Ends, Writes, FailSource
    <3>2. CASE ~(EndStage(w) \/ FailSource(w))
      <4>1. CASE BindDetected(w)
        BY <4>1 DEF BindDetected, Writes
      <4>2. CASE ~BindDetected(w)
        <5>1. UNCHANGED overtaken /\ UNCHANGED edits
          BY <2>3, <3>2, <4>2 DEF Opening, Open, Reads, Loads, Passes, Skip, Refuse, Load, Raise, Complete,
             Fail, StopAtCheckpoint, Abandon, Crash, Claim, ClaimExhausted, document
        <5> QED
          BY <5>1, Zenon
      <4> QED
        BY <4>1, <4>2
    <3> QED
      BY <3>1, <3>2
  <2>4. ASSUME NEW u \in Users, Ask(u)
        PROVE  UNCHANGED edits /\ ~overtaken
    BY <2>4 DEF Ask, document
  <2> QED
    BY <2>2, <2>3, <2>4, StepCases DEF vars
<1>2. DecidedOnce
  BY <1>0, <1>1
<1>3. ASSUME NEW w \in Workers, Opening(w) PROVE DecidedOnce'
  BY <1>2, <1>3, OpeningsKeepDecision
<1>4. ASSUME NEW w \in Workers, Passes(w) PROVE DecidedOnce'
  BY <1>2, <1>4, QueueStepsKeepDecision, EndsKeepDecision
<1>5. ASSUME NEW u \in Users, Call(u) PROVE DecidedOnce'
  <2>1. (Confirm(u) \/ Correct(u)) /\ edits' = edits + 1
    BY <1>5 DEF Call, RerunStage, Reprocess, AssignProfile, Confirm, Correct, Annotate, Commits, OneDecisionCalls
  <2>2. edits = 0
    BY <1>0, <2>1
  <2> QED
    BY <1>2, <2>1, <2>2, DecisionIsTheFirst
<1>6. ASSUME UNCHANGED <<document, job, run, edits>> PROVE DecidedOnce'
  BY <1>2, <1>6 DEF document, DecidedOnce, Undecided, ReadingIsCurrent, Current, ChainHolds, Reading
<1>7. ASSUME NEW u \in Users, Ask(u) PROVE DecidedOnce'
  BY <1>6, <1>7 DEF Ask
<1>8. CASE UNCHANGED vars
  BY <1>6, <1>8 DEF vars, document
<1> QED
  BY <1>3, <1>4, <1>5, <1>7, <1>8, StepCases

LEMMA InitDecidedOnce == Init => DecidedOnce
<1> SUFFICES ASSUME Init PROVE DecidedOnce
  OBVIOUS
<1>1. state = "uploaded" /\ record = NoRecord /\ \A w \in Workers : run[w] = Idle
  BY DEF Init
<1>2. Undecided /\ ReadingIsCurrent
  BY <1>1 DEF Undecided, ReadingIsCurrent, Reading, Busy, Ahead, Behind, NoRecord, Idle
<1>3. \A t \in Stages : InputState[t] = state => t = "inventory"
  BY <1>1, StageNames, InputOf
<1>4. job["inventory"] = NewJob /\ \A k \in JobKinds : job[k] = NewJob \/ job[k] = NoJob
  BY StageNames DEF Init
<1>5. ChainHolds
  BY <1>1, <1>3, <1>4 DEF ChainHolds, NewJob, NoJob, Idle
<1> QED
  BY <1>1, <1>2, <1>5 DEF DecidedOnce, Ordinary, Ahead

\* The three parts together, for users who only decide.
ReviewInv == /\ PipelineInv /\ StagesInOrder /\ BoundOnce
             /\ edits <= 1 /\ ~overtaken => DecidedOnce

LEMMA DecidingUsersKeepReviewInv ==
  ASSUME Calls \subseteq OneDecisionCalls
  PROVE  Spec => []ReviewInv
<1>1. Init => ReviewInv
  BY InitPipelineInv, InitStagesInOrder, InitBoundOnce, InitDecidedOnce DEF ReviewInv
<1>2. ReviewInv /\ [Next]_vars => ReviewInv'
  <2> SUFFICES ASSUME ReviewInv, [Next]_vars PROVE ReviewInv'
    OBVIOUS
  <2>1. "rerun" \notin Calls /\ "profile" \notin Calls
    BY DEF OneDecisionCalls
  <2>2. PipelineInv' /\ StagesInOrder' /\ BoundOnce'
    BY <2>1, NextPipelineInv, NextStagesInOrder, NextBoundOnce DEF ReviewInv
  <2>3. edits' <= 1 /\ ~overtaken' => DecidedOnce'
    BY NextDecidedOnce DEF ReviewInv
  <2> QED
    BY <2>2, <2>3 DEF ReviewInv
<1> QED
  BY <1>1, <1>2, PTL DEF Spec

\* Users who only decide, and up to the second decision: what stands before the
\* reviewers was extracted from the structure of the present regions, passed
\* every stage and was localised under the bound profile, though any number of
\* workers run the stages twice, die or end late.
THEOREM PipelineShowsCurrentReading ==
  ASSUME Calls \subseteq OneDecisionCalls
  PROVE  Spec => [](edits <= 1 => ReviewerSeesCurrentReading)
<1>1. ReviewInv => (edits <= 1 => ReviewerSeesCurrentReading)
  <2> SUFFICES ASSUME ReviewInv, edits <= 1 PROVE ReviewerSeesCurrentReading
    OBVIOUS
  <2>1. ReviewedReadingIsCurrent
    BY DEF ReviewInv, DecidedOnce, ReadingIsCurrent, Current, ReviewedReadingIsCurrent
  <2>2. AwaitingReviewWasRead
    BY OrderedSourceWasRead DEF ReviewInv
  <2>3. LocalisedUnderBoundProfile
    BY DEF ReviewInv, BoundOnce, LocalisedUnderBoundProfile
  <2> QED
    BY <2>1, <2>2, <2>3 DEF ReviewerSeesCurrentReading
<1> QED
  BY DecidingUsersKeepReviewInv, <1>1, PTL

\* Users who only decide, and up to the second decision: a source that waits for
\* neither a reviewer nor a worker has a failed job that says why it stopped.
THEOREM PipelineStrandsNone ==
  ASSUME Calls \subseteq OneDecisionCalls
  PROVE  Spec => [](edits <= 1 => NotStranded)
<1>1. ReviewInv => (edits <= 1 => NotStranded)
  <2> SUFFICES ASSUME ReviewInv, edits <= 1, Quiet, ~overtaken, NEW t \in Stages, InputState[t] = state,
                      state = "localised" => record.allowed
               PROVE  \E k \in JobKinds : InputState[StageOf(k)] = state /\ job[k].status = "failed"
    BY DEF NotStranded
  <2>1. t \in JobKinds /\ StageOf(t) = t
    BY StageNames DEF StageOf
  <2>2. job[t] \in JobRow
    BY <2>1, PipelineTypeParts DEF ReviewInv, PipelineInv
  <2>3. job[t].status # "none"
    BY InputOf DEF ReviewInv, DecidedOnce, ChainHolds
  <2>4. ~Past(state, StageOf(t))
    <3>1. state \in SourceState
      BY DEF ReviewInv, PipelineInv, PipelineTypeOK
    <3>2. Rank[state] \in Nat
      BY <3>1, StageRanks
    <3> QED
      BY <2>1, <3>2 DEF Past
  <2>5. job[t].status \notin {"succeeded", "cancelled"}
    BY <2>1, <2>4 DEF ReviewInv, DecidedOnce, ChainHolds
  <2>6. job[t].status \notin {"queued", "leased"}
    BY <2>1 DEF Quiet, IsLive
  <2> QED
    BY <2>1, <2>2, <2>3, <2>5, <2>6 DEF JobRow
<1> QED
  BY DecidingUsersKeepReviewInv, <1>1, PTL
=============================================================================
