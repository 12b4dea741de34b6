--------------------------- MODULE SourcePipeline ---------------------------
(***************************************************************************)
(* One source document on its way from upload to the review queue: the     *)
(* state machine of models.py, the reading stages of the worker, and the   *)
(* API calls that queue, re-run, correct or re-bind them.                  *)
(*                                                                         *)
(* The stages: inventory, triage, parse, localise, a reviewer's decision   *)
(* on the proposed regions, grid, extract, validate.  A stage reads the    *)
(* source in one transaction, works for minutes, and writes in another;    *)
(* neither is fenced by the lease of its job.                              *)
(*                                                                         *)
(* No transaction locks the source or its record.  One that writes loads   *)
(* them, decides by what it loaded, and writes the columns it changed: the *)
(* load and the commit are two steps, of a stage (Load, End...) and of a   *)
(* call of the API (Ask, Confirm...), and others commit in between.        *)
(*                                                                         *)
(* What a stage read and wrote is known by the generation of the region    *)
(* set it comes from: a new set, or a changed one, is a new generation.    *)
(***************************************************************************)
EXTENDS Naturals, FiniteSets, TLC

CONSTANTS
    Workers,      \* worker processes
    Profiles,     \* reading profiles
    NoProfile,    \* reading_profile_id IS NULL
    Users,        \* users of the API
    Calls,        \* the API calls the users of this instance make
    MaxRegions,   \* bound: generations of the region set
    MaxEdits,     \* bound: calls made
    MaxFaults     \* bound: crashes, lost leases and retries

AllCalls == {"confirm", "correct", "annotate", "profile", "rerun", "reprocess"}

ASSUME PipelineAssumption ==
    /\ NoProfile \notin Profiles
    /\ Calls \subseteq AllCalls
    /\ MaxRegions \in Nat /\ MaxEdits \in Nat /\ MaxFaults \in Nat

VARIABLES
    state,        \* source_documents.state
    done,         \* the stages whose *_version or *_at column is set
    profile,      \* the bound reading profile
    detected,     \* the profile detect_profile finds in its headings, if any,
                  \* where it is asked for
    record,       \* the localisation record
    regions,      \* generation of the region set
    decided,      \* the generations a reviewer decided on
    structure,    \* generation the structure cells were built from
    candidates,   \* generation the candidates were extracted from
    job,          \* the last job of each kind: its status and cancel_requested
    run,          \* what each worker is doing: the stage, what it read, whether
                  \* its run is still the one the fence lets write, and what the
                  \* transaction that writes has loaded
    request,      \* what the call each user is making has loaded
    late,         \* history: the generations left standing by a commit that
                  \* another one had overtaken since its load
    overtaken,    \* history: some commit came after another transaction had
                  \* moved the source on since its load
    edits, faults

vars == <<state, done, profile, detected, record, regions, decided, structure, candidates,
          job, run, request, late, overtaken, edits, faults>>

document == <<state, done, profile, detected, record, regions, decided, structure, candidates,
              late, overtaken>>

Generation == 0 .. MaxRegions

WorkerSymmetry == Permutations(Workers)

-----------------------------------------------------------------------------
(* The state machine.                                                      *)

Rank == [uploaded |-> 0, inventoried |-> 1, triaged |-> 2, parsed |-> 3, localised |-> 4,
         gridded |-> 5, extracted |-> 6, validated |-> 7, awaiting_review |-> 8,
         published |-> 9, failed |-> 10, cancelled |-> 11, rejected |-> 12,
         superseded |-> 13, needs_reprocessing |-> 14]

SourceState == DOMAIN Rank

Withdrawn == {"needs_reprocessing", "superseded"}

Transitions ==
    [uploaded           |-> {"inventoried", "failed", "cancelled"},
     inventoried        |-> {"triaged", "failed"} \cup Withdrawn,
     triaged            |-> {"parsed", "failed"} \cup Withdrawn,
     parsed             |-> {"localised", "failed"} \cup Withdrawn,
     localised          |-> {"gridded", "failed"} \cup Withdrawn,
     gridded            |-> {"extracted", "failed"} \cup Withdrawn,
     extracted          |-> {"validated", "failed"} \cup Withdrawn,
     validated          |-> {"awaiting_review", "failed"} \cup Withdrawn,
     awaiting_review    |-> {"published", "rejected"} \cup Withdrawn,
     published          |-> Withdrawn,
     failed             |-> {"uploaded", "needs_reprocessing", "cancelled"},
     needs_reprocessing |-> {"uploaded", "inventoried", "triaged", "parsed", "localised",
                             "gridded", "extracted", "cancelled"},
     cancelled          |-> {},
     rejected           |-> {"needs_reprocessing"},
     superseded         |-> {}]

\* What the column holds after a transaction that loaded it as was sets it to
\* new: only changed columns are written.
Flushed(new, was, now) == IF new = was THEN now ELSE new

\* transition: refused unless the table allows it from the loaded state.
Transition(seen, to) == to \in Transitions[seen.state] /\ state' = to

\* Mutant of MoveTo: the stages assign the state past the table.
MoveToUnchecked(seen, to) == state' = to

\* The stages move the source only when it is not there already.
MoveTo(seen, to) ==
    \/ seen.state = to /\ UNCHANGED state
    \/ Transition(seen, to)

\* A re-run goes back, directly or through needs_reprocessing.
MoveBackTo(seen, to) ==
    /\ \/ seen.state = to
       \/ to \in Transitions[seen.state]
       \/ /\ "needs_reprocessing" \in Transitions[seen.state]
          /\ to \in Transitions["needs_reprocessing"]
    /\ state' = Flushed(to, seen.state, state)

-----------------------------------------------------------------------------
(* The jobs.  enqueue_stage keeps one live job per stage; request_reprocess *)
(* does not look for a live inventory job and can put a second beside it.  *)

InputState == [inventory |-> "uploaded", triage |-> "inventoried", parse |-> "triaged",
               localise |-> "parsed", grid |-> "localised", extract |-> "gridded",
               validate |-> "extracted"]

Stages == DOMAIN InputState
JobKinds == Stages \cup {"inventory_again"}
StageOf(k) == IF k = "inventory_again" THEN "inventory" ELSE k

JobRow == [status: {"none", "queued", "leased", "succeeded", "failed", "cancelled"},
           cancel: BOOLEAN]
NewJob == [status |-> "queued", cancel |-> FALSE]
NoJob == [status |-> "none", cancel |-> FALSE]

IsLive(row) == row.status \in {"queued", "leased"}

\* enqueue_stage on the table of jobs js.
Enqueued(js, t) ==
    IF \E k \in JobKinds : StageOf(k) = t /\ IsLive(js[k]) THEN js
    ELSE [js EXCEPT ![t] = NewJob]

\* request_cancel on every live job of stage t or a later one.
CancelledFrom(js, t) ==
    [k \in JobKinds |->
        IF Rank[InputState[StageOf(k)]] < Rank[InputState[t]] THEN js[k]
        ELSE CASE js[k].status = "queued" -> [js[k] EXCEPT !.status = "cancelled"]
               [] js[k].status = "leased" -> [js[k] EXCEPT !.cancel = TRUE]
               [] OTHER -> js[k]]

Settle(k, status) == job' = [job EXCEPT ![k].status = status]

Record == [status: {"none", "proposed", "ambiguous", "confirmed", "corrected"},
           allowed: BOOLEAN, profile: Profiles \cup {NoProfile}]
NoRecord == [status |-> "none", allowed |-> FALSE, profile |-> NoProfile]

\* What a transaction loads of the source, its record and its regions.
Snapshot == [state: SourceState, record: Record, regions: Generation,
             profile: Profiles \cup {NoProfile}]
Now == [state |-> state, record |-> record, regions |-> regions, profile |-> profile]
Blank == [state |-> "uploaded", record |-> NoRecord, regions |-> 0, profile |-> NoProfile]

\* The run of a worker; read is what the stage read and writes from.
Idle == [kind |-> "inventory", pc |-> "idle", live |-> FALSE, read |-> 0, seen |-> Blank]
NoRequest == [open |-> FALSE, seen |-> Blank]

Init ==
    /\ state = "uploaded"
    /\ done = {}
    /\ profile \in Profiles \cup {NoProfile}
    /\ detected \in IF profile = NoProfile THEN Profiles \cup {NoProfile} ELSE {NoProfile}
    /\ record = NoRecord
    /\ regions = 0 /\ decided = {} /\ structure = 0 /\ candidates = 0
    /\ job = [k \in JobKinds |-> IF k = "inventory" THEN NewJob ELSE NoJob]
    /\ run = [w \in Workers |-> Idle]
    /\ request = [u \in Users |-> NoRequest]
    /\ late = {} /\ overtaken = FALSE
    /\ edits = 0 /\ faults = 0

-----------------------------------------------------------------------------
(* A worker claims a job, or takes over the one of a worker that died or   *)
(* let its lease run out; the old run is then no longer live.              *)

Holders(k) == {w \in Workers : run[w].live /\ run[w].kind = k}

TakenOver(k) == [w \in Workers |-> IF w \in Holders(k) THEN [run[w] EXCEPT !.live = FALSE]
                                                       ELSE run[w]]

\* Mutant of CountFault: attempts are not bounded.
CountFaultUnbounded(isFault) == faults' = IF isFault THEN faults + 1 ELSE faults

CountFault(isFault) == /\ isFault => faults < MaxFaults
                       /\ faults' = IF isFault THEN faults + 1 ELSE faults

Claim(w, k) ==
    /\ run[w].pc = "idle"
    /\ \/ job[k].status = "queued" /\ UNCHANGED faults
       \/ job[k].status = "leased" /\ CountFault(Holders(k) # {})
    /\ Settle(k, "leased")
    /\ run' = [TakenOver(k) EXCEPT ![w] = [Idle EXCEPT !.kind = k, !.pc = "claimed",
                                                       !.live = TRUE]]
    /\ UNCHANGED <<document, request, edits>>

\* The claim that finds the attempts used up only fails the job.
ClaimExhausted(k) ==
    /\ job[k].status = "leased"
    /\ \E w \in Workers : run[w].pc = "idle"
    /\ CountFault(Holders(k) # {})
    /\ Settle(k, "failed")
    /\ run' = TakenOver(k)
    /\ UNCHANGED <<document, request, edits>>

\* The run goes on to pc, and what it read is no longer used.
Goes(w, pc) == run' = [run EXCEPT ![w] = [@ EXCEPT !.pc = pc, !.read = 0, !.seen = Blank]]
Stops(w) == run' = [run EXCEPT ![w] = Idle]

-----------------------------------------------------------------------------
(* A stage opens with one transaction: it has nothing to do, refuses the   *)
(* source (JobFailure, no retry), or reads it.                             *)

AcceptedStates ==
    [inventory |-> {"uploaded"},
     triage    |-> {"inventoried", "triaged"},
     parse     |-> {"triaged", "parsed"},
     localise  |-> {"parsed", "localised"},
     grid      |-> {"localised", "gridded"},
     extract   |-> {"gridded", "extracted"},
     validate  |-> {"extracted", "validated", "awaiting_review"}]

\* Mutant of Prepared: the gate on extraction_allowed is left out.
PreparedWithoutGate(t) ==
    CASE t = "triage" -> "inventory" \in done
      [] t = "parse" -> {"inventory", "triage"} \subseteq done
      [] t = "localise" -> {"inventory", "parse"} \subseteq done
      [] t = "extract" -> "grid" \in done
      [] OTHER -> TRUE

\* What a stage asks of the columns of the source beside its state.
Prepared(t) ==
    CASE t = "triage" -> "inventory" \in done
      [] t = "parse" -> {"inventory", "triage"} \subseteq done
      [] t = "localise" -> {"inventory", "parse"} \subseteq done
      [] t = "grid" -> record.allowed
      [] t = "extract" -> record.allowed /\ "grid" \in done
      [] OTHER -> TRUE

AlreadyDone(t) ==
    CASE t = "inventory" -> state = "inventoried"
      [] t = "triage" -> state = "triaged" /\ t \in done
      [] t = "parse" -> state = "parsed" /\ t \in done
      [] t = "localise" -> /\ state = "localised" /\ Prepared(t)
                           /\ record.status # "none"
                           /\ record.profile = profile /\ profile # NoProfile
      [] t = "grid" -> state = "gridded" /\ Prepared(t) /\ t \in done
      [] t = "extract" -> state = "extracted" /\ Prepared(t) /\ t \in done
      [] OTHER -> FALSE

Accepts(t) == state \in AcceptedStates[t] \cup {"needs_reprocessing"} /\ Prepared(t)

\* load_profile fails on a source without one.
NeedsProfile == {"grid", "extract", "validate"}

Skip(w) ==
    /\ run[w].pc = "claimed" /\ AlreadyDone(StageOf(run[w].kind))
    /\ Goes(w, "finished")
    /\ UNCHANGED <<document, job, request, edits, faults>>

Refuse(w) ==
    LET t == StageOf(run[w].kind)
    IN  /\ run[w].pc = "claimed" /\ ~AlreadyDone(t)
        /\ \/ ~Accepts(t) /\ Goes(w, "refused")
           \/ Accepts(t) /\ t \in NeedsProfile /\ profile = NoProfile /\ Goes(w, "raised")
        /\ UNCHANGED <<document, job, request, edits, faults>>

Opens(w, t) == /\ run[w].pc = "claimed" /\ StageOf(run[w].kind) = t
               /\ Accepts(t) /\ ~AlreadyDone(t)

Reads(w, x) == /\ run' = [run EXCEPT ![w] = [@ EXCEPT !.pc = "reading", !.read = x]]
               /\ UNCHANGED <<document, job, request, edits, faults>>

\* The transaction that will write loads the source; read is what it writes from.
Loads(w, x) == /\ run' = [run EXCEPT ![w] = [@ EXCEPT !.pc = "writing", !.read = x, !.seen = Now]]
               /\ UNCHANGED <<document, job, request, edits, faults>>

\* Validation is one transaction, and so is localise on a source that has no
\* profile, until one is bound.
Open(w) ==
    \/ \E t \in {"inventory", "triage", "parse"} : Opens(w, t) /\ Reads(w, 0)
    \/ /\ profile # NoProfile
       /\ \/ Opens(w, "localise") /\ Reads(w, profile)
          \/ Opens(w, "grid") /\ Reads(w, regions)
          \/ Opens(w, "extract") /\ Reads(w, structure)
          \/ Opens(w, "validate") /\ Loads(w, 0)
    \/ profile = NoProfile /\ Opens(w, "localise") /\ Loads(w, NoProfile)

-----------------------------------------------------------------------------
(* The last transaction of a stage: results, transition, successor.  It is *)
(* open to a run that lost its lease after its last checkpoint.            *)

Load(w) == run[w].pc = "reading" /\ Loads(w, run[w].read)

Writes(w, t) == /\ run[w].pc = "writing" /\ StageOf(run[w].kind) = t
                /\ overtaken' = (overtaken \/ run[w].seen.state # state)
                /\ UNCHANGED <<detected, request, edits, faults>>

Unbound(w) == /\ run[w].pc = "writing" /\ StageOf(run[w].kind) = "localise"
              /\ run[w].read = NoProfile

\* Mutant of BindDetected: the detected profile is not saved.
BindDetectedUnsaved(w) ==
    /\ Writes(w, "localise") /\ Unbound(w) /\ detected # NoProfile
    /\ run' = [run EXCEPT ![w] = [@ EXCEPT !.pc = "reading", !.read = detected, !.seen = Blank]]
    /\ UNCHANGED <<state, done, profile, record, regions, decided, structure, candidates, late, job>>

\* The profile the headings name is bound, and localise goes on to read.
BindDetected(w) ==
    /\ Writes(w, "localise") /\ Unbound(w) /\ detected # NoProfile
    /\ profile' = detected
    /\ run' = [run EXCEPT ![w] = [@ EXCEPT !.pc = "reading", !.read = detected, !.seen = Blank]]
    /\ UNCHANGED <<state, done, record, regions, decided, structure, candidates, late, job>>

\* The update of a row that was deleted since its load fails, and so does the
\* insert of one that was inserted.
RecordFits(seen) == (seen.record.status = "none") = (record.status = "none")

WriteRecord(seen, new) ==
    /\ RecordFits(seen)
    /\ record' = [status  |-> Flushed(new.status, seen.record.status, record.status),
                  allowed |-> Flushed(new.allowed, seen.record.allowed, record.allowed),
                  profile |-> Flushed(new.profile, seen.record.profile, record.profile)]

\* New regions under a record that opens the reviewer checkpoint again: to the
\* transaction, that is, which writes extraction_allowed only if it loaded TRUE.
\* The regions of an overlapping call stay where localise proposes none.
ReplaceRegions(seen, new) ==
    /\ WriteRecord(seen, new)
    /\ \/ regions < MaxRegions /\ regions' = regions + 1
       \/ seen.regions # regions /\ UNCHANGED regions
    /\ late' = IF seen = Now THEN late ELSE late \cup {regions'}

\* No profile fits the headings: an ambiguous record without regions, at once.
LocaliseWithoutProfile(w) ==
    /\ Writes(w, "localise") /\ Unbound(w) /\ detected = NoProfile
    /\ ReplaceRegions(run[w].seen, [NoRecord EXCEPT !.status = "ambiguous"])
    /\ MoveTo(run[w].seen, "localised")
    /\ Goes(w, "finished")
    /\ UNCHANGED <<done, profile, decided, structure, candidates, job>>

Ends(w, t) == /\ Writes(w, t) /\ ~Unbound(w)
              /\ Goes(w, "finished")
              /\ done' = done \cup {t}
              /\ UNCHANGED profile

EndInventory(w) ==
    /\ Ends(w, "inventory")
    /\ Transition(run[w].seen, "inventoried")
    /\ job' = Enqueued(job, "triage")
    /\ UNCHANGED <<record, regions, decided, structure, candidates, late>>

EndTriage(w) ==
    /\ Ends(w, "triage")
    /\ MoveTo(run[w].seen, "triaged")
    /\ job' = Enqueued(job, "parse")
    /\ UNCHANGED <<record, regions, decided, structure, candidates, late>>

\* Mutant of EndParse: the next stage is not queued.
EndParseAlone(w) ==
    /\ Ends(w, "parse")
    /\ MoveTo(run[w].seen, "parsed")
    /\ UNCHANGED <<record, regions, decided, structure, candidates, late, job>>

EndParse(w) ==
    /\ Ends(w, "parse")
    /\ MoveTo(run[w].seen, "parsed")
    /\ job' = Enqueued(job, "localise")
    /\ UNCHANGED <<record, regions, decided, structure, candidates, late>>

\* Mutant of EndLocalise: a decision outlives the regions it was made on.
EndLocaliseKeepsDecision(w) ==
    /\ Ends(w, "localise")
    /\ MoveTo(run[w].seen, "localised")
    /\ \E status \in {"proposed", "ambiguous"} :
          ReplaceRegions(run[w].seen, [status |-> status, allowed |-> run[w].seen.record.allowed,
                                       profile |-> run[w].read])
    /\ UNCHANGED <<decided, structure, candidates, job>>

\* _write_record takes back whatever was decided, as far as it was loaded.
EndLocalise(w) ==
    /\ Ends(w, "localise")
    /\ MoveTo(run[w].seen, "localised")
    /\ \E status \in {"proposed", "ambiguous"} :
          ReplaceRegions(run[w].seen, [status |-> status, allowed |-> FALSE, profile |-> run[w].read])
    /\ UNCHANGED <<decided, structure, candidates, job>>

\* Mutant of EndGrid: the next stage is not queued.
EndGridAlone(w) ==
    /\ Ends(w, "grid")
    /\ MoveTo(run[w].seen, "gridded")
    /\ structure' = run[w].read
    /\ UNCHANGED <<record, regions, decided, candidates, late, job>>

EndGrid(w) ==
    /\ Ends(w, "grid")
    /\ MoveTo(run[w].seen, "gridded")
    /\ structure' = run[w].read
    /\ job' = Enqueued(job, "extract")
    /\ UNCHANGED <<record, regions, decided, candidates, late>>

EndExtract(w) ==
    /\ Ends(w, "extract")
    /\ MoveTo(run[w].seen, "extracted")
    /\ candidates' = run[w].read
    /\ job' = Enqueued(job, "validate")
    /\ UNCHANGED <<record, regions, decided, structure, late>>

\* A source already before the reviewers is validated again where it stands.
EndValidate(w) ==
    /\ Ends(w, "validate")
    /\ state' = IF run[w].seen.state \in {"extracted", "validated"} THEN "awaiting_review" ELSE state
    /\ UNCHANGED <<record, regions, decided, structure, candidates, late, job>>

\* The document cannot be opened, or has too many pages.
FailSource(w) ==
    /\ Writes(w, "inventory")
    /\ Transition(run[w].seen, "failed")
    /\ Goes(w, "refused")
    /\ UNCHANGED <<done, profile, record, regions, decided, structure, candidates, late, job>>

EndStage(w) == \/ EndInventory(w) \/ EndTriage(w) \/ EndParse(w) \/ EndLocalise(w)
               \/ EndGrid(w) \/ EndExtract(w) \/ EndValidate(w) \/ LocaliseWithoutProfile(w)

\* The transition or the write is refused, or storage or the model provider fails.
Raise(w) ==
    /\ run[w].pc \in {"reading", "writing"}
    /\ Goes(w, "raised")
    /\ UNCHANGED <<document, job, request, edits, faults>>

-----------------------------------------------------------------------------
(* How a run ends in the queue (module JobRunner).                         *)

Complete(w) ==
    /\ run[w].pc = "finished" /\ run[w].live
    /\ Settle(run[w].kind, "succeeded")
    /\ Stops(w)
    /\ UNCHANGED <<document, request, edits, faults>>

Fail(w) ==
    /\ run[w].live
    /\ \/ run[w].pc \in {"refused", "raised"} /\ Settle(run[w].kind, "failed") /\ UNCHANGED faults
       \/ run[w].pc = "raised" /\ Settle(run[w].kind, "queued") /\ CountFault(TRUE)
    /\ Stops(w)
    /\ UNCHANGED <<document, request, edits>>

\* save_checkpoint saw the cancel flag.
StopAtCheckpoint(w) ==
    /\ run[w].pc = "reading" /\ run[w].live
    /\ job[run[w].kind].cancel
    /\ Settle(run[w].kind, "cancelled")
    /\ Stops(w)
    /\ UNCHANGED <<document, request, edits, faults>>

\* LeaseLost, at a checkpoint or when the end of the run is recorded.
Abandon(w) ==
    /\ run[w].pc \in {"reading", "finished", "refused", "raised"} /\ ~run[w].live
    /\ Stops(w)
    /\ UNCHANGED <<document, job, request, edits, faults>>

Crash(w) ==
    /\ run[w].pc # "idle"
    /\ CountFault(TRUE)
    /\ Stops(w)
    /\ UNCHANGED <<document, job, request, edits>>

Work(w) ==
    \/ Skip(w) \/ Refuse(w) \/ Open(w) \/ BindDetected(w) \/ Load(w)
    \/ EndStage(w) \/ FailSource(w) \/ Raise(w)
    \/ Complete(w) \/ Fail(w) \/ StopAtCheckpoint(w) \/ Abandon(w)

-----------------------------------------------------------------------------
(* The calls of the API: a call loads the source, and commits from what it *)
(* loaded.  A call that is refused changes nothing and is left out.        *)

\* get_record finds a record to decide on; the other calls need none.
Decisions == {"confirm", "correct", "annotate"}

Ask(u) ==
    /\ ~request[u].open /\ edits < MaxEdits
    /\ Calls \subseteq Decisions => record.status # "none"
    /\ request' = [request EXCEPT ![u] = [open |-> TRUE, seen |-> Now]]
    /\ UNCHANGED <<document, job, run, edits, faults>>

Commits(u, name) ==
    /\ request[u].open /\ name \in Calls
    /\ request' = [request EXCEPT ![u] = NoRequest]
    /\ edits < MaxEdits /\ edits' = edits + 1
    /\ overtaken' = (overtaken \/ request[u].seen.state # state)
    /\ UNCHANGED <<done, detected, structure, candidates, run, faults>>

\* request_stage_rerun; a re-run already queued or running is returned.
RerunFrom(seen, t) ==
    /\ \/ seen.state = "failed"
       \/ Rank[seen.state] >= Rank[InputState[t]]
    /\ MoveBackTo(seen, InputState[t])
    /\ job' = Enqueued(CancelledFrom(job, t), t)

RerunStage(u, t) ==
    /\ Commits(u, "rerun")
    /\ RerunFrom(request[u].seen, t)
    /\ UNCHANGED <<profile, record, regions, decided, late>>

\* request_reprocess; "inventoried" passes its first check, not the table.
Reprocess(u) ==
    /\ Commits(u, "reprocess")
    /\ request[u].seen.state \in {"failed", "needs_reprocessing", "inventoried"}
    /\ Transition(request[u].seen, "uploaded")
    /\ \E k \in {"inventory", "inventory_again"} :
          ~IsLive(job[k]) /\ job' = [job EXCEPT ![k] = NewJob]
    /\ UNCHANGED <<profile, record, regions, decided, late>>

LocalisedOrLater == {"parsed", "localised", "gridded", "extracted", "validated",
                     "awaiting_review", "published", "needs_reprocessing"}

AssignProfile(u, p) ==
    LET seen == request[u].seen
    IN  /\ Commits(u, "profile")
        /\ profile' = Flushed(p, seen.profile, profile)
        /\ IF seen.state \in LocalisedOrLater
           THEN /\ record' = NoRecord
                /\ IF seen.state = "parsed" THEN job' = Enqueued(job, "localise") /\ UNCHANGED state
                                            ELSE RerunFrom(seen, "localise")
           ELSE UNCHANGED <<state, record, job>>
        /\ UNCHANGED <<regions, decided, late>>

\* The second half of decide: the structure stage reads the decided regions.
QueueGrid(seen) ==
    CASE seen.state = "localised" -> job' = Enqueued(job, "grid") /\ UNCHANGED state
      [] seen.state = "gridded" -> RerunFrom(seen, "grid")
      [] OTHER -> UNCHANGED <<state, job>>

\* The reviewer decides on the regions shown; what stands when it is committed
\* may be others.
Confirm(u) ==
    LET seen == request[u].seen
    IN  /\ Commits(u, "confirm")
        /\ seen.record.status \notin {"none", "ambiguous"}
        /\ WriteRecord(seen, [seen.record EXCEPT !.status = "confirmed", !.allowed = TRUE])
        /\ decided' = decided \cup {seen.regions}
        /\ late' = IF seen.regions = regions THEN late ELSE late \cup {regions}
        /\ QueueGrid(seen)
        /\ UNCHANGED <<profile, regions>>

Correct(u) ==
    LET seen == request[u].seen
    IN  /\ Commits(u, "correct")
        /\ seen.record.status # "none"
        /\ WriteRecord(seen, [seen.record EXCEPT !.status = "corrected", !.allowed = TRUE])
        /\ regions < MaxRegions /\ regions' = regions + 1
        /\ decided' = decided \cup {regions'}
        /\ QueueGrid(seen)
        /\ UNCHANGED <<profile, late>>

\* A region is excluded or included again: the reviewer's decision as well,
\* once the record is decided.  It updates its row, if the row still stands.
Annotate(u) ==
    LET seen == request[u].seen
    IN  /\ Commits(u, "annotate")
        /\ seen.record.status # "none" /\ record.status # "none"
        /\ seen.state \in {"localised", "gridded"}
        /\ seen.regions = regions
        /\ regions < MaxRegions /\ regions' = regions + 1
        /\ decided' = IF seen.record.allowed THEN decided \cup {regions'} ELSE decided
        /\ late' = IF seen = Now THEN late ELSE late \cup {regions'}
        /\ IF seen.state = "gridded" /\ seen.record.allowed THEN RerunFrom(seen, "grid")
                                                            ELSE UNCHANGED <<state, job>>
        /\ UNCHANGED <<profile, record>>

Call(u) == \/ \E t \in Stages : RerunStage(u, t)
           \/ Reprocess(u)
           \/ \E p \in Profiles : AssignProfile(u, p)
           \/ Confirm(u) \/ Correct(u) \/ Annotate(u)

Next ==
    \/ \E w \in Workers : Work(w) \/ Crash(w) \/ \E k \in JobKinds : Claim(w, k)
    \/ \E k \in JobKinds : ClaimExhausted(k)
    \/ \E u \in Users : Ask(u) \/ Call(u)

Spec == Init /\ [][Next]_vars

(* A worker that runs goes on, and claims what can be claimed; nothing is  *)
(* asked of the API, of crashes and of leases that run out.  Claims need   *)
(* strong fairness: workers busy with other jobs cannot claim.  Which job  *)
(* is claimed is left open: claims of one job are few, so none starves.    *)
Progress(w) == \/ Skip(w) \/ Refuse(w) \/ Open(w) \/ BindDetected(w) \/ Load(w)
               \/ EndStage(w) \/ Raise(w)
               \/ Complete(w) \/ Fail(w) \/ StopAtCheckpoint(w) \/ Abandon(w)

FairSpec ==
    /\ Spec
    /\ \A w \in Workers : WF_vars(Progress(w))
    /\ SF_vars(\E w \in Workers, k \in JobKinds : Claim(w, k) /\ UNCHANGED faults)

-----------------------------------------------------------------------------
(* Properties.                                                             *)

Quiet == \A k \in JobKinds : ~IsLive(job[k])

\* Type correctness of the source, its jobs and the workers.
PipelineTypeOK ==
    /\ state \in SourceState
    /\ done \subseteq Stages
    /\ profile \in Profiles \cup {NoProfile} /\ detected \in Profiles \cup {NoProfile}
    /\ record \in Record
    /\ regions \in Generation /\ decided \subseteq Generation
    /\ structure \in Generation /\ candidates \in Generation
    /\ job \in [JobKinds -> JobRow]
    /\ run \in [Workers -> [kind: JobKinds, live: BOOLEAN,
                            pc: {"idle", "claimed", "reading", "writing", "finished", "refused",
                                 "raised"},
                            read: Generation \cup Profiles \cup {NoProfile}, seen: Snapshot]]
    /\ request \in [Users -> [open: BOOLEAN, seen: Snapshot]]
    /\ late \subseteq Generation /\ overtaken \in BOOLEAN
    /\ edits \in 0 .. MaxEdits /\ faults \in 0 .. MaxFaults

\* The gate of grid.py and extract.py: no structure is built and no fact is
\* extracted from regions a reviewer did not decide on, whatever runs at the
\* same time, is re-run, re-bound or taken over.  The exception is the code's
\* own: a localise and a decision that both loaded the record before either
\* committed leave regions nobody decided on under a record that allows
\* extraction; late names the generations left by such an overlap.
ReadOnlyDecidedRegions ==
    /\ structure \in decided \cup late \cup {0} /\ candidates \in decided \cup late \cup {0}
    /\ record.allowed => regions \in decided \cup late

\* With one decision, and no re-run: what is put before the reviewers was
\* extracted from the structure of the regions as they now stand, unless a
\* localise that was overtaken left these.
ReviewedReadingIsCurrent ==
    state = "awaiting_review" /\ Quiet /\ ~overtaken /\ regions \notin late
        => candidates = structure /\ structure = regions

\* The chain does not break: a source that waits for neither a reviewer nor a
\* worker has a failed job that says why it stopped.
NotStranded ==
    Quiet /\ ~overtaken /\ (\E t \in Stages : InputState[t] = state) /\ (state = "localised" => record.allowed)
    => \E k \in JobKinds : InputState[StageOf(k)] = state /\ job[k].status = "failed"

\* Nothing reaches the reviewers that did not pass every stage, in order.
AwaitingReviewWasRead == state = "awaiting_review" => done = Stages

\* A record the reviewer is shown was made under the profile the source is
\* bound to.
LocalisedUnderBoundProfile ==
    state = "localised" /\ record.status # "none" /\ Quiet => record.profile = profile

\* What stands before a reviewer is the reading of the present regions and
\* profile, complete, though the stages ran twice, ended late and overlapped.
ReviewerSeesCurrentReading ==
    ReviewedReadingIsCurrent /\ AwaitingReviewWasRead /\ LocalisedUnderBoundProfile

\* Once candidates exist the region set is frozen: what replaces it is a
\* reviewer's decision, or a stage or call that was overtaken by the transaction
\* that brought the source there.
RegionsFrozenOnceExtracted ==
    [][Rank[state] \in Rank["extracted"] .. Rank["published"] /\ regions' # regions
          => regions' \in decided' \cup late']_vars

Failed(stages) == \E k \in JobKinds : StageOf(k) \in stages /\ job[k].status = "failed"

\* An uploaded source reaches the reviewer, or fails on the way.
UploadedIsLocalised ==
    state = "uploaded"
        ~> \/ state \in {"localised", "failed"}
           \/ Failed({"inventory", "triage", "parse", "localise"})
           \/ overtaken

\* A source whose regions are decided reaches the review queue, or fails on the way.
DecidedIsReviewed ==
    state = "localised" /\ record.allowed
        ~> \/ state = "awaiting_review"
           \/ Failed({"grid", "extract", "validate"})
           \/ ~record.allowed
           \/ overtaken

\* An uploaded source is read up to the reviewer's decision, and a decided
\* one up to the review queue, or a stage on the way fails for good: every
\* stage queues its successor, and no crash or overlap loses it.
EveryStageChains == UploadedIsLocalised /\ DecidedIsReviewed
=============================================================================
