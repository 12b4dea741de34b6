------------------------------ MODULE ArrTrack ------------------------------
(***************************************************************************)
(* The ARR reading track of one order, beside its tariff states:           *)
(* start_reading, chapters and publish (arr/service.py), the three stages  *)
(* arr_localise, arr_extract and arr_validate (stages/arr.py), and the     *)
(* decisions on ARR candidates (services/review.py).                       *)
(*                                                                         *)
(* A stage reads in one transaction and writes in another, minutes later,  *)
(* and the stages of an order run beside each other.  Nothing is locked: a *)
(* call on the chapters or the publication, and the last transaction of a  *)
(* localisation, load the order, and their commits write the columns that  *)
(* differ from what was loaded, over whatever was committed in between.    *)
(*                                                                         *)
(* A chapter is known by the localisation it comes from; a candidate by    *)
(* its line (year, voice and category included) and value.  The identity   *)
(* is one that says every line carries the same figure, as a total of one  *)
(* component would.  Left out: the two channels, the mapping gate, second  *)
(* reviews and overlapping decisions on a row (Review), two calls on the   *)
(* chapters open at once, a job taken again after its last commit.         *)
(***************************************************************************)
EXTENDS Naturals, FiniteSets

CONSTANTS
    Lines,          \* fact identities the order may print
    Figures,        \* values a reading may find
    Rows,           \* candidate rows that may ever exist
    MaxReadings,    \* bound: localisations written
    MaxCalls        \* bound: chapter edits, decisions and undos

ASSUME TrackAssumption == MaxReadings \in Nat /\ MaxCalls \in Nat

VARIABLES
    arrState,
    chapter,    \* the order's chapter: [reading, status]; reading 0: none proposed
    rows,       \* ARR candidates
    blocking,   \* whether a blocking identity finding is recorded
    facts,      \* the current fact of each line, or NoFact
    stage,      \* per stage, its live job and what it has read
    call,    \* the call on the chapters or the publication under way, and what it loaded
    calls,
    confirmed,  \* history: the localisations a reviewer confirmed
    beside,     \* history: the localisations that committed beside another step on the order
    unseen,     \* history: a row changed since the last validation read the rows, or what it read was lost
    refused     \* history: the index refused a fact because of an earlier publication's

trackVars == <<arrState, chapter, rows, blocking, facts, stage, call, calls, confirmed, beside, unseen, refused>>

ArrStates == {"none", "chapters_proposed", "chapters_confirmed", "extracted", "awaiting_review", "published"}
PastCheckpoint == ArrStates \ {"none", "chapters_proposed"}
ArrStages == {"localise", "extract", "validate"}
NoRow == [status |-> "absent"]
NoFact == [row |-> 0, value |-> 0]
Idle == [at |-> "idle"]
NoCall == [does |-> "none"]
Decided == {"approved", "corrected", "rejected"}
Final == {"approved", "corrected"}

TrackInit ==
    /\ arrState = "none"
    /\ chapter = [reading |-> 0, status |-> "none"]
    /\ rows = [r \in Rows |-> NoRow]
    /\ blocking = FALSE
    /\ facts = [l \in Lines |-> NoFact]
    /\ stage = [k \in ArrStages |-> Idle]
    /\ call = NoCall
    /\ calls = 0
    /\ confirmed = {}
    /\ beside = {}
    /\ unseen = FALSE
    /\ refused = FALSE

\* enqueue_stage: a live job of the stage is found and returned.
QueuedStage(jobs, k) == IF jobs[k] = Idle THEN [jobs EXCEPT ![k] = [at |-> "queued"]] ELSE jobs

TrackCall == calls < MaxCalls /\ calls' = calls + 1

\* What a commit leaves of a column it set to new: one that was loaded as new is not written.
Flushed(new, loaded, now) == IF new = loaded THEN now ELSE new

-----------------------------------------------------------------------------
(* The calls.                                                              *)

\* start_reading: in any state, published included.
StartReading ==
    /\ stage["localise"] = Idle /\ chapter.reading < MaxReadings
    /\ stage' = QueuedStage(stage, "localise")
    /\ UNCHANGED <<arrState, chapter, rows, blocking, facts, call, calls, confirmed, beside, refused, unseen>>

\* A call loads the order and its chapter, checks the state, and is now open.
Ask(does, status) ==
    /\ call = NoCall
    /\ call' = [does |-> does, state |-> arrState, chapter |-> chapter, status |-> status]
    /\ UNCHANGED <<arrState, chapter, rows, blocking, facts, stage, confirmed, beside, refused, unseen>>

AskUpdate ==
    /\ TrackCall
    /\ arrState \in {"chapters_proposed", "chapters_confirmed"}
    /\ \E status \in {"proposed", "confirmed", "excluded"} : Ask("update", status)

AskConfirm ==
    /\ arrState = "chapters_proposed" /\ chapter.status # "excluded"
    /\ Ask("confirm", "confirmed")
    /\ UNCHANGED calls

Decidable == arrState \in {"awaiting_review", "published"}

AskPublish ==
    /\ Decidable
    /\ Ask("publish", chapter.status)
    /\ UNCHANGED calls

\* The chapter row the call updates is still there.
SameChapter == chapter.reading = call.chapter.reading

\* update_chapter: a reviewer sets the status of the chapter.
UpdateChapter ==
    /\ call.does = "update" /\ SameChapter
    /\ chapter' = [chapter EXCEPT !.status = Flushed(call.status, call.chapter.status, chapter.status)]
    /\ confirmed' = IF call.status = "confirmed" THEN confirmed \cup {chapter.reading} ELSE confirmed
    /\ call' = NoCall
    /\ UNCHANGED <<arrState, rows, blocking, facts, stage, calls, beside, refused, unseen>>

\* confirm_chapters: only a chapter it loaded as proposed is written.
ConfirmChapters ==
    /\ call.does = "confirm"
    /\ IF call.chapter.status = "proposed"
       THEN SameChapter /\ chapter' = [chapter EXCEPT !.status = "confirmed"]
       ELSE UNCHANGED chapter
    /\ confirmed' = confirmed \cup {call.chapter.reading}
    /\ arrState' = Flushed("chapters_confirmed", call.state, arrState)
    /\ stage' = QueuedStage(stage, "extract")
    /\ call' = NoCall
    /\ UNCHANGED <<rows, blocking, facts, calls, beside, refused, unseen>>

\* The call fails: the chapter it updates was deleted, or its server dies.
CallFails ==
    /\ call # NoCall
    /\ call' = NoCall
    /\ UNCHANGED <<arrState, chapter, rows, blocking, facts, stage, calls, confirmed, beside, refused, unseen>>

\* decide: a rejection and a correction queue the identities again.
Decide(r, outcome, line, value) ==
    /\ TrackCall /\ Decidable /\ rows[r].status = "pending"
    /\ outcome # "corrected" => line = rows[r].line /\ value = rows[r].value
    /\ outcome = "corrected" => line # rows[r].line \/ value # rows[r].value
    /\ rows' = [rows EXCEPT ![r].status = outcome, ![r].line = line, ![r].value = value]
    /\ stage' = IF outcome = "approved" THEN stage ELSE QueuedStage(stage, "validate")
    /\ unseen' = (unseen \/ outcome # "approved")
    /\ UNCHANGED <<arrState, chapter, blocking, facts, call, confirmed, beside, refused>>

\* Mutant of Undoable: a published decision may be undone.
UndoableAlways(r) == rows[r].status \in Decided

Undoable(r) == rows[r].status \in Decided /\ ~rows[r].published

\* undo: the reading is back, and no identity is run.
Undo(r) ==
    /\ TrackCall /\ Undoable(r)
    /\ rows' = [rows EXCEPT ![r] = [@ EXCEPT !.status = "pending", !.line = rows[r].read.line,
                                             !.value = rows[r].read.value]]
    /\ unseen' = TRUE
    /\ UNCHANGED <<arrState, chapter, blocking, facts, stage, call, confirmed, beside, refused>>

\* Rows that are final and not yet published.
Publishable == {r \in Rows : rows[r].status \in Final /\ ~rows[r].published}

\* Those whose identity has a fact of an earlier publication, and those that share an identity
\* with one another: a fact is inserted before the prior one is marked superseded.
Superseding == {r \in Publishable : facts[rows[r].line] # NoFact}
Doubled == {r \in Publishable : \E o \in Publishable \ {r} : rows[o].line = rows[r].line}

\* publish has loaded the order; its findings and rows are read and written in one step.
MayPublish == call.does = "publish" /\ ~blocking

PublishArr ==
    /\ MayPublish /\ Superseding \cup Doubled = {}
    /\ facts' = [l \in Lines |->
          IF \E r \in Publishable : rows[r].line = l
          THEN LET r == CHOOSE q \in Publishable : rows[q].line = l IN [row |-> r, value |-> rows[r].value]
          ELSE facts[l]]
    /\ rows' = [r \in Rows |-> IF r \in Publishable THEN [rows[r] EXCEPT !.published = TRUE] ELSE rows[r]]
    /\ arrState' = Flushed("published", call.state, arrState)
    /\ call' = NoCall
    /\ UNCHANGED <<chapter, blocking, stage, calls, confirmed, beside, refused, unseen>>

\* uq_arr_fact_identity: the transaction is rolled back.
PublishRefusedByIndex ==
    /\ MayPublish /\ Superseding \cup Doubled # {}
    /\ refused' = (refused \/ Superseding # {})
    /\ call' = NoCall
    /\ UNCHANGED <<arrState, chapter, rows, blocking, facts, stage, calls, confirmed, beside, unseen>>

-----------------------------------------------------------------------------
(* The stages.                                                             *)

\* arr_localise_source proposes its chapters over whatever is there.
LocaliseRead ==
    /\ stage["localise"].at = "queued"
    /\ stage' = [stage EXCEPT !["localise"] = [at |-> "running"]]
    /\ UNCHANGED <<arrState, chapter, rows, blocking, facts, call, calls, confirmed, beside, refused, unseen>>

\* Its last transaction loads the order,
LocaliseLoad ==
    /\ stage["localise"].at = "running"
    /\ stage' = [stage EXCEPT !["localise"] = [at |-> "writing", loaded |-> arrState]]
    /\ UNCHANGED <<arrState, chapter, rows, blocking, facts, call, calls, confirmed, beside, refused, unseen>>

\* Another step on the order is under way as the localisation commits, or the state it sets was
\* loaded as that, has moved on, and is not written.
Overlapped(state) ==
    \/ state # "chapters_proposed"
    \/ call.does \in {"confirm", "publish"}
    \/ \E k \in {"extract", "validate"} : stage[k].at = "running"

\* deletes the chapters there are and proposes its own.
LocaliseWrite ==
    /\ stage["localise"].at = "writing"
    /\ chapter' = [reading |-> chapter.reading + 1, status |-> "proposed"]
    /\ arrState' = Flushed("chapters_proposed", stage["localise"].loaded, arrState)
    /\ beside' = IF Overlapped(arrState') THEN beside \cup {chapter'.reading} ELSE beside
    /\ stage' = [stage EXCEPT !["localise"] = Idle]
    /\ UNCHANGED <<rows, blocking, facts, call, calls, confirmed, refused, unseen>>

\* Mutant of Extractable: extraction starts on chapters that are only proposed.
ExtractableProposed == arrState # "none" /\ chapter.status # "excluded"

Extractable ==
    /\ arrState \in {"chapters_confirmed", "extracted", "awaiting_review"}
    /\ chapter.status = "confirmed"

ExtractRead ==
    /\ stage["extract"].at = "queued"
    /\ IF Extractable
       THEN stage' = [stage EXCEPT !["extract"] = [at |-> "running", reading |-> chapter.reading]]
       ELSE stage' = [stage EXCEPT !["extract"] = Idle]
    /\ UNCHANGED <<arrState, chapter, rows, blocking, facts, call, calls, confirmed, beside, refused, unseen>>

\* Mutant of Replaced: every candidate of the track is deleted.
ReplacedAll == {r \in Rows : rows[r].status # "absent"}

\* The candidates a re-reading deletes.
Replaced == {r \in Rows : rows[r].status = "pending"}

\* Rows inserted for the lines read whose key no kept row has.
Inserted(kept, readings) ==
    {l \in DOMAIN readings : \A r \in Rows : kept[r].status # "absent" => kept[r].line # l}

\* Mutant of Chained: the validation is not queued.
ChainedNot(jobs) == jobs

Chained(jobs) == QueuedStage(jobs, "validate")

\* The final transaction, without a look at the state it replaces.  Its job is queued by a
\* confirmation alone, so the state it loads is never the one it sets.
ExtractWrite ==
    /\ stage["extract"].at = "running"
    /\ \E read \in SUBSET Lines : \E readings \in [read -> Figures] :
          LET kept == [r \in Rows |-> IF r \in Replaced THEN NoRow ELSE rows[r]]
              free == {r \in Rows : kept[r] = NoRow}
              new == Inserted(kept, readings)
          IN /\ Cardinality(free) >= Cardinality(new)
             /\ \E at \in [new -> free] :
                   /\ \A l, m \in new : l # m => at[l] # at[m]
                   /\ rows' = [r \in Rows |->
                         IF \E l \in new : at[l] = r
                         THEN LET l == CHOOSE l \in new : at[l] = r
                              IN [status |-> "pending", line |-> l, value |-> readings[l], published |-> FALSE,
                                  read |-> [line |-> l, value |-> readings[l]], reading |-> stage["extract"].reading]
                         ELSE kept[r]]
    /\ arrState' = "extracted"
    /\ stage' = Chained([stage EXCEPT !["extract"] = Idle])
    /\ unseen' = TRUE
    /\ UNCHANGED <<chapter, blocking, facts, call, calls, confirmed, beside, refused>>

\* Mutant of Standing: a rejected line stays in its identities.
StandingAll == {r \in Rows : rows[r].status # "absent"}

\* The rows whose values take part in the identities.
Standing == {r \in Rows : rows[r].status \notin {"absent", "rejected"}}
IdentityFails(of) == \E r, o \in of : rows[r].value # rows[o].value

\* arr_validate_source, one transaction: the rows as read at its start.
ValidateRead ==
    /\ stage["validate"].at = "queued"
    /\ IF arrState \in {"extracted", "awaiting_review", "published"}
       THEN stage' = [stage EXCEPT !["validate"] =
                [at |-> "running", from |-> arrState, fails |-> IdentityFails(Standing),
                 over |-> Standing]]
            /\ unseen' = FALSE
       ELSE stage' = [stage EXCEPT !["validate"] = Idle] /\ UNCHANGED unseen
    /\ UNCHANGED <<arrState, chapter, rows, blocking, facts, call, calls, confirmed, beside, refused>>

\* Its commit.
ValidateWrite ==
    /\ stage["validate"].at = "running"
    /\ stage' = [stage EXCEPT !["validate"] = Idle]
    /\ blocking' = stage["validate"].fails
    /\ arrState' = IF stage["validate"].from = "extracted" THEN "awaiting_review" ELSE arrState
    /\ UNCHANGED <<chapter, rows, facts, call, calls, confirmed, beside, refused, unseen>>

\* A row whose counts it writes was deleted meanwhile: rolled back, and tried again.
ValidateRolledBack ==
    /\ stage["validate"].at = "running"
    /\ \E r \in stage["validate"].over : rows[r] = NoRow
    /\ stage' = [stage EXCEPT !["validate"] = [at |-> "queued"]]
    /\ unseen' = TRUE
    /\ UNCHANGED <<arrState, chapter, rows, blocking, facts, call, calls, confirmed, beside, refused>>

\* A worker dies before its commit; the job is taken again from its start.
StageLost(k) ==
    /\ stage[k].at \in {"running", "writing"} /\ TrackCall
    /\ stage' = [stage EXCEPT ![k] = [at |-> "queued"]]
    /\ unseen' = IF k = "validate" THEN TRUE ELSE unseen
    /\ UNCHANGED <<arrState, chapter, rows, blocking, facts, call, confirmed, beside, refused>>

TrackNext ==
    \/ StartReading \/ AskUpdate \/ AskConfirm \/ AskPublish \/ UpdateChapter \/ ConfirmChapters \/ CallFails
    \/ \E r \in Rows :
          \/ Undo(r)
          \/ \E o \in Decided, l \in Lines, v \in Figures : Decide(r, o, l, v)
    \/ PublishArr \/ PublishRefusedByIndex
    \/ LocaliseRead \/ LocaliseLoad \/ LocaliseWrite \/ ExtractRead \/ ExtractWrite \/ ValidateRead \/ ValidateWrite \/ ValidateRolledBack
    \/ \E k \in ArrStages : StageLost(k)

TrackSpec == TrackInit /\ [][TrackNext]_trackVars

-----------------------------------------------------------------------------
(* Properties.                                                             *)

\* Type correctness of the track.
TrackTypeOK ==
    /\ arrState \in ArrStates /\ blocking \in BOOLEAN
    /\ chapter.reading \in 0 .. MaxReadings /\ chapter.status \in {"none", "proposed", "confirmed", "excluded"}
    /\ \A r \in Rows : rows[r] # NoRow =>
          /\ rows[r].status \in {"pending"} \cup Decided /\ rows[r].line \in Lines /\ rows[r].value \in Figures
          /\ rows[r].reading \in 1 .. MaxReadings /\ rows[r].published \in BOOLEAN
    /\ \A l \in Lines : facts[l] # NoFact => facts[l].row \in Rows /\ facts[l].value \in Figures
    /\ \A k \in ArrStages : stage[k].at \in {"idle", "queued", "running", "writing"}
    /\ call # NoCall => call.does \in {"update", "confirm", "publish"} /\ call.state \in PastCheckpoint \cup {"chapters_proposed"}
    /\ calls \in 0 .. MaxCalls

\* Only chapters a reviewer confirmed are read: every candidate there is comes
\* from a localisation whose chapter was confirmed, however often the order
\* is localised again (ArrChapter, arr_extract_source).
ReadFromConfirmed == \A r \in Rows : rows[r] # NoRow => rows[r].reading \in confirmed

\* The reviewer's checkpoint is not skipped: a track past it stands on
\* chapters that were confirmed.  The chapters of a localisation that
\* committed beside a confirmation, a publication or a running stage are left
\* out, and only those: the state written over them is the other step's
\* (confirm_chapters, arr_localise_source).
CheckpointHolds == arrState \in PastCheckpoint => chapter.reading \in confirmed \cup beside

\* A fact is what its candidate says after review, as long as it is current:
\* no re-reading, undo or later decision takes the row or its figures away
\* (publish, arr_extract_source).
FactsRestOnDecisions ==
    \A l \in Lines : facts[l] # NoFact =>
        LET row == rows[facts[l].row]
        IN row # NoRow /\ row.status \in Final /\ row.published /\ row.line = l /\ row.value = facts[l].value

\* An extracted order is on its way to the reviewers: the validation that
\* moves it on is queued or running, through repeated runs and re-readings
\* (arr_extract_source).
ExtractedIsValidated ==
    arrState = "extracted" => stage["validate"] # Idle \/ chapter.reading \in beside

\* The blocking findings publication looks at are those of the lines as they
\* stand, once the validation is over and no line was corrected, rejected or
\* undone since it began (arr_validate_source, publish).
FindingsAreCurrent ==
    stage["validate"] = Idle /\ ~unseen =>
        blocking = \E r, o \in Rows : {rows[r].status, rows[o].status} \cap {"absent", "rejected"} = {}
                                       /\ rows[r].value # rows[o].value

\* The track moves through its checkpoints: only confirmed chapters are read,
\* nothing is past a confirmation that did not happen, and what is extracted
\* is on its way to the reviewers.
TrackCheckpoints == ReadFromConfirmed /\ CheckpointHolds /\ ExtractedIsValidated

\* What is published, and what publication trusts, is what the rows say now.
ReviewStands == FactsRestOnDecisions /\ FindingsAreCurrent

\* What publish says: a fact of the same identity from an earlier publication
\* of this order is superseded, so that a later one never fails on it.
EarlierFactIsSuperseded == ~refused
=============================================================================
