---------------------------- MODULE Registration ----------------------------
(***************************************************************************)
(* Registering documents (upload_source and ingest_source in               *)
(* routers/sources.py, register_upload in services/sources.py) under       *)
(* Idempotency-Keys.  A client that got no answer sends its request again; *)
(* requests overlap, and what each writes meets the primary key of the     *)
(* idempotency records and the unique hash of the sources at its commit.   *)
(* decide_candidate (routers/review.py) keeps its answers the same way.    *)
(*                                                                         *)
(* One actor.  Licensee, order type and the like are part of a request's   *)
(* fingerprint; refusals of a document that is no PDF are left out.        *)
(***************************************************************************)
EXTENDS Naturals, FiniteSets

CONSTANTS
    Requests,       \* what clients ask for: [key, finger, bytes]
    NoKey,          \* a request sent without a key
    MaxSends        \* bound: times a request is sent

ASSUME RegistrationAssumption == MaxSends \in Nat

VARIABLES
    copies,     \* per document, how many sources have its bytes
    inventory,  \* per document, its inventory jobs
    records,    \* the idempotency records: [key, finger, bytes, dedup]
    flight,     \* per request, what the server has read for it
    sends,      \* per request, times sent
    written,    \* history: per request, commits that wrote
    answers     \* history: per request, the answers it was given

registrationVars == <<copies, inventory, records, flight, sends, written, answers>>

Uploaded == {r.bytes : r \in Requests}
Landed == [at |-> "none"]

RegistrationInit ==
    /\ copies = [b \in Uploaded |-> 0]
    /\ inventory = [b \in Uploaded |-> 0]
    /\ records = {}
    /\ flight = [r \in Requests |-> Landed]
    /\ sends = [r \in Requests |-> 0]
    /\ written = [r \in Requests |-> 0]
    /\ answers = [r \in Requests |-> {}]

\* The record its key brings back, if there is one.
Recorded(r) == {rec \in records : r.key # NoKey /\ rec.key = r.key}

Answer(r, a) == answers' = [answers EXCEPT ![r] = @ \cup {a}]

\* The request is read: an answer already recorded is replayed, a key used
\* for something else refused, and otherwise the bytes are looked up.
Receive(r) ==
    /\ flight[r] = Landed /\ sends[r] < MaxSends
    /\ sends' = [sends EXCEPT ![r] = @ + 1]
    /\ Recorded(r) = {}
    /\ flight' = [flight EXCEPT ![r] = [at |-> "read", dedup |-> copies[r.bytes] > 0]]
    /\ UNCHANGED <<copies, inventory, records, written, answers>>

\* Mutant of Matches: any record of the key is replayed.
MatchesKey(rec, r) == TRUE

Matches(rec, r) == rec.finger = r.finger

Replay(r) ==
    /\ flight[r] = Landed /\ sends[r] < MaxSends
    /\ sends' = [sends EXCEPT ![r] = @ + 1]
    /\ \E rec \in Recorded(r) :
          Answer(r, IF Matches(rec, r) THEN [is |-> "source", bytes |-> rec.bytes, dedup |-> rec.dedup]
                                       ELSE [is |-> "conflict"])
    /\ UNCHANGED <<copies, inventory, records, flight, written>>

\* Mutant of Clashes: nothing is unique but the key.
ClashesOnKey(r) == Recorded(r) # {}

\* What the unique constraints refuse at the commit.
Clashes(r) == Recorded(r) # {} \/ (~flight[r].dedup /\ copies[r.bytes] > 0)

\* Mutant of Remembered: a deduplicated request is not recorded.
RememberedNew(r) ==
    IF r.key = NoKey \/ flight[r].dedup THEN {}
    ELSE {[key |-> r.key, finger |-> r.finger, bytes |-> r.bytes, dedup |-> flight[r].dedup]}

Remembered(r) ==
    IF r.key = NoKey THEN {}
    ELSE {[key |-> r.key, finger |-> r.finger, bytes |-> r.bytes, dedup |-> flight[r].dedup]}

\* register_upload: a source and its inventory job, or the source there is.
CommitRegistration(r) ==
    /\ flight[r].at = "read" /\ ~Clashes(r)
    /\ LET new == IF flight[r].dedup THEN 0 ELSE 1
       IN /\ copies' = [copies EXCEPT ![r.bytes] = @ + new]
          /\ inventory' = [inventory EXCEPT ![r.bytes] = @ + new]
    /\ records' = records \cup Remembered(r)
    /\ written' = [written EXCEPT ![r] = @ + 1]
    /\ flight' = [flight EXCEPT ![r] = Landed]
    /\ \/ Answer(r, [is |-> "source", bytes |-> r.bytes, dedup |-> flight[r].dedup])
       \/ UNCHANGED answers        \* the answer is lost on the way
    /\ UNCHANGED sends

\* Rolled back whole: the client sees an error and may send again.
RegistrationClashes(r) ==
    /\ flight[r].at = "read" /\ Clashes(r)
    /\ flight' = [flight EXCEPT ![r] = Landed]
    /\ UNCHANGED <<copies, inventory, records, sends, written, answers>>

\* The server goes away before the commit.
RequestLost(r) ==
    /\ flight[r].at = "read"
    /\ flight' = [flight EXCEPT ![r] = Landed]
    /\ UNCHANGED <<copies, inventory, records, sends, written, answers>>

RegistrationNext ==
    \E r \in Requests :
        Receive(r) \/ Replay(r) \/ CommitRegistration(r) \/ RegistrationClashes(r) \/ RequestLost(r)

RegistrationSpec == RegistrationInit /\ [][RegistrationNext]_registrationVars

-----------------------------------------------------------------------------
(* Properties.                                                             *)

\* Type correctness of the registrations.
RegistrationTypeOK ==
    /\ copies \in [Uploaded -> Nat] /\ inventory \in [Uploaded -> Nat]
    /\ \A rec \in records : rec.key # NoKey /\ rec.bytes \in Uploaded /\ rec.dedup \in BOOLEAN
    /\ sends \in [Requests -> 0 .. MaxSends] /\ written \in [Requests -> 0 .. MaxSends]

\* However requests for the same bytes overlap, are lost and sent again, there
\* is one source of them at most, with one inventory job (register_upload).
OneSourcePerDocument == \A b \in Uploaded : copies[b] <= 1 /\ inventory[b] = copies[b]

\* A request sent again under its key writes nothing again, whichever of its
\* sendings committed and whether or not its answer arrived (upload_source).
SentAgainWritesOnce == \A r \in Requests : r.key # NoKey => written[r] <= 1

\* A key answers one request only: requests that share it and differ never
\* both get a source (idempotency_conflict).
KeyAnswersOneRequest ==
    \A r, q \in Requests :
        r.key = q.key /\ r.key # NoKey /\ r.finger # q.finger =>
            ~(\E a \in answers[r], c \in answers[q] : a.is = "source" /\ c.is = "source")

\* However uploads overlap, are lost and sent again under keys they share or
\* not: one source per document, one write per key and one request per key.
RegisteredOnce == OneSourcePerDocument /\ SentAgainWritesOnce /\ KeyAnswersOneRequest
=============================================================================
